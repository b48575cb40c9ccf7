SPECIFICATION FairSpec
CONSTANTS
  MaxBinds = 3
  MaxOpens = 2
INVARIANTS
  TypeOK
  HandlerBacked
  OnlyKnownMisuse
  OnlyKnownResidue
PROPERTIES
  UnloadEnds
CHECK_DEADLOCK FALSE
