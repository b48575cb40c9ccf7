SPECIFICATION FairSpec
CONSTANTS
  Apps = {a1, a2}
  Msgs = {m1, m2}
  NULL = NULL
  FrameLen = 2
  MayFail = TRUE
  PromptReturn = FALSE
INVARIANTS
  TypeOK
  OneFrameOutstanding
  
  NoStrayDma
  
PROPERTY SigintEndsProcess
CHECK_DEADLOCK FALSE
