SPECIFICATION FairSpec
CONSTANTS
  Apps = {a1, a2}
  Msgs = {m1}
  NULL = NULL
  FrameLen = 2
  MayFail = FALSE
  PromptReturn = TRUE
PROPERTIES
  KeepsTransferring
CHECK_DEADLOCK FALSE
