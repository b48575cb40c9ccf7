SPECIFICATION FairSpec
CONSTANTS
  Apps = {a1}
  Msgs = {m1}
  NULL = NULL
  FrameLen = 1
  MayFail = FALSE
  PromptReturn = FALSE
PROPERTIES
  KeepsTransferring
CHECK_DEADLOCK FALSE
