SPECIFICATION MCSpec
CONSTANTS
  BufSz = 11
  HdrSz = 2
  Ids = {a, b}
  Sizes = {1, 2, 4}
  LenBase = 4
  LenDigits = 3
  MaxTopics = 3
  RecvSz = 8
  MaxPackets = 2
  MaxRoom = 40
  Responses <- MCResponses
  Faulty <- MCFaulty
  Requests <- MCRequests
INVARIANT BuffersTypeOK
INVARIANT EndsApart
INVARIANT Contiguous
PROPERTY KeepsMessages
INVARIANT PacksExactly
INVARIANT DispatchesInOrder
SYMMETRY IdSymmetry
