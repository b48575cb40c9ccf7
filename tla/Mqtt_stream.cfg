SPECIFICATION Spec
CONSTANTS
  Api = {"subscribe", "publish0", "publish1", "ping"}
  MaxCalls = 3
  Pids = {p1, p2, p3}
  QueueCap = 3
  ChunkLen = 2
  SockCap = 2
  BMsgs = {m1}
  BPids = {}
  Features = {"partial", "keepalive"}
  BQos <- Qos0
  NULL = NULL
  p1 = p1
  p2 = p2
  p3 = p3
  b1 = b1
  m1 = m1
INVARIANT TypeOK
INVARIANT StreamFramed
INVARIANT NoUnknownAck
 
PROPERTY ReleasedWasSent
SYMMETRY IdSymmetry
