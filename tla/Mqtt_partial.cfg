SPECIFICATION Spec
CONSTANTS
  Api = {"publish1", "publish2"}
  MaxCalls = 3
  Pids = {p1, p2, p3}
  QueueCap = 3
  ChunkLen = 2
  SockCap = 2
  BMsgs = {}
  BPids = {}
  Features = {"partial"}
  BQos <- NoQos
  NULL = NULL
  p1 = p1
  p2 = p2
  p3 = p3
  b1 = b1
  m1 = m1
INVARIANT StreamFramed
