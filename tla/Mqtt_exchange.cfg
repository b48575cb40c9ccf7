SPECIFICATION Spec
CONSTANTS
  Api = {"subscribe", "publish2"}
  MaxCalls = 3
  Pids = {p1, p2, p3}
  QueueCap = 4
  ChunkLen = 1
  SockCap = 2
  BMsgs = {m1}
  BPids = {b1}
  Features = {"retry", "timeout"}
  BQos <- Qos2
  NULL = NULL
  p1 = p1
  p2 = p2
  p3 = p3
  b1 = b1
  m1 = m1
INVARIANT ExactlyOnce
INVARIANT OneQos2InFlight
SYMMETRY IdSymmetry
