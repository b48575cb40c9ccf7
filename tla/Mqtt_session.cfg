SPECIFICATION FairSpec
CONSTANTS
  Api = {"unsubscribe", "disconnect", "reconnect"}
  MaxCalls = 2
  Pids = {p1, p2}
  QueueCap = 3
  ChunkLen = 2
  SockCap = 2
  BMsgs = {m1}
  BPids = {b1}
  Features = {"reconnect", "fail", "unreachable"}
  BQos <- Qos1
  NULL = NULL
  p1 = p1
  p2 = p2
  p3 = p3
  b1 = b1
  m1 = m1
 
PROPERTY SubscribeAnswered
CHECK_DEADLOCK FALSE
