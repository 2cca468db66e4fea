\* A paused node is killed from another node.
CONSTANTS
  Nodes = {m, a}
  Main = m
  Ips = {i}
  Socks = {s1, s2}
  None = None
  FirstEphemeral = 1
  MaxPort = 2
  Streaming = {a}
  Messaging = {a}
  Crashing = {a}
  MaxInc = 1
  MaxMsgs = 1
  MaxBacklog = 1
  Cutting = {a}
  ForeignKill = TRUE
  StdDelete = FALSE
CHECK_DEADLOCK FALSE
SYMMETRY SockSymmetry
SPECIFICATION Spec
INVARIANT NoDoubleClose
