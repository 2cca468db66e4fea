\* Two sockets at a time on a node that is killed, restarted and deleted.
CONSTANTS
  Nodes = {m, a}
  Main = m
  Ips = {i}
  Socks = {s1, s2}
  None = None
  FirstEphemeral = 1
  MaxPort = 2
  Streaming = {m}
  Messaging = {a}
  Crashing = {a}
  MaxInc = 1
  MaxMsgs = 1
  MaxBacklog = 1
  Cutting = {a}
  ForeignKill = FALSE
  StdDelete = FALSE
CHECK_DEADLOCK FALSE
SYMMETRY SockSymmetry
SPECIFICATION Spec
INVARIANT FdsOwned
INVARIANT OwnMailbox
INVARIANT PortsOwned
INVARIANT TablesAgree
INVARIANT NoStaleDatagram
