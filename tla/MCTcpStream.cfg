\* One connection, both directions, both nodes killed and restarted.
CONSTANTS
  Conns = {c1}
  Nodes = {s, n}
  Server = s
  Callers = {s, n}
  Crashing = {s, n}
  Writing = {"client", "server"}
  Splitting = {"client"}
  MaxInc = 1
  MaxSeq = 1
  MaxListen = 2
CHECK_DEADLOCK FALSE
SPECIFICATION FairSpec
INVARIANT InOrder
INVARIANT WaiterNotForgotten
PROPERTY DataArrives
