\* A reader whose peer hangs up.
CONSTANTS
  Conns = {c1}
  Nodes = {s, n}
  Server = s
  Callers = {n}
  Crashing = {}
  Writing = {"server"}
  Splitting = {}
  MaxInc = 1
  MaxSeq = 1
  MaxListen = 1
CHECK_DEADLOCK FALSE
SPECIFICATION FairSpec
PROPERTY HangupSeen
