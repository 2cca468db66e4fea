\* A task sleeps in the context of another node.
CONSTANTS
  Sleeps = {s1}
  Ticking = {}
  Periods = {1}
  Grace = 0
  Nodes = {main, n1}
  Main = main
  MaxTime = 2
  EnterNode = TRUE
SPECIFICATION IFairSpec
PROPERTY SleepEnds
