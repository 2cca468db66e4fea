\* Two threads, two closures on two nodes.
CONSTANTS
  Jobs = {j1, j2}
  NoJob = NoJob
  Nodes = {n1, n2}
  NumThreads = 2
  MaxInc = 1
  EnterNode = FALSE
SPECIFICATION FairSpec
INVARIANT OneRunner
INVARIANT LostResultMeansKilled
INVARIANT JobsConserved
INVARIANT PanicsDelivered
PROPERTY ServiceSpec
PROPERTY KilledUnwinds
PROPERTY ShutdownJoins
