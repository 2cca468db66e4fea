\* One node of up to three incarnations, two tasks.
CONSTANTS
  Nodes = {n1}
  Tasks = {t1, t2}
  MaxInc = 2
  MaxBudget = 1
  EnterNode = FALSE
SPECIFICATION FairSpec
INVARIANT ParkedNotStranded
PROPERTY KilledNeverPolled
PROPERTY DeadlineKillsOnlyShuttingDown
PROPERTY RestartsKilledNode
PROPERTY KilledDropped
PROPERTY GracefulEndsWhenDrained
