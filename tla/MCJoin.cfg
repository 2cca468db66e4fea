\* A task and a blocking task, each held or in the set.
CONSTANTS
  Tasks = {t1, b1}
  Blocking = {b1}
  Keeping = {b1}
CHECK_DEADLOCK FALSE
SPECIFICATION FairSpec
INVARIANT CancelledHasCause
INVARIANT QueuedNeverRuns
PROPERTY JoinEnds
PROPERTY SetShutdownEnds
