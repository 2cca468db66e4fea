\* A sleeper and an interval, the main node and one that is killed and restarted.
CONSTANTS
  Sleeps = {s1, s2}
  Ticking = {s2}
  Periods = {1, 2}
  Grace = 0
  Nodes = {main, n1}
  Main = main
  MaxTime = 3
  EnterNode = FALSE
SPECIFICATION IFairSpec
INVARIANT DisabledHasNoLive
INVARIANT NoLostWakeup
INVARIANT IntervalOnGrid
PROPERTY NoOversleep
PROPERTY SkipTicksNext
PROPERTY SleepEnds
