\* Up to three simulations of one test; seeds up to the last value.
CONSTANTS
  TestConfigs <- MCTestConfigs
  MaxSeed = 3
  Limit = 2
  AbortCounterStart = 5
  MaxClock = 2
SPECIFICATION FairSpec
INVARIANT NoFalseAlarm
INVARIANT WatchdogGoneFirst
INVARIANT SeedsDistinct
PROPERTY StuckEnds
