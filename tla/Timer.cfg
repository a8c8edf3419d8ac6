CONSTANTS
  Second = 2
  HalfInt = 4
  TickDelays = {1}
  AfterDelays <- MCAfterDelays
  SleepTimes = {3}
  MaxTimers = 3
  MaxClock = 5
  MaxSkew = 1
SPECIFICATION FairSpec
INVARIANTS
  TypeOK
  WalkComplete
  OversleepsLessThanASecond
PROPERTIES
  NeverEarly
  SkewResets
  TimersRun
CHECK_DEADLOCK FALSE
