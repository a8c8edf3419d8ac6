CONSTANTS
  Workers = {w1, w2, w3}
  Script = script
  MaxTasks = 4
SPECIFICATION FairSpec
INVARIANTS
  TypeOK
  NoLostWakeup
  StopWakesAll
  EachTaskOnce
  DestroyedDrained
PROPERTIES
  AcceptedRuns
  DestructorReturns
CHECK_DEADLOCK FALSE
