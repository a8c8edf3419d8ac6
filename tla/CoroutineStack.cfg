CONSTANTS
  MaxCid = 3
  MaxDefer = 1
  Destructible = {2}
SPECIFICATION FairSpec
INVARIANTS
  TypeOK
  StackCoherence
  OneWakeSource
  NoStaleResume
  ClosedExactly
  
PROPERTIES
  ImplementsCallStack
  SleepersWake
CHECK_DEADLOCK FALSE
