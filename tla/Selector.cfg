SPECIFICATION FairSpec
CONSTANTS
  Posters = {p1, p2}
  Closures = {c1, c2}
  NoClosure = NoClosure
  Alarms = {a1, a2}
  Timeouts = {0, 1}
  WakeUpTime = 1
  NumClosures = 1
  HighPrecision = FALSE
  PostsDuringExit = FALSE
  MaxTime = 1
  MaxHistory = 1
INVARIANT NoLostWakeup
INVARIANT RunInPostOrder
INVARIANT NoCheckFails
PROPERTY EveryClosureRuns
PROPERTY EveryAlarmFires
CHECK_DEADLOCK FALSE
