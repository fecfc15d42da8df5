CONSTANTS
  s1 = s1
  s2 = s2
  s3 = s3
  NULL = NULL
  Slots <- MCSlots
  MaxPid <- MCMaxPid
  MaxTid <- MCMaxTid
  TicksPerSchedule <- MCTicksPerSchedule
SYMMETRY MCSymmetry
SPECIFICATION Spec
INVARIANT TypeOK
INVARIANT ListWellFormed
INVARIANT AtMostOneRunning
INVARIANT ScheduleTerminates
INVARIANT RoundRobin
CHECK_DEADLOCK FALSE
