CONSTANTS
  s1 = s1
  s2 = s2
  s3 = s3
  NULL = NULL
  Slots <- MCSlots
  MaxPid <- MCMaxPid
  MaxTid <- MCMaxTid
  TicksPerSchedule <- MCTicksPerSchedule
SPECIFICATION Spec
PROPERTY ReadyEventuallyRuns
