\* Three messages: one asks, one is at work, one answers.
CONSTANTS
  MaxSessions = 3
  Tags = {r}
  MaxConcurrent = 2
  MaxHanging = 2
  MaxTasks = 1
  FirstTasks = {1}
  Scheduled = {}
  MaxRetries = 0
  DependsOn <- Independent
  Messages = {m1, m2, m3}
  Tick = Tick
  MaxIter = 1
  QueueAsks = FALSE
  BusStalls = FALSE
  PatientOwner = TRUE
  MaxFaults = 0
  Crashes = FALSE
  Shutdowns = FALSE
  Torn = FALSE
  Cancels = FALSE
SPECIFICATION Spec
SYMMETRY Symmetry
INVARIANTS
  OneChatActive
\* the bounded messages and sessions run out
CHECK_DEADLOCK FALSE
