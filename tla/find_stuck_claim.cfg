\* A queue run asks Lin.
CONSTANTS
  MaxSessions = 3
  Tags = {r}
  MaxConcurrent = 2
  MaxHanging = 2
  MaxTasks = 1
  FirstTasks = {1}
  Scheduled = {}
  MaxRetries = 0
  DependsOn <- Independent
  Messages = {m1, m2}
  Tick = Tick
  MaxIter = 1
  QueueAsks = TRUE
  BusStalls = FALSE
  PatientOwner = TRUE
  MaxFaults = 0
  Crashes = FALSE
  Shutdowns = FALSE
  Torn = FALSE
  Cancels = FALSE
SPECIFICATION Spec
SYMMETRY Symmetry
INVARIANTS
  ClaimCanSettle
\* the bounded messages and sessions run out
CHECK_DEADLOCK FALSE
