\* One death between two awaits, or an hour without an answer; row 2 is scheduled.
CONSTANTS
  MaxSessions = 3
  Tags = {r}
  MaxConcurrent = 2
  MaxHanging = 2
  MaxTasks = 2
  FirstTasks = {}
  Scheduled = {2}
  MaxRetries = 1
  DependsOn <- Independent
  Messages = {m1, m2}
  Tick = Tick
  MaxIter = 2
  QueueAsks = FALSE
  BusStalls = FALSE
  PatientOwner = TRUE
  MaxFaults = 1
  Crashes = TRUE
  Shutdowns = FALSE
  Torn = FALSE
  Cancels = FALSE
SPECIFICATION Spec
SYMMETRY Symmetry
INVARIANTS
  ActiveDriven
  NoOrphan
  ClaimCanSettle
  QuestionHasWaiter
  OneStash
  WaitingHasQuestion
\* the bounded messages and sessions run out
CHECK_DEADLOCK FALSE
