\* One slot: every displacement pauses; stashes may expire.
CONSTANTS
  MaxSessions = 2
  Tags = {r}
  MaxConcurrent = 1
  MaxHanging = 2
  MaxTasks = 1
  FirstTasks = {}
  Scheduled = {}
  MaxRetries = 1
  DependsOn <- Independent
  Messages = {m1, m2}
  Tick = Tick
  MaxIter = 2
  QueueAsks = FALSE
  BusStalls = FALSE
  PatientOwner = TRUE
  MaxFaults = 1
  Crashes = FALSE
  Shutdowns = FALSE
  Torn = FALSE
  Cancels = FALSE
SPECIFICATION FairSpec
INVARIANTS
  PausedHasStash
PROPERTIES
  ClaimSettles
\* the bounded messages and sessions run out
CHECK_DEADLOCK FALSE
