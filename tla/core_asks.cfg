\* Three messages beside one task of the agent's own that may ask Lin too, a
\* stash beside questions.
CONSTANTS
  MaxSessions = 2
  Tags = {r}
  MaxConcurrent = 2
  MaxHanging = 3
  MaxTasks = 1
  FirstTasks = {}
  Scheduled = {}
  MaxRetries = 0
  DependsOn <- Independent
  Messages = {m1, m2, m3}
  Tick = Tick
  MaxIter = 2
  QueueAsks = TRUE
  BusStalls = FALSE
  PatientOwner = TRUE
  MaxFaults = 0
  Crashes = FALSE
  Shutdowns = FALSE
  Torn = FALSE
  Cancels = FALSE
SPECIFICATION Spec
SYMMETRY Symmetry
INVARIANTS
  LinsTasksHold
PROPERTIES
  LinsEndedStay
  TickRespectsLin
\* the bounded messages and sessions run out
CHECK_DEADLOCK FALSE
