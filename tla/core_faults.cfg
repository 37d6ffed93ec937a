\* Everything that can go wrong, two at a time, and an owner who does not wait:
\* two messages may choose from one list.  One slot, so that Lin's work pauses
\* what the queue does; with tags it would be four times as large.
CONSTANTS
  MaxSessions = 2
  Tags = {}
  MaxConcurrent = 1
  MaxHanging = 2
  MaxTasks = 2
  FirstTasks = {1, 2}
  Scheduled = {}
  MaxRetries = 1
  DependsOn <- Independent
  Messages = {m1, m2}
  Tick = Tick
  MaxIter = 1
  QueueAsks = TRUE
  BusStalls = TRUE
  PatientOwner = FALSE
  MaxFaults = 2
  Crashes = TRUE
  Shutdowns = TRUE
  Torn = TRUE
  Cancels = TRUE
SPECIFICATION Spec
SYMMETRY Symmetry
INVARIANTS
  TypeOK
PROPERTIES
  QueueKeepsPromise
  YesIsSpent
\* the bounded messages and sessions run out
CHECK_DEADLOCK FALSE
