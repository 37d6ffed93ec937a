\* Two dates; one reminder, two pool rows, one nudge a day; two words of Lin's and two
\* events, three of them at most.
CONSTANTS
  Slots = 3
  DayWindow <- DaySlots
  PoolWindow <- DaySlots
  MaxDate = 2
  Defaults <- UsualTimes
  PoolTasks = {1, 2}
  Priorities = {3, 5}
  CadenceDays <- Cadence
  MaxNudges = 1
  UtcLag = 1
  Reminders = {1}
  Corrections <- Answers
  FirstSlot = 4
  LastSlot = 6
  MaxArrived = 1
  MaxWords = 2
  MaxEvents = 2
  MaxInputs = 3
SPECIFICATION Spec
INVARIANTS
  TypeOK
  RoutineOnce
  AgreedStands
  PoolBudget
PROPERTIES
  OncePromise
CHECK_DEADLOCK FALSE
