\* Deaths, restarts, updates and orderly stops of two children; the bus
\* between their processes; the window and what it is asked; a plan of two
\* rows from two recurring tasks, made by two tool threads; two snapshots of files outside workspace/
\* that hold a text or are missing; five runs that end well while one
\* thread archives their logs at any moment of a check.
CONSTANTS
  Agent = Agent
  Display = Display
  Processes <- AgentAndDisplay
  Chats = {c1, c2}
  MaxRestarts = 2
  MaxFaults = 3
  Clients = {Agent, Display}
  Host = Agent
  ShortDrains = TRUE
  MaxLinks = 2
  MaxLines <- AgentTalks
  MaxDeaths = 1
  Panels = {"plan", "background"}
  AlarmTaps = 3
  MaxVersions = 1
  MaxNews = 4
  MaxWire = 2
  ToolThreads = {th, other}
  Patterns <- Habits
  PlanDays = 2
  MaxRows = 2
  MaxRecurring = 2
  Paths = {"notes", "etc", "home"}
  Workspace = {"notes"}
  Texts = {"a"}
  Missing = "missing"
  Alike <- Named
  MaxSnapshots = 2
  MaxChanges = 1
  Milestones = {2, 3}
  Archivers = {th}
  MaxLogs = 5
  MaxAuditCrashes = 1
SPECIFICATION HouseSpec
INVARIANTS
  AllTypesOK
  GivenUpAtLimit
  UpdateHoldsAgent
  HeardInOrder
  RecurringOnce
  MilestonesHonest
PROPERTIES
  GivesUpOnDeaths
  OnlyStopsHide
  AgentReturns
  ScreenCatchesUp
  RollbackExact
\* the launcher may stay stopped, and every bound is reached
CHECK_DEADLOCK FALSE
