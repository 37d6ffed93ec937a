\* A deep turn of two rounds; beside it a simple one, whose reports are written
\* into the deep turn's journal and whose model calls wait in the same queue.
\* Two crashes, the second one maybe in the run that was resumed after the
\* first.  (The deep turn's own reports would make it eight times as large.)
CONSTANTS
  Callers = {"deep", "simple"}
  Keys <- TwoKeys
  Models <- TwoModels
  Sessioned = {"deep"}
  MaxRounds <- Rounds
  Calls = {"restart", "report", "sudo", "ask"}
  Menu <- Offered
  SideEffects = {"restart"}
  Cooled = {"restart"}
  Gated = {"sudo"}
  Asks = {"ask"}
  ReadOnly = {"report"}
  Reporting = {"report"}
  Limit = 3
  MaxCrashes = 2
SPECIFICATION FairSpec
INVARIANTS TypeOK EffectOnce CutStepsReported SessionSettled ExhaustedMeansTried
PROPERTIES TurnEnds
CHECK_DEADLOCK FALSE
