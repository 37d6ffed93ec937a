------------------------------- MODULE MCDay -------------------------------
(***************************************************************************)
(* The day engine for TLC: three slots of a date, one reminder, two tasks  *)
(* of the pool that are due on the same day.                               *)
(***************************************************************************)
EXTENDS DayEngine

Night == 0                             \* until the default wake-up time
Noon  == 1                             \* every window is open
Late  == 2                             \* both windows are closed

DaySlots  == {Noon}
UsualTimes == [wake |-> Noon, briefing |-> Noon, wrapup |-> Late]
Answers   == {<<>>, [wake |-> Night]}
Cadence   == [p \in Priorities |-> IF p = 5 THEN 0 ELSE 1]
=============================================================================
