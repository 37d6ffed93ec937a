------------------------------- MODULE Notify -------------------------------
(***************************************************************************)
(* agent/notify.py: which severity may be sent at which moment.  A moment  *)
(* is a number of slots since the start; a date has Slots of them (before  *)
(* breakfast, daytime, late evening), enough to tell the windows apart.    *)
(* day_state.is_dayoff is always 0 (set_day_off has no caller).            *)
(***************************************************************************)
EXTENDS Naturals

CONSTANTS
  Slots,         \* slots in a date
  DayWindow,     \* the slots between WAKE_TIME and SLEEP_TIME
  PoolWindow     \* the slots between POOL_QUIET_START and POOL_QUIET_END

ASSUME NotifyAssumption ==
  /\ Slots \in Nat \ {0}
  /\ DayWindow \subseteq 0..Slots-1 /\ PoolWindow \subseteq 0..Slots-1

SlotOf(n) == n % Slots
DateOf(n) == n \div Slots

AnyTime == 0..Slots-1                  \* "00:00" to "23:59"
Phases == {"night", "morning", "day", "evening"}
Severities == {"critical", "normal", "low"}

\* get_current_policy: at night and in quiet mode only what is critical
Restricted(phase, quiet) == phase = "night" \/ quiet

ShouldDeliver(sev, phase, quiet, n, window) ==
  sev = "critical" \/ (~Restricted(phase, quiet) /\ SlotOf(n) \in window)
=============================================================================
