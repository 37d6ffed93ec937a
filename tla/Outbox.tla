------------------------------- MODULE Outbox -------------------------------
(***************************************************************************)
(* What day/tick.py promises of a message that is due once (an alarm, an   *)
(* evening proposal, a reminder): a pass picks what is due, tells it or    *)
(* holds it back, and only then marks it.  An answer that is lost, or a    *)
(* crash before the mark, is the only way to tell the same thing twice.    *)
(***************************************************************************)
EXTENDS Naturals

CONSTANTS
  Keys,          \* what there is to tell
  Critical       \* what is never held back

VARIABLES
  told,          \* how often Lin got it
  held,          \* bundled instead of sent
  marked,        \* fired, proposed or done: not due any more
  gone,          \* withdrawn by Lin
  picked,        \* to be told in this pass
  told_now,      \* got by Lin, the mark still to be written
  lost           \* how often the mark of a told message was lost

vars == <<told, held, marked, gone, picked, told_now, lost>>

Init ==
  /\ told = [k \in Keys |-> 0] /\ lost = [k \in Keys |-> 0]
  /\ held = {} /\ marked = {} /\ gone = {} /\ picked = {} /\ told_now = {}

Pick ==
  /\ picked = {} /\ picked' # {} /\ told_now = {}
  /\ picked' \in SUBSET (Keys \ (marked \cup gone))
  /\ UNCHANGED <<told, held, marked, gone, told_now, lost>>

Tell(k) ==
  /\ k \in picked /\ told_now = {}
  /\ told' = [told EXCEPT ![k] = @ + 1]
  /\ told_now' = {k}
  /\ UNCHANGED <<held, marked, gone, picked, lost>>

MarkOf(k) == marked' = IF k \in gone THEN marked ELSE marked \cup {k}

Mark(k) ==
  /\ k \in told_now
  /\ MarkOf(k)
  /\ told_now' = {} /\ picked' = picked \ {k}
  /\ UNCHANGED <<told, held, gone, lost>>

\* held back at once or out of a pass that is under way
HoldBack(k) ==
  /\ k \notin Critical /\ k \notin marked
  /\ told_now = {} /\ (k \in picked \/ (picked = {} /\ k \notin gone))
  /\ held' = held \cup {k}
  /\ MarkOf(k)
  /\ picked' = picked \ {k}
  /\ UNCHANGED <<told, gone, told_now, lost>>

\* the pass is broken off: an error on the way, or the end of the process
BreakOff ==
  /\ picked # {}
  /\ picked' = {} /\ told_now' = {}
  /\ lost' = [k \in Keys |-> IF k \in told_now THEN lost[k] + 1 ELSE lost[k]]
  /\ UNCHANGED <<told, held, marked, gone>>

Withdraw(k) ==
  /\ k \notin gone
  /\ gone' = gone \cup {k} /\ marked' = marked \ {k}
  /\ UNCHANGED <<told, held, picked, told_now, lost>>

Next ==
  \/ Pick
  \/ \E k \in Keys : Tell(k) \/ Mark(k) \/ HoldBack(k) \/ Withdraw(k)
  \/ BreakOff

Spec == Init /\ [][Next]_vars

-----------------------------------------------------------------------------
TypeOK ==
  /\ told \in [Keys -> Nat] /\ lost \in [Keys -> Nat]
  /\ held \subseteq Keys /\ marked \subseteq Keys /\ gone \subseteq Keys
  /\ picked \subseteq Keys /\ told_now \subseteq picked

\* told once, and once more for every answer or mark that was lost
ToldOnce == \A k \in Keys : told[k] <= 1 + lost[k]

\* nothing is marked that was neither told nor held back
NothingSkipped == \A k \in marked : told[k] > 0 \/ k \in held

\* what is critical has reached Lin before it is marked: bundling does not settle it
CriticalTold == \A k \in Critical \cap marked : told[k] > 0
=============================================================================
