---------------------------- MODULE Outbox_proofs ----------------------------
(***************************************************************************)
(* What the outbox promises holds for any set of messages.  The day engine *)
(* implements it (run "day"), and so inherits the three theorems.          *)
(***************************************************************************)
EXTENDS Outbox, TLAPS

(***************************************************************************)
(* ToldOnce is not inductive: that a message has not been told without the *)
(* loss of a mark must be known of everything that can still be told, that *)
(* is of what is neither marked nor told in this moment, and, when it was  *)
(* withdrawn, still stands in a pass that had picked it before.            *)
(***************************************************************************)
Untold(k) == k \notin marked \cup told_now /\ (k \in gone => k \in picked)

OneAtATime == \A j, k \in told_now : j = k

\* what the three theorems are parts of; CriticalTold is NothingSkipped of messages
\* that are never held back
OutboxInv ==
  /\ TypeOK
  /\ OneAtATime
  /\ picked \cap marked = {}
  /\ \A k \in Keys : Untold(k) => told[k] <= lost[k]
  /\ \A k \in told_now : told[k] > 0
  /\ held \cap Critical = {}
  /\ ToldOnce /\ NothingSkipped /\ CriticalTold

\* Nothing is told, held or marked at first.
LEMMA InvInit == Init => OutboxInv
  BY DEF Init, OutboxInv, TypeOK, OneAtATime, Untold, ToldOnce, NothingSkipped, CriticalTold

\* Every step keeps OutboxInv.
LEMMA InvNext == OutboxInv /\ [Next]_vars => OutboxInv'
<1> SUFFICES ASSUME OutboxInv, [Next]_vars PROVE OutboxInv'
  OBVIOUS
<1> USE DEF OutboxInv, TypeOK, OneAtATime, Untold, ToldOnce, NothingSkipped, CriticalTold
<1>1. CASE Pick
  BY <1>1 DEF Pick
<1>2. ASSUME NEW k \in Keys, Tell(k) PROVE OutboxInv'
  BY <1>2 DEF Tell
<1>3. ASSUME NEW k \in Keys, Mark(k) PROVE OutboxInv'
  BY <1>3 DEF Mark, MarkOf
<1>4. ASSUME NEW k \in Keys, HoldBack(k) PROVE OutboxInv'
  BY <1>4 DEF HoldBack, MarkOf
<1>5. ASSUME NEW k \in Keys, Withdraw(k) PROVE OutboxInv'
  BY <1>5 DEF Withdraw
<1>6. CASE BreakOff
  BY <1>6 DEF BreakOff
<1>7. CASE UNCHANGED vars
  BY <1>7 DEF vars
<1> QED BY <1>1, <1>2, <1>3, <1>4, <1>5, <1>6, <1>7 DEF Next

\* OutboxInv holds throughout; the theorems below are parts of it.
LEMMA OutboxInvariant == Spec => []OutboxInv
  BY InvInit, InvNext, PTL DEF Spec

\* A message is told once, and once more for every mark that was lost.
THEOREM NeverToldTwice == Spec => []ToldOnce
<1>1. OutboxInv => ToldOnce
  BY DEF OutboxInv
<1> QED BY <1>1, OutboxInvariant, PTL

\* What a pass has marked was told or held back: no alarm, proposal or
\* reminder is ever ticked off in silence.
THEOREM NothingIsSkipped == Spec => []NothingSkipped
<1>1. OutboxInv => NothingSkipped
  BY DEF OutboxInv
<1> QED BY <1>1, OutboxInvariant, PTL

\* An alarm that counts as fired has reached Lin: it was not bundled, and no pass that
\* broke off before Telegram took it has marked it.
THEOREM CriticalIsTold == Spec => []CriticalTold
<1>1. OutboxInv => CriticalTold
  BY DEF OutboxInv
<1> QED BY <1>1, OutboxInvariant, PTL
=============================================================================
