----------------------------- MODULE PoolTable -----------------------------
(***************************************************************************)
(* The pool_tasks table and the cadence rules of day/pool.py.  mark_nudged *)
(* stamps UTC, everything else reads the local clock: a stamp lies UtcLag  *)
(* slots behind.  Weekends are left out: priority 5 is due every date.     *)
(***************************************************************************)
EXTENDS Notify, FiniteSets

CONSTANTS
  PoolTasks,     \* bound: rows of the table
  Priorities,    \* the priorities that occur, of 1..5
  CadenceDays,   \* POOL_CADENCE_DAYS
  MaxNudges,     \* POOL_MAX_NUDGES_PER_DAY
  UtcLag         \* slots the local clock is ahead of UTC

ASSUME PoolAssumption ==
  /\ PoolTasks \subseteq Nat /\ IsFiniteSet(PoolTasks)
  /\ Priorities \subseteq 1..5
  /\ CadenceDays \in [Priorities -> Nat]
  /\ MaxNudges \in Nat /\ UtcLag \in 0..Slots-1

\* As shipped (11:00 to 21:00; 30, 14 and 7 days): the hours of the pool end
\* before midnight and begin after midnight UTC, and no cadence is below a day.
ASSUME PoolConfig ==
  /\ PoolWindow \subseteq 1..Slots-2 /\ \A s \in PoolWindow : UtcLag <= s
  /\ \A p \in Priorities \cap 1..3 : CadenceDays[p] >= 1

Never == 0
PoolRow == [st : {"none", "active", "done"}, prio : Priorities \cup {0},
            created : Nat, nudged : Nat, until : Nat]

NoRow == [st |-> "none", prio |-> 0, created |-> 0, nudged |-> Never, until |-> 0]
NewRow(p, n) == [st |-> "active", prio |-> p, created |-> n - UtcLag, nudged |-> Never, until |-> 0]

Active(pool) == {t \in PoolTasks : pool[t].st = "active"}

\* _is_due
IsDue(row, n) ==
  /\ row.until <= n
  /\ LET since == IF row.nudged = Never THEN row.created ELSE row.nudged
     IN  IF row.prio = 5 THEN row.nudged = Never \/ DateOf(row.nudged) < DateOf(n)
         ELSE n - since >= CadenceDays[row.prio] * Slots

DueTasks(pool, n) == {t \in Active(pool) : IsDue(pool[t], n)}

\* _today_nudge_count: done rows count too, deleted ones and piggybacks do not
NudgeCount(pool, n) ==
  Cardinality({t \in PoolTasks :
    /\ pool[t].st # "none" /\ pool[t].prio < 5
    /\ pool[t].nudged # Never /\ DateOf(pool[t].nudged) = DateOf(n)})

\* mutant: the limit itself is let through
BudgetLeftAtLimit(pool, n) == NudgeCount(pool, n) <= MaxNudges

BudgetLeft(pool, n) == NudgeCount(pool, n) < MaxNudges

\* list_active orders by priority, highest number first, then by age
Before(pool, t, u) ==
  \/ pool[t].prio > pool[u].prio
  \/ pool[t].prio = pool[u].prio /\ pool[t].created < pool[u].created
  \/ pool[t].prio = pool[u].prio /\ pool[t].created = pool[u].created /\ t <= u

Candidates(pool, n) == {t \in DueTasks(pool, n) : pool[t].prio <= 3}
Primary(pool, n) ==      \* the first of them, as a set
  {t \in Candidates(pool, n) : \A u \in Candidates(pool, n) : Before(pool, t, u)}
Piggyback(pool, n) == {t \in DueTasks(pool, n) : pool[t].prio = 5}

\* the rows may have been completed or deleted while the text was generated
MarkNudged(pool, ts, n) ==
  [t \in PoolTasks |->
     IF t \in ts /\ pool[t].st # "none" THEN [pool[t] EXCEPT !.nudged = n - UtcLag] ELSE pool[t]]
=============================================================================
