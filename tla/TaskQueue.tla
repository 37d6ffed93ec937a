----------------------------- MODULE TaskQueue -----------------------------
(***************************************************************************)
(* The rubedo_queue table (memory/db.py).  Task numbers stand for the      *)
(* order the claim query returns rows in: priority, then age.  No update   *)
(* but queue_cancel's looks at the status it overwrites.                   *)
(***************************************************************************)
EXTENDS Sessions

CONSTANTS
  MaxTasks,      \* bound: rows in the queue
  FirstTasks,    \* the rows that are there from the start
  Scheduled,     \* the rows with a scheduled_at
  MaxRetries,    \* max_retries of every row
  DependsOn      \* DependsOn[t]: the row t depends on, or NoTask

Tasks  == 1..MaxTasks
NoTask == 0

ASSUME TaskQueueAssumption ==
  /\ MaxTasks \in Nat
  /\ FirstTasks \subseteq Tasks /\ Scheduled \subseteq Tasks
  /\ MaxRetries \in Nat
  /\ DependsOn \in [Tasks -> Tasks \cup {NoTask}]

Row == [st : {"absent", "pending", "running", "done", "failed", "cancelled"},
        sid : SessionIds \cup {NoSession}, retries : Nat]
TaskTable == [Tasks -> Row]

FreshQueue ==
  [t \in Tasks |-> [st |-> IF t \in FirstTasks THEN "pending" ELSE "absent",
                   sid |-> NoSession, retries |-> 0]]

RowsIn(qq, st) == {t \in Tasks : qq[t].st = st}

\* queue_get_running(): LIMIT 1 without an order, so any running row
Claimed(qq) == IF RowsIn(qq, "running") = {} THEN {NoTask} ELSE RowsIn(qq, "running")

\* a row with a scheduled_at is never next: queue_get_next_scheduled has no caller
Waits(qq) == RowsIn(qq, "pending") \ Scheduled

NextIdle(qq) ==
  IF Waits(qq) = {} THEN NoTask
  ELSE CHOOSE t \in Waits(qq) : \A u \in Waits(qq) : t <= u

\* queue_list() has no row to show; it lists failed rows too
ListEmpty(qq) == \A t \in Tasks : qq[t].st \in {"absent", "done", "cancelled"}

DependsSatisfied(qq, t) == DependsOn[t] = NoTask \/ qq[DependsOn[t]].st = "done"

AddRow(qq, t)         == [qq EXCEPT ![t].st = "pending"]
MarkRunning(qq, t, s) == [qq EXCEPT ![t].st = "running", ![t].sid = s]
MarkDone(qq, t)       == [qq EXCEPT ![t].st = "done"]

\* mutant: the crashed attempt is taken off the count it never entered
RequeueRefunds(qq, t) ==
  [qq EXCEPT ![t] = [st |-> "pending", sid |-> NoSession, retries |-> @.retries - 1]]

\* after a crash: no penalty, retry_count untouched
Requeue(qq, t)        == [qq EXCEPT ![t].st = "pending", ![t].sid = NoSession]

Exhausted(qq, t) == qq[t].retries + 1 > MaxRetries
MarkFailed(qq, t) ==
  IF Exhausted(qq, t)
    THEN [qq EXCEPT ![t].st = "failed", ![t].retries = @ + 1]
    ELSE [qq EXCEPT ![t] = [st |-> "pending", sid |-> NoSession, retries |-> @.retries + 1]]

CancelRow(qq, t) == [qq EXCEPT ![t].st = "cancelled"]
=============================================================================
