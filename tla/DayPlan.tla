------------------------------ MODULE DayPlan ------------------------------
(***************************************************************************)
(* day/state.py and agent/tools/tasks.py: the tasks of the day and the     *)
(* recurring tasks they are made from.  The tools run in threads on pooled *)
(* connections, so hydrate_recurring is a transaction of several selects   *)
(* beside the other tools, midnight and a crash.  Nobody but               *)
(* recurring_add calls it.                                                 *)
(***************************************************************************)
EXTENDS Integers, Sequences

CONSTANTS
  ToolThreads,  \* tool calls that run at a time
  Patterns,     \* what a days field may mean: sets of dates
  PlanDays,     \* bound: the clock stops at the last of 1..PlanDays
  MaxRows,      \* bound: day_tasks
  MaxRecurring  \* bound: recurring_tasks

ASSUME PlanAssumption ==
  /\ PlanDays \in Nat \ {0} /\ MaxRows \in Nat /\ MaxRecurring \in Nat
  /\ Patterns \subseteq SUBSET (1..PlanDays)

VARIABLES
  rows,       \* day_tasks, by id
  recurring,  \* recurring_tasks, by id
  today,      \* date.today()
  hydrating   \* per thread: the transaction of hydrate_recurring

planVars == <<rows, recurring, today, hydrating>>

Statuses == {"pending", "done", "failed", "cancelled"}
NoRecurring == 0
NotHydrating == [pc |-> "idle"]

PlanInit ==
  /\ rows = <<>> /\ recurring = <<>> /\ today = 1
  /\ hydrating = [th \in ToolThreads |-> NotHydrating]

\* beside: history, the rows that were committed while its transaction was open
DayTask(date, rid, timed, beside) ==
  [date |-> date, rid |-> rid, timed |-> timed, status |-> "pending", beside |-> beside]

-----------------------------------------------------------------------------
\* the tables' own operations; an unknown id updates nothing
AddDayTask(timed) == rows' = Append(rows, DayTask(today, NoRecurring, timed, {}))

\* whatever the status was
UpdateTaskStatus(id, status) == rows' = [rows EXCEPT ![id].status = status]

\* nudges_fired is emptied too; nothing ever fills it
RescheduleTask(id, timed) == rows' = [rows EXCEPT ![id].timed = timed]

InsertRecurring(days) == recurring' = Append(recurring, [active |-> TRUE, days |-> days])

\* soft: what was made from it stays in the plan
Deactivate(rid) == recurring' = [recurring EXCEPT ![rid].active = FALSE]

-----------------------------------------------------------------------------
(* the tools; the model may name any id *)

Calls(th) == hydrating[th] = NotHydrating

AddTask(th, timed) ==
  /\ Calls(th) /\ Len(rows) < MaxRows
  /\ AddDayTask(timed)
  /\ UNCHANGED <<recurring, today, hydrating>>

\* mark_task_done, mark_task_failed, remove_task
MarkTask(th, id, status) ==
  /\ Calls(th) /\ UpdateTaskStatus(id, status)
  /\ UNCHANGED <<recurring, today, hydrating>>

Reschedule(th, id, timed) ==
  /\ Calls(th) /\ RescheduleTask(id, timed)
  /\ UNCHANGED <<recurring, today, hydrating>>

DeleteRecurringTask(th, rid) ==
  /\ Calls(th) /\ Deactivate(rid)
  /\ UNCHANGED <<rows, today, hydrating>>

AddRecurringTask(th, days) ==
  /\ Calls(th) /\ Len(recurring) < MaxRecurring
  /\ InsertRecurring(days)
  /\ hydrating' = [hydrating EXCEPT ![th] = [pc |-> "called"]]
  /\ UNCHANGED <<rows, today>>

-----------------------------------------------------------------------------
(* hydrate_recurring *)

Step(th, h) == hydrating' = [hydrating EXCEPT ![th] = h]

ListActive(th) ==
  /\ hydrating[th].pc = "called"
  /\ Step(th, [pc |-> "going", on |-> today, new |-> <<>>, base |-> Len(rows),
               todo |-> {rid \in DOMAIN recurring : recurring[rid].active}])
  /\ UNCHANGED <<rows, recurring, today>>

\* mutant: a removed task does not count as made
MadeAndKept(date, rid) ==
  \E id \in DOMAIN rows : /\ rows[id].date = date /\ rows[id].rid = rid
                          /\ rows[id].status # "cancelled"

\* a row of any status, committed
Made(date, rid) == \E id \in DOMAIN rows : rows[id].date = date /\ rows[id].rid = rid

LookAt(th, rid) ==
  LET h == hydrating[th]
      applies == h.on \in recurring[rid].days
  IN /\ h.pc = "going" /\ rid \in h.todo
     /\ Step(th, [h EXCEPT !.todo = @ \ {rid},
                           !.new = IF applies /\ ~Made(h.on, rid) THEN Append(@, rid) ELSE @])
     /\ UNCHANGED <<rows, recurring, today>>

\* what the selects found missing is inserted when the transaction commits
Inserted(h) ==
  [i \in DOMAIN h.new |-> DayTask(h.on, h.new[i], TRUE, (h.base + 1)..Len(rows))]

Commit(th) ==
  LET h == hydrating[th]
  IN /\ h.pc = "going" /\ h.todo = {}
     /\ Len(rows) + Len(h.new) <= MaxRows
     /\ rows' = rows \o Inserted(h)
     /\ Step(th, NotHydrating)
     /\ UNCHANGED <<recurring, today>>

\* an exception; add_recurring_task passes over it
RollBack(th) ==
  /\ hydrating[th].pc = "going"
  /\ Step(th, NotHydrating)
  /\ UNCHANGED <<rows, recurring, today>>

-----------------------------------------------------------------------------
Midnight ==
  /\ today < PlanDays /\ today' = today + 1
  /\ UNCHANGED <<rows, recurring, hydrating>>

PlanCrash ==
  /\ hydrating' = [th \in ToolThreads |-> NotHydrating]
  /\ UNCHANGED <<rows, recurring, today>>

PlanNext ==
  \/ \E th \in ToolThreads :
       \/ \E timed \in BOOLEAN : AddTask(th, timed)
       \/ \E id \in DOMAIN rows :
            \/ \E status \in Statuses \ {"pending"} : MarkTask(th, id, status)
            \/ \E timed \in BOOLEAN : Reschedule(th, id, timed)
       \/ \E rid \in DOMAIN recurring : DeleteRecurringTask(th, rid) \/ LookAt(th, rid)
       \/ \E days \in Patterns : AddRecurringTask(th, days)
       \/ ListActive(th)
       \/ Commit(th)
       \/ RollBack(th)
  \/ Midnight
  \/ PlanCrash

PlanSpec == PlanInit /\ [][PlanNext]_planVars

-----------------------------------------------------------------------------
PlanTypeOK ==
  /\ \A id \in DOMAIN rows :
       rows[id] \in [date : 1..PlanDays, rid : 0..Len(recurring), timed : BOOLEAN,
                     status : Statuses, beside : SUBSET Nat]
  /\ \A rid \in DOMAIN recurring : recurring[rid] \in [active : BOOLEAN, days : Patterns]
  /\ today \in 1..PlanDays
  /\ \A th \in ToolThreads : hydrating[th].pc \in {"idle", "called", "going"}

\* A hydration never makes again what stood in the plan of its date when it
\* began, nor one task twice: a recurring task is in a date's plan once, and one
\* that was removed does not come back, through hydrations that are cut,
\* overtaken by midnight, or follow a removal or a deletion (state.py:47-98).
\* Only of two that overlap may both insert: the later has the other's row beside
\* its transaction.
RecurringOnce ==
  \A i, j \in DOMAIN rows :
    /\ i < j
    /\ rows[i].rid # NoRecurring /\ rows[i].rid = rows[j].rid /\ rows[i].date = rows[j].date
    => i \in rows[j].beside
=============================================================================
