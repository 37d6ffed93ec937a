------------------------------ MODULE Sessions ------------------------------
(***************************************************************************)
(* The task_sessions table (memory/db.py) behind agent/sessions.py.  A     *)
(* session store is a function from session ids to rows; every lifecycle   *)
(* call of agent/sessions.py is an operator from a store to a store.  A    *)
(* handler that makes several calls between two awaits nests them.         *)
(***************************************************************************)
EXTENDS Naturals, FiniteSets

CONSTANTS
  MaxSessions,   \* bound: sessions created in one behaviour
  Tags           \* resource tags (agent/resources.py), coarse and few

ASSUME SessionsAssumption == MaxSessions \in Nat /\ IsFiniteSet(Tags)

SessionIds == 1..MaxSessions
NoSession  == 0                       \* task_session_id=None

Blocked   == {"paused", "waiting_user", "waiting_dependency"}
Displaced == {"paused", "waiting_dependency"}
Terminal  == {"done", "failed", "cancelled"}
Status    == {"none", "active"} \cup Blocked \cup Terminal

Session == [st : Status, origin : {"chat", "queue"}, tags : SUBSET Tags]
SessionTable == [SessionIds -> Session]

NoRow == [st |-> "none", origin |-> "chat", tags |-> {}]
EmptySessions == [s \in SessionIds |-> NoRow]

\* ids are handed out in order and rows are never deleted
CanCreate(ss) == \E s \in SessionIds : ss[s].st = "none"

NextSession(ss) ==
  CHOOSE s \in SessionIds :
    /\ ss[s].st = "none"
    /\ \A r \in SessionIds : r < s => ss[r].st # "none"

Create(ss, st, origin, tags) ==
  [ss EXCEPT ![NextSession(ss)] = [st |-> st, origin |-> origin, tags |-> tags]]

SetStatus(ss, s, st) ==
  IF s = NoSession THEN ss ELSE [ss EXCEPT ![s].st = st]

\* unconditional writes: none of these looks at the status it overwrites
Pause(ss, s)    == SetStatus(ss, s, "paused")
WaitUser(ss, s) == SetStatus(ss, s, "waiting_user")
Complete(ss, s) == SetStatus(ss, s, "done")
Fail(ss, s)     == SetStatus(ss, s, "failed")
Cancel(ss, s)   == SetStatus(ss, s, "cancelled")

\* the two guarded calls, and the only ones that make a session active
Resumable(ss, s) == s # NoSession /\ ss[s].st \in Blocked
Resume(ss, s)    == IF Resumable(ss, s) THEN SetStatus(ss, s, "active") ELSE ss

ActivateWaiting(ss, s) ==
  IF ss[s].st = "waiting_dependency" THEN SetStatus(ss, s, "active") ELSE ss

Active(ss) == {s \in SessionIds : ss[s].st = "active"}
IsDisplaced(ss, s) == s # NoSession /\ ss[s].st \in Displaced
=============================================================================
