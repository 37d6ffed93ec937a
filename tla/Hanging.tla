------------------------------ MODULE Hanging ------------------------------
(***************************************************************************)
(* The hanging_questions table and agent/hanging.py: questions waiting for *)
(* Lin (approval, ask_user, crash_resume) and the stashed history of a     *)
(* displaced queue run (session_displaced).  A row past its one-hour TTL   *)
(* is "stale" until the next sweep of its kind expires it.                 *)
(***************************************************************************)
EXTENDS Sessions

CONSTANT MaxHanging                   \* bound: rows created in one behaviour

ASSUME HangingAssumption == MaxHanging \in Nat

HangIds == 1..MaxHanging
NoHanging == 0
Questions == {"approval", "ask_user", "crash_resume"}   \* routing._KINDS
Kinds == Questions \cup {"session_displaced"}

\* sid is task_session_id, sids the session_ids of a crash_resume payload
HangRow == [kind : Kinds, sid : SessionIds \cup {NoSession},
            sids : SUBSET SessionIds, st : {"free", "fresh", "stale", "resolved"}]
HangingTable == [HangIds -> HangRow]

EmptyHanging ==
  [h \in HangIds |-> [kind |-> "approval", sid |-> NoSession, sids |-> {}, st |-> "free"]]

CanPost(hh) == \E h \in HangIds : hh[h].st = "free"

NextHanging(hh) ==
  CHOOSE h \in HangIds :
    /\ hh[h].st = "free"
    /\ \A g \in HangIds : g < h => hh[g].st # "free"

Post(hh, kind, sid, sids) ==
  [hh EXCEPT ![NextHanging(hh)] =
     [kind |-> kind, sid |-> sid, sids |-> sids, st |-> "fresh"]]

Pending(hh, kinds) ==
  {h \in HangIds : hh[h].st \in {"fresh", "stale"} /\ hh[h].kind \in kinds}

\* no look at the row's current status: resolving twice goes unnoticed
ResolveRow(hh, h) == [hh EXCEPT ![h].st = "resolved"]

Expired(hh, kinds) == {h \in Pending(hh, kinds) : hh[h].st = "stale"}

SweepRows(hh, kinds) ==
  [h \in HangIds |->
     IF h \in Expired(hh, kinds) THEN [hh[h] EXCEPT !.st = "resolved"] ELSE hh[h]]

\* mutant: the linked session is forgotten
SweepForgetsSession(ss, hh, kinds) == ss

\* every expired row fails the session it is linked to, whatever its status
SweepSessions(ss, hh, kinds) ==
  [s \in SessionIds |->
     IF \E h \in Expired(hh, kinds) : hh[h].sid = s
       THEN [ss[s] EXCEPT !.st = "failed"] ELSE ss[s]]

\* hanging.pending(kind): the newest survivor
Newest(hh, kind) ==
  IF Pending(hh, {kind}) = {} THEN NoHanging
  ELSE CHOOSE h \in Pending(hh, {kind}) : \A g \in Pending(hh, {kind}) : g <= h
=============================================================================
