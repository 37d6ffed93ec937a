--------------------------- MODULE Owners_proofs ---------------------------
(***************************************************************************)
(* Who holds a session.  AgentCore's handlers and its tick take sessions   *)
(* up, put them down for a question, an alert or a crash, and pick them up *)
(* again, every one between its own awaits.  OwnersInv says that a chat    *)
(* session has one holder at a time: the message that drives it, the       *)
(* question that waits for Lin, or the list of sessions to resume.  An     *)
(* autonomous session is driven by the tick only, unless queue runs may    *)
(* ask Lin (QueueAsks): then it may be lent to the message that answers,   *)
(* and OwnersInv promises nothing about it but that no chat session is     *)
(* drawn in.  NoDoubleRun, QuestionHasWaiter and WaitingHasQuestion follow *)
(* where queue runs ask nothing, LinsTasksHold (Claims_proofs) also there. *)
(***************************************************************************)
EXTENDS AgentCore_proofs, FiniteSetTheorems

USE DEF Procs, NoSession, NoTask

\* a message inside an executor run or in what follows it for the same session
Working  == InLoop \cup {"approved", "reflect"}

\* the questions that keep a session waiting for Lin
AskKinds == {"approval", "ask_user"}

\* message m is at work on session s
Drives(rr, m, s) == rr[m].pc \in Working /\ rr[m].sid = s

\* an autonomous session's row
Autonomous(ss, s) == ss[s].origin = "queue" /\ ss[s].st # "none"

\* an autonomous session that may be lent to Lin's side: where queue runs ask her,
\* the message that answers drives it, beside the tick for all the code prevents
Loaned(ss, s) == QueueAsks /\ Autonomous(ss, s)

\* nobody holds session s: no run, no question, no crash_resume list
Free(hh, rr, s) ==
  /\ \A m \in Messages : ~Drives(rr, m, s) /\ s \notin rr[m].todo
  /\ \A h \in Pending(hh, AskKinds) : hh[h].sid # s
  /\ \A h \in Pending(hh, {"crash_resume"}) : s \notin hh[h].sids

\* session s can be taken up
Ready(ss, hh, rr, s) == Loaned(ss, s) \/ Free(hh, rr, s)

\* s is to be resumed after a crash
Parked(ss, rr, s) ==
  /\ ss[s].st = "paused" /\ ss[s].origin = "chat"
  /\ \A m \in Messages : ~Drives(rr, m, s)

\* one message drives a chat session, and its row is still that of a run
RunsHold(ss, rr) ==
  \A m \in Messages, s \in SessionIds : Drives(rr, m, s) =>
    \/ Loaned(ss, s)
    \/ /\ ss[s].origin = "chat" /\ ss[s].st \in {"active", "paused", "failed"}
       /\ \A n \in Messages : Drives(rr, n, s) => n = m

\* a question and the session that waits for it point to each other
AsksHold(ss, hh) ==
  /\ \A h \in Pending(hh, AskKinds) : hh[h].sid \in SessionIds =>
       \/ Loaned(ss, hh[h].sid)
       \/ /\ ss[hh[h].sid].st = "waiting_user" /\ ss[hh[h].sid].origin = "chat"
          /\ \A g \in Pending(hh, AskKinds) : hh[g].sid = hh[h].sid => g = h
  /\ \A s \in SessionIds : ss[s].st = "waiting_user" =>
       Loaned(ss, s) \/ \E h \in Pending(hh, AskKinds) : hh[h].sid = s

\* a session named by a crash_resume row rests, and no other row or list names it
CrashRowsHold(ss, hh, rr) ==
  \A h \in Pending(hh, {"crash_resume"}) :
    /\ hh[h].sid \in SessionIds => hh[h].sid \in hh[h].sids
    /\ \A s \in hh[h].sids :
         /\ Parked(ss, rr, s)
         /\ \A m \in Messages : s \notin rr[m].todo
         /\ \A g \in Pending(hh, {"crash_resume"}) : s \in hh[g].sids => g = h

\* a session on a message's list of crashed ones rests, and no other list names it
ListsHold(ss, rr) ==
  \A m \in Messages : \A s \in rr[m].todo :
    /\ Parked(ss, rr, s)
    /\ \A n \in Messages : s \in rr[n].todo => n = m

\* a stash belongs to an autonomous session
StashesHold(ss, hh) ==
  \A h \in Pending(hh, Stash) :
    hh[h].sid \in SessionIds /\ ss[hh[h].sid].origin = "queue" /\ ss[hh[h].sid].st # "none"

\* who holds which session, over the three tables and the coroutines
ChatInv(ss, hh, rr) ==
  /\ RunsHold(ss, rr) /\ AsksHold(ss, hh) /\ CrashRowsHold(ss, hh, rr)
  /\ ListsHold(ss, rr) /\ StashesHold(ss, hh)

\* the types of what ChatInv speaks of
Tables(ss, hh, rr) == ss \in SessionTable /\ hh \in HangingTable /\ rr \in [Procs -> Frame]

\* Rows of the tables
LEMMA Kinded ==
  \A hh : /\ Pending(hh, AskKinds) \subseteq HangIds
          /\ \A h \in Pending(hh, AskKinds) : h \notin Pending(hh, {"crash_resume"}) /\ h \notin Pending(hh, Stash)
          /\ \A h \in Pending(hh, {"crash_resume"}) : h \notin Pending(hh, Stash) /\ h \in HangIds
          /\ Pending(hh, Stash) \subseteq HangIds
          /\ \A h \in Pending(hh, Questions) : h \in Pending(hh, AskKinds) \/ h \in Pending(hh, {"crash_resume"})
BY DEF Pending, AskKinds, Stash, Questions

\* A frame's list and session have their types.
LEMMA FrameFields ==
  ASSUME NEW rr \in [Procs -> Frame], NEW m \in Procs
  PROVE  rr[m].todo \subseteq SessionIds /\ rr[m].sid \in SessionIds \cup {NoSession}
BY DEF Frame

\* A row no run, question or list holds, or an autonomous one, can be taken up.
LEMMA QueueIsReady ==
  ASSUME NEW ss, NEW hh, NEW rr, Tables(ss, hh, rr), ChatInv(ss, hh, rr), NEW s \in SessionIds,
         ss[s].origin = "queue" \/ ss[s].st \in {"none", "done", "cancelled"}
  PROVE  Ready(ss, hh, rr, s)
<1> SUFFICES ASSUME ~Loaned(ss, s) PROVE Free(hh, rr, s)
  BY DEF Ready
<1>1. \A m \in Messages : ~Drives(rr, m, s)
  BY DEF ChatInv, RunsHold
<1>2. \A m \in Messages : s \notin rr[m].todo
  BY DEF ChatInv, ListsHold, Parked
<1>3. \A h \in Pending(hh, AskKinds) : hh[h].sid # s
  BY DEF ChatInv, AsksHold
<1>4. \A h \in Pending(hh, {"crash_resume"}) : s \notin hh[h].sids
  BY DEF ChatInv, CrashRowsHold, Parked
<1> QED BY <1>1, <1>2, <1>3, <1>4 DEF Free

\* Writes to sessions that can be taken up, and pausing of chat sessions at work.
LEMMA FreeWrites ==
  ASSUME NEW ss, NEW hh, NEW rr, Tables(ss, hh, rr), ChatInv(ss, hh, rr), NEW ss2 \in SessionTable,
         \A s \in SessionIds :
           \/ ss2[s] = ss[s]
           \/ /\ Free(hh, rr, s) /\ ss2[s].st # "waiting_user"
              /\ Autonomous(ss, s) => Autonomous(ss2, s)
           \/ /\ ss[s].st = "active" /\ ss[s].origin = "chat"
              /\ ss2[s].st = "paused" /\ ss2[s].origin = "chat"
           \/ Loaned(ss, s) /\ Autonomous(ss2, s)
  PROVE  ChatInv(ss2, hh, rr)
<1>0. \A s \in SessionIds : Autonomous(ss, s) => Autonomous(ss2, s)
  BY DEF Autonomous
<1>1. ASSUME NEW s \in SessionIds, ~Free(hh, rr, s), ~Loaned(ss2, s)
      PROVE  /\ ~Loaned(ss, s)
             /\ \/ ss2[s] = ss[s]
                \/ /\ ss[s].st = "active" /\ ss[s].origin = "chat"
                   /\ ss2[s].st = "paused" /\ ss2[s].origin = "chat"
  BY <1>0, <1>1 DEF Loaned
<1>2. RunsHold(ss2, rr)
  <2> SUFFICES ASSUME NEW m \in Messages, NEW s \in SessionIds, Drives(rr, m, s), ~Loaned(ss2, s)
               PROVE  /\ ss2[s].origin = "chat" /\ ss2[s].st \in {"active", "paused", "failed"}
                      /\ \A n \in Messages : Drives(rr, n, s) => n = m
    BY DEF RunsHold
  <2>1. ~Free(hh, rr, s)
    BY DEF Free
  <2> QED BY <1>1, <2>1 DEF ChatInv, RunsHold
<1>3. AsksHold(ss2, hh)
  <2>1. ASSUME NEW h \in Pending(hh, AskKinds), hh[h].sid \in SessionIds, ~Loaned(ss2, hh[h].sid)
        PROVE  ss2[hh[h].sid] = ss[hh[h].sid] /\ ~Loaned(ss, hh[h].sid)
    <3>1. ~Free(hh, rr, hh[h].sid)
      BY DEF Free
    <3>2. ~Loaned(ss, hh[h].sid)
      BY <1>1, <2>1, <3>1
    <3>3. ss[hh[h].sid].st = "waiting_user"
      BY <2>1, <3>2 DEF ChatInv, AsksHold
    <3> QED BY <1>1, <2>1, <3>1, <3>2, <3>3
  <2>2. ASSUME NEW s \in SessionIds, ss2[s].st = "waiting_user", ~Loaned(ss2, s) PROVE ss2[s] = ss[s] /\ ~Loaned(ss, s)
    BY <1>0, <2>2 DEF Loaned
  <2> QED BY <2>1, <2>2 DEF ChatInv, AsksHold
<1>4. ASSUME NEW s \in SessionIds, Parked(ss, rr, s), ~Free(hh, rr, s) PROVE Parked(ss2, rr, s)
  <2>1. ~Autonomous(ss, s)
    BY <1>4 DEF Parked, Autonomous
  <2> QED BY <1>4, <2>1 DEF Parked, Loaned
<1>5. CrashRowsHold(ss2, hh, rr)
  <2> SUFFICES ASSUME NEW h \in Pending(hh, {"crash_resume"}), NEW s \in hh[h].sids PROVE Parked(ss2, rr, s)
    BY DEF ChatInv, CrashRowsHold
  <2>1. s \in SessionIds
    BY Kinded DEF Tables, HangingTable, HangRow
  <2>2. ~Free(hh, rr, s)
    BY DEF Free
  <2> QED BY <1>4, <2>1, <2>2 DEF ChatInv, CrashRowsHold
<1>6. ListsHold(ss2, rr)
  <2> SUFFICES ASSUME NEW m \in Messages, NEW s \in rr[m].todo PROVE Parked(ss2, rr, s)
    BY DEF ChatInv, ListsHold
  <2>1. s \in SessionIds
    BY FrameFields DEF Tables
  <2>2. ~Free(hh, rr, s)
    BY DEF Free
  <2> QED BY <1>4, <2>1, <2>2 DEF ChatInv, ListsHold
<1>7. StashesHold(ss2, hh)
  BY <1>0 DEF ChatInv, StashesHold, Autonomous
<1> QED BY <1>2, <1>3, <1>5, <1>6, <1>7 DEF ChatInv

\* A coroutine goes on with no more than it held.
LEMMA Moves ==
  ASSUME NEW ss, NEW hh, NEW rr, Tables(ss, hh, rr), ChatInv(ss, hh, rr),
         NEW m \in Messages, NEW g \in Frame, g.todo \subseteq rr[m].todo,
         g.pc \in Working /\ g.sid \in SessionIds => Drives(rr, m, g.sid)
  PROVE  /\ ChatInv(ss, hh, [rr EXCEPT ![m] = g])
         /\ \A s \in SessionIds : Free(hh, rr, s) => Free(hh, [rr EXCEPT ![m] = g], s)
         /\ \A s \in SessionIds : Drives(rr, m, s) /\ g.pc \notin Working => Ready(ss, hh, [rr EXCEPT ![m] = g], s)
         /\ \A s \in rr[m].todo \ g.todo : Free(hh, [rr EXCEPT ![m] = g], s)
<1> DEFINE r2 == [rr EXCEPT ![m] = g]
<1>1. /\ \A n \in Messages : n # m => r2[n] = rr[n]
      /\ r2[m] = g /\ m \in Procs
  BY DEF Tables
<1> HIDE DEF r2
<1>2. \A n \in Messages, s \in SessionIds : Drives(r2, n, s) => Drives(rr, n, s)
  BY <1>1 DEF Drives
<1>3. \A n \in Messages : r2[n].todo \subseteq rr[n].todo
  BY <1>1
<1>4. \A s \in SessionIds : Parked(ss, rr, s) => Parked(ss, r2, s)
  BY <1>2 DEF Parked
<1>5. ChatInv(ss, hh, r2)
  <2>1. RunsHold(ss, r2)
    BY <1>2 DEF ChatInv, RunsHold
  <2>2. CrashRowsHold(ss, hh, r2)
    <3>1. \A h \in Pending(hh, {"crash_resume"}) : hh[h].sids \subseteq SessionIds
      BY Kinded DEF Tables, HangingTable, HangRow
    <3> QED BY <1>3, <1>4, <3>1 DEF ChatInv, CrashRowsHold
  <2>3. ListsHold(ss, r2)
    <3>1. \A n \in Messages : rr[n].todo \subseteq SessionIds
      BY FrameFields DEF Tables
    <3> QED BY <1>3, <1>4, <3>1 DEF ChatInv, ListsHold
  <2> QED BY <2>1, <2>2, <2>3 DEF ChatInv
<1>6. \A s \in SessionIds : Free(hh, rr, s) => Free(hh, r2, s)
  BY <1>2, <1>3 DEF Free
<1>7. ASSUME NEW s \in SessionIds, Drives(rr, m, s), g.pc \notin Working PROVE Ready(ss, hh, r2, s)
  <2> SUFFICES ASSUME ~Loaned(ss, s) PROVE Free(hh, r2, s)
    BY DEF Ready
  <2>1. \A n \in Messages : ~Drives(r2, n, s)
    BY <1>1, <1>2, <1>7 DEF ChatInv, RunsHold, Drives
  <2>2. ss[s].st \in {"active", "paused", "failed"}
    BY <1>7 DEF ChatInv, RunsHold
  <2>3. \A h \in Pending(hh, AskKinds) : hh[h].sid # s
    BY <2>2 DEF ChatInv, AsksHold
  <2>4. ~Parked(ss, rr, s)
    BY <1>7 DEF Parked
  <2>5. \A h \in Pending(hh, {"crash_resume"}) : s \notin hh[h].sids
    BY <2>4 DEF ChatInv, CrashRowsHold
  <2>6. \A n \in Messages : s \notin rr[n].todo
    BY <2>4 DEF ChatInv, ListsHold
  <2> QED BY <1>3, <2>1, <2>3, <2>5, <2>6 DEF Free
<1>8. ASSUME NEW s \in rr[m].todo \ g.todo PROVE Free(hh, r2, s)
  <2>1. s \in SessionIds /\ Parked(ss, rr, s)
    BY FrameFields DEF Tables, ChatInv, ListsHold
  <2>2. \A n \in Messages : ~Drives(r2, n, s)
    BY <1>4, <2>1 DEF Parked
  <2>3. \A h \in Pending(hh, AskKinds) : hh[h].sid # s
    BY <2>1 DEF ChatInv, AsksHold, Parked, Loaned, Autonomous
  <2>4. \A h \in Pending(hh, {"crash_resume"}) : s \notin hh[h].sids
    BY DEF ChatInv, CrashRowsHold
  <2>5. \A n \in Messages : s \notin r2[n].todo
    BY <1>1, <1>3 DEF ChatInv, ListsHold
  <2> QED BY <2>2, <2>3, <2>4, <2>5 DEF Free
<1> QED BY <1>5, <1>6, <1>7, <1>8 DEF r2

\* A coroutine that works on nothing takes up a session nobody holds.
LEMMA Takes ==
  ASSUME NEW ss, NEW hh, NEW rr, Tables(ss, hh, rr), ChatInv(ss, hh, rr),
         NEW m \in Messages, NEW g \in Frame, g.todo = rr[m].todo, rr[m].pc \notin Working,
         g.sid \in SessionIds => \/ Loaned(ss, g.sid)
                                 \/ /\ Free(hh, rr, g.sid) /\ ss[g.sid].origin = "chat"
                                    /\ ss[g.sid].st \in {"active", "paused", "failed"}
  PROVE  ChatInv(ss, hh, [rr EXCEPT ![m] = g])
<1> DEFINE r2 == [rr EXCEPT ![m] = g]
<1>1. /\ \A n \in Messages : n # m => r2[n] = rr[n]
      /\ r2[m] = g /\ m \in Procs
  BY DEF Tables
<1> HIDE DEF r2
<1>2. \A n \in Messages, s \in SessionIds : Drives(r2, n, s) => (n = m /\ s = g.sid) \/ (n # m /\ Drives(rr, n, s))
  BY <1>1 DEF Drives
<1>3. \A n \in Messages : r2[n].todo = rr[n].todo
  BY <1>1
<1>4. \A s \in SessionIds : Parked(ss, rr, s) /\ s # g.sid => Parked(ss, r2, s)
  BY <1>2 DEF Parked
<1>5. RunsHold(ss, r2)
  <2> SUFFICES ASSUME NEW n \in Messages, NEW s \in SessionIds, Drives(r2, n, s), ~Loaned(ss, s)
               PROVE  /\ ss[s].origin = "chat" /\ ss[s].st \in {"active", "paused", "failed"}
                      /\ \A k \in Messages : Drives(r2, k, s) => k = n
    BY DEF RunsHold
  <2>1. CASE s = g.sid
    <3>1. \A k \in Messages : ~Drives(rr, k, s)
      BY <2>1 DEF Free
    <3> QED BY <1>2, <2>1, <3>1
  <2>2. CASE s # g.sid
    BY <1>2, <2>2 DEF ChatInv, RunsHold
  <2> QED BY <2>1, <2>2
<1>6. CrashRowsHold(ss, hh, r2)
  <2>1. \A h \in Pending(hh, {"crash_resume"}) : hh[h].sids \subseteq SessionIds
    BY Kinded DEF Tables, HangingTable, HangRow
  <2>2. \A h \in Pending(hh, {"crash_resume"}) : g.sid \in SessionIds => g.sid \notin hh[h].sids
    BY DEF Free, ChatInv, CrashRowsHold, Parked, Loaned, Autonomous
  <2>3. \A h \in Pending(hh, {"crash_resume"}) : \A s \in hh[h].sids : Parked(ss, r2, s)
    BY <1>4, <2>1, <2>2 DEF ChatInv, CrashRowsHold
  <2> QED BY <1>3, <2>3 DEF ChatInv, CrashRowsHold
<1>7. ListsHold(ss, r2)
  <2>1. \A n \in Messages : rr[n].todo \subseteq SessionIds
    BY FrameFields DEF Tables
  <2>2. \A n \in Messages : g.sid \in SessionIds => g.sid \notin rr[n].todo
    BY DEF Free, ChatInv, ListsHold, Parked, Loaned, Autonomous
  <2>3. \A n \in Messages : \A s \in rr[n].todo : Parked(ss, r2, s)
    BY <1>4, <2>1, <2>2 DEF ChatInv, ListsHold
  <2> QED BY <1>3, <2>3 DEF ChatInv, ListsHold
<1> QED BY <1>5, <1>6, <1>7 DEF ChatInv, r2

-----------------------------------------------------------------------------
(* The hanging rows *)

\* a table hh2 with some pending rows of hh resolved, the rest as they were
Resolves(hh, hh2, rows) ==
  \A h \in HangIds : IF h \in rows THEN hh2[h].st = "resolved" ELSE hh2[h] = hh[h]

\* Resolving rows takes them, and nothing else, from the pending ones.
LEMMA PendingAfter ==
  ASSUME NEW hh, NEW hh2, NEW rows, NEW kinds, Resolves(hh, hh2, rows)
  PROVE  /\ Pending(hh2, kinds) = Pending(hh, kinds) \ rows
         /\ \A h \in Pending(hh2, kinds) : hh2[h] = hh[h]
BY DEF Resolves, Pending

\* resolve closes one row.
LEMMA ResolvesRow ==
  ASSUME NEW hh \in HangingTable, NEW h \in HangIds
  PROVE  Resolves(hh, ResolveRow(hh, h), {h})
BY DEF Resolves, ResolveRow, HangingTable, HangRow

\* The sweep closes the rows that have expired.
LEMMA ResolvesSwept ==
  ASSUME NEW hh \in HangingTable, NEW kinds
  PROVE  Resolves(hh, SweepRows(hh, kinds), Expired(hh, kinds))
BY DEF Resolves, SweepRows, HangingTable, HangRow

\* Rows are handed out in order: the next one was never used.
LEMMA NextHangingFree ==
  ASSUME NEW hh \in HangingTable, CanPost(hh)
  PROVE  NextHanging(hh) \in HangIds /\ hh[NextHanging(hh)].st = "free"
<1> DEFINE Unused == {h \in HangIds : hh[h].st = "free"}
<1>1. Unused \subseteq Nat /\ Unused # {} /\ HangIds \subseteq Nat
  BY HangingAssumption DEF CanPost, HangIds
<1>2. PICK k \in Unused : \A h \in Unused : k <= h
  BY <1>1, LeastElement
<1>3. \A h \in HangIds : h < k => hh[h].st # "free"
  BY <1>1, <1>2
<1> QED BY <1>2, <1>3 DEF NextHanging

\* Questions are resolved and the sessions they alone held go on to another status.
LEMMA Resolved ==
  ASSUME NEW ss, NEW hh, NEW rr, Tables(ss, hh, rr), ChatInv(ss, hh, rr),
         NEW ss2 \in SessionTable, NEW hh2 \in HangingTable, NEW rows, Resolves(hh, hh2, rows),
         \A h \in rows \cap Pending(hh, AskKinds) :
           hh[h].sid \in SessionIds => Loaned(ss, hh[h].sid) \/ ss2[hh[h].sid].st # "waiting_user",
         \A s \in SessionIds :
           \/ ss2[s] = ss[s]
           \/ /\ ss2[s].origin = ss[s].origin /\ ss2[s].st \notin {"waiting_user", "none"}
              /\ \E h \in rows \cap Pending(hh, Kinds) : hh[h].sid = s
  PROVE  /\ ChatInv(ss2, hh2, rr)
         /\ \A s \in SessionIds : Free(hh, rr, s) => Free(hh2, rr, s)
         /\ \A h \in rows \cap Pending(hh, AskKinds) : hh[h].sid \in SessionIds => Ready(ss2, hh2, rr, hh[h].sid)
         /\ \A h \in rows \cap Pending(hh, {"crash_resume"}) : \A s \in hh[h].sids : Free(hh2, rr, s)
<1>1. \A kinds : /\ Pending(hh2, kinds) = Pending(hh, kinds) \ rows
                 /\ \A h \in Pending(hh2, kinds) : hh2[h] = hh[h]
  BY DEF Resolves, Pending
<1>2. \A h \in Pending(hh, Kinds) : h \in Pending(hh, AskKinds) \/ h \in Pending(hh, {"crash_resume"}) \/ h \in Pending(hh, Stash)
  BY DEF Pending, Kinds, Questions, AskKinds, Stash
<1>3. \A h \in Pending(hh, {"crash_resume"}) : hh[h].sids \subseteq SessionIds
  BY Kinded DEF Tables, HangingTable, HangRow
<1>0. \A s \in SessionIds : Loaned(ss, s) => Loaned(ss2, s)
  BY DEF Loaned, Autonomous
<1>20. \A s \in SessionIds : Parked(ss, rr, s) => ~Loaned(ss, s)
  BY DEF Parked, Loaned, Autonomous
\* a session that changes is held by a resolved row, and by nothing else
<1>4. ASSUME NEW s \in SessionIds, ss2[s] # ss[s], ~Loaned(ss, s)
      PROVE  /\ \A m \in Messages : ~Drives(rr, m, s) /\ s \notin rr[m].todo
             /\ \A h \in Pending(hh2, AskKinds) : hh[h].sid # s
             /\ \A h \in Pending(hh2, {"crash_resume"}) : s \notin hh[h].sids
  <2>1. PICK h \in rows \cap Pending(hh, Kinds) : hh[h].sid = s
    BY <1>4
  <2>2. CASE h \in Pending(hh, AskKinds)
    <3>1. ss[s].st = "waiting_user" /\ \A g \in Pending(hh, AskKinds) : hh[g].sid = s => g = h
      BY <1>4, <2>1, <2>2 DEF ChatInv, AsksHold
    <3>2. \A m \in Messages : ~Drives(rr, m, s)
      BY <1>4, <3>1 DEF ChatInv, RunsHold
    <3>3. ~Parked(ss, rr, s)
      BY <3>1 DEF Parked
    <3>4. \A m \in Messages : s \notin rr[m].todo
      BY <3>3 DEF ChatInv, ListsHold
    <3>5. \A g \in Pending(hh, {"crash_resume"}) : s \notin hh[g].sids
      BY <3>3 DEF ChatInv, CrashRowsHold
    <3> QED BY <1>1, <2>1, <3>1, <3>2, <3>4, <3>5
  <2>3. CASE h \in Pending(hh, {"crash_resume"})
    <3>1. s \in hh[h].sids
      BY <2>1, <2>3 DEF ChatInv, CrashRowsHold
    <3>2. /\ Parked(ss, rr, s) /\ \A m \in Messages : s \notin rr[m].todo
          /\ \A g \in Pending(hh, {"crash_resume"}) : s \in hh[g].sids => g = h
      BY <2>3, <3>1 DEF ChatInv, CrashRowsHold
    <3>3. \A g \in Pending(hh, AskKinds) : hh[g].sid # s
      BY <1>4, <3>2 DEF ChatInv, AsksHold, Parked
    <3> QED BY <1>1, <2>1, <3>2, <3>3 DEF Parked
  <2>4. CASE h \in Pending(hh, Stash)
    <3>1. ss[s].origin = "queue"
      BY <2>1, <2>4 DEF ChatInv, StashesHold
    <3>2. Free(hh, rr, s)
      BY <1>4, <3>1, QueueIsReady DEF Ready
    <3> QED BY <1>1, <3>2 DEF Free
  <2> QED BY <1>2, <2>1, <2>2, <2>3, <2>4
<1>5. RunsHold(ss2, rr)
  <2> SUFFICES ASSUME NEW m \in Messages, NEW s \in SessionIds, Drives(rr, m, s), ~Loaned(ss2, s)
               PROVE  /\ ss2[s].origin = "chat" /\ ss2[s].st \in {"active", "paused", "failed"}
                      /\ \A n \in Messages : Drives(rr, n, s) => n = m
    BY DEF RunsHold
  <2>1. ~Loaned(ss, s) /\ ss2[s] = ss[s]
    BY <1>0, <1>4
  <2> QED BY <2>1 DEF ChatInv, RunsHold
<1>6. \A s \in SessionIds : Parked(ss, rr, s) /\ ss2[s] = ss[s] => Parked(ss2, rr, s)
  BY DEF Parked
<1>7. AsksHold(ss2, hh2)
  <2>1. ASSUME NEW h \in Pending(hh2, AskKinds), hh2[h].sid \in SessionIds, ~Loaned(ss2, hh2[h].sid)
        PROVE  /\ ss2[hh2[h].sid].st = "waiting_user" /\ ss2[hh2[h].sid].origin = "chat"
               /\ \A g \in Pending(hh2, AskKinds) : hh2[g].sid = hh2[h].sid => g = h
    <3>1. h \in Pending(hh, AskKinds) /\ hh2[h] = hh[h] /\ ~Loaned(ss, hh[h].sid)
      BY <1>0, <1>1, <2>1
    <3>2. ss2[hh[h].sid] = ss[hh[h].sid]
      BY <1>4, <2>1, <3>1
    <3> QED BY <1>1, <2>1, <3>1, <3>2 DEF ChatInv, AsksHold
  <2>2. ASSUME NEW s \in SessionIds, ss2[s].st = "waiting_user", ~Loaned(ss2, s)
        PROVE  \E h \in Pending(hh2, AskKinds) : hh2[h].sid = s
    <3>1. ss2[s] = ss[s] /\ ~Loaned(ss, s)
      BY <1>0, <2>2
    <3>2. PICK h \in Pending(hh, AskKinds) : hh[h].sid = s
      BY <2>2, <3>1 DEF ChatInv, AsksHold
    <3>3. h \notin rows
      BY <2>2, <3>1, <3>2
    <3> QED BY <1>1, <3>2, <3>3
  <2> QED BY <2>1, <2>2 DEF AsksHold
<1>8. CrashRowsHold(ss2, hh2, rr)
  <2> SUFFICES ASSUME NEW h \in Pending(hh2, {"crash_resume"})
               PROVE  /\ hh2[h].sid \in SessionIds => hh2[h].sid \in hh2[h].sids
                      /\ \A s \in hh2[h].sids :
                           /\ Parked(ss2, rr, s)
                           /\ \A m \in Messages : s \notin rr[m].todo
                           /\ \A g \in Pending(hh2, {"crash_resume"}) : s \in hh2[g].sids => g = h
    BY DEF CrashRowsHold
  <2>1. h \in Pending(hh, {"crash_resume"}) /\ hh2[h] = hh[h]
    BY <1>1
  <2>3. \A s \in hh[h].sids : s \in SessionIds /\ Parked(ss, rr, s) /\ ~Loaned(ss, s)
    BY <1>3, <1>20, <2>1 DEF ChatInv, CrashRowsHold
  <2>2. \A s \in hh[h].sids : ss2[s] = ss[s]
    BY <1>4, <2>1, <2>3
  <2> QED BY <1>1, <1>3, <1>6, <2>1, <2>2, <2>3 DEF ChatInv, CrashRowsHold
<1>9. ListsHold(ss2, rr)
  <2>1. ASSUME NEW m \in Messages, NEW s \in rr[m].todo PROVE Parked(ss2, rr, s)
    <3>1. s \in SessionIds /\ Parked(ss, rr, s)
      BY FrameFields DEF Tables, ChatInv, ListsHold
    <3>2. ss2[s] = ss[s]
      BY <1>4, <1>20, <3>1
    <3> QED BY <1>6, <3>1, <3>2
  <2> QED BY <2>1 DEF ChatInv, ListsHold
<1>10. StashesHold(ss2, hh2)
  BY <1>1 DEF ChatInv, StashesHold
<1>11. \A s \in SessionIds : Free(hh, rr, s) => Free(hh2, rr, s)
  BY <1>1 DEF Free
<1>12. ASSUME NEW h \in rows \cap Pending(hh, AskKinds), hh[h].sid \in SessionIds
       PROVE  Ready(ss2, hh2, rr, hh[h].sid)
  <2> SUFFICES ASSUME ~Loaned(ss2, hh[h].sid) PROVE Free(hh2, rr, hh[h].sid)
    BY DEF Ready
  <2>1. ~Loaned(ss, hh[h].sid)
    BY <1>0, <1>12
  <2>2. ss[hh[h].sid].st = "waiting_user" /\ ss2[hh[h].sid] # ss[hh[h].sid]
    BY <1>12, <2>1 DEF ChatInv, AsksHold
  <2> QED BY <1>1, <1>4, <1>12, <2>1, <2>2 DEF Free
<1>13. ASSUME NEW h \in rows \cap Pending(hh, {"crash_resume"}), NEW s \in hh[h].sids
       PROVE  Free(hh2, rr, s)
  <2>1. /\ Parked(ss, rr, s) /\ \A m \in Messages : s \notin rr[m].todo
        /\ \A g \in Pending(hh, {"crash_resume"}) : s \in hh[g].sids => g = h
    BY DEF ChatInv, CrashRowsHold
  <2>2. s \in SessionIds
    BY <1>3
  <2>3. \A g \in Pending(hh, AskKinds) : hh[g].sid # s
    BY <1>20, <2>1, <2>2 DEF ChatInv, AsksHold, Parked
  <2> QED BY <1>1, <2>1, <2>3 DEF Free, Parked
<1> QED BY <1>5, <1>7, <1>8, <1>9, <1>10, <1>11, <1>12, <1>13 DEF ChatInv

\* The sweep of hanging.pending.
LEMMA Sweeps ==
  ASSUME NEW ss, NEW hh, NEW rr, Tables(ss, hh, rr), ChatInv(ss, hh, rr), NEW kinds \in SUBSET Kinds
  PROVE  /\ ChatInv(SweepSessions(ss, hh, kinds), SweepRows(hh, kinds), rr)
         /\ Tables(SweepSessions(ss, hh, kinds), SweepRows(hh, kinds), rr)
<1>1. Tables(SweepSessions(ss, hh, kinds), SweepRows(hh, kinds), rr)
  BY SweepSessionsType, HangingUpdateType DEF Tables
<1>2. Resolves(hh, SweepRows(hh, kinds), Expired(hh, kinds))
  BY ResolvesSwept DEF Tables
<1>3. Expired(hh, kinds) \subseteq Pending(hh, Kinds)
  BY DEF Expired, Pending
<1>4. \A s \in SessionIds :
        \/ SweepSessions(ss, hh, kinds)[s] = ss[s]
        \/ /\ SweepSessions(ss, hh, kinds)[s].st = "failed"
           /\ SweepSessions(ss, hh, kinds)[s].origin = ss[s].origin
           /\ \E h \in Expired(hh, kinds) : hh[h].sid = s
  BY DEF SweepSessions, Tables, SessionTable, Session
<1>5. \A h \in Expired(hh, kinds) : hh[h].sid \in SessionIds =>
        SweepSessions(ss, hh, kinds)[hh[h].sid].st = "failed"
  BY DEF SweepSessions, Tables, SessionTable, Session
<1>6. \A h \in Expired(hh, kinds) \cap Pending(hh, AskKinds) : hh[h].sid \in SessionIds =>
        Loaned(ss, hh[h].sid) \/ SweepSessions(ss, hh, kinds)[hh[h].sid].st # "waiting_user"
  BY <1>5
<1>7. \A s \in SessionIds :
        \/ SweepSessions(ss, hh, kinds)[s] = ss[s]
        \/ /\ SweepSessions(ss, hh, kinds)[s].origin = ss[s].origin
           /\ SweepSessions(ss, hh, kinds)[s].st \notin {"waiting_user", "none"}
           /\ \E h \in Expired(hh, kinds) \cap Pending(hh, Kinds) : hh[h].sid = s
  BY <1>3, <1>4
<1> QED BY <1>1, <1>2, <1>6, <1>7, Resolved DEF Tables

\* A session that can be taken up becomes a waiting one with its question.
LEMMA Asks ==
  ASSUME NEW ss, NEW hh, NEW rr, Tables(ss, hh, rr), ChatInv(ss, hh, rr), CanPost(hh),
         NEW kind \in AskKinds, NEW s \in SessionIds \cup {NoSession},
         s \in SessionIds => Loaned(ss, s) \/ (Free(hh, rr, s) /\ ss[s].origin = "chat")
  PROVE  /\ ChatInv(WaitUser(ss, s), Post(hh, kind, s, {}), rr)
         /\ Tables(WaitUser(ss, s), Post(hh, kind, s, {}), rr)
<1> DEFINE n   == NextHanging(hh)
           s2  == WaitUser(ss, s)
           h2  == Post(hh, kind, s, {})
<1>1. Tables(s2, h2, rr)
  BY LifecycleType, PostType DEF Tables, AskKinds, Kinds, Questions
<1>2. n \in HangIds /\ hh[n].st = "free"
  BY NextHangingFree DEF Tables
<1>3. h2[n].kind = kind /\ h2[n].sid = s /\ h2[n].st = "fresh" /\ \A h \in HangIds \ {n} : h2[h] = hh[h]
  BY <1>2 DEF Post, Tables, HangingTable
<1>4. \A r \in SessionIds : r # s => s2[r] = ss[r]
  BY DEF WaitUser, SetStatus, Tables, SessionTable
<1>5. s \in SessionIds => s2[s].st = "waiting_user" /\ s2[s].origin = ss[s].origin
  BY DEF WaitUser, SetStatus, Tables, SessionTable, Session, SessionIds
<1> HIDE DEF n, s2, h2
<1>6. Pending(h2, AskKinds) = Pending(hh, AskKinds) \cup {n} /\ n \notin Pending(hh, AskKinds)
  BY <1>2, <1>3 DEF Pending
<1>7. \A kinds : kind \notin kinds => Pending(h2, kinds) = Pending(hh, kinds) /\ n \notin Pending(hh, kinds)
  BY <1>2, <1>3 DEF Pending
<1>8. kind \notin {"crash_resume"} /\ kind \notin Stash
  BY DEF AskKinds, Stash
<1>9. \A r \in SessionIds : /\ Autonomous(ss, r) => Autonomous(s2, r)
                            /\ Loaned(ss, r) => Loaned(s2, r)
                            /\ Autonomous(ss, r) /\ s2[r] # ss[r] => Loaned(ss, r)
  BY <1>4, <1>5 DEF Autonomous, Loaned
<1>16. s \in SessionIds /\ ~Loaned(s2, s) => Free(hh, rr, s) /\ s2[s].origin = "chat"
  BY <1>5, <1>9
<1>10. RunsHold(s2, rr)
  <2> SUFFICES ASSUME NEW m \in Messages, NEW r \in SessionIds, Drives(rr, m, r), ~Loaned(s2, r)
               PROVE  /\ s2[r].origin = "chat" /\ s2[r].st \in {"active", "paused", "failed"}
                      /\ \A k \in Messages : Drives(rr, k, r) => k = m
    BY DEF RunsHold
  <2>1. r # s
    BY <1>16 DEF Free
  <2> QED BY <1>4, <1>9, <2>1 DEF ChatInv, RunsHold
<1>11. AsksHold(s2, h2)
  <2>1. \A h \in Pending(hh, AskKinds) : h2[h] = hh[h]
    BY <1>3, <1>6, Kinded
  <2>2. \A h \in Pending(hh, AskKinds) : hh[h].sid \in SessionIds /\ ~Loaned(s2, hh[h].sid) => hh[h].sid # s
    BY <1>16 DEF Free
  <2>3. \A h \in Pending(hh, AskKinds) : hh[h].sid \in SessionIds /\ ~Loaned(s2, hh[h].sid) =>
          s2[hh[h].sid] = ss[hh[h].sid] /\ ~Loaned(ss, hh[h].sid)
    BY <1>4, <1>9, <2>2
  <2>4. ASSUME NEW h \in Pending(h2, AskKinds), h2[h].sid \in SessionIds, ~Loaned(s2, h2[h].sid)
        PROVE  /\ s2[h2[h].sid].st = "waiting_user" /\ s2[h2[h].sid].origin = "chat"
               /\ \A g \in Pending(h2, AskKinds) : h2[g].sid = h2[h].sid => g = h
    <3>1. CASE h = n
      <4>1. s \in SessionIds /\ h2[h].sid = s /\ ~Loaned(s2, s)
        BY <1>3, <2>4, <3>1
      <4> QED BY <1>5, <1>6, <1>16, <2>1, <2>2, <2>4, <3>1, <4>1
    <3>2. CASE h # n
      <4>1. h \in Pending(hh, AskKinds) /\ h2[h].sid = hh[h].sid /\ hh[h].sid # s
        BY <1>6, <2>1, <2>2, <2>4, <3>2
      <4> QED BY <1>3, <1>6, <2>1, <2>3, <2>4, <4>1 DEF ChatInv, AsksHold
    <3> QED BY <3>1, <3>2
  <2>5. ASSUME NEW r \in SessionIds, s2[r].st = "waiting_user", ~Loaned(s2, r)
        PROVE  \E h \in Pending(h2, AskKinds) : h2[h].sid = r
    <3>1. CASE r = s
      BY <1>3, <1>6, <3>1
    <3>2. CASE r # s
      BY <1>4, <1>6, <1>9, <2>1, <2>5, <3>2 DEF ChatInv, AsksHold
    <3> QED BY <3>1, <3>2
  <2> QED BY <2>4, <2>5 DEF AsksHold
<1>17. \A r \in SessionIds : Parked(ss, rr, r) => ~Loaned(ss, r)
  BY DEF Parked, Loaned, Autonomous
<1>12. \A r \in SessionIds : Parked(ss, rr, r) /\ r # s => Parked(s2, rr, r)
  BY <1>4 DEF Parked
<1>13. CrashRowsHold(s2, h2, rr)
  <2>1. \A h \in Pending(hh, {"crash_resume"}) : h2[h] = hh[h] /\ hh[h].sids \subseteq SessionIds
    BY <1>3, <1>7, <1>8, Kinded DEF Tables, HangingTable, HangRow
  <2>2. \A h \in Pending(hh, {"crash_resume"}) : s \notin hh[h].sids
    BY <1>17, <2>1 DEF Free, ChatInv, CrashRowsHold
  <2>3. Pending(h2, {"crash_resume"}) = Pending(hh, {"crash_resume"})
    BY <1>7, <1>8
  <2>4. \A h \in Pending(hh, {"crash_resume"}) : \A r \in hh[h].sids : Parked(s2, rr, r)
    BY <1>12, <2>1, <2>2 DEF ChatInv, CrashRowsHold
  <2> QED BY <2>1, <2>3, <2>4 DEF ChatInv, CrashRowsHold
<1>14. ListsHold(s2, rr)
  <2>0. \A m \in Messages : rr[m].todo \subseteq SessionIds
    BY FrameFields DEF Tables
  <2>1. \A m \in Messages : rr[m].todo \subseteq SessionIds /\ s \notin rr[m].todo
    BY <1>17, <2>0 DEF Free, ChatInv, ListsHold
  <2> QED BY <1>12, <2>1 DEF ChatInv, ListsHold
<1>15. StashesHold(s2, h2)
  <2>1. \A h \in Pending(hh, Stash) : h2[h] = hh[h]
    BY <1>3, <1>7, <1>8, Kinded
  <2>2. Pending(h2, Stash) = Pending(hh, Stash)
    BY <1>7, <1>8
  <2> QED BY <1>9, <2>1, <2>2 DEF ChatInv, StashesHold, Autonomous
<1> QED BY <1>1, <1>10, <1>11, <1>13, <1>14, <1>15 DEF ChatInv, s2, h2

\* What a new row of hanging_questions adds to the pending ones.
LEMMA PostedRow ==
  ASSUME NEW hh \in HangingTable, CanPost(hh), NEW kind, NEW sid, NEW sids
  PROVE  \E n \in HangIds :
           /\ hh[n].st = "free"
           /\ Post(hh, kind, sid, sids)[n] = [kind |-> kind, sid |-> sid, sids |-> sids, st |-> "fresh"]
           /\ \A h \in HangIds \ {n} : Post(hh, kind, sid, sids)[h] = hh[h]
           /\ \A kinds : /\ n \notin Pending(hh, kinds)
                         /\ Pending(Post(hh, kind, sid, sids), kinds) =
                              IF kind \in kinds THEN Pending(hh, kinds) \cup {n} ELSE Pending(hh, kinds)
<1> DEFINE n  == NextHanging(hh)
           h2 == Post(hh, kind, sid, sids)
<1>1. n \in HangIds /\ hh[n].st = "free"
  BY NextHangingFree
<1>2. h2[n] = [kind |-> kind, sid |-> sid, sids |-> sids, st |-> "fresh"] /\ \A h \in HangIds \ {n} : h2[h] = hh[h]
  BY <1>1 DEF Post, HangingTable
<1> HIDE DEF n, h2
<1>3. \A kinds : /\ n \notin Pending(hh, kinds)
                 /\ Pending(h2, kinds) = IF kind \in kinds THEN Pending(hh, kinds) \cup {n} ELSE Pending(hh, kinds)
  BY <1>1, <1>2 DEF Pending
<1> QED BY <1>1, <1>2, <1>3 DEF h2

\* A queue run's history is stashed.
LEMMA Stashes ==
  ASSUME NEW ss, NEW hh, NEW rr, Tables(ss, hh, rr), ChatInv(ss, hh, rr), CanPost(hh),
         NEW s \in SessionIds, NEW none \in SUBSET SessionIds, ss[s].origin = "queue", ss[s].st # "none"
  PROVE  ChatInv(ss, Post(hh, "session_displaced", s, none), rr)
<1> DEFINE h2 == Post(hh, "session_displaced", s, none)
<1>0. hh \in HangingTable
  BY DEF Tables
<1>1. PICK n \in HangIds :
        /\ hh[n].st = "free"
        /\ h2[n] = [kind |-> "session_displaced", sid |-> s, sids |-> none, st |-> "fresh"]
        /\ \A h \in HangIds \ {n} : h2[h] = hh[h]
        /\ \A kinds : /\ n \notin Pending(hh, kinds)
                      /\ Pending(h2, kinds) =
                           IF "session_displaced" \in kinds THEN Pending(hh, kinds) \cup {n} ELSE Pending(hh, kinds)
  BY <1>0, PostedRow
<1> HIDE DEF h2
<1>2. \A kinds : \A h \in Pending(hh, kinds) : h2[h] = hh[h]
  BY <1>1 DEF Pending
<1>3. Pending(h2, AskKinds) = Pending(hh, AskKinds) /\ Pending(h2, {"crash_resume"}) = Pending(hh, {"crash_resume"})
  BY <1>1 DEF AskKinds
<1>4. Pending(h2, Stash) = Pending(hh, Stash) \cup {n}
  BY <1>1 DEF Stash
<1>5. AsksHold(ss, h2)
  BY <1>2, <1>3 DEF ChatInv, AsksHold
<1>6. CrashRowsHold(ss, h2, rr)
  BY <1>2, <1>3 DEF ChatInv, CrashRowsHold
<1>7. StashesHold(ss, h2)
  BY <1>1, <1>2, <1>4 DEF ChatInv, StashesHold
<1> QED BY <1>5, <1>6, <1>7 DEF ChatInv, h2

\* Lin is asked about chat sessions nobody holds.
LEMMA AsksAfterCrash ==
  ASSUME NEW ss, NEW hh, NEW rr, Tables(ss, hh, rr), ChatInv(ss, hh, rr), CanPost(hh),
         NEW sids \in SUBSET SessionIds, NEW sid \in sids \cup {NoSession},
         \A s \in sids : Free(hh, rr, s) /\ ss[s].st = "paused" /\ ss[s].origin = "chat"
  PROVE  ChatInv(ss, Post(hh, "crash_resume", sid, sids), rr)
<1> DEFINE h2 == Post(hh, "crash_resume", sid, sids)
<1>1. PICK n \in HangIds :
        /\ h2[n] = [kind |-> "crash_resume", sid |-> sid, sids |-> sids, st |-> "fresh"]
        /\ \A h \in HangIds \ {n} : h2[h] = hh[h]
        /\ \A kinds : /\ n \notin Pending(hh, kinds)
                      /\ Pending(h2, kinds) =
                           IF "crash_resume" \in kinds THEN Pending(hh, kinds) \cup {n} ELSE Pending(hh, kinds)
  BY PostedRow DEF Tables
<1> HIDE DEF h2
<1>2. \A kinds : \A h \in Pending(hh, kinds) : h2[h] = hh[h]
  BY <1>1 DEF Pending
<1>3. Pending(h2, AskKinds) = Pending(hh, AskKinds) /\ Pending(h2, Stash) = Pending(hh, Stash)
  BY <1>1 DEF AskKinds, Stash
<1>4. Pending(h2, {"crash_resume"}) = Pending(hh, {"crash_resume"}) \cup {n} /\ n \notin Pending(hh, {"crash_resume"})
  BY <1>1
<1>5. AsksHold(ss, h2)
  BY <1>2, <1>3 DEF ChatInv, AsksHold
<1>6. \A s \in sids : Parked(ss, rr, s) /\ \A m \in Messages : s \notin rr[m].todo
  BY DEF Free, Parked
<1>7. \A h \in Pending(hh, {"crash_resume"}) : h2[h] = hh[h] /\ \A s \in sids : s \notin hh[h].sids
  BY <1>2 DEF Free
<1>8. h2[n].sid = sid /\ h2[n].sids = sids
  BY <1>1
<1>9. CrashRowsHold(ss, h2, rr)
  <2> SUFFICES ASSUME NEW h \in Pending(h2, {"crash_resume"})
               PROVE  /\ h2[h].sid \in SessionIds => h2[h].sid \in h2[h].sids
                      /\ \A s \in h2[h].sids :
                           /\ Parked(ss, rr, s)
                           /\ \A m \in Messages : s \notin rr[m].todo
                           /\ \A g \in Pending(h2, {"crash_resume"}) : s \in h2[g].sids => g = h
    BY DEF CrashRowsHold
  <2>1. CASE h = n
    <3>1. sid \in SessionIds => sid \in sids
      BY DEF SessionIds
    <3> QED BY <1>4, <1>6, <1>7, <1>8, <2>1, <3>1
  <2>2. CASE h # n
    <3>1. h \in Pending(hh, {"crash_resume"})
      BY <1>4, <2>2
    <3> QED BY <1>4, <1>7, <1>8, <3>1 DEF ChatInv, CrashRowsHold
  <2> QED BY <2>1, <2>2
<1>10. StashesHold(ss, h2)
  BY <1>2, <1>3 DEF ChatInv, StashesHold
<1> QED BY <1>5, <1>9, <1>10 DEF ChatInv, h2

\* Pending rows that only grow older hold what they held.
LEMMA Ages ==
  ASSUME NEW ss, NEW hh, NEW rr, Tables(ss, hh, rr), ChatInv(ss, hh, rr), NEW h2 \in HangingTable,
         \A kinds : Pending(h2, kinds) = Pending(hh, kinds),
         \A h \in HangIds : h2[h].sid = hh[h].sid /\ h2[h].sids = hh[h].sids
  PROVE  ChatInv(ss, h2, rr)
<1>1. \A kinds : Pending(hh, kinds) \subseteq HangIds
  BY DEF Pending
<1>2. AsksHold(ss, h2)
  BY <1>1 DEF ChatInv, AsksHold
<1>3. CrashRowsHold(ss, h2, rr)
  BY <1>1 DEF ChatInv, CrashRowsHold
<1>4. StashesHold(ss, h2)
  BY <1>1 DEF ChatInv, StashesHold
<1> QED BY <1>2, <1>3, <1>4 DEF ChatInv

-----------------------------------------------------------------------------
(* Coroutines other than those of messages; sessions *)

\* The tick holds no chat session.
LEMMA TickMoves ==
  ASSUME NEW ss, NEW hh, NEW rr, ChatInv(ss, hh, rr), NEW r2, \A m \in Messages : r2[m] = rr[m]
  PROVE  ChatInv(ss, hh, r2)
<1>1. \A m \in Messages : \A s : Drives(r2, m, s) <=> Drives(rr, m, s)
  BY DEF Drives
<1>2. \A s : Parked(ss, rr, s) <=> Parked(ss, r2, s)
  BY <1>1 DEF Parked
<1> QED BY <1>1, <1>2 DEF ChatInv, RunsHold, CrashRowsHold, ListsHold

\* With the process, everything its coroutines held is let go.
LEMMA Rests ==
  ASSUME NEW ss, NEW hh, NEW rr, ChatInv(ss, hh, rr), NEW r2,
         \A m \in Messages : r2[m].pc \notin Working /\ r2[m].todo = {}
  PROVE  ChatInv(ss, hh, r2)
<1>1. \A m \in Messages : \A s : ~Drives(r2, m, s)
  BY DEF Drives
<1>2. \A s : Parked(ss, rr, s) => Parked(ss, r2, s)
  BY <1>1 DEF Parked
<1> QED BY <1>1, <1>2 DEF ChatInv, RunsHold, CrashRowsHold, ListsHold

\* set_status writes one column of one row.
LEMMA StatusWrite ==
  ASSUME NEW ss \in SessionTable, NEW s \in SessionIds, NEW st
  PROVE  /\ SetStatus(ss, s, st)[s].st = st /\ SetStatus(ss, s, st)[s].origin = ss[s].origin
         /\ \A r \in SessionIds : r # s => SetStatus(ss, s, st)[r] = ss[r]
BY DEF SetStatus, SessionTable, Session, SessionIds

\* Ids are handed out in order: the next one was never used.
LEMMA NextSessionUnused ==
  ASSUME NEW ss \in SessionTable, CanCreate(ss)
  PROVE  NextSession(ss) \in SessionIds /\ ss[NextSession(ss)].st = "none"
<1> DEFINE Unused == {s \in SessionIds : ss[s].st = "none"}
<1>1. Unused \subseteq Nat /\ Unused # {}
  BY SessionIdsAreNat DEF CanCreate
<1>2. PICK k \in Unused : \A s \in Unused : k <= s
  BY <1>1, LeastElement
<1>3. \A r \in SessionIds : r < k => ss[r].st # "none"
  BY <1>2, SessionIdsAreNat
<1> QED BY <1>2, <1>3 DEF NextSession

\* What a chat task's start does to the sessions: a new row, older chat work
\* paused, some queue work displaced.
LEMMA ChatStart ==
  ASSUME NEW ss \in SessionTable, CanCreate(ss), NEW tags \in SUBSET Tags
  PROVE  /\ StartChat(ss, tags)[NextSession(ss)].st = "active"
         /\ StartChat(ss, tags)[NextSession(ss)].origin = "chat"
         /\ \A r \in SessionIds : r # NextSession(ss) =>
              \/ StartChat(ss, tags)[r] = ss[r]
              \/ /\ ss[r].st = "active" /\ ss[r].origin = "chat"
                 /\ StartChat(ss, tags)[r].st = "paused" /\ StartChat(ss, tags)[r].origin = "chat"
              \/ /\ ss[r].st = "active" /\ ss[r].origin = "queue"
                 /\ StartChat(ss, tags)[r].st \in Displaced /\ StartChat(ss, tags)[r].origin = "queue"
<1> DEFINE blocked   == Conflicts(ss, tags, QueueActives(ss))
           remaining == QueueActives(ss) \ blocked
           evicted   == IF 1 + Cardinality(remaining) > MaxConcurrent THEN remaining ELSE {}
           settled   == [s \in SessionIds |->
                           IF s \in ChatActives(ss) \cup evicted
                             THEN [ss[s] EXCEPT !.st = "paused"]
                           ELSE IF s \in blocked
                             THEN [ss[s] EXCEPT !.st = "waiting_dependency"]
                           ELSE ss[s]]
<1>1. blocked \subseteq QueueActives(ss) /\ evicted \subseteq QueueActives(ss)
  BY DEF Conflicts
<1>2. StartChat(ss, tags) = Create(settled, "active", "chat", tags)
  BY DEF StartChat
<1> HIDE DEF blocked, evicted
<1>3. \A r \in SessionIds :
        \/ settled[r] = ss[r]
        \/ /\ ss[r].st = "active" /\ ss[r].origin = "chat"
           /\ settled[r].st = "paused" /\ settled[r].origin = "chat"
        \/ /\ ss[r].st = "active" /\ ss[r].origin = "queue"
           /\ settled[r].st \in Displaced /\ settled[r].origin = "queue"
  BY <1>1 DEF ChatActives, QueueActives, Active, SessionTable, Session, Displaced
<1>4. DOMAIN settled = SessionIds
  OBVIOUS
<1> HIDE DEF settled
<1>5. \A r \in SessionIds : settled[r].st = "none" <=> ss[r].st = "none"
  BY <1>3 DEF Displaced
<1>6. NextSession(settled) = NextSession(ss)
  BY <1>5 DEF NextSession
<1>7. NextSession(ss) \in SessionIds
  BY NextSessionType
<1>8. StartChat(ss, tags)[NextSession(ss)] = [st |-> "active", origin |-> "chat", tags |-> tags]
      /\ \A r \in SessionIds : r # NextSession(ss) => StartChat(ss, tags)[r] = settled[r]
  BY <1>2, <1>4, <1>6, <1>7 DEF Create
<1> QED BY <1>3, <1>8

\* A new chat session is held by nobody, and its start leaves all held as they were.
LEMMA ChatStarts ==
  ASSUME NEW ss, NEW hh, NEW rr, Tables(ss, hh, rr), ChatInv(ss, hh, rr), CanCreate(ss), NEW tags \in SUBSET Tags
  PROVE  /\ ChatInv(StartChat(ss, tags), hh, rr) /\ Tables(StartChat(ss, tags), hh, rr)
         /\ Free(hh, rr, NextSession(ss))
<1> DEFINE s  == NextSession(ss)
           s2 == StartChat(ss, tags)
<1>1. s \in SessionIds /\ ss[s].st = "none" /\ s2 \in SessionTable
  BY NextSessionUnused, StartChatType DEF Tables
<1>2. /\ s2[s].st = "active" /\ s2[s].origin = "chat"
      /\ \A r \in SessionIds : r # s =>
              \/ s2[r] = ss[r]
              \/ /\ ss[r].st = "active" /\ ss[r].origin = "chat"
                 /\ s2[r].st = "paused" /\ s2[r].origin = "chat"
              \/ /\ ss[r].st = "active" /\ ss[r].origin = "queue"
                 /\ s2[r].st \in Displaced /\ s2[r].origin = "queue"
  BY ChatStart DEF Tables
<1> HIDE DEF s, s2
<1>3. Free(hh, rr, s)
  BY <1>1, QueueIsReady DEF Ready, Loaned, Autonomous
<1>4. \A r \in SessionIds : ss[r].origin = "queue" => Loaned(ss, r) \/ Free(hh, rr, r)
  BY QueueIsReady DEF Ready
<1>6. \A r \in SessionIds : /\ ss[r].st = "active" /\ ss[r].origin = "queue"
                            /\ s2[r].st \in Displaced /\ s2[r].origin = "queue"
                            => Autonomous(s2, r) /\ s2[r].st # "waiting_user"
  BY DEF Autonomous, Displaced
<1>7. ~Autonomous(ss, s) /\ s2[s].st # "waiting_user"
  BY <1>1, <1>2 DEF Autonomous
<1>8. ASSUME NEW r \in SessionIds
      PROVE  \/ s2[r] = ss[r]
             \/ /\ Free(hh, rr, r) /\ s2[r].st # "waiting_user"
                /\ Autonomous(ss, r) => Autonomous(s2, r)
             \/ /\ ss[r].st = "active" /\ ss[r].origin = "chat"
                /\ s2[r].st = "paused" /\ s2[r].origin = "chat"
             \/ Loaned(ss, r) /\ Autonomous(s2, r)
  BY <1>2, <1>3, <1>4, <1>6, <1>7
<1>5. ChatInv(s2, hh, rr)
  BY <1>1, <1>8, FreeWrites
<1> QED BY <1>1, <1>3, <1>5 DEF Tables, s, s2

\* What a queue session's creation does.
LEMMA QueueStart ==
  ASSUME NEW ss \in SessionTable, CanCreate(ss), NEW tags \in SUBSET Tags
  PROVE  /\ StartQueue(ss, tags)[NextSession(ss)].st \in {"active", "waiting_dependency"}
         /\ StartQueue(ss, tags)[NextSession(ss)].origin = "queue"
         /\ \A r \in SessionIds : r # NextSession(ss) => StartQueue(ss, tags)[r] = ss[r]
<1>1. NextSession(ss) \in SessionIds
  BY NextSessionType
<1> QED BY <1>1 DEF StartQueue, Create, SessionTable

-----------------------------------------------------------------------------
(* Routing: the snapshot a message chooses its question from *)

\* no question is lost, nothing resolved comes back
Kept(hh, hh2) ==
  /\ Pending(hh, Questions) \subseteq Pending(hh2, Questions)
  /\ \A h \in HangIds : hh[h].st = "resolved" => hh2[h].st = "resolved"

\* one message is routed at a time, and the questions it read still stand
SnapInv ==
  /\ \A m, n \in Messages : run[m].pc = "routing" /\ run[n].pc = "routing" => m = n
  /\ \A m \in Messages : run[m].pc = "routing" => run[m].hids \subseteq Pending(hang, Questions)

\* a question said yes to is closed
SpentInv == \A h \in HangIds : approved[h] # 0 => hang[h].st = "resolved"

\* what any step may do: a closed question stays closed, a tool is started for a
\* question that is closed with it, and that was open or listed until then, and a
\* message is listed open questions only
Closes ==
  /\ \A h \in HangIds : hang[h].st = "resolved" => hang'[h].st = "resolved"
  /\ \A h \in HangIds :
       approved'[h] # approved[h] =>
         hang'[h].st = "resolved" /\ (Listed(h) \/ hang[h].st # "resolved")
  /\ \A m \in Messages :
       run'[m].pc = "routing" =>
         run'[m] = run[m] \/ \A h \in run'[m].hids : hang[h].st # "resolved"

\* coroutine p goes on, not into routing
Onward(p, hh) == Kept(hh, hang') /\ \E g : run' = [run EXCEPT ![p] = g] /\ g.pc # "routing"

\* A new hanging row takes no question away.
LEMMA PostKeeps ==
  ASSUME NEW hh \in HangingTable, CanPost(hh), NEW kind, NEW sid, NEW sids
  PROVE  Kept(hh, Post(hh, kind, sid, sids))
<1> DEFINE h2 == Post(hh, kind, sid, sids)
<1>1. PICK n \in HangIds :
        /\ hh[n].st = "free"
        /\ h2[n] = [kind |-> kind, sid |-> sid, sids |-> sids, st |-> "fresh"]
        /\ \A h \in HangIds \ {n} : h2[h] = hh[h]
        /\ \A kinds : /\ n \notin Pending(hh, kinds)
                      /\ Pending(h2, kinds) = IF kind \in kinds THEN Pending(hh, kinds) \cup {n} ELSE Pending(hh, kinds)
  BY PostedRow
<1> HIDE DEF h2
<1>2. Pending(hh, Questions) \subseteq Pending(h2, Questions)
  BY <1>1
<1>3. \A h \in HangIds : hh[h].st = "resolved" => h2[h].st = "resolved"
  BY <1>1
<1> QED BY <1>2, <1>3 DEF Kept, h2

\* Nor does closing a stash.
LEMMA StashesAreNoQuestions ==
  ASSUME NEW hh \in HangingTable
  PROVE  /\ Kept(hh, SweepRows(hh, Stash))
         /\ \A h \in Pending(hh, Stash) : Kept(hh, ResolveRow(hh, h))
BY DEF Kept, SweepRows, ResolveRow, Expired, Pending, Stash, Questions, HangingTable, HangRow

\* A run that returns goes on to its reply, not into routing.
LEMMA ReturnOnward ==
  ASSUME TypeOK, NEW p \in Procs, NEW f \in Frame, NEW ss, NEW hh, NEW qq, Return(p, f, ss, hh, qq)
  PROVE  Onward(p, hh) /\ hang' = hh
<1>1. hang' = hh /\ Kept(hh, hang')
  BY DEF Return, Kept
<1>2. CASE Put(p, Idle)
  <2>1. Idle.pc # "routing"
    BY DEF Idle, Ended
  <2> QED BY <1>1, <1>2, <2>1 DEF Onward, Put
<1>3. CASE Put(p, [f EXCEPT !.pc = "reflect", !.iter = 0])
  <2> DEFINE g == [f EXCEPT !.pc = "reflect", !.iter = 0]
  <2>1. g.pc # "routing"
    BY DEF Frame
  <2> QED BY <1>1, <1>3, <2>1 DEF Onward, Put
<1>4. CASE Put(p, Sending(f.sid, f.todo))
  <2> DEFINE g == Sending(f.sid, f.todo)
  <2>1. g.pc # "routing"
    BY DEF Sending, Ended
  <2> HIDE DEF g
  <2> QED BY <1>1, <1>4, <2>1 DEF Onward, Put, g
<1> QED BY <1>1, <1>2, <1>3, <1>4 DEF Return

\* A round of the executor takes no question away; a displaced queue run adds a stash.
LEMMA BeginRoundOnward ==
  ASSUME TypeOK, NEW p \in Procs, NEW f \in Frame, NEW ss, NEW hh \in HangingTable, NEW qq,
         BeginRound(p, f, ss, hh, qq)
  PROVE  Onward(p, hh) /\ (f.caller # "queue" => hang' = hh)
<1>1. CASE IsDisplaced(ss, f.sid)
  <2> DEFINE stashed == IF f.caller = "queue" THEN Post(hh, "session_displaced", f.sid, {}) ELSE hh
  <2>1. Return(p, f, ss, stashed, qq) /\ (f.caller = "queue" => CanPost(hh))
    BY <1>1 DEF BeginRound
  <2>2. Kept(hh, stashed)
    BY <2>1, PostKeeps DEF Kept
  <2>3. f.caller # "queue" => stashed = hh
    OBVIOUS
  <2> HIDE DEF stashed
  <2>4. Onward(p, stashed) /\ hang' = stashed
    BY <2>1, ReturnOnward
  <2> QED BY <2>2, <2>3, <2>4 DEF Onward
<1>2. CASE ~IsDisplaced(ss, f.sid)
  <2> DEFINE g == [f EXCEPT !.pc = "llm"]
  <2>1. hang' = hh /\ run' = [run EXCEPT ![p] = g] /\ g.pc # "routing"
    BY <1>2 DEF BeginRound, Put, Frame
  <2> QED BY <2>1 DEF Onward, Kept
<1> QED BY <1>1, <1>2

\* No step of the executor takes a question away or routes a message.
LEMMA ExecutorOnward ==
  ASSUME TypeOK, NEW p \in Procs, ExecutorStep(p)
  PROVE  Onward(p, hang) /\ approved' = approved
<1> DEFINE f == run[p]
<1>1. f \in Frame /\ hang \in HangingTable
  BY DEF TypeOK
<1>2. approved' = approved
  BY DEF ExecutorStep, FinalReply, RunFails, CallTool, ToolReturns, AskUser, RequestApproval, PublishDrains, Quiet
<1> HIDE DEF f
<1>3. CASE FinalReply(p) \/ RunFails(p) \/ PublishDrains(p)
  <2>1. \E ss : Return(p, f, ss, hang, queue)
    BY <1>3 DEF FinalReply, RunFails, PublishDrains, f
  <2> QED BY <1>1, <1>2, <2>1, ReturnOnward
<1>4. CASE CallTool(p)
  <2> DEFINE g == [f EXCEPT !.pc = "tool"]
  <2>1. hang' = hang /\ run' = [run EXCEPT ![p] = g] /\ g.pc # "routing"
    BY <1>1, <1>4 DEF CallTool, Put, Frame, f
  <2> QED BY <1>2, <2>1 DEF Onward, Kept
<1>5. CASE ToolReturns(p)
  <2> DEFINE next == [f EXCEPT !.iter = @ + 1]
             g == [next EXCEPT !.pc = "final"]
  <2>1. f.iter + 1 \in Nat
    BY <1>1 DEF Frame
  <2>2. next \in Frame
    BY <1>1, <2>1 DEF Frame
  <2>3. g.pc # "routing"
    BY <2>2 DEF Frame
  <2>4. \/ BeginRound(p, next, sess, hang, queue)
        \/ Put(p, g) /\ hang' = hang
    BY <1>5 DEF ToolReturns, f
  <2> HIDE DEF next, g
  <2>5. CASE BeginRound(p, next, sess, hang, queue)
    BY <1>1, <1>2, <2>2, <2>5, BeginRoundOnward
  <2>6. CASE Put(p, g) /\ hang' = hang
    BY <1>2, <2>3, <2>6 DEF Onward, Put, Kept
  <2> QED BY <2>4, <2>5, <2>6
<1>6. CASE AskUser(p)
  <2>1. CanPost(hang) /\ \E ss : Return(p, f, ss, Post(hang, "ask_user", f.sid, {}), queue)
    BY <1>6 DEF AskUser, MayAsk, f
  <2> QED BY <1>1, <1>2, <2>1, ReturnOnward, PostKeeps DEF Onward
<1>7. CASE RequestApproval(p)
  <2> DEFINE hh == Post(hang, "approval", f.sid, {})
             g == [f EXCEPT !.pc = "publish"]
  <2>1. CanPost(hang) /\ g.pc # "routing"
    BY <1>1, <1>7 DEF RequestApproval, MayAsk, Frame
  <2>2. \/ Return(p, f, WaitUser(sess, f.sid), hh, queue)
        \/ hang' = hh /\ Put(p, g)
    BY <1>7 DEF RequestApproval, f
  <2>3. Kept(hang, hh)
    BY <1>1, <2>1, PostKeeps
  <2> HIDE DEF hh, g
  <2> QED BY <1>1, <1>2, <2>1, <2>2, <2>3, ReturnOnward DEF Onward, Put
<1> QED BY <1>3, <1>4, <1>5, <1>6, <1>7 DEF ExecutorStep

\* The tick takes no question away and moves no message.
LEMMA TickOnward ==
  ASSUME TypeOK, TickStep
  PROVE  Kept(hang, hang') /\ approved' = approved /\ \A m \in Messages : run'[m] = run[m]
<1>1. Tick \in Procs /\ Tick \notin Messages /\ hang \in HangingTable
  BY ExecutorAssumption DEF TypeOK
<1>2. approved' = approved
  BY ExecutorOnward, <1>1 DEF TickStep, TickResumesDisplaced, TickUnblocksWaiting, TickReconciles, TickPicks, TickClaims, Quiet
<1>3. SweptHang \in HangingTable /\ LeftHang \in HangingTable /\ Kept(hang, SweptHang)
  BY <1>1, SweptType, StashesAreNoQuestions DEF SweptHang
<1>4. StashRow # NoHanging => Kept(hang, ResolveRow(SweptHang, StashRow))
  <2>1. StashRow # NoHanging => StashRow \in Pending(SweptHang, Stash)
    BY <1>3, NewestPending DEF StashRow, Stash
  <2> QED BY <1>3, <2>1, StashesAreNoQuestions DEF Kept
<1>5. Kept(hang, LeftHang)
  BY <1>3, <1>4 DEF LeftHang, StashDead
<1>6. ASSUME NEW t \in Tasks \cup {NoTask}, NEW s \in SessionIds \cup {NoSession}, NEW ss, NEW hh \in HangingTable,
             Kept(hang, hh), Continue(t, s, ss, hh)
      PROVE  Kept(hang, hang') /\ \A m \in Messages : run'[m] = run[m]
  <2>1. Calling("queue", s, t, FALSE) \in Frame
    BY CallingType DEF Caller
  <2>2. CASE BeginRound(Tick, Calling("queue", s, t, FALSE), ss, hh, queue)
    <3>1. Onward(Tick, hh)
      BY <1>1, <1>6, <2>1, <2>2, BeginRoundOnward
    <3> QED BY <1>1, <1>6, <3>1 DEF Onward, Kept, TypeOK
  <2> QED BY <1>6, <2>2 DEF Continue
<1>7. CASE TickResumesDisplaced
  <2>1. StashRow # NoHanging /\ StashSid \in SessionIds \cup {NoSession} /\ ResolveRow(SweptHang, StashRow) \in HangingTable
    BY <1>3, <1>7, SweptType, HangingUpdateType DEF TickResumesDisplaced, CanResumeStash
  <2>2. PICK t \in Tasks \cup {NoTask} :
          Continue(t, StashSid, Resume(SweptSess, StashSid), ResolveRow(SweptHang, StashRow))
    BY <1>7, ClaimedType DEF TickResumesDisplaced
  <2> QED BY <1>2, <1>4, <1>6, <2>1, <2>2
<1>8. CASE TickUnblocksWaiting
  <2> DEFINE s == ResumeWaiting(SweptSess, LeftSid)
  <2>1. s \in SessionIds
    BY <1>8, SweptType, ResumeWaitingType DEF TickUnblocksWaiting, Waiting
  <2>2. PICK t \in Tasks \cup {NoTask} : Continue(t, s, ActivateWaiting(SweptSess, s), LeftHang)
    BY <1>8, ClaimedType DEF TickUnblocksWaiting
  <2> HIDE DEF s
  <2> QED BY <1>2, <1>3, <1>5, <1>6, <2>1, <2>2
<1>9. CASE TickReconciles
  BY <1>2, <1>5, <1>9 DEF TickReconciles
<1>10. CASE TickPicks
  BY <1>1, <1>2, <1>5, <1>10 DEF TickPicks, Put, TypeOK
<1>11. CASE TickClaims
  <2> DEFINE t == run[Tick].task
             s == NextSession(sess)
             f == Calling("queue", s, t, FALSE)
  <2>1. s \in SessionIds /\ t \in Tasks \cup {NoTask}
    BY <1>11, NextSessionType DEF TickClaims, TypeOK, Frame
  <2>2. f \in Frame
    BY <2>1, CallingType DEF Caller
  <2>3. \/ \E ss, qq : BeginRound(Tick, f, ss, hang, qq)
        \/ Put(Tick, Idle) /\ UNCHANGED hang
    BY <1>11 DEF TickClaims
  <2> HIDE DEF f
  <2>4. Onward(Tick, hang)
    BY <1>1, <2>2, <2>3, BeginRoundOnward DEF Onward, Put, Kept, Idle, Ended
  <2> QED BY <1>1, <1>2, <2>4 DEF Onward, TypeOK
<1>12. CASE ExecutorStep(Tick)
  <2>1. Onward(Tick, hang)
    BY <1>1, <1>12, ExecutorOnward
  <2> QED BY <1>1, <1>2, <2>1 DEF Onward, TypeOK
<1> QED BY <1>7, <1>8, <1>9, <1>10, <1>11, <1>12 DEF TickStep

\* The next crashed session is resumed, and no hanging row changes.
LEMMA NextCrashedOnward ==
  ASSUME TypeOK, NEW m \in Messages, NEW ss, NEW hh \in HangingTable,
         NEW todo \in SUBSET SessionIds, NextCrashed(m, ss, hh, todo)
  PROVE  Onward(m, hh) /\ hang' = hh
<1> DEFINE left == {s \in todo : Resumable(ss, s)}
           s    == CHOOSE s \in left : \A r \in left : s >= r
           f    == [Calling("crash", s, NoTask, FALSE) EXCEPT !.todo = {r \in todo : r < s}]
<1>1. CASE left = {}
  <2>1. Ended.pc # "routing"
    BY DEF Ended
  <2>2. hang' = hh /\ run' = [run EXCEPT ![m] = Ended]
    BY <1>1 DEF NextCrashed, End, Put
  <2> QED BY <2>1, <2>2 DEF Onward, Kept
<1>2. CASE left # {}
  <2>1. \E x \in left : \A r \in left : x >= r
    BY <1>2, NewestSession
  <2>2. s \in SessionIds
    BY <2>1
  <2>3. Calling("crash", s, NoTask, FALSE) \in Frame
    BY <2>2, CallingType DEF Caller
  <2>4. {r \in todo : r < s} \in SUBSET SessionIds
    OBVIOUS
  <2>5. BeginRound(m, f, Resume(ss, s), hh, queue)
    BY <1>2 DEF NextCrashed
  <2>6. f.caller = "crash"
    BY DEF Calling, Ended
  <2> HIDE DEF s
  <2>7. f \in Frame
    BY <2>3, <2>4 DEF Frame
  <2> HIDE DEF f
  <2> QED BY <2>5, <2>6, <2>7, MessageIsNoTick, BeginRoundOnward
<1> QED BY <1>1, <1>2

\* The question a message is an answer to is resolved, or stays as it was.
LEMMA DispatchCounts ==
  ASSUME TypeOK, NEW m \in Messages, NEW h \in HangIds, NEW text,
         NEW ss \in SessionTable, NEW hh \in HangingTable, Dispatch(m, h, text, ss, hh)
  PROVE  /\ \E g : run' = [run EXCEPT ![m] = g] /\ g.pc # "routing"
         /\ hang' = hh \/ hang' = ResolveRow(hh, h)
         /\ \/ approved' = approved
            \/ approved' = [approved EXCEPT ![h] = @ + 1] /\ hang' = ResolveRow(hh, h)
<1>1. ResolveRow(hh, h) \in HangingTable /\ hh[h].sids \in SUBSET SessionIds /\ hh[h].sid \in SessionIds \cup {NoSession}
  BY HangingUpdateType DEF HangingTable, HangRow
<1>2. CASE Approve(m, h, ss, hh)
  <2> DEFINE g == [Ended EXCEPT !.pc = "approved", !.sid = hh[h].sid]
  <2>1. g.pc # "routing"
    BY DEF Ended
  <2> HIDE DEF g
  <2> QED BY <1>2, <2>1 DEF Approve, Put, g
<1>3. CASE Decline(m, h, ss, hh)
  <2> DEFINE g == Sending(hh[h].sid, {})
  <2>1. g.pc # "routing"
    BY DEF Sending, Ended
  <2> HIDE DEF g
  <2> QED BY <1>3, <2>1 DEF Decline, Put, g
<1>4. CASE ResumeCrashed(m, h, ss, hh)
  <2>1. NextCrashed(m, ss, ResolveRow(hh, h), hh[h].sids) /\ approved' = approved
    BY <1>4 DEF ResumeCrashed
  <2> QED BY <1>1, <2>1, NextCrashedOnward DEF Onward
<1>5. CASE DropCrashed(m, h, ss, hh)
  <2>1. Ended.pc # "routing"
    BY DEF Ended
  <2> QED BY <1>5, <2>1 DEF DropCrashed, End, Put
<1>6. CASE NotAnAnswer(m, ss, hh)
  <2> DEFINE g == [Ended EXCEPT !.pc = "classify"]
  <2>1. g.pc # "routing"
    BY DEF Ended
  <2> HIDE DEF g
  <2> QED BY <1>6, <2>1 DEF NotAnAnswer, Put, g
<1>7. CASE Answer(m, h, ss, hh)
  <2> DEFINE f == Calling("answer", hh[h].sid, NoTask, FALSE)
  <2>1. f \in Frame /\ f.caller = "answer"
    BY <1>1, CallingType DEF Caller, Calling, Ended
  <2>2. BeginRound(m, f, Resume(ss, hh[h].sid), ResolveRow(hh, h), queue) /\ approved' = approved
    BY <1>7 DEF Answer
  <2> HIDE DEF f
  <2> QED BY <1>1, <2>1, <2>2, MessageIsNoTick, BeginRoundOnward DEF Onward
<1> QED BY <1>2, <1>3, <1>4, <1>5, <1>6, <1>7 DEF Dispatch

\* After the routing a message's steps take no question away and start no tool.
LEMMA MessageStepOnward ==
  ASSUME TypeOK, NEW m \in Messages, MessageStep(m), ~Routed(m)
  PROVE  Onward(m, hang) /\ approved' = approved
<1>1. /\ run[m] \in Frame /\ run[m].sid \in SessionIds \cup {NoSession} /\ run[m].todo \in SUBSET SessionIds
      /\ hang \in HangingTable /\ sess \in SessionTable
      /\ m \in Procs
  BY DEF TypeOK, Frame
<1>2. CASE Classified(m)
  <2> DEFINE simple == [Calling("simple", NoSession, NoTask, frozen) EXCEPT !.pc = "llm"]
             plan == [Ended EXCEPT !.pc = "plan", !.gated = frozen]
  <2>1. Ended.pc # "routing" /\ simple.pc # "routing" /\ plan.pc # "routing"
    BY DEF Ended, Calling
  <2>2. Put(m, Ended) \/ Put(m, simple) \/ Put(m, plan)
    BY <1>2 DEF Classified, End
  <2> HIDE DEF simple, plan
  <2>3. hang' = hang /\ approved' = approved
    BY <1>2 DEF Classified, Quiet
  <2>4. Onward(m, hang)
    BY <2>1, <2>2, <2>3 DEF Put, Onward, Kept
  <2> QED BY <2>3, <2>4
<1>3. CASE Planned(m)
  <2> DEFINE f == Calling("deep", NextSession(sess), NoTask, run[m].gated)
  <2>1. f \in Frame
    BY <1>1, <1>3, NextSessionType, CallingType DEF Planned, Frame, Caller
  <2>2. \E ss : BeginRound(m, f, ss, hang, queue)
    BY <1>3 DEF Planned
  <2> HIDE DEF f
  <2>3. approved' = approved
    BY <1>3 DEF Planned, Quiet
  <2> QED BY <1>1, <2>1, <2>2, <2>3, BeginRoundOnward
<1>4. CASE Reflected(m)
  <2> DEFINE f == [run[m] EXCEPT !.caller = "retry"]
             g == Sending(run[m].sid, {})
  <2>1. f \in Frame
    BY <1>1 DEF Frame, Caller
  <2>2. g.pc # "routing"
    BY DEF Sending, Ended
  <2>3. \/ \E ss : BeginRound(m, f, ss, hang, queue)
        \/ Put(m, g) /\ UNCHANGED <<sess, hang, queue>>
    BY <1>4 DEF Reflected
  <2> HIDE DEF f, g
  <2>4. approved' = approved
    BY <1>4 DEF Reflected, Quiet
  <2>5. Onward(m, hang)
    BY <1>1, <2>1, <2>2, <2>3, BeginRoundOnward DEF Onward, Put, Kept
  <2> QED BY <2>4, <2>5
<1>5. CASE ApprovedToolEnds(m)
  <2> DEFINE g == Sending(run[m].sid, {})
  <2>1. g.pc # "routing"
    BY DEF Sending, Ended
  <2>2. Put(m, g) /\ hang' = hang /\ approved' = approved
    BY <1>5 DEF ApprovedToolEnds, Quiet
  <2> HIDE DEF g
  <2>3. Onward(m, hang)
    BY <2>1, <2>2 DEF Onward, Put, Kept
  <2> QED BY <2>2, <2>3
<1>6. CASE Sent(m)
  <2>1. NextCrashed(m, sess, hang, run[m].todo) /\ approved' = approved
    BY <1>6 DEF Sent
  <2> QED BY <1>1, <2>1, NextCrashedOnward
<1>7. CASE ExecutorStep(m)
  BY <1>1, <1>7, ExecutorOnward
<1> QED BY <1>2, <1>3, <1>4, <1>5, <1>6, <1>7 DEF MessageStep

\* The answer to a question that a message was listed, or reads now.
LEMMA DispatchCloses ==
  ASSUME TypeOK, NEW m \in Messages, NEW h \in HangIds, NEW text,
         NEW ss \in SessionTable, NEW hh \in HangingTable, Dispatch(m, h, text, ss, hh),
         \A k \in HangIds : hang[k].st = "resolved" => hh[k].st = "resolved",
         Listed(h) \/ hang[h].st # "resolved"
  PROVE  Closes /\ \E g : run' = [run EXCEPT ![m] = g] /\ g.pc # "routing"
<1>1. /\ \E g : run' = [run EXCEPT ![m] = g] /\ g.pc # "routing"
      /\ hang' = hh \/ hang' = ResolveRow(hh, h)
      /\ \/ approved' = approved
         \/ approved' = [approved EXCEPT ![h] = @ + 1] /\ hang' = ResolveRow(hh, h)
  BY DispatchCounts
<1>2. \A k \in HangIds : ResolveRow(hh, h)[k].st = "resolved" <=> (k = h \/ hh[k].st = "resolved")
  BY DEF ResolveRow, HangingTable, HangRow
<1>3. \A k \in HangIds : approved'[k] # approved[k] => k = h /\ hang' = ResolveRow(hh, h)
  BY <1>1 DEF TypeOK
<1>4. \A n \in Messages : run'[n].pc = "routing" => run'[n] = run[n]
  BY <1>1 DEF TypeOK
<1> QED BY <1>1, <1>2, <1>3, <1>4 DEF Closes

\* So with a step that starts no tool and lists nothing.
LEMMA KeptCloses ==
  ASSUME \A h \in HangIds : hang[h].st = "resolved" => hang'[h].st = "resolved",
         approved' = approved,
         \A m \in Messages : run'[m].pc = "routing" => run'[m] = run[m]
  PROVE  Closes
BY DEF Closes

\* And with a coroutine that goes on.
LEMMA OnwardCloses ==
  ASSUME TypeOK, NEW p \in Procs, Onward(p, hang), approved' = approved
  PROVE  Closes
<1>1. PICK g : run' = [run EXCEPT ![p] = g] /\ g.pc # "routing"
  BY DEF Onward
<1>2. \A m \in Messages : run'[m].pc = "routing" => run'[m] = run[m]
  BY <1>1 DEF TypeOK
<1> QED BY <1>2, KeptCloses DEF Onward, Kept

\* A routed message answers a question it was listed, or none.
LEMMA RoutedCloses ==
  ASSUME TypeOK, NEW m \in Messages, Routed(m)
  PROVE  Closes /\ \E g : run' = [run EXCEPT ![m] = g] /\ g.pc # "routing"
<1>1. run[m].pc = "routing" /\ hang \in HangingTable /\ sess \in SessionTable /\ m \in Procs
  BY DEF Routed, TypeOK
<1>2. CASE End(m) /\ UNCHANGED <<sess, hang, queue, approved>>
  <2>1. Ended.pc # "routing"
    BY DEF Ended
  <2>2. Onward(m, hang)
    BY <1>2, <2>1 DEF End, Put, Onward, Kept
  <2> QED BY <1>1, <1>2, <2>2, OnwardCloses DEF Onward
<1>3. ASSUME NEW h \in run[m].hids, Dispatch(m, h, run[m].text, sess, hang)
      PROVE  Closes /\ \E g : run' = [run EXCEPT ![m] = g] /\ g.pc # "routing"
  <2>1. h \in HangIds
    BY DEF TypeOK, Frame
  <2>2. Listed(h)
    BY <1>1 DEF Listed
  <2> QED BY <1>1, <1>3, <2>1, <2>2, DispatchCloses
<1> QED BY <1>2, <1>3 DEF Routed

\* A sweep reopens nothing.
LEMMA SweepResolves ==
  ASSUME NEW hh \in HangingTable, NEW kinds
  PROVE  \A k \in HangIds : hh[k].st = "resolved" => SweepRows(hh, kinds)[k].st = "resolved"
BY DEF SweepRows, Expired, HangingTable, HangRow

\* A message that arrives answers an open question, or is listed the open ones.
LEMMA ArrivalCloses ==
  ASSUME TypeOK, NEW m \in Messages, MessageArrives(m)
  PROVE  /\ Closes
         /\ \E g : /\ run' = [run EXCEPT ![m] = g]
                   /\ g.pc = "routing" => g.hids = Pending(hang', Questions)
<1>1. m \in Procs /\ hang \in HangingTable /\ sess \in SessionTable
  BY DEF TypeOK
<1>2. CASE StopPhrase(m) \/ ResumePhrase(m)
  <2>1. Ended.pc # "routing"
    BY DEF Ended
  <2>2. run' = [run EXCEPT ![m] = Ended] /\ hang' = hang /\ approved' = approved
    BY <1>2 DEF StopPhrase, ResumePhrase, End, Put
  <2>3. Onward(m, hang)
    BY <2>1, <2>2 DEF Onward, Kept
  <2> QED BY <1>1, <2>1, <2>2, <2>3, OnwardCloses
<1>3. CASE Route(m)
  <2> DEFINE ss    == SweepSessions(sess, hang, Questions)
             hh    == SweepRows(hang, Questions)
             items == Pending(hh, Questions)
             g(text) == [Ended EXCEPT !.pc = "routing", !.hids = items, !.text = text]
  <2>1. ss \in SessionTable /\ hh \in HangingTable /\ \A k \in HangIds : hang[k].st = "resolved" => hh[k].st = "resolved"
    BY <1>1, SweepSessionsType, HangingUpdateType, SweepResolves
  <2>2. \/ NotAnAnswer(m, ss, hh)
        \/ \E h \in items, text \in {"plain", "yes", "no"} : Dispatch(m, h, text, ss, hh)
        \/ \E text \in {"plain", "yes", "no"} : hang' = hh /\ Put(m, g(text)) /\ approved' = approved
    BY <1>3 DEF Route
  <2>3. \A text : g(text).pc = "routing" /\ g(text).hids = items
    BY DEF Ended
  <2>4. \A h \in items : h \in HangIds /\ hh[h].st # "resolved"
    BY DEF Pending
  <2>5. items = Pending(hh, Questions)
    OBVIOUS
  <2> HIDE DEF ss, hh, items, g
  <2>6. CASE NotAnAnswer(m, ss, hh)
    <3> DEFINE f == [Ended EXCEPT !.pc = "classify"]
    <3>1. f.pc # "routing"
      BY DEF Ended
    <3>2. run' = [run EXCEPT ![m] = f] /\ hang' = hh /\ approved' = approved
      BY <2>6 DEF NotAnAnswer, Put
    <3> HIDE DEF f
    <3>3. \A n \in Messages : run'[n].pc = "routing" => run'[n] = run[n]
      BY <1>1, <3>1, <3>2 DEF TypeOK
    <3> QED BY <2>1, <3>1, <3>2, <3>3, KeptCloses
  <2>7. ASSUME NEW h \in items, NEW text \in {"plain", "yes", "no"}, Dispatch(m, h, text, ss, hh)
        PROVE  Closes /\ \E f : run' = [run EXCEPT ![m] = f] /\ f.pc # "routing"
    <3>1. h \in HangIds /\ hang[h].st # "resolved"
      BY <2>1, <2>4
    <3> QED BY <2>1, <2>7, <3>1, DispatchCloses
  <2>8. ASSUME NEW text \in {"plain", "yes", "no"}, hang' = hh, Put(m, g(text)), approved' = approved
        PROVE  Closes /\ run' = [run EXCEPT ![m] = g(text)] /\ g(text).hids = Pending(hang', Questions)
    <3>1. run'[m] = g(text) /\ \A n \in Messages : n # m => run'[n] = run[n]
      BY <1>1, <2>8 DEF Put, TypeOK
    <3>2. \A h \in run'[m].hids : hang[h].st # "resolved"
      BY <2>1, <2>3, <2>4, <3>1
    <3>3. Closes
      BY <2>1, <2>8, <3>1, <3>2 DEF Closes
    <3> QED BY <2>3, <2>5, <2>8, <3>3 DEF Put
  <2> QED BY <2>2, <2>6, <2>7, <2>8
<1> QED BY <1>2, <1>3 DEF MessageArrives

\* When the process ends no message is routed any more.
LEMMA DyingCloses ==
  ASSUME TypeOK, Crash \/ Shutdown \/ TornStep
  PROVE  Closes /\ \A m \in Messages : run'[m].pc # "routing"
<1>1. /\ \E flag : Halt(flag)
      /\ \/ hang' = hang
         \/ \E p \in Procs : CanPost(hang) /\ hang' = Post(hang, "approval", run[p].sid, {})
         \/ \E h \in HangIds : hang' = ResolveRow(hang, h)
  BY DEF Crash, Shutdown, TornStep, TornAsk, TornApproval, TornAnswer, TornSettle, TornClaim, Die, MayAsk
<1>2. approved' = approved /\ \A m \in Messages : run'[m].pc # "routing"
  <2>1. Idle.pc # "routing" /\ Fresh.pc # "routing" /\ Ended.pc # "routing"
    BY DEF Idle, Fresh, Ended
  <2> QED BY <1>1, <2>1 DEF Halt
<1>3. hang \in HangingTable
  BY DEF TypeOK
<1>4. \A k \in HangIds : hang[k].st = "resolved" => hang'[k].st = "resolved"
  <2>1. ASSUME NEW p \in Procs, CanPost(hang), hang' = Post(hang, "approval", run[p].sid, {})
        PROVE  Kept(hang, hang')
    BY <1>3, <2>1, PostKeeps
  <2>2. ASSUME NEW h \in HangIds, hang' = ResolveRow(hang, h)
        PROVE  \A k \in HangIds : hang[k].st = "resolved" => hang'[k].st = "resolved"
    BY <1>3, <2>2 DEF ResolveRow, HangingTable, HangRow
  <2> QED BY <1>1, <2>1, <2>2 DEF Kept
<1> QED BY <1>2, <1>4 DEF Closes

\* The crash_resume row is one more question.
LEMMA AskToContinueKeeps ==
  ASSUME TypeOK, ChatActives(sess) # {} => CanPost(hang)
  PROVE  Kept(hang, AskToContinue)
<1> DEFINE orphans == ChatActives(sess)
           s == IF Cardinality(orphans) = 1 THEN CHOOSE x \in orphans : TRUE ELSE NoSession
<1>1. CASE orphans = {}
  BY <1>1 DEF AskToContinue, Kept
<1>2. CASE orphans # {}
  <2>1. AskToContinue = Post(hang, "crash_resume", s, orphans) /\ CanPost(hang) /\ hang \in HangingTable
    BY <1>2 DEF AskToContinue, TypeOK
  <2> HIDE DEF s, orphans
  <2> QED BY <2>1, PostKeeps
<1> QED BY <1>1, <1>2

\* What every step does to the questions: one case per action.
LEMMA StepCloses ==
  ASSUME TypeOK, [Next]_vars
  PROVE  Closes
<1>1. CASE TickStep
  BY <1>1, TickOnward, KeptCloses DEF Kept
<1>2. ASSUME NEW m \in Messages, MessageArrives(m) \/ MessageStep(m)
      PROVE  Closes
  <2>1. m \in Procs
    BY DEF Procs
  <2> QED BY <1>2, <2>1, ArrivalCloses, RoutedCloses, MessageStepOnward, OnwardCloses
<1>3. CASE HourPasses
  <2>1. approved' = approved /\ run' = run /\ hang \in HangingTable
    BY <1>3 DEF HourPasses, TypeOK
  <2>2. Kept(hang, hang')
    BY <1>3, <2>1 DEF HourPasses, Kept, Pending, HangingTable, HangRow
  <2> QED BY <2>1, <2>2, KeptCloses DEF Kept
<1>4. CASE Crash \/ Shutdown \/ TornStep
  BY <1>4, DyingCloses
<1>5. CASE Restart \/ TornRecovery
  <2>1. approved' = approved /\ run' = run
    BY <1>5 DEF Restart, TornRecovery
  <2>2. Kept(hang, hang')
    BY <1>5, AskToContinueKeeps DEF Restart, TornRecovery, Kept
  <2> QED BY <2>1, <2>2, KeptCloses DEF Kept
<1>6. CASE UNCHANGED <<hang, run, approved>>
  BY <1>6, KeptCloses
<1>7. CASE AgendaAddsTask \/ (\E p \in Procs : ToolAddsTask(p) \/ ToolCancelsTask(p)) \/ UNCHANGED vars
  BY <1>6, <1>7 DEF AgendaAddsTask, ToolAddsTask, ToolCancelsTask, vars
<1> QED BY <1>1, <1>2, <1>3, <1>4, <1>5, <1>7 DEF Next

\* At first nothing is routed and nothing was approved.
LEMMA InitSnap == Init => SnapInv /\ SpentInv
<1> SUFFICES ASSUME Init PROVE SnapInv /\ SpentInv
  OBVIOUS
<1>1. \A m \in Messages : run[m].pc # "routing"
  BY ExecutorAssumption DEF Init, Fresh, Ended
<1> QED BY <1>1 DEF SnapInv, SpentInv, Init

\* The question of a tool that was started is closed.
LEMMA SpentAlways == Spec => []SpentInv
<1>1. ASSUME TypeOK, SpentInv, [Next]_vars
      PROVE  SpentInv'
  <2>1. Closes
    BY <1>1, StepCloses
  <2> QED BY <1>1, <2>1 DEF Closes, SpentInv
<1> QED BY <1>1, InitSnap, TypeCorrect, PTL DEF Spec

\* Whatever Lin writes and however many messages at once, whatever crashes, hours
\* and restarts intervene: after the tool she said yes to was started, only a
\* message that had the question on its list by then can start it again.
THEOREM YesStaysSpent == Spec => YesIsSpent
<1>1. ASSUME TypeOK, SpentInv, [Next]_vars
      PROVE  [\A h \in HangIds :
                approved[h] > 0 /\ ~Listed(h) => approved'[h] = approved[h] /\ ~Listed(h)']_vars
  <2>1. SUFFICES ASSUME NEW h \in HangIds, approved[h] > 0, ~Listed(h)
                 PROVE  approved'[h] = approved[h] /\ ~Listed(h)'
    OBVIOUS
  <2>2. Closes
    BY <1>1, StepCloses
  <2>3. hang[h].st = "resolved"
    BY <1>1, <2>1 DEF SpentInv, TypeOK
  <2>4. approved'[h] = approved[h]
    BY <2>1, <2>2, <2>3 DEF Closes
  <2>5. ASSUME NEW m \in Messages, run'[m].pc = "routing", h \in run'[m].hids
        PROVE  FALSE
    BY <2>1, <2>2, <2>3, <2>5 DEF Closes, Listed
  <2>6. ~Listed(h)'
    BY <2>5 DEF Listed
  <2> QED BY <2>4, <2>6
<1> QED BY <1>1, SpentAlways, TypeCorrect, PTL DEF Spec, YesIsSpent

\* What a step that neither starts nor ends a routing does to the snapshots.
LEMMA SnapKept ==
  ASSUME SnapInv, Kept(hang, hang'),
         \A m \in Messages : run'[m].pc = "routing" => run'[m] = run[m]
  PROVE  SnapInv'
BY DEF SnapInv, Kept

\* A coroutine that goes on leaves the other messages' snapshots standing.
LEMMA OnwardKeepsSnap ==
  ASSUME TypeOK, SnapInv, NEW p \in Procs, Onward(p, hang)
  PROVE  SnapInv'
<1>1. PICK g : run' = [run EXCEPT ![p] = g] /\ g.pc # "routing"
  BY DEF Onward
<1>2. \A m \in Messages : run'[m].pc = "routing" => run'[m] = run[m]
  BY <1>1 DEF TypeOK
<1> QED BY <1>2, SnapKept DEF Onward

\* Each step of a message keeps the snapshots: its own ends with the routing.
LEMMA MessageStepSnap ==
  ASSUME TypeOK, SnapInv, NEW m \in Messages, MessageStep(m)
  PROVE  SnapInv'
<1>1. CASE Routed(m)
  <2>1. run[m].pc = "routing" /\ \E g : run' = [run EXCEPT ![m] = g] /\ g.pc # "routing"
    BY <1>1, RoutedCloses DEF Routed
  <2>2. \A n \in Messages : run'[n].pc # "routing"
    BY <2>1 DEF SnapInv, TypeOK
  <2> QED BY <2>2 DEF SnapInv
<1>2. CASE ~Routed(m)
  BY <1>2, MessageStepOnward, OnwardKeepsSnap DEF Procs
<1> QED BY <1>1, <1>2

\* A patient owner writes when no other message is routed, so a new snapshot is
\* the only one.
LEMMA ArrivalSnap ==
  ASSUME TypeOK, PatientOwner, SnapInv, NEW m \in Messages, MessageArrives(m)
  PROVE  SnapInv'
<1>1. \A n \in Messages : run[n].pc # "routing"
  BY DEF MessageArrives, StopPhrase, ResumePhrase, Route, Arrives
<1>2. PICK g : /\ run' = [run EXCEPT ![m] = g]
               /\ g.pc = "routing" => g.hids = Pending(hang', Questions)
  BY ArrivalCloses
<1>3. run'[m] = g /\ \A n \in Messages : n # m => run'[n].pc # "routing"
  BY <1>1, <1>2 DEF TypeOK, Procs
<1>4. \A n \in Messages : run'[n].pc = "routing" => run'[n].hids \subseteq Pending(hang, Questions)'
  BY <1>2, <1>3 DEF Pending
<1> QED BY <1>3, <1>4 DEF SnapInv

\* While Lin waits for an answer before writing again, a routed message chooses
\* from a list that is hers alone and answers a question that is still pending.
LEMMA SnapAlways == ASSUME PatientOwner PROVE Spec => []SnapInv
<1>1. ASSUME TypeOK, SnapInv, [Next]_vars
      PROVE  SnapInv'
  <2>1. CASE TickStep
    BY <1>1, <2>1, TickOnward, SnapKept
  <2>2. ASSUME NEW m \in Messages, MessageArrives(m) \/ MessageStep(m)
        PROVE  SnapInv'
    BY <1>1, <2>2, ArrivalSnap, MessageStepSnap
  <2>3. CASE HourPasses
    <3>1. run' = run /\ Kept(hang, hang')
      BY <1>1, <2>3 DEF HourPasses, Kept, Pending, HangingTable, HangRow, TypeOK
    <3> QED BY <1>1, <3>1, SnapKept
  <2>4. CASE Crash \/ Shutdown \/ TornStep
    BY <1>1, <2>4, DyingCloses DEF SnapInv
  <2>5. CASE Restart \/ TornRecovery
    <3>1. run' = run /\ Kept(hang, hang')
      BY <1>1, <2>5, AskToContinueKeeps DEF Restart, TornRecovery, Kept
    <3> QED BY <1>1, <3>1, SnapKept
  <2>6. CASE UNCHANGED <<hang, run>>
    BY <1>1, <2>6, SnapKept DEF Kept
  <2>7. CASE AgendaAddsTask \/ (\E p \in Procs : ToolAddsTask(p) \/ ToolCancelsTask(p)) \/ UNCHANGED vars
    BY <2>6, <2>7 DEF AgendaAddsTask, ToolAddsTask, ToolCancelsTask, vars
  <2> QED BY <1>1, <2>1, <2>2, <2>3, <2>4, <2>5, <2>7 DEF Next
<1>2. Init => SnapInv
  BY InitSnap
<1> QED BY <1>1, <1>2, TypeCorrect, PTL DEF Spec

-----------------------------------------------------------------------------
(* Steps of a message *)

\* what Lin's messages may do to autonomous work that is not lent to them: displace
\* what is active
LinOnly(ss, ss2) ==
  \A s \in SessionIds :
    /\ Autonomous(ss2, s) <=> Autonomous(ss, s)
    /\ Autonomous(ss, s) =>
         QueueAsks \/ ss2[s] = ss[s] \/ (ss[s].st = "active" /\ ss2[s].st \in Displaced)

\* the stashes stand as they did
KeepsStashes(hh, hh2) ==
  /\ Pending(hh2, Stash) = Pending(hh, Stash)
  /\ \A h \in Pending(hh, Stash) : hh2[h] = hh[h]

\* a message works for Lin, never for the queue
MessageFrame(g) == g.caller # "queue" /\ g.pc \notin {"publish", "idle"}

\* the tick works for the queue on an autonomous session, or on none
TickFrame ==
  /\ run[Tick].pc \in {"idle", "classify", "llm", "tool", "final"}
  /\ run[Tick].pc \in InLoop =>
       run[Tick].caller = "queue" /\ run[Tick].sid \in SessionIds /\ Autonomous(sess, run[Tick].sid)

\* what each coroutine may be at, and that all rest while the process is down
FrameInv ==
  /\ \A m \in Messages : MessageFrame(run[m])
  /\ TickFrame
  /\ ~up => /\ run[Tick].pc = "idle"
            /\ \A m \in Messages : run[m].pc \in {"new", "done"} /\ run[m].todo = {}

\* the invariant: who holds what, and who is where
OwnersInv == ChatInv(sess, hang, run) /\ FrameInv

\* Lin waits while her message is routed, the bus never blocks, and the process
\* dies between handlers only
Mild == PatientOwner /\ ~BusStalls /\ ~Torn

\* and a queue run never asks her
Calm == Mild /\ ~QueueAsks

\* tables a message's handler has reached between two of its calls
Reached(ss, hh) ==
  /\ Tables(ss, hh, run) /\ ChatInv(ss, hh, run)
  /\ LinOnly(sess, ss) /\ KeepsStashes(hang, hh)

\* what every step of a message comes to
Turn(m) ==
  /\ ChatInv(sess', hang', run')
  /\ LinOnly(sess, sess') /\ KeepsStashes(hang, hang')
  /\ queue' = queue
  /\ \E g \in Frame : run' = [run EXCEPT ![m] = g] /\ MessageFrame(g)

\* Before its first call a handler has changed nothing.
LEMMA ReachedNow == ASSUME TypeOK, OwnersInv PROVE Reached(sess, hang)
<1>1. LinOnly(sess, sess)
  BY DEF LinOnly
<1>2. KeepsStashes(hang, hang)
  BY DEF KeepsStashes
<1> QED BY <1>1, <1>2 DEF TypeOK, OwnersInv, Reached, Tables

\* Two displacements in a row are one.
LEMMA LinOnlyTwice ==
  ASSUME NEW s1, NEW s2, NEW s3, LinOnly(s1, s2), LinOnly(s2, s3)
  PROVE  LinOnly(s1, s3)
BY DEF LinOnly, Displaced

\* A write to one chat session, or to one lent to Lin, leaves autonomous work alone.
LEMMA ChatWriteIsLins ==
  ASSUME NEW ss, NEW ss2,
         \A s \in SessionIds : \/ ss2[s] = ss[s]
                               \/ ~Autonomous(ss, s) /\ ~Autonomous(ss2, s)
                               \/ Loaned(ss, s) /\ Autonomous(ss2, s)
  PROVE  LinOnly(ss, ss2)
<1>1. \A s \in SessionIds : ss2[s] = ss[s] => (Autonomous(ss2, s) <=> Autonomous(ss, s))
  BY DEF Autonomous
<1> QED BY <1>1 DEF LinOnly, Loaned

\* Stashes that stand after each of two steps stand after both.
LEMMA StashesKeptTwice ==
  ASSUME NEW h1, NEW h2, NEW h3, KeepsStashes(h1, h2), KeepsStashes(h2, h3)
  PROVE  KeepsStashes(h1, h3)
BY DEF KeepsStashes

\* A question is no stash.
LEMMA AskKeepsStashes ==
  ASSUME NEW hh \in HangingTable, CanPost(hh), NEW kind \in Questions, NEW sid, NEW sids
  PROVE  KeepsStashes(hh, Post(hh, kind, sid, sids))
<1> DEFINE h2 == Post(hh, kind, sid, sids)
<1>1. PICK n \in HangIds :
        /\ hh[n].st = "free"
        /\ h2[n] = [kind |-> kind, sid |-> sid, sids |-> sids, st |-> "fresh"]
        /\ \A h \in HangIds \ {n} : h2[h] = hh[h]
        /\ \A kinds : /\ n \notin Pending(hh, kinds)
                      /\ Pending(h2, kinds) = IF kind \in kinds THEN Pending(hh, kinds) \cup {n} ELSE Pending(hh, kinds)
  BY PostedRow
<1> HIDE DEF h2
<1>2. kind \notin Stash
  BY DEF Questions, Stash
<1>3. Pending(h2, Stash) = Pending(hh, Stash) /\ n \notin Pending(hh, Stash)
  BY <1>1, <1>2
<1>4. \A h \in Pending(hh, Stash) : h \in HangIds \ {n}
  BY <1>3 DEF Pending
<1> QED BY <1>1, <1>3, <1>4 DEF KeepsStashes, h2

\* Closing questions leaves the stashes.
LEMMA ResolvingKeepsStashes ==
  ASSUME NEW hh \in HangingTable
  PROVE  /\ KeepsStashes(hh, SweepRows(hh, Questions))
         /\ \A h \in Pending(hh, Questions) : KeepsStashes(hh, ResolveRow(hh, h))
BY DEF KeepsStashes, SweepRows, ResolveRow, Expired, Pending, Stash, Questions, HangingTable, HangRow

\* The driver of a session may write another of its statuses.
LEMMA DriverWrites ==
  ASSUME NEW ss, NEW hh, NEW rr, Tables(ss, hh, rr), ChatInv(ss, hh, rr), NEW ss2 \in SessionTable,
         NEW m \in Messages, NEW s \in SessionIds, Drives(rr, m, s),
         ss2[s].origin = ss[s].origin, ss2[s].st \in {"active", "paused", "failed"},
         \A r \in SessionIds : r # s => ss2[r] = ss[r]
  PROVE  ChatInv(ss2, hh, rr)
<1>10. CASE Loaned(ss, s)
  <2>1. Autonomous(ss2, s)
    BY <1>10 DEF Loaned, Autonomous
  <2> QED BY <1>10, <2>1, FreeWrites
<1> SUFFICES ASSUME ~Loaned(ss, s) PROVE ChatInv(ss2, hh, rr)
  BY <1>10
<1>1. ss[s].origin = "chat" /\ ss[s].st \in {"active", "paused", "failed"}
  BY DEF ChatInv, RunsHold
<1>9. \A r \in SessionIds : Loaned(ss2, r) <=> Loaned(ss, r)
  BY <1>1 DEF Loaned, Autonomous
<1>2. RunsHold(ss2, rr)
  BY <1>1, <1>9 DEF ChatInv, RunsHold
<1>3. AsksHold(ss2, hh)
  <2>1. \A h \in Pending(hh, AskKinds) : hh[h].sid # s
    BY <1>1 DEF ChatInv, AsksHold
  <2> QED BY <1>9, <2>1 DEF ChatInv, AsksHold
<1>4. \A r \in SessionIds : Parked(ss, rr, r) => Parked(ss2, rr, r)
  BY DEF Parked
<1>5. CrashRowsHold(ss2, hh, rr)
  <2>1. \A h \in Pending(hh, {"crash_resume"}) : hh[h].sids \subseteq SessionIds
    BY Kinded DEF Tables, HangingTable, HangRow
  <2> QED BY <1>4, <2>1 DEF ChatInv, CrashRowsHold
<1>6. ListsHold(ss2, rr)
  <2>1. \A n \in Messages : rr[n].todo \subseteq SessionIds
    BY FrameFields DEF Tables
  <2> QED BY <1>4, <2>1 DEF ChatInv, ListsHold
<1>7. StashesHold(ss2, hh)
  BY <1>1 DEF ChatInv, StashesHold
<1> QED BY <1>2, <1>3, <1>5, <1>6, <1>7 DEF ChatInv

\* A coroutine that works on nothing takes up a list of sessions to resume.
LEMMA Lists ==
  ASSUME NEW ss, NEW hh, NEW rr, Tables(ss, hh, rr), ChatInv(ss, hh, rr),
         NEW m \in Messages, NEW g \in Frame, rr[m].pc \notin Working, g.pc \notin Working,
         \A s \in g.todo : Free(hh, rr, s) /\ Parked(ss, rr, s)
  PROVE  ChatInv(ss, hh, [rr EXCEPT ![m] = g])
<1> DEFINE r2 == [rr EXCEPT ![m] = g]
<1>1. /\ \A n \in Messages : n # m => r2[n] = rr[n]
      /\ r2[m] = g /\ m \in Procs
  BY DEF Tables
<1> HIDE DEF r2
<1>2. \A n \in Messages : \A s : Drives(r2, n, s) => Drives(rr, n, s)
  BY <1>1 DEF Drives
<1>3. \A s : Parked(ss, rr, s) => Parked(ss, r2, s)
  BY <1>2 DEF Parked
<1>4. \A n \in Messages : \A s : s \in r2[n].todo => (n = m /\ s \in g.todo) \/ (n # m /\ s \in rr[n].todo)
  BY <1>1
<1>5. \A s \in g.todo : \A n \in Messages : s \notin rr[n].todo
  BY DEF Free
<1>6. CrashRowsHold(ss, hh, r2)
  <2>1. \A h \in Pending(hh, {"crash_resume"}) : \A s \in hh[h].sids : \A n \in Messages : s \notin r2[n].todo
    BY <1>4 DEF ChatInv, CrashRowsHold, Free
  <2> QED BY <1>3, <2>1 DEF ChatInv, CrashRowsHold
<1>7. ListsHold(ss, r2)
  BY <1>3, <1>4, <1>5 DEF ChatInv, ListsHold
<1>8. RunsHold(ss, r2)
  BY <1>2 DEF ChatInv, RunsHold
<1> QED BY <1>6, <1>7, <1>8 DEF ChatInv, r2

\* The driver hands over: unless its deep task failed, it lets its session go.
LEMMA HandsOver ==
  ASSUME TypeOK, OwnersInv, NEW m \in Messages, run[m].pc \in Working,
         NEW ss, NEW hh, Return(m, run[m], ss, hh, queue)
  PROVE  LET s == run[m].sid IN
         /\ sess' = ss /\ hang' = hh /\ queue' = queue
         /\ \E g \in Frame : run' = [run EXCEPT ![m] = g] /\ MessageFrame(g)
         /\ Tables(sess, hang, run') /\ ChatInv(sess, hang, run')
         /\ s \in SessionIds => (Loaned(sess, s) \/ sess[s].origin = "chat") /\ Drives(run, m, s)
         /\ s \in SessionIds /\ ~(run[m].caller = "deep" /\ ss[s].st = "failed") => Ready(sess, hang, run', s)
<1> DEFINE f == run[m]
           g1 == [f EXCEPT !.pc = "reflect", !.iter = 0]
           g2 == Sending(f.sid, f.todo)
<1>1. f \in Frame /\ f.sid \in SessionIds \cup {NoSession} /\ f.todo \in SUBSET SessionIds /\ MessageFrame(f) /\ f.pc \in Working
  BY DEF TypeOK, Frame, OwnersInv, FrameInv
<1>2. Tables(sess, hang, run) /\ ChatInv(sess, hang, run)
  BY DEF TypeOK, OwnersInv, Tables
<1>3. g1 \in Frame /\ MessageFrame(g1) /\ g1.pc = "reflect" /\ g1.sid = f.sid /\ g1.todo = f.todo
  BY <1>1 DEF Frame, MessageFrame
<1>4. g2 \in Frame /\ MessageFrame(g2) /\ g2.pc = "send" /\ g2.todo = f.todo
  BY <1>1, SendingType DEF MessageFrame, Sending, Ended
<1>5. f.caller # "queue"
  BY <1>1 DEF MessageFrame
<1>6. /\ sess' = ss /\ hang' = hh /\ queue' = queue
      /\ \/ f.caller = "deep" /\ ss[f.sid].st = "failed" /\ run' = [run EXCEPT ![m] = g1]
         \/ run' = [run EXCEPT ![m] = g2]
  BY <1>5 DEF Return, Put
<1>7. \A s \in SessionIds : s = f.sid => Drives(run, m, s)
  BY <1>1 DEF Drives
<1>8. f.sid \in SessionIds => Loaned(sess, f.sid) \/ sess[f.sid].origin = "chat"
  BY <1>2, <1>7 DEF ChatInv, RunsHold
<1> HIDE DEF g1, g2
<1>9. "send" \notin Working
  BY DEF Working, InLoop
<1>10. CASE run' = [run EXCEPT ![m] = g2]
  <2>1. ChatInv(sess, hang, run') /\ \A s \in SessionIds : Drives(run, m, s) => Ready(sess, hang, run', s)
    BY <1>2, <1>4, <1>9, <1>10, Moves
  <2>2. Tables(sess, hang, run')
    BY <1>2, <1>4, <1>10 DEF Tables
  <2> QED BY <1>4, <1>6, <1>7, <1>8, <1>10, <2>1, <2>2
<1>11. CASE f.caller = "deep" /\ ss[f.sid].st = "failed" /\ run' = [run EXCEPT ![m] = g1]
  <2>1. ChatInv(sess, hang, run')
    BY <1>2, <1>3, <1>7, <1>11, Moves
  <2>2. Tables(sess, hang, run')
    BY <1>2, <1>3, <1>11 DEF Tables
  <2> QED BY <1>3, <1>6, <1>7, <1>8, <1>11, <2>1, <2>2
<1> QED BY <1>6, <1>10, <1>11

\* A step without a fault leaves the process up.
LEMMA QuietKeepsUp == ASSUME Quiet PROVE up' = up
BY DEF Quiet, hostVars

\* The written status of the session at work.
LEMMA OnlyOneWritten ==
  ASSUME NEW ss \in SessionTable, NEW s \in SessionIds \cup {NoSession}, NEW st, st # "none",
         s \in SessionIds => Loaned(ss, s) \/ ss[s].origin = "chat"
  PROVE  LinOnly(ss, SetStatus(ss, s, st))
<1>1. CASE s \in SessionIds
  <2>1. \A r \in SessionIds : \/ SetStatus(ss, s, st)[r] = ss[r]
                              \/ ~Autonomous(ss, r) /\ ~Autonomous(SetStatus(ss, s, st), r)
                              \/ Loaned(ss, r) /\ Autonomous(SetStatus(ss, s, st), r)
    BY <1>1, StatusWrite DEF Autonomous, Loaned
  <2> QED BY <2>1, ChatWriteIsLins
<1>2. CASE s = NoSession
  BY <1>2, ChatWriteIsLins DEF SetStatus
<1> QED BY <1>1, <1>2

\* A session just let go is settled.
LEMMA LeavesSettled ==
  ASSUME NEW ss, NEW hh, NEW rr, Tables(ss, hh, rr), ChatInv(ss, hh, rr),
         NEW s \in SessionIds \cup {NoSession}, NEW st \in {"done", "failed", "cancelled", "active"},
         s \in SessionIds => Loaned(ss, s) \/ (Free(hh, rr, s) /\ ss[s].origin = "chat")
  PROVE  ChatInv(SetStatus(ss, s, st), hh, rr) /\ Tables(SetStatus(ss, s, st), hh, rr)
<1>1. SetStatus(ss, s, st) \in SessionTable
  BY SetStatusType DEF Tables, Status, Terminal
<1>2. CASE s \in SessionIds
  <2>1. ss \in SessionTable
    BY DEF Tables
  <2>2. /\ SetStatus(ss, s, st)[s].st = st /\ SetStatus(ss, s, st)[s].origin = ss[s].origin
        /\ \A r \in SessionIds : r # s => SetStatus(ss, s, st)[r] = ss[r]
    BY <1>2, <2>1, StatusWrite
  <2>3. /\ Loaned(ss, s) => Autonomous(SetStatus(ss, s, st), s)
        /\ ss[s].origin = "chat" => ~Autonomous(ss, s)
    BY <2>2 DEF Loaned, Autonomous
  <2> QED BY <1>1, <1>2, <2>2, <2>3, FreeWrites DEF Tables
<1>3. CASE s = NoSession
  BY <1>1, <1>3 DEF SetStatus, Tables
<1> QED BY <1>2, <1>3

\* The executor's reply finishes the session it drove.
LEMMA FinalReplyTurn ==
  ASSUME TypeOK, OwnersInv, NEW m \in Messages, FinalReply(m)
  PROVE  Turn(m)
<1> DEFINE s == run[m].sid
           ss == Complete(sess, s)
<1>1. run[m].pc \in Working /\ Return(m, run[m], ss, hang, queue)
  BY DEF FinalReply, Working, InLoop
<1>2. s \in SessionIds \cup {NoSession} /\ sess \in SessionTable
  BY DEF TypeOK, Frame
<1>3. s \in SessionIds => ss[s].st = "done"
  BY <1>2, StatusWrite DEF Complete
<1> HIDE DEF ss
<1>4. /\ sess' = ss /\ hang' = hang /\ queue' = queue
      /\ \E g \in Frame : run' = [run EXCEPT ![m] = g] /\ MessageFrame(g)
      /\ Tables(sess, hang, run') /\ ChatInv(sess, hang, run')
      /\ s \in SessionIds => Loaned(sess, s) \/ sess[s].origin = "chat"
      /\ s \in SessionIds => Ready(sess, hang, run', s)
  BY <1>1, <1>3, HandsOver
<1>5. ChatInv(ss, hang, run')
  BY <1>2, <1>4, LeavesSettled DEF ss, Complete, Ready
<1>6. LinOnly(sess, ss)
  BY <1>2, <1>4, OnlyOneWritten DEF ss, Complete
<1> QED BY <1>4, <1>5, <1>6 DEF Turn, KeepsStashes

\* An exhausted model fails the session it drove.
LEMMA RunFailsTurn ==
  ASSUME TypeOK, OwnersInv, NEW m \in Messages, RunFails(m)
  PROVE  Turn(m)
<1> DEFINE s == run[m].sid
           ss == Fail(sess, s)
<1>1. run[m].pc \in Working /\ Return(m, run[m], ss, hang, queue)
  BY DEF RunFails, Working, InLoop
<1>2. s \in SessionIds \cup {NoSession} /\ sess \in SessionTable
  BY DEF TypeOK, Frame
<1> HIDE DEF ss
<1>4. /\ sess' = ss /\ hang' = hang /\ queue' = queue
      /\ \E g \in Frame : run' = [run EXCEPT ![m] = g] /\ MessageFrame(g)
      /\ Tables(sess, hang, run') /\ ChatInv(sess, hang, run')
      /\ s \in SessionIds => (Loaned(sess, s) \/ sess[s].origin = "chat") /\ Drives(run, m, s)
      /\ s \in SessionIds /\ ~(run[m].caller = "deep" /\ ss[s].st = "failed") => Ready(sess, hang, run', s)
  BY <1>1, HandsOver
<1>5. CASE s \in SessionIds => Ready(sess, hang, run', s)
  <2>1. ChatInv(ss, hang, run')
    BY <1>2, <1>4, <1>5, LeavesSettled DEF ss, Fail, Ready
  <2> QED BY <1>2, <1>4, <2>1, OnlyOneWritten DEF Turn, KeepsStashes, ss, Fail
<1>6. CASE s \in SessionIds /\ run[m].caller = "deep" /\ ss[s].st = "failed"
  <2> DEFINE g == [run[m] EXCEPT !.pc = "reflect", !.iter = 0]
  <2>1. run' = [run EXCEPT ![m] = g]
    BY <1>1, <1>6 DEF Return, Put
  <2>2. g.pc = "reflect" /\ g.sid = s
    BY DEF TypeOK, Frame
  <2> HIDE DEF g
  <2>3. Drives(run', m, s)
    BY <2>1, <2>2 DEF Drives, Working, TypeOK
  <2>4. ss \in SessionTable /\ ss[s].st = "failed" /\ ss[s].origin = sess[s].origin /\ \A r \in SessionIds : r # s => ss[r] = sess[r]
    BY <1>2, <1>4, <1>6, StatusWrite, LifecycleType DEF ss, Fail
  <2>5. ChatInv(ss, hang, run')
    BY <1>4, <1>6, <2>3, <2>4, DriverWrites
  <2> QED BY <1>2, <1>4, <2>5, OnlyOneWritten DEF Turn, KeepsStashes, ss, Fail
<1> QED BY <1>4, <1>5, <1>6

\* A run that asks Lin hands its session over to the question.
LEMMA AskTurn ==
  ASSUME TypeOK, OwnersInv, NEW m \in Messages, run[m].pc \in Working, CanPost(hang), NEW kind \in AskKinds,
         Return(m, run[m], WaitUser(sess, run[m].sid), Post(hang, kind, run[m].sid, {}), queue)
  PROVE  Turn(m)
<1> DEFINE s == run[m].sid
           ss == WaitUser(sess, s)
           hh == Post(hang, kind, s, {})
<1>1. s \in SessionIds \cup {NoSession} /\ sess \in SessionTable /\ hang \in HangingTable
  BY DEF TypeOK, Frame
<1>2. s \in SessionIds => ss[s].st = "waiting_user"
  BY <1>1, StatusWrite DEF WaitUser
<1> HIDE DEF ss, hh
<1>3. /\ sess' = ss /\ hang' = hh /\ queue' = queue
      /\ \E g \in Frame : run' = [run EXCEPT ![m] = g] /\ MessageFrame(g)
      /\ Tables(sess, hang, run') /\ ChatInv(sess, hang, run')
      /\ s \in SessionIds => Loaned(sess, s) \/ sess[s].origin = "chat"
      /\ s \in SessionIds => Ready(sess, hang, run', s)
  BY <1>2, HandsOver DEF ss, hh
<1>4. ChatInv(ss, hh, run')
  BY <1>1, <1>3, Asks DEF ss, hh, Ready
<1>5. LinOnly(sess, ss)
  BY <1>1, <1>3, OnlyOneWritten DEF ss, WaitUser
<1>6. KeepsStashes(hang, hh)
  BY <1>1, AskKeepsStashes DEF hh, AskKinds, Questions
<1> QED BY <1>3, <1>4, <1>5, <1>6 DEF Turn

\* The loop goes on with the same session.
LEMMA LoopTurn ==
  ASSUME TypeOK, OwnersInv, NEW m \in Messages, CallTool(m) \/ ToolReturns(m)
  PROVE  Turn(m)
<1> DEFINE f    == run[m]
           next == [f EXCEPT !.iter = @ + 1]
           g1   == [f EXCEPT !.pc = "tool"]
           g2   == [next EXCEPT !.pc = "final"]
           g3   == [next EXCEPT !.pc = "llm"]
           g4   == [next EXCEPT !.pc = "reflect", !.iter = 0]
           g5   == Sending(next.sid, next.todo)
<1>1. f \in Frame /\ f.sid \in SessionIds \cup {NoSession} /\ f.todo \in SUBSET SessionIds /\ MessageFrame(f)
  BY DEF TypeOK, Frame, OwnersInv, FrameInv
<1>2. f.iter + 1 \in Nat
  BY <1>1 DEF Frame
<1>3. next \in Frame /\ next.sid = f.sid /\ next.todo = f.todo /\ next.caller = f.caller
  BY <1>1, <1>2 DEF Frame
<1>4. Drives(run, m, f.sid)
  BY DEF CallTool, ToolReturns, Drives, Working, InLoop
<1>5. Reached(sess, hang)
  BY ReachedNow
<1>6. ASSUME NEW g \in Frame, g.todo = f.todo, g.sid = f.sid, MessageFrame(g),
             run' = [run EXCEPT ![m] = g], UNCHANGED <<sess, hang, queue>>
      PROVE  Turn(m)
  <2>1. ChatInv(sess, hang, run')
    BY <1>4, <1>5, <1>6, Moves DEF Reached
  <2> QED BY <1>5, <1>6, <2>1 DEF Turn, Reached
<1>7. g1 \in Frame /\ MessageFrame(g1) /\ g1.todo = f.todo /\ g1.sid = f.sid
  BY <1>1 DEF Frame, MessageFrame, InLoop
<1> HIDE DEF next
<1>8. /\ g2 \in Frame /\ MessageFrame(g2) /\ g2.todo = f.todo /\ g2.sid = f.sid
      /\ g3 \in Frame /\ MessageFrame(g3) /\ g3.todo = f.todo /\ g3.sid = f.sid
      /\ g4 \in Frame /\ MessageFrame(g4) /\ g4.todo = f.todo /\ g4.sid = f.sid
  BY <1>1, <1>3 DEF Frame, MessageFrame, InLoop
<1>9. g5 \in Frame /\ MessageFrame(g5) /\ g5.todo = f.todo /\ g5.sid = f.sid
  BY <1>1, <1>3, SendingType DEF MessageFrame, Sending, Ended
<1>10. f.caller # "queue"
  BY <1>1 DEF MessageFrame
<1>11. \/ Put(m, g1) /\ UNCHANGED <<sess, hang, queue>>
       \/ BeginRound(m, next, sess, hang, queue)
       \/ Put(m, g2) /\ UNCHANGED <<sess, hang, queue>>
  BY DEF CallTool, ToolReturns, next
<1>12. BeginRound(m, next, sess, hang, queue) =>
         (Put(m, g3) \/ Put(m, g4) \/ Put(m, g5)) /\ UNCHANGED <<sess, hang, queue>>
  BY <1>3, <1>10 DEF BeginRound, Return
<1> HIDE DEF f, g1, g2, g3, g4, g5
<1> QED BY <1>6, <1>7, <1>8, <1>9, <1>11, <1>12 DEF Put

\* Every step of an executor run for Lin is a Turn.
LEMMA ExecutorTurn ==
  ASSUME TypeOK, OwnersInv, ~BusStalls, NEW m \in Messages, ExecutorStep(m)
  PROVE  Turn(m) /\ up' = up
<1>1. up' = up
  BY QuietKeepsUp DEF ExecutorStep, FinalReply, RunFails, CallTool, ToolReturns, AskUser, RequestApproval, PublishDrains
<1>2. CASE FinalReply(m) \/ RunFails(m) \/ CallTool(m) \/ ToolReturns(m)
  BY <1>2, FinalReplyTurn, RunFailsTurn, LoopTurn, <1>1
<1>3. CASE AskUser(m) \/ RequestApproval(m)
  <2>1. run[m].pc \in Working /\ CanPost(hang)
    BY <1>3 DEF AskUser, RequestApproval, MayAsk, Working, InLoop
  <2>2. \E kind \in AskKinds : Return(m, run[m], WaitUser(sess, run[m].sid), Post(hang, kind, run[m].sid, {}), queue)
    BY <1>3 DEF AskUser, RequestApproval, AskKinds
  <2> QED BY <1>1, <2>1, <2>2, AskTurn
<1>4. CASE PublishDrains(m)
  BY <1>4 DEF PublishDrains, OwnersInv, FrameInv, MessageFrame
<1> QED BY <1>2, <1>3, <1>4 DEF ExecutorStep

\* A resumed session is not displaced, so the run that resumed it starts.
LEMMA ResumedRuns ==
  ASSUME NEW ss \in SessionTable, NEW s \in SessionIds \cup {NoSession}
  PROVE  /\ ~IsDisplaced(Resume(ss, s), s)
         /\ s \in SessionIds /\ ss[s].st \in Blocked => Resume(ss, s) = SetStatus(ss, s, "active")
         /\ ~(s \in SessionIds /\ ss[s].st \in Blocked) => Resume(ss, s) = ss
BY StatusWrite DEF IsDisplaced, Resume, Resumable, Blocked, Displaced, SessionIds

\* The crash_resume loop, from the point where message m holds the list.
LEMMA NextCrashedTurn ==
  ASSUME TypeOK, NEW m \in Messages, NEW ss, NEW hh, NEW r0 \in [Procs -> Frame],
         Tables(ss, hh, r0), ChatInv(ss, hh, r0),
         \A g : [run EXCEPT ![m] = g] = [r0 EXCEPT ![m] = g], r0[m].pc \notin Working,
         NextCrashed(m, ss, hh, r0[m].todo)
  PROVE  /\ ChatInv(sess', hang', run') /\ hang' = hh /\ queue' = queue
         /\ LinOnly(ss, sess')
         /\ \E g \in Frame : run' = [run EXCEPT ![m] = g] /\ MessageFrame(g)
<1> DEFINE todo == r0[m].todo
           left == {s \in todo : Resumable(ss, s)}
           s    == CHOOSE s \in left : \A r \in left : s >= r
           rest == {r \in todo : r < s}
           g1   == [Ended EXCEPT !.todo = rest]
           f    == [Calling("crash", s, NoTask, FALSE) EXCEPT !.todo = rest]
           g    == [f EXCEPT !.pc = "llm"]
           s2   == Resume(ss, s)
<1>1. Ended \in Frame /\ MessageFrame(Ended) /\ Ended.pc \notin Working /\ Ended.todo = {}
  BY EndedType DEF Ended, MessageFrame, Working, InLoop
<1>2. todo \in SUBSET SessionIds /\ ss \in SessionTable
  BY FrameFields DEF Tables
<1>3. CASE left = {}
  <2>1. sess' = ss /\ hang' = hh /\ queue' = queue /\ run' = [r0 EXCEPT ![m] = Ended] /\ run' = [run EXCEPT ![m] = Ended]
    BY <1>3 DEF NextCrashed, End, Put
  <2>2. ChatInv(ss, hh, [r0 EXCEPT ![m] = Ended])
    BY <1>1, Moves
  <2>3. LinOnly(ss, ss)
    BY ChatWriteIsLins
  <2> QED BY <1>1, <2>1, <2>2, <2>3
<1>4. CASE left # {}
  <2>1. \E x \in left : \A r \in left : x >= r
    BY <1>2, <1>4, NewestSession
  <2>2. s \in todo /\ s \in SessionIds /\ ss[s].st \in Blocked
    BY <1>2, <2>1 DEF Resumable
  <2>3. ~IsDisplaced(s2, s) /\ s2 = SetStatus(ss, s, "active")
    BY <1>2, <2>2, ResumedRuns
  <2>4. f.sid = s
    BY DEF Calling
  <2>5. BeginRound(m, f, s2, hh, queue)
    BY <1>4 DEF NextCrashed
  <2>6. sess' = s2 /\ hang' = hh /\ queue' = queue /\ run' = [run EXCEPT ![m] = g]
    BY <2>3, <2>4, <2>5 DEF BeginRound, Put
  <2> HIDE DEF s
  <2>7. rest \in SUBSET SessionIds /\ rest \subseteq todo /\ s \notin rest
    <3>1. s \in Nat
      BY <2>2, SessionIdsAreNat
    <3> QED BY <1>2, <3>1
  <2> HIDE DEF rest
  <2>8. g1 \in Frame /\ g1.todo = rest /\ g1.pc \notin Working
    BY <1>1, <2>7 DEF Frame, Ended, Working, InLoop
  <2>9. Calling("crash", s, NoTask, FALSE) \in Frame
    BY <2>2, CallingType DEF Caller
  <2>10. f \in Frame /\ f.caller = "crash"
    BY <2>7, <2>9 DEF Frame, Calling, Ended
  <2>11. g \in Frame /\ g.todo = rest /\ g.sid = s /\ MessageFrame(g)
    BY <2>4, <2>10 DEF Frame, InLoop, MessageFrame
  <2> HIDE DEF g1, g, f, s2
  <2> DEFINE r1 == [r0 EXCEPT ![m] = g1]
  <2>12. ChatInv(ss, hh, r1) /\ Free(hh, r1, s)
    BY <2>2, <2>7, <2>8, Moves
  <2>13. r1 \in [Procs -> Frame] /\ r1[m] = g1 /\ [r1 EXCEPT ![m] = g] = [r0 EXCEPT ![m] = g]
    BY <2>8
  <2>14. Tables(ss, hh, r1)
    BY <2>13 DEF Tables
  <2>15. ss[s].origin = "chat"
    BY <2>2 DEF ChatInv, ListsHold, Parked
  <2> HIDE DEF r1
  <2>16. ChatInv(s2, hh, r1) /\ Tables(s2, hh, r1) /\ LinOnly(ss, s2)
    BY <1>2, <2>2, <2>3, <2>12, <2>14, <2>15, LeavesSettled, OnlyOneWritten
  <2>17. s2[s].st = "active" /\ s2[s].origin = "chat"
    BY <1>2, <2>2, <2>3, <2>15, StatusWrite
  <2>18. ChatInv(s2, hh, [r1 EXCEPT ![m] = g])
    BY <2>8, <2>11, <2>12, <2>13, <2>16, <2>17, Takes
  <2> QED BY <2>6, <2>11, <2>13, <2>16, <2>18
<1> QED BY <1>3, <1>4

\* A message that holds nothing yet takes up what its answer woke.
LEMMA TakesUp ==
  ASSUME TypeOK, NEW m \in Messages, NEW ss, NEW hh, NEW r1, Tables(ss, hh, r1), ChatInv(ss, hh, r1),
         r1 = [run EXCEPT ![m] = Ended], NEW g \in Frame, g.todo = {},
         g.sid \in SessionIds => \/ Loaned(ss, g.sid)
                                 \/ /\ Free(hh, r1, g.sid) /\ ss[g.sid].origin = "chat"
                                    /\ ss[g.sid].st \in {"active", "paused", "failed"}
  PROVE  ChatInv(ss, hh, [run EXCEPT ![m] = g])
<1>1. r1[m] = Ended /\ [r1 EXCEPT ![m] = g] = [run EXCEPT ![m] = g]
  BY DEF TypeOK
<1>2. Ended.todo = {} /\ Ended.pc \notin Working
  BY DEF Ended, Working, InLoop
<1>3. r1[m].todo = g.todo /\ r1[m].pc \notin Working
  BY <1>1, <1>2
<1>4. ChatInv(ss, hh, [r1 EXCEPT ![m] = g])
  BY <1>3, Takes
<1> QED BY <1>1, <1>4

\* A resumed asker goes on, or one that had no session stays without; one lent to
\* Lin may have gone on already.
LEMMA AnswersWake ==
  ASSUME NEW ss, NEW hh, NEW rr, Tables(ss, hh, rr), ChatInv(ss, hh, rr),
         NEW h \in Pending(hh, AskKinds), NEW ss2 \in SessionTable, NEW st \in {"active", "cancelled"},
         hh[h].sid \in SessionIds => ss2 = SetStatus(ss, hh[h].sid, st) \/ (Loaned(ss, hh[h].sid) /\ ss2 = ss),
         hh[h].sid \notin SessionIds => ss2 = ss
  PROVE  /\ ChatInv(ss2, ResolveRow(hh, h), rr) /\ Tables(ss2, ResolveRow(hh, h), rr)
         /\ LinOnly(ss, ss2)
         /\ hh[h].sid \in SessionIds =>
              \/ Loaned(ss2, hh[h].sid)
              \/ /\ Free(ResolveRow(hh, h), rr, hh[h].sid)
                 /\ ss2[hh[h].sid].origin = "chat" /\ ss2[hh[h].sid].st = st
<1> DEFINE s == hh[h].sid
           h2 == ResolveRow(hh, h)
<1>1. h \in HangIds /\ hh \in HangingTable /\ ss \in SessionTable /\ rr \in [Procs -> Frame] /\ h \in Pending(hh, Kinds)
  BY DEF Pending, Tables, AskKinds, Kinds, Questions
<1>2. h2 \in HangingTable /\ Resolves(hh, h2, {h})
  BY <1>1, HangingUpdateType, ResolvesRow
<1>3. s \in SessionIds => Loaned(ss, s) \/ (ss[s].st = "waiting_user" /\ ss[s].origin = "chat")
  BY DEF ChatInv, AsksHold
<1>4. s \in SessionIds =>
        \/ /\ ss2[s].st = st /\ ss2[s].origin = ss[s].origin /\ \A r \in SessionIds : r # s => ss2[r] = ss[r]
        \/ Loaned(ss, s) /\ ss2 = ss
  BY <1>1, StatusWrite
<1>5. \A r \in SessionIds :
           \/ ss2[r] = ss[r]
           \/ /\ ss2[r].origin = ss[r].origin /\ ss2[r].st \notin {"waiting_user", "none"}
              /\ \E k \in {h} \cap Pending(hh, Kinds) : hh[k].sid = r
  BY <1>1, <1>4
<1>6. \A k \in {h} \cap Pending(hh, AskKinds) :
        hh[k].sid \in SessionIds => Loaned(ss, hh[k].sid) \/ ss2[hh[k].sid].st # "waiting_user"
  BY <1>4
<1>7. ChatInv(ss2, h2, rr) /\ (s \in SessionIds => Ready(ss2, h2, rr, s))
  BY <1>2, <1>5, <1>6, Resolved
<1>8. s \in SessionIds => Loaned(ss2, s) \/ (~Loaned(ss, s) /\ ss2[s].origin = "chat" /\ ss2[s].st = st)
  BY <1>3, <1>4 DEF Loaned, Autonomous
<1>9. LinOnly(ss, ss2)
  <2>1. \A r \in SessionIds : \/ ss2[r] = ss[r]
                              \/ ~Autonomous(ss, r) /\ ~Autonomous(ss2, r)
                              \/ Loaned(ss, r) /\ Autonomous(ss2, r)
    BY <1>3, <1>4 DEF Loaned, Autonomous
  <2> QED BY <2>1, ChatWriteIsLins
<1> QED BY <1>1, <1>2, <1>7, <1>8, <1>9 DEF Tables, Ready

\* A message that is over drives nothing.
LEMMA EndedFrame == Ended \in Frame /\ MessageFrame(Ended) /\ Ended.pc \notin Working /\ Ended.todo = {} /\ Ended.sid = NoSession
BY EndedType DEF Ended, MessageFrame, Working, InLoop

\* A message that worked on nothing lets go of the rest.
LEMMA LetsGo ==
  ASSUME TypeOK, NEW m \in Messages, NEW ss, NEW hh, Reached(ss, hh), NEW g \in Frame, g.todo = {}, g.pc \notin Working
  PROVE  ChatInv(ss, hh, [run EXCEPT ![m] = g]) /\ Tables(ss, hh, [run EXCEPT ![m] = g])
<1>1. Tables(ss, hh, run) /\ ChatInv(ss, hh, run) /\ g.todo \subseteq run[m].todo
  BY DEF Reached
<1>2. ChatInv(ss, hh, [run EXCEPT ![m] = g])
  BY <1>1, Moves
<1> QED BY <1>1, <1>2 DEF Tables

\* A message that answers nothing becomes a run of its own or ends.
LEMMA NotAnAnswerTurn ==
  ASSUME TypeOK, NEW m \in Messages, NEW ss, NEW hh, Reached(ss, hh), NotAnAnswer(m, ss, hh)
  PROVE  Turn(m)
<1> DEFINE g == [Ended EXCEPT !.pc = "classify"]
<1>1. g \in Frame /\ MessageFrame(g) /\ g.todo = {} /\ g.pc \notin Working
  BY EndedType DEF Ended, Frame, MessageFrame, Working, InLoop
<1>2. sess' = ss /\ hang' = hh /\ queue' = queue /\ run' = [run EXCEPT ![m] = g]
  BY DEF NotAnAnswer, Put
<1> HIDE DEF g
<1> QED BY <1>1, <1>2, LetsGo DEF Turn, Reached

\* An approval or an answer wakes the session that waits for it, and that session
\* only: no other message drives it.
LEMMA AskAnswered ==
  ASSUME TypeOK, NEW m \in Messages, NEW ss, NEW hh, Reached(ss, hh), NEW h \in Pending(hh, AskKinds),
         Approve(m, h, ss, hh) \/ Decline(m, h, ss, hh) \/ Answer(m, h, ss, hh)
  PROVE  Turn(m)
<1> DEFINE s  == hh[h].sid
           r1 == [run EXCEPT ![m] = Ended]
           h2 == ResolveRow(hh, h)
           s2 == Resume(ss, s)
           s3 == Cancel(s2, s)
           g1 == [Ended EXCEPT !.pc = "approved", !.sid = s]
           g2 == Sending(s, {})
           f  == Calling("answer", s, NoTask, FALSE)
           g3 == [f EXCEPT !.pc = "llm"]
<1>1. h \in HangIds /\ hh \in HangingTable /\ ss \in SessionTable
  BY DEF Pending, Reached, Tables
<1>2. s \in SessionIds \cup {NoSession}
  BY <1>1 DEF HangingTable, HangRow
<1>3. ChatInv(ss, hh, r1) /\ Tables(ss, hh, r1)
  BY EndedFrame, LetsGo
<1>4. s \in SessionIds => Loaned(ss, s) \/ ss[s].st = "waiting_user"
  BY <1>3 DEF ChatInv, AsksHold
<1>5. /\ s \in SessionIds => s2 = SetStatus(ss, s, "active") \/ (Loaned(ss, s) /\ s2 = ss)
      /\ s \notin SessionIds => s2 = ss
      /\ ~IsDisplaced(s2, s)
  BY <1>1, <1>2, <1>4, ResumedRuns DEF Blocked
<1>6. s \in SessionIds => s3 = SetStatus(ss, s, "cancelled")
  BY <1>1, <1>5 DEF Cancel, SetStatus
<1>7. s \notin SessionIds => s3 = ss
  BY <1>2, <1>5 DEF Cancel, SetStatus
<1>8. s2 \in SessionTable /\ s3 \in SessionTable
  BY <1>1, LifecycleType
<1>9. /\ g1 \in Frame /\ MessageFrame(g1) /\ g1.todo = {} /\ g1.sid = s
      /\ g2 \in Frame /\ MessageFrame(g2) /\ g2.todo = {} /\ g2.pc \notin Working
  <2>1. g1 \in Frame /\ MessageFrame(g1) /\ g1.todo = {} /\ g1.sid = s
    <3>1. Ended \in Frame
      BY EndedType
    <3> QED BY <1>2, <3>1 DEF Ended, Frame, MessageFrame
  <2>2. g2 \in Frame /\ g2.pc = "send"
    BY <1>2, SendingType
  <2>3. g2.todo = {} /\ g2.caller = "none"
    BY DEF Sending, Ended
  <2> QED BY <2>1, <2>2, <2>3 DEF MessageFrame, Working, InLoop
<1>10. g3 \in Frame /\ MessageFrame(g3) /\ g3.todo = {} /\ g3.sid = s
  <2>1. f \in Frame
    BY <1>2, CallingType DEF Caller
  <2>2. f.caller = "answer" /\ f.sid = s /\ f.todo = {}
    BY DEF Calling, Ended
  <2> HIDE DEF f
  <2> QED BY <2>1, <2>2 DEF Frame, InLoop, MessageFrame
<1>11. \/ sess' = s2 /\ run' = [run EXCEPT ![m] = g1] /\ hang' = h2 /\ queue' = queue
       \/ sess' = s3 /\ run' = [run EXCEPT ![m] = g2] /\ hang' = h2 /\ queue' = queue
       \/ sess' = s2 /\ run' = [run EXCEPT ![m] = g3] /\ hang' = h2 /\ queue' = queue
  <2>1. f.sid = s
    BY DEF Calling
  <2> QED BY <1>5, <2>1 DEF Approve, Decline, Answer, BeginRound, Put
<1> HIDE DEF s2, s3, h2, g1, g2, f, g3, s
<1>12. KeepsStashes(hang, h2)
  <2>1. h \in Pending(hh, Questions)
    BY DEF Pending, AskKinds, Questions
  <2> QED BY <1>1, <2>1, ResolvingKeepsStashes, StashesKeptTwice DEF Reached, h2
<1>13. ASSUME NEW st \in {"active", "cancelled"}, NEW ss2 \in SessionTable,
              s \in SessionIds => ss2 = SetStatus(ss, s, st) \/ (Loaned(ss, s) /\ ss2 = ss),
              s \notin SessionIds => ss2 = ss
       PROVE  /\ ChatInv(ss2, h2, r1) /\ Tables(ss2, h2, r1) /\ LinOnly(sess, ss2)
              /\ s \in SessionIds =>
                   Loaned(ss2, s) \/ (Free(h2, r1, s) /\ ss2[s].origin = "chat" /\ ss2[s].st = st)
  <2>1. /\ ChatInv(ss2, h2, r1) /\ Tables(ss2, h2, r1) /\ LinOnly(ss, ss2)
        /\ s \in SessionIds =>
             Loaned(ss2, s) \/ (Free(h2, r1, s) /\ ss2[s].origin = "chat" /\ ss2[s].st = st)
    BY <1>3, <1>13, AnswersWake DEF h2, s
  <2> QED BY <2>1, LinOnlyTwice DEF Reached
<1>14. /\ ChatInv(s2, h2, r1) /\ Tables(s2, h2, r1) /\ LinOnly(sess, s2)
       /\ s \in SessionIds =>
            Loaned(s2, s) \/ (Free(h2, r1, s) /\ s2[s].origin = "chat" /\ s2[s].st = "active")
  BY <1>5, <1>8, <1>13
<1>15. ASSUME NEW g \in Frame, g.todo = {}, g.sid = s PROVE ChatInv(s2, h2, [run EXCEPT ![m] = g])
  BY <1>14, <1>15, TakesUp
<1>16. CASE sess' = s2 /\ run' = [run EXCEPT ![m] = g1] /\ hang' = h2 /\ queue' = queue
  BY <1>9, <1>12, <1>14, <1>15, <1>16 DEF Turn
<1>17. CASE sess' = s2 /\ run' = [run EXCEPT ![m] = g3] /\ hang' = h2 /\ queue' = queue
  BY <1>10, <1>12, <1>14, <1>15, <1>17 DEF Turn
<1>18. CASE sess' = s3 /\ run' = [run EXCEPT ![m] = g2] /\ hang' = h2 /\ queue' = queue
  <2>1. ChatInv(s3, h2, r1) /\ Tables(s3, h2, r1) /\ LinOnly(sess, s3)
    BY <1>6, <1>7, <1>8, <1>13
  <2>2. r1[m] = Ended /\ [r1 EXCEPT ![m] = g2] = [run EXCEPT ![m] = g2]
    BY DEF TypeOK
  <2>3. g2.todo \subseteq r1[m].todo /\ g2.pc \notin Working
    BY <1>9, <2>2
  <2>4. ChatInv(s3, h2, [r1 EXCEPT ![m] = g2])
    BY <1>9, <2>1, <2>3, Moves
  <2> QED BY <1>9, <1>12, <1>18, <2>1, <2>2, <2>4 DEF Turn
<1> QED BY <1>11, <1>16, <1>17, <1>18

\* So does a yes to resuming what a crash interrupted, one session after the other.
LEMMA CrashAnswered ==
  ASSUME TypeOK, NEW m \in Messages, NEW ss, NEW hh, Reached(ss, hh), NEW h \in Pending(hh, {"crash_resume"}),
         ResumeCrashed(m, h, ss, hh) \/ DropCrashed(m, h, ss, hh)
  PROVE  Turn(m)
<1> DEFINE sids == hh[h].sids
           r1 == [run EXCEPT ![m] = Ended]
           h2 == ResolveRow(hh, h)
<1>1. h \in HangIds /\ hh \in HangingTable /\ ss \in SessionTable /\ h \in Pending(hh, Questions)
  BY DEF Pending, Reached, Tables, Questions
<1>2. sids \in SUBSET SessionIds
  BY <1>1 DEF HangingTable, HangRow
<1>3. ChatInv(ss, hh, r1) /\ Tables(ss, hh, r1)
  BY EndedFrame, LetsGo
<1>4. h2 \in HangingTable /\ Resolves(hh, h2, {h}) /\ KeepsStashes(hang, h2)
  BY <1>1, HangingUpdateType, ResolvesRow, ResolvingKeepsStashes, StashesKeptTwice DEF Reached
<1>5. \A s \in sids : Parked(ss, r1, s)
  BY <1>3 DEF ChatInv, CrashRowsHold
<1>6. ChatInv(ss, h2, r1) /\ \A s \in sids : Free(h2, r1, s)
  <2>1. h \in {h} \cap Pending(hh, {"crash_resume"}) /\ h \notin Pending(hh, AskKinds)
    BY Kinded
  <2>2. \A k \in {h} \cap Pending(hh, AskKinds) : hh[k].sid \in SessionIds => ss[hh[k].sid].st # "waiting_user"
    BY <2>1
  <2> QED BY <1>1, <1>3, <1>4, <2>1, <2>2, Resolved
<1>7. Tables(ss, h2, r1)
  BY <1>3, <1>4 DEF Tables
<1>8. r1 \in [Procs -> Frame] /\ r1[m] = Ended /\ \A g : [r1 EXCEPT ![m] = g] = [run EXCEPT ![m] = g]
  BY EndedType DEF TypeOK
<1> HIDE DEF h2, r1, sids
<1>9. CASE ResumeCrashed(m, h, ss, hh)
  <2> DEFINE g  == [Ended EXCEPT !.todo = sids]
             r2 == [r1 EXCEPT ![m] = g]
  <2>1. g \in Frame /\ g.todo = sids /\ g.pc \notin Working
    BY <1>2, EndedFrame DEF Frame, Ended, Working, InLoop
  <2> HIDE DEF g
  <2>2. ChatInv(ss, h2, r2)
    BY <1>5, <1>6, <1>7, <1>8, <2>1, EndedFrame, Lists
  <2>3. r2 \in [Procs -> Frame] /\ r2[m].todo = sids /\ r2[m].pc \notin Working
    BY <1>8, <2>1
  <2>4. \A k : [run EXCEPT ![m] = k] = [r2 EXCEPT ![m] = k]
    BY <1>8
  <2>5. Tables(ss, h2, r2)
    BY <1>7, <2>3 DEF Tables
  <2>6. NextCrashed(m, ss, h2, r2[m].todo)
    BY <1>9, <2>3 DEF ResumeCrashed, h2, sids
  <2> HIDE DEF r2
  <2>7. /\ ChatInv(sess', hang', run') /\ hang' = h2 /\ queue' = queue /\ LinOnly(ss, sess')
        /\ \E k \in Frame : run' = [run EXCEPT ![m] = k] /\ MessageFrame(k)
    BY <2>2, <2>3, <2>4, <2>5, <2>6, NextCrashedTurn
  <2> QED BY <1>4, <2>7, LinOnlyTwice DEF Turn, Reached
<1>10. CASE DropCrashed(m, h, ss, hh)
  <2> DEFINE s2 == [s \in SessionIds |-> IF s \in sids THEN [ss[s] EXCEPT !.st = "cancelled"] ELSE ss[s]]
  <2>1. sess' = s2 /\ hang' = h2 /\ queue' = queue /\ run' = r1 /\ run' = [run EXCEPT ![m] = Ended]
    BY <1>10 DEF DropCrashed, End, Put, h2, r1, sids
  <2>2. \A s \in SessionIds : ss[s] \in Session /\ [ss[s] EXCEPT !.st = "cancelled"] \in Session
    BY <1>1 DEF SessionTable, Session, Status, Terminal
  <2>3. s2 \in SessionTable
    BY <2>2 DEF SessionTable
  <2>4. \A s \in SessionIds : IF s \in sids THEN s2[s].st = "cancelled" /\ s2[s].origin = ss[s].origin ELSE s2[s] = ss[s]
    BY <1>1 DEF SessionTable, Session
  <2>5. \A s \in sids : ss[s].origin = "chat"
    BY <1>5 DEF Parked
  <2> HIDE DEF s2
  <2>6. ChatInv(s2, h2, r1)
    BY <1>6, <1>7, <2>3, <2>4, <2>5, FreeWrites DEF Autonomous
  <2>7. LinOnly(ss, s2)
    BY <2>4, <2>5, ChatWriteIsLins DEF Autonomous
  <2> QED BY <1>4, <2>1, <2>6, <2>7, LinOnlyTwice, EndedFrame DEF Turn, Reached
<1> QED BY <1>9, <1>10

\* Whatever a routed message turns out to be, the handler's step is a Turn.
LEMMA DispatchTurn ==
  ASSUME TypeOK, NEW m \in Messages, NEW ss, NEW hh, Reached(ss, hh), NEW h \in Pending(hh, Questions),
         NEW text, Dispatch(m, h, text, ss, hh)
  PROVE  Turn(m)
<1>1. hh[h].kind \in AskKinds => h \in Pending(hh, AskKinds)
  BY DEF Pending
<1>2. hh[h].kind = "crash_resume" => h \in Pending(hh, {"crash_resume"})
  BY DEF Pending
<1>3. CASE NotAnAnswer(m, ss, hh)
  BY <1>3, NotAnAnswerTurn
<1>4. CASE hh[h].kind \in AskKinds /\ (Approve(m, h, ss, hh) \/ Decline(m, h, ss, hh) \/ Answer(m, h, ss, hh))
  BY <1>1, <1>4, AskAnswered
<1>5. CASE hh[h].kind = "crash_resume" /\ (ResumeCrashed(m, h, ss, hh) \/ DropCrashed(m, h, ss, hh))
  BY <1>2, <1>5, CrashAnswered
<1> QED BY <1>3, <1>4, <1>5 DEF Dispatch, AskKinds

\* The sweep at the head of routing fails chat sessions, and ones lent to Lin, only.
LEMMA RouteSweeps ==
  ASSUME TypeOK, OwnersInv
  PROVE  Reached(SweepSessions(sess, hang, Questions), SweepRows(hang, Questions))
<1> DEFINE ss == SweepSessions(sess, hang, Questions)
<1>1. Tables(sess, hang, run) /\ ChatInv(sess, hang, run)
  BY ReachedNow DEF Reached
<1>2. Questions \in SUBSET Kinds
  BY DEF Kinds
<1>3. ASSUME NEW s \in SessionIds, NEW h \in Expired(hang, Questions), hang[h].sid = s
      PROVE  Loaned(sess, s) \/ sess[s].origin = "chat"
  <2>1. h \in Pending(hang, AskKinds) \/ h \in Pending(hang, {"crash_resume"})
    BY Kinded DEF Expired
  <2>2. CASE h \in Pending(hang, AskKinds)
    BY <1>1, <1>3, <2>2 DEF ChatInv, AsksHold
  <2>3. CASE h \in Pending(hang, {"crash_resume"})
    BY <1>1, <1>3, <2>3 DEF ChatInv, CrashRowsHold, Parked
  <2> QED BY <2>1, <2>2, <2>3
<1>4. \A s \in SessionIds :
        \/ ss[s] = sess[s]
        \/ /\ ss[s].origin = sess[s].origin /\ ss[s].st = "failed"
           /\ Loaned(sess, s) \/ sess[s].origin = "chat"
  BY <1>1, <1>3 DEF SweepSessions, Tables, SessionTable, Session
<1> HIDE DEF ss
<1>5. LinOnly(sess, ss)
  <2>1. \A s \in SessionIds : \/ ss[s] = sess[s]
                              \/ ~Autonomous(sess, s) /\ ~Autonomous(ss, s)
                              \/ Loaned(sess, s) /\ Autonomous(ss, s)
    BY <1>4 DEF Autonomous, Loaned
  <2> QED BY <2>1, ChatWriteIsLins
<1>6. KeepsStashes(hang, SweepRows(hang, Questions))
  BY <1>1, ResolvingKeepsStashes DEF Tables
<1> QED BY <1>1, <1>2, <1>5, <1>6, Sweeps DEF Reached, ss

\* A message that arrives displaces active autonomous work and is routed, or is new
\* work.
LEMMA ArrivalTurn ==
  ASSUME TypeOK, OwnersInv, NEW m \in Messages, MessageArrives(m)
  PROVE  Turn(m) /\ up' = up
<1>1. up' = up
  BY DEF MessageArrives, StopPhrase, ResumePhrase, Route, hostVars
<1>2. run[m].pc \notin Working
  BY DEF MessageArrives, StopPhrase, ResumePhrase, Route, Arrives, Working, InLoop
<1>3. CASE StopPhrase(m) \/ ResumePhrase(m)
  <2>1. sess' = sess /\ hang' = hang /\ queue' = queue /\ run' = [run EXCEPT ![m] = Ended]
    BY <1>3 DEF StopPhrase, ResumePhrase, End, Put
  <2>2. Reached(sess, hang)
    BY ReachedNow
  <2> QED BY <1>1, <2>1, <2>2, EndedFrame, LetsGo DEF Turn, Reached
<1>4. CASE Route(m)
  <2> DEFINE ss    == SweepSessions(sess, hang, Questions)
             hh    == SweepRows(hang, Questions)
             items == Pending(hh, Questions)
             g(text) == [Ended EXCEPT !.pc = "routing", !.hids = items, !.text = text]
  <2>1. Reached(ss, hh)
    BY RouteSweeps
  <2>2. \/ NotAnAnswer(m, ss, hh)
        \/ \E h \in items, text \in {"plain", "yes", "no"} : Dispatch(m, h, text, ss, hh)
        \/ \E text \in {"plain", "yes", "no"} : sess' = ss /\ hang' = hh /\ Put(m, g(text)) /\ queue' = queue
    BY <1>4 DEF Route
  <2>3. items \in SUBSET HangIds /\ items = Pending(hh, Questions)
    BY DEF Pending
  <2> HIDE DEF ss, hh, items
  <2>4. ASSUME NEW text \in {"plain", "yes", "no"}, sess' = ss, hang' = hh, Put(m, g(text)), queue' = queue
        PROVE  Turn(m)
    <3> DEFINE k == g(text)
    <3>1. Ended \in Frame
      BY EndedType
    <3>2. k \in Frame /\ k.todo = {} /\ k.pc \notin Working /\ MessageFrame(k)
      BY <2>3, <3>1 DEF Frame, Ended, MessageFrame, Working, InLoop
    <3>3. run' = [run EXCEPT ![m] = k]
      BY <2>4 DEF Put
    <3> HIDE DEF k, g
    <3> QED BY <2>1, <2>4, <3>2, <3>3, LetsGo DEF Turn, Reached
  <2> QED BY <1>1, <2>1, <2>2, <2>3, <2>4, NotAnAnswerTurn, DispatchTurn
<1> QED BY <1>3, <1>4 DEF MessageArrives

\* A plan is back: the new session is the message's.
LEMMA PlannedTurn ==
  ASSUME TypeOK, OwnersInv, NEW m \in Messages, Planned(m)
  PROVE  Turn(m)
<1> DEFINE s == NextSession(sess)
           f == Calling("deep", s, NoTask, run[m].gated)
           g == [f EXCEPT !.pc = "llm"]
           r1 == [run EXCEPT ![m] = Ended]
<1>1. PICK tags \in SUBSET Tags : BeginRound(m, f, StartChat(sess, tags), hang, queue)
  BY DEF Planned
<1> DEFINE ss == StartChat(sess, tags)
<1>2. CanCreate(sess) /\ sess \in SessionTable /\ hang \in HangingTable /\ run[m].gated \in BOOLEAN
  BY DEF Planned, TypeOK, Frame
<1>3. s \in SessionIds /\ sess[s].st = "none"
  BY <1>2, NextSessionUnused
<1>4. /\ ss[s].st = "active" /\ ss[s].origin = "chat"
      /\ \A r \in SessionIds : r # s =>
              \/ ss[r] = sess[r]
              \/ /\ sess[r].st = "active" /\ sess[r].origin = "chat"
                 /\ ss[r].st = "paused" /\ ss[r].origin = "chat"
              \/ /\ sess[r].st = "active" /\ sess[r].origin = "queue"
                 /\ ss[r].st \in Displaced /\ ss[r].origin = "queue"
  BY <1>2, ChatStart
<1>5. Reached(sess, hang)
  BY ReachedNow
<1>6. ChatInv(sess, hang, r1) /\ Tables(sess, hang, r1)
  BY <1>5, EndedFrame, LetsGo
<1>7. ChatInv(ss, hang, r1) /\ Tables(ss, hang, r1) /\ Free(hang, r1, s)
  BY <1>2, <1>6, ChatStarts
<1>8. f \in Frame /\ f.sid = s /\ f.caller = "deep" /\ f.todo = {}
  BY <1>2, <1>3, CallingType DEF Caller, Calling, Ended
<1> HIDE DEF f, ss, s, r1
<1>9. g \in Frame /\ g.sid = s /\ g.todo = {} /\ MessageFrame(g)
  BY <1>8 DEF Frame, InLoop, MessageFrame
<1>10. ~IsDisplaced(ss, f.sid)
  BY <1>4, <1>8 DEF IsDisplaced, Displaced
<1>11. sess' = ss /\ hang' = hang /\ queue' = queue /\ run' = [run EXCEPT ![m] = g]
  BY <1>1, <1>10 DEF BeginRound, Put, ss
<1> HIDE DEF g
<1>12. ChatInv(ss, hang, [run EXCEPT ![m] = g])
  BY <1>4, <1>7, <1>9, TakesUp DEF r1
<1>13. LinOnly(sess, ss)
  <2> SUFFICES ASSUME NEW r \in SessionIds
               PROVE  /\ Autonomous(ss, r) <=> Autonomous(sess, r)
                      /\ Autonomous(sess, r) => ss[r] = sess[r] \/ (sess[r].st = "active" /\ ss[r].st \in Displaced)
    BY DEF LinOnly
  <2>1. CASE r = s
    BY <1>3, <1>4, <2>1 DEF Autonomous
  <2>2. CASE r # s
    BY <1>4, <2>2 DEF Autonomous, Displaced
  <2> QED BY <2>1, <2>2
<1> QED BY <1>5, <1>9, <1>11, <1>12, <1>13 DEF Turn, Reached

\* After the reflection the message takes the next session from its list, or ends.
LEMMA ReflectedTurn ==
  ASSUME TypeOK, OwnersInv, NEW m \in Messages, Reflected(m)
  PROVE  Turn(m)
<1> DEFINE s == run[m].sid
           f == [run[m] EXCEPT !.caller = "retry"]
           g1 == [f EXCEPT !.pc = "llm"]
           g2 == Sending(s, {})
           s2 == Resume(sess, s)
<1>1. /\ run[m] \in Frame /\ s \in SessionIds \cup {NoSession} /\ run[m].pc = "reflect" /\ sess \in SessionTable
      /\ MessageFrame(run[m])
  BY DEF TypeOK, Frame, Reflected, OwnersInv, FrameInv
<1>2. Reached(sess, hang)
  BY ReachedNow
<1>3. f \in Frame /\ f.sid = s /\ f.todo = run[m].todo /\ f.caller = "retry" /\ f.pc = "reflect"
  BY <1>1 DEF Frame, Caller
<1> HIDE DEF f
<1>4. g1 \in Frame /\ g1.sid = s /\ g1.todo = run[m].todo /\ MessageFrame(g1) /\ g1.pc = "llm"
  BY <1>3 DEF Frame, InLoop, MessageFrame
<1>5. g2 \in Frame /\ g2.pc = "send" /\ g2.todo = {} /\ g2.caller = "none"
  BY <1>1, SendingType DEF Sending, Ended
<1>6. \/ sess' = s2 /\ hang' = hang /\ queue' = queue /\ run' = [run EXCEPT ![m] = g1]
      \/ sess' = sess /\ hang' = hang /\ queue' = queue /\ run' = [run EXCEPT ![m] = g2]
  BY <1>1, <1>3, ResumedRuns DEF Reflected, BeginRound, Put, f
<1> HIDE DEF g1, g2
<1>7. CASE sess' = sess /\ hang' = hang /\ queue' = queue /\ run' = [run EXCEPT ![m] = g2]
  <2>1. g2.pc \notin Working /\ MessageFrame(g2)
    BY <1>5 DEF Working, InLoop, MessageFrame
  <2> QED BY <1>2, <1>5, <1>7, <2>1, LetsGo DEF Turn, Reached
<1>8. CASE sess' = s2 /\ hang' = hang /\ queue' = queue /\ run' = [run EXCEPT ![m] = g1]
  <2>1. Drives(run, m, s) /\ Tables(sess, hang, run) /\ ChatInv(sess, hang, run)
    BY <1>1, <1>2 DEF Drives, Working, Reached
  <2>2. ChatInv(sess, hang, run')
    BY <1>4, <1>8, <2>1, Moves
  <2>3. run' \in [Procs -> Frame] /\ run'[m] = g1
    BY <1>4, <1>8 DEF TypeOK
  <2>4. Tables(sess, hang, run') /\ Drives(run', m, s)
    BY <1>4, <2>1, <2>3 DEF Tables, Drives, Working, InLoop
  <2>5. CASE s \in SessionIds /\ sess[s].st \in Blocked
    <3>1. Loaned(sess, s) \/ sess[s].origin = "chat"
      BY <2>1, <2>5 DEF ChatInv, RunsHold
    <3>2. s2 = SetStatus(sess, s, "active")
      BY <1>1, <2>5, ResumedRuns
    <3>3. s2[s].st = "active" /\ s2[s].origin = sess[s].origin /\ \A r \in SessionIds : r # s => s2[r] = sess[r]
      BY <1>1, <2>5, <3>1, <3>2, StatusWrite
    <3>4. s2 \in SessionTable
      BY <1>1, LifecycleType
    <3> HIDE DEF s2
    <3>5. ChatInv(s2, hang, run')
      BY <2>2, <2>4, <2>5, <3>3, <3>4, DriverWrites
    <3>6. LinOnly(sess, s2)
      BY <1>1, <3>1, <3>2, OnlyOneWritten
    <3> QED BY <1>2, <1>4, <1>8, <3>5, <3>6 DEF Turn, Reached
  <2>6. CASE ~(s \in SessionIds /\ sess[s].st \in Blocked)
    <3>1. s2 = sess
      BY <1>1, <2>6, ResumedRuns
    <3> QED BY <1>2, <1>4, <1>8, <2>2, <3>1 DEF Turn, Reached
  <2> QED BY <2>5, <2>6
<1> QED BY <1>6, <1>7, <1>8

\* The approved tool's result goes back into the loop of the session that asked.
LEMMA ApprovedToolTurn ==
  ASSUME TypeOK, OwnersInv, NEW m \in Messages, ApprovedToolEnds(m)
  PROVE  Turn(m)
<1> DEFINE s == run[m].sid
           g == Sending(s, {})
<1>1. s \in SessionIds \cup {NoSession} /\ run[m].pc = "approved" /\ sess \in SessionTable
  BY DEF TypeOK, Frame, ApprovedToolEnds
<1>2. g \in Frame /\ g.pc = "send" /\ g.todo = {} /\ g.caller = "none"
  BY <1>1, SendingType DEF Sending, Ended
<1>3. PICK st \in {"done", "failed"} : sess' = SetStatus(sess, s, st)
  BY DEF ApprovedToolEnds, Complete, Fail
<1>4. hang' = hang /\ queue' = queue /\ run' = [run EXCEPT ![m] = g]
  BY DEF ApprovedToolEnds, Put
<1> HIDE DEF g
<1>5. Reached(sess, hang)
  BY ReachedNow
<1>6. g.pc \notin Working /\ MessageFrame(g)
  BY <1>2 DEF Working, InLoop, MessageFrame
<1>7. ChatInv(sess, hang, run') /\ Tables(sess, hang, run')
  BY <1>2, <1>4, <1>5, <1>6, LetsGo
<1>8. s \in SessionIds => Drives(run, m, s)
  BY <1>1 DEF Drives, Working
<1>9. Tables(sess, hang, run) /\ ChatInv(sess, hang, run) /\ g.todo \subseteq run[m].todo
  BY <1>2, <1>5 DEF Reached
<1>10. s \in SessionIds => Ready(sess, hang, run', s)
  BY <1>2, <1>4, <1>6, <1>8, <1>9, Moves
<1>11. s \in SessionIds => Loaned(sess, s) \/ sess[s].origin = "chat"
  BY <1>8, <1>9 DEF ChatInv, RunsHold
<1>12. ChatInv(sess', hang, run')
  BY <1>1, <1>3, <1>7, <1>10, <1>11, LeavesSettled DEF Ready
<1>13. LinOnly(sess, sess')
  BY <1>1, <1>3, <1>11, OnlyOneWritten
<1> QED BY <1>2, <1>4, <1>5, <1>6, <1>12, <1>13 DEF Turn, Reached

\* So every step of a message is a Turn: one case per place of its handler.
LEMMA MessageTurn ==
  ASSUME TypeOK, OwnersInv, SnapInv, ~BusStalls, NEW m \in Messages, MessageStep(m)
  PROVE  Turn(m) /\ up' = up
<1>1. Reached(sess, hang)
  BY ReachedNow
<1>2. CASE Routed(m)
  <2>1. up' = up /\ run[m].hids \subseteq Pending(hang, Questions)
    BY <1>2 DEF Routed, hostVars, SnapInv
  <2>2. CASE End(m) /\ UNCHANGED <<sess, hang, queue, approved>>
    BY <1>1, <2>1, <2>2, EndedFrame, LetsGo DEF Turn, Reached, End, Put
  <2> QED BY <1>1, <1>2, <2>1, <2>2, DispatchTurn DEF Routed
<1>3. CASE Classified(m)
  <2> DEFINE simple == [Calling("simple", NoSession, NoTask, frozen) EXCEPT !.pc = "llm"]
             plan == [Ended EXCEPT !.pc = "plan", !.gated = frozen]
  <2>1. /\ simple \in Frame /\ MessageFrame(simple) /\ simple.todo = {} /\ simple.sid = NoSession
        /\ plan \in Frame /\ MessageFrame(plan) /\ plan.todo = {} /\ plan.sid = NoSession
    <3>1. Ended \in Frame /\ frozen \in BOOLEAN /\ Calling("simple", NoSession, NoTask, frozen) \in Frame
      BY EndedType, CallingType DEF TypeOK, Caller
    <3>2. plan \in Frame /\ MessageFrame(plan) /\ plan.todo = {} /\ plan.sid = NoSession
      BY <3>1 DEF Frame, Ended, MessageFrame
    <3>3. simple \in Frame
      BY <3>1 DEF Frame, InLoop
    <3>4. MessageFrame(simple) /\ simple.todo = {} /\ simple.sid = NoSession
      BY DEF Calling, Ended, MessageFrame
    <3> QED BY <3>2, <3>3, <3>4
  <2>2. Put(m, Ended) \/ Put(m, simple) \/ Put(m, plan)
    BY <1>3 DEF Classified, End
  <2> HIDE DEF simple, plan
  <2>3. UNCHANGED <<sess, hang, queue>> /\ up' = up
    BY <1>3 DEF Classified, Quiet, hostVars
  <2>4. ASSUME NEW g \in Frame, MessageFrame(g), g.todo = {}, g.sid = NoSession, Put(m, g)
        PROVE  Turn(m)
    <3>1. Tables(sess, hang, run) /\ ChatInv(sess, hang, run) /\ g.todo \subseteq run[m].todo /\ g.sid \notin SessionIds
      BY <1>1, <2>4 DEF Reached, SessionIds
    <3>2. ChatInv(sess, hang, run')
      BY <2>4, <3>1, Moves DEF Put
    <3> QED BY <1>1, <2>3, <2>4, <3>2 DEF Turn, Reached, Put
  <2> QED BY <2>1, <2>2, <2>3, <2>4, EndedFrame
<1>4. CASE Planned(m)
  BY <1>4, PlannedTurn, QuietKeepsUp DEF Planned
<1>5. CASE Reflected(m)
  BY <1>5, ReflectedTurn, QuietKeepsUp DEF Reflected
<1>6. CASE ApprovedToolEnds(m)
  BY <1>6, ApprovedToolTurn, QuietKeepsUp DEF ApprovedToolEnds
<1>7. CASE Sent(m)
  <2>1. NextCrashed(m, sess, hang, run[m].todo) /\ up' = up /\ run[m].pc \notin Working
    BY <1>7 DEF Sent, hostVars, Working, InLoop
  <2>2. Tables(sess, hang, run) /\ ChatInv(sess, hang, run) /\ run \in [Procs -> Frame]
    BY <1>1 DEF Reached, TypeOK
  <2>3. \A g : [run EXCEPT ![m] = g] = [run EXCEPT ![m] = g]
    OBVIOUS
  <2> QED BY <1>1, <2>1, <2>2, <2>3, NextCrashedTurn DEF Turn, Reached
<1>8. CASE ExecutorStep(m)
  BY <1>8, ExecutorTurn
<1> QED BY <1>2, <1>3, <1>4, <1>5, <1>6, <1>7, <1>8 DEF MessageStep

-----------------------------------------------------------------------------
(* Steps of the tick *)

\* What the tick does first, the sweep and the look for a stash, disturbs no chat
\* session: an expired stash fails an autonomous session.
LEMMA SweptOwners ==
  ASSUME TypeOK, OwnersInv
  PROVE  /\ Tables(SweptSess, SweptHang, run) /\ ChatInv(SweptSess, SweptHang, run)
         /\ Tables(SweptSess, LeftHang, run) /\ ChatInv(SweptSess, LeftHang, run)
         /\ StashRow # NoHanging =>
              /\ StashRow \in Pending(SweptHang, Stash)
              /\ Tables(SweptSess, ResolveRow(SweptHang, StashRow), run)
              /\ ChatInv(SweptSess, ResolveRow(SweptHang, StashRow), run)
              /\ StashSid \in SessionIds /\ Autonomous(SweptSess, StashSid)
         /\ \A s \in SessionIds :
              /\ SweptSess[s].origin = sess[s].origin
              /\ \/ SweptSess[s].st = sess[s].st
                 \/ SweptSess[s].st = "failed" /\ \E h \in Expired(hang, Stash) : hang[h].sid = s
<1>1. Tables(sess, hang, run) /\ ChatInv(sess, hang, run)
  BY ReachedNow DEF Reached
<1>2. Tables(SweptSess, SweptHang, run) /\ ChatInv(SweptSess, SweptHang, run)
  BY <1>1, Sweeps DEF SweptSess, SweptHang, Stash, Kinds
<1>3. StashRow # NoHanging => StashRow \in Pending(SweptHang, Stash)
  BY <1>2, NewestPending DEF StashRow, Stash, Tables
<1>4. StashRow # NoHanging => StashSid \in SessionIds /\ Autonomous(SweptSess, StashSid)
  BY <1>2, <1>3 DEF ChatInv, StashesHold, StashSid, Autonomous
<1>5. ASSUME NEW h \in Pending(SweptHang, Stash)
      PROVE  /\ Tables(SweptSess, ResolveRow(SweptHang, h), run)
             /\ ChatInv(SweptSess, ResolveRow(SweptHang, h), run)
  <2>1. SweptHang \in HangingTable /\ h \in HangIds /\ SweptSess \in SessionTable
    BY <1>2 DEF Pending, Tables
  <2>2. ResolveRow(SweptHang, h) \in HangingTable /\ Resolves(SweptHang, ResolveRow(SweptHang, h), {h})
    BY <2>1, ResolvesRow, HangingUpdateType
  <2>3. h \notin Pending(SweptHang, AskKinds)
    BY Kinded
  <2>4. \A k \in {h} \cap Pending(SweptHang, AskKinds) : SweptHang[k].sid \in SessionIds => SweptSess[SweptHang[k].sid].st # "waiting_user"
    BY <2>3
  <2> QED BY <1>2, <2>1, <2>2, <2>4, Resolved DEF Tables
<1>6. Tables(SweptSess, LeftHang, run) /\ ChatInv(SweptSess, LeftHang, run)
  BY <1>2, <1>3, <1>5 DEF LeftHang, StashDead
<1>7. \A s \in SessionIds :
              /\ SweptSess[s].origin = sess[s].origin
              /\ \/ SweptSess[s].st = sess[s].st
                 \/ SweptSess[s].st = "failed" /\ \E h \in Expired(hang, Stash) : hang[h].sid = s
  BY <1>1 DEF SweptSess, SweepSessions, Tables, SessionTable, Session
<1> QED BY <1>2, <1>3, <1>4, <1>5, <1>6, <1>7

\* Autonomous work is written to: Lin's is as it was.
LEMMA AutonomousWrite ==
  ASSUME NEW ss, NEW hh, NEW rr, Tables(ss, hh, rr), ChatInv(ss, hh, rr),
         NEW s \in SessionIds, Autonomous(ss, s), NEW st \in {"active", "done", "failed", "cancelled"}
  PROVE  /\ ChatInv(SetStatus(ss, s, st), hh, rr) /\ Tables(SetStatus(ss, s, st), hh, rr)
         /\ \A r \in SessionIds : Autonomous(SetStatus(ss, s, st), r) <=> Autonomous(ss, r)
<1>1. ss \in SessionTable
  BY DEF Tables
<1>2. SetStatus(ss, s, st) \in SessionTable
  BY <1>1, SetStatusType DEF Status, Terminal
<1>3. /\ SetStatus(ss, s, st)[s].st = st /\ SetStatus(ss, s, st)[s].origin = ss[s].origin
      /\ \A r \in SessionIds : r # s => SetStatus(ss, s, st)[r] = ss[r]
  BY <1>1, StatusWrite
<1>4. Loaned(ss, s) \/ Free(hh, rr, s)
  BY QueueIsReady DEF Autonomous, Ready
<1>5. \A r \in SessionIds :
           \/ SetStatus(ss, s, st)[r] = ss[r]
           \/ /\ Free(hh, rr, r) /\ SetStatus(ss, s, st)[r].st # "waiting_user"
              /\ Autonomous(ss, r) => Autonomous(SetStatus(ss, s, st), r)
           \/ Loaned(ss, r) /\ Autonomous(SetStatus(ss, s, st), r)
  BY <1>3, <1>4 DEF Autonomous
<1>6. ChatInv(SetStatus(ss, s, st), hh, rr)
  BY <1>2, <1>5, FreeWrites
<1>7. \A r \in SessionIds : Autonomous(SetStatus(ss, s, st), r) <=> Autonomous(ss, r)
  BY <1>3 DEF Autonomous
<1> QED BY <1>2, <1>6, <1>7 DEF Tables

\* what every step of the tick comes to
Beat ==
  /\ ChatInv(sess', hang', run')
  /\ TickFrame'
  /\ \A m \in Messages : run'[m] = run[m]

\* A queue run goes on with its session woken.
LEMMA WakesOwn ==
  ASSUME TypeOK, OwnersInv, run[Tick].pc = "idle", NEW t \in Tasks \cup {NoTask}, NEW s \in SessionIds,
         NEW ss, NEW hh, Tables(ss, hh, run), ChatInv(ss, hh, run), Autonomous(ss, s), ~IsDisplaced(ss, s),
         Continue(t, s, ss, hh)
  PROVE  /\ Beat
         /\ sess' = ss /\ hang' = hh /\ queue' = queue
         /\ \/ run' = run /\ ~(t # NoTask /\ queue[t].sid = s)
            \/ /\ t # NoTask /\ queue[t].sid = s
               /\ run'[Tick].pc = "llm" /\ run'[Tick].sid = s /\ run'[Tick].task = t
<1> DEFINE f == Calling("queue", s, t, FALSE)
           g == [f EXCEPT !.pc = "llm"]
<1>1. f \in Frame /\ f.sid = s /\ f.task = t /\ f.caller = "queue"
  BY CallingType DEF Caller, Calling, Ended
<1> HIDE DEF f
<1>2. g \in Frame /\ g.pc = "llm" /\ g.sid = s /\ g.task = t /\ g.caller = "queue"
  BY <1>1 DEF Frame, InLoop
<1>3. sess' = ss /\ hang' = hh /\ queue' = queue
      /\ \/ run' = run /\ ~(t # NoTask /\ queue[t].sid = s)
         \/ run' = [run EXCEPT ![Tick] = g] /\ t # NoTask /\ queue[t].sid = s
  BY <1>1 DEF Continue, BeginRound, Put, f
<1> HIDE DEF g
<1>4. CASE run' = run /\ ~(t # NoTask /\ queue[t].sid = s)
  <2>1. TickFrame'
    BY <1>3, <1>4 DEF TickFrame, InLoop
  <2> QED BY <1>3, <1>4, <2>1 DEF Beat
<1>5. CASE run' = [run EXCEPT ![Tick] = g] /\ t # NoTask /\ queue[t].sid = s
  <2>1. run'[Tick] = g /\ \A m \in Messages : run'[m] = run[m]
    BY <1>5, ExecutorAssumption DEF TypeOK
  <2>2. ChatInv(ss, hh, run')
    BY <2>1, TickMoves
  <2>3. TickFrame'
    BY <1>2, <1>3, <2>1 DEF TickFrame
  <2> QED BY <1>2, <1>3, <1>5, <2>1, <2>2, <2>3 DEF Beat
<1> QED BY <1>3, <1>4, <1>5

\* The displaced session that is woken is the stash's, and if its row is claimed the
\* tick drives it.
LEMMA DisplacedWakes ==
  ASSUME TypeOK, OwnersInv, TickResumesDisplaced
  PROVE  /\ Beat /\ StashRow \in Pending(SweptHang, Stash) /\ StashSid \in SessionIds
         /\ SweptSess[StashSid].st \in Displaced
         /\ sess' = SetStatus(SweptSess, StashSid, "active") /\ hang' = ResolveRow(SweptHang, StashRow) /\ queue' = queue
         /\ \E t \in Claimed(queue) :
              \/ run' = run /\ ~(t # NoTask /\ queue[t].sid = StashSid)
              \/ /\ t # NoTask /\ queue[t].sid = StashSid
                 /\ run'[Tick].pc = "llm" /\ run'[Tick].sid = StashSid /\ run'[Tick].task = t
<1> DEFINE s  == StashSid
           s2 == Resume(SweptSess, s)
           h2 == ResolveRow(SweptHang, StashRow)
<1>1. StashRow # NoHanging /\ IsDisplaced(SweptSess, s) /\ run[Tick].pc = "idle"
  BY DEF TickResumesDisplaced, CanResumeStash, StashDead, TickReady
<1>2. /\ StashRow \in Pending(SweptHang, Stash) /\ s \in SessionIds /\ Autonomous(SweptSess, s)
      /\ Tables(SweptSess, h2, run) /\ ChatInv(SweptSess, h2, run) /\ SweptSess \in SessionTable
  BY <1>1, SweptOwners DEF Tables
<1>3. SweptSess[s].st \in Displaced /\ SweptSess[s].st \in Blocked
  BY <1>1 DEF IsDisplaced, Displaced, Blocked
<1>4. s2 = SetStatus(SweptSess, s, "active") /\ ~IsDisplaced(s2, s)
  BY <1>2, <1>3, ResumedRuns
<1>5. PICK t \in Claimed(queue) : Continue(t, s, s2, h2)
  BY DEF TickResumesDisplaced
<1>6. t \in Tasks \cup {NoTask}
  BY ClaimedType
<1> HIDE DEF s, s2, h2
<1>7. ChatInv(s2, h2, run) /\ Tables(s2, h2, run) /\ Autonomous(s2, s)
  BY <1>2, <1>4, AutonomousWrite
<1>8. /\ Beat
      /\ sess' = s2 /\ hang' = h2 /\ queue' = queue
      /\ \/ run' = run /\ ~(t # NoTask /\ queue[t].sid = s)
         \/ /\ t # NoTask /\ queue[t].sid = s
            /\ run'[Tick].pc = "llm" /\ run'[Tick].sid = s /\ run'[Tick].task = t
  BY <1>1, <1>2, <1>4, <1>5, <1>6, <1>7, WakesOwn
<1> QED BY <1>2, <1>3, <1>4, <1>8 DEF s, h2

\* The session whose dependency is done is woken the same way.
LEMMA WaitingWakes ==
  ASSUME TypeOK, OwnersInv, TickUnblocksWaiting
  PROVE  /\ Beat
         /\ \E s \in Waiting :
              /\ s \in SessionIds
              /\ sess' = SetStatus(SweptSess, s, "active") /\ hang' = LeftHang /\ queue' = queue
              /\ \E t \in Claimed(queue) :
                   \/ run' = run /\ ~(t # NoTask /\ queue[t].sid = s)
                   \/ /\ t # NoTask /\ queue[t].sid = s
                      /\ run'[Tick].pc = "llm" /\ run'[Tick].sid = s /\ run'[Tick].task = t
<1> DEFINE s  == ResumeWaiting(SweptSess, LeftSid)
           s2 == ActivateWaiting(SweptSess, s)
<1>1. Waiting # {} /\ run[Tick].pc = "idle"
  BY DEF TickUnblocksWaiting, TickReady
<1>2. Waiting \subseteq SessionIds /\ Waiting = Unblockable(SweptSess, LeftSid)
  BY DEF Waiting, Unblockable
<1>3. s \in Waiting
  <2>1. \E x \in Waiting : \A r \in Waiting : x <= r
    BY <1>1, <1>2, SessionIdsAreNat, LeastElement
  <2> QED BY <1>2, <2>1 DEF ResumeWaiting
<1>4. s \in SessionIds /\ SweptSess[s].st = "waiting_dependency" /\ SweptSess[s].origin = "queue"
  BY <1>2, <1>3 DEF Unblockable
<1>5. Tables(SweptSess, LeftHang, run) /\ ChatInv(SweptSess, LeftHang, run) /\ SweptSess \in SessionTable
  BY SweptOwners DEF Tables
<1>6. PICK t \in Claimed(queue) : Continue(t, s, s2, LeftHang)
  BY DEF TickUnblocksWaiting
<1>7. t \in Tasks \cup {NoTask}
  BY ClaimedType
<1>8. s2 = SetStatus(SweptSess, s, "active")
  BY <1>4 DEF ActivateWaiting
<1> HIDE DEF s, s2
<1>9. s2[s].st = "active"
  BY <1>4, <1>5, <1>8, StatusWrite
<1>10. ~IsDisplaced(s2, s)
  BY <1>9 DEF IsDisplaced, Displaced
<1>11. ChatInv(s2, LeftHang, run) /\ Tables(s2, LeftHang, run) /\ Autonomous(s2, s)
  BY <1>4, <1>5, <1>8, AutonomousWrite DEF Autonomous
<1>12. /\ Beat
       /\ sess' = s2 /\ hang' = LeftHang /\ queue' = queue
       /\ \/ run' = run /\ ~(t # NoTask /\ queue[t].sid = s)
          \/ /\ t # NoTask /\ queue[t].sid = s
             /\ run'[Tick].pc = "llm" /\ run'[Tick].sid = s /\ run'[Tick].task = t
  BY <1>1, <1>4, <1>6, <1>7, <1>10, <1>11, WakesOwn
<1> QED BY <1>3, <1>4, <1>8, <1>12

\* Reconciling and picking write no session that Lin is concerned with.
LEMMA LooksOnly ==
  ASSUME TypeOK, OwnersInv, TickReconciles \/ TickPicks
  PROVE  Beat /\ sess' = SweptSess /\ hang' = LeftHang
<1> DEFINE g == [Idle EXCEPT !.pc = "classify", !.task = NextIdle(queue)]
<1>1. sess' = SweptSess /\ hang' = LeftHang /\ run[Tick].pc = "idle"
  BY DEF TickReconciles, TickPicks, NothingToWake, TickReady
<1>2. run' = run \/ run' = [run EXCEPT ![Tick] = g]
  BY DEF TickReconciles, TickPicks, Put
<1>3. g.pc = "classify"
  BY DEF Idle, Ended
<1> HIDE DEF g
<1>4. (\A m \in Messages : run'[m] = run[m]) /\ run'[Tick].pc \in {"idle", "classify"}
  BY <1>1, <1>2, <1>3, ExecutorAssumption DEF TypeOK
<1>5. ChatInv(sess', hang', run')
  BY <1>1, <1>4, SweptOwners, TickMoves
<1>6. TickFrame'
  BY <1>4 DEF TickFrame, InLoop
<1> QED BY <1>1, <1>4, <1>5, <1>6 DEF Beat

\* A claimed row gets a session of its own, which the tick drives or leaves waiting.
LEMMA ClaimsOwn ==
  ASSUME TypeOK, OwnersInv, TickClaims
  PROVE  /\ Beat /\ hang' = hang
         /\ LET s == NextSession(sess)
                t == run[Tick].task
            IN  /\ s \in SessionIds /\ sess[s].st = "none"
                /\ sess'[s].origin = "queue" /\ sess'[s].st \in {"active", "waiting_dependency"}
                /\ \A r \in SessionIds : r # s => sess'[r] = sess[r]
                /\ queue' = MarkRunning(queue, t, s)
                /\ \/ run'[Tick].pc = "idle" /\ sess'[s].st = "waiting_dependency"
                   \/ run'[Tick].pc = "llm" /\ run'[Tick].sid = s /\ run'[Tick].task = t
<1> DEFINE s  == NextSession(sess)
           t  == run[Tick].task
           f  == Calling("queue", s, t, FALSE)
           g  == [f EXCEPT !.pc = "llm"]
           qq == MarkRunning(queue, t, s)
<1>1. CanCreate(sess) /\ sess \in SessionTable /\ t \in Tasks \cup {NoTask}
  BY DEF TickClaims, TypeOK, Frame
<1>2. s \in SessionIds /\ sess[s].st = "none"
  BY <1>1, NextSessionUnused
<1>3. PICK tags \in SUBSET Tags :
        \/ StartQueue(sess, tags)[s].st = "active" /\ BeginRound(Tick, f, StartQueue(sess, tags), hang, qq)
        \/ /\ StartQueue(sess, tags)[s].st # "active"
           /\ sess' = StartQueue(sess, tags) /\ queue' = qq /\ Put(Tick, Idle) /\ UNCHANGED hang
  BY DEF TickClaims
<1> DEFINE ss == StartQueue(sess, tags)
<1>4. /\ ss[s].st \in {"active", "waiting_dependency"} /\ ss[s].origin = "queue"
      /\ \A r \in SessionIds : r # s => ss[r] = sess[r]
  BY <1>1, QueueStart
<1>5. ss \in SessionTable
  BY <1>1, StartQueueType
<1>6. f \in Frame /\ f.sid = s /\ f.task = t /\ f.caller = "queue"
  BY <1>1, <1>2, CallingType DEF Caller, Calling, Ended
<1> HIDE DEF s, t, f, ss, qq
<1>7. g \in Frame /\ g.pc = "llm" /\ g.sid = s /\ g.task = t /\ g.caller = "queue"
  BY <1>6 DEF Frame, InLoop
<1>8. /\ sess' = ss /\ hang' = hang /\ queue' = qq
      /\ \/ run' = [run EXCEPT ![Tick] = Idle] /\ ss[s].st = "waiting_dependency"
         \/ run' = [run EXCEPT ![Tick] = g]
  BY <1>3, <1>4, <1>6 DEF BeginRound, IsDisplaced, Displaced, Put, ss
<1>9. Idle.pc = "idle"
  BY DEF Idle, Ended
<1> HIDE DEF g
<1>10. /\ \A m \in Messages : run'[m] = run[m]
       /\ \/ run'[Tick] = Idle /\ ss[s].st = "waiting_dependency"
          \/ run'[Tick] = g
  BY <1>8, ExecutorAssumption DEF TypeOK
<1>11. Tables(sess, hang, run) /\ ChatInv(sess, hang, run)
  BY ReachedNow DEF Reached
<1>12. Free(hang, run, s) /\ ~Autonomous(sess, s)
  BY <1>2, <1>11, QueueIsReady DEF Ready, Loaned, Autonomous
<1>13. ChatInv(ss, hang, run)
  BY <1>2, <1>4, <1>5, <1>11, <1>12, FreeWrites
<1>14. ChatInv(sess', hang', run')
  BY <1>8, <1>10, <1>13, TickMoves
<1>15. TickFrame'
  BY <1>2, <1>4, <1>7, <1>8, <1>9, <1>10 DEF TickFrame, InLoop, Autonomous
<1> QED BY <1>2, <1>4, <1>7, <1>8, <1>9, <1>10, <1>14, <1>15 DEF Beat, s, t, qq

\* The tick inside a run that does not ask Lin: its task settles, or it goes on, or
\* the run was displaced and its history goes into a stash.
LEMMA OwnRunGoesOn ==
  ASSUME TypeOK, OwnersInv, ~QueueAsks \/ ~(AskUser(Tick) \/ RequestApproval(Tick)), ExecutorStep(Tick)
  PROVE  /\ Beat /\ run[Tick].pc \in InLoop /\ up' = up
         /\ LET s == run[Tick].sid
                t == run[Tick].task
            IN  \/ /\ sess' = SetStatus(sess, s, "done") /\ hang' = hang /\ queue' = MarkDone(queue, t)
                   /\ run'[Tick].pc = "idle"
                \/ /\ sess' = SetStatus(sess, s, "failed") /\ hang' = hang /\ queue' = MarkFailed(queue, t)
                   /\ run'[Tick].pc = "idle"
                \/ /\ sess' = sess /\ hang' = hang /\ queue' = queue
                   /\ run'[Tick].pc \in InLoop /\ run'[Tick].sid = s /\ run'[Tick].task = t
                \/ /\ IsDisplaced(sess, s) /\ CanPost(hang)
                   /\ sess' = sess /\ hang' = Post(hang, "session_displaced", s, {}) /\ queue' = queue
                   /\ run'[Tick].pc = "idle"
<1> DEFINE f  == run[Tick]
           s  == f.sid
           t  == f.task
           nx == [f EXCEPT !.iter = @ + 1]
<1>1. f.pc \in InLoop
  BY DEF ExecutorStep, FinalReply, RunFails, CallTool, ToolReturns, AskUser, RequestApproval, PublishDrains, MayAsk, InLoop
<1>2. /\ f \in Frame /\ f.caller = "queue" /\ s \in SessionIds /\ Autonomous(sess, s) /\ f.pc # "publish"
      /\ sess \in SessionTable /\ hang \in HangingTable
  BY <1>1 DEF TypeOK, OwnersInv, FrameInv, TickFrame
<1>3. Tables(sess, hang, run) /\ ChatInv(sess, hang, run)
  BY ReachedNow DEF Reached
<1>4. up' = up
  BY QuietKeepsUp DEF ExecutorStep, FinalReply, RunFails, CallTool, ToolReturns, AskUser, RequestApproval, PublishDrains
<1>5. Idle.pc = "idle"
  BY DEF Idle, Ended
<1>6. ASSUME NEW g, run' = [run EXCEPT ![Tick] = g] PROVE run'[Tick] = g /\ \A m \in Messages : run'[m] = run[m]
  BY <1>6, ExecutorAssumption DEF TypeOK
<1>7. ASSUME NEW ss, NEW hh, NEW qq, Return(Tick, f, ss, hh, qq)
      PROVE  sess' = ss /\ hang' = hh /\ queue' = Settle(qq, ss, f) /\ run' = [run EXCEPT ![Tick] = Idle]
  BY <1>2, <1>7 DEF Return, Put
<1>8. ASSUME NEW ss, NEW hh, ChatInv(ss, hh, run), sess' = ss, hang' = hh, run' = [run EXCEPT ![Tick] = Idle]
      PROVE  Beat /\ run'[Tick].pc = "idle"
  <2>1. run'[Tick] = Idle /\ \A m \in Messages : run'[m] = run[m]
    BY <1>6, <1>8
  <2>2. ChatInv(sess', hang', run')
    BY <1>8, <2>1, TickMoves
  <2>3. TickFrame'
    BY <1>5, <2>1 DEF TickFrame, InLoop
  <2> QED BY <1>5, <2>1, <2>2, <2>3 DEF Beat
<1>9. ASSUME NEW g \in Frame, g.pc \in {"llm", "tool", "final"}, g.caller = "queue", g.sid = s, g.task = t,
             sess' = sess, hang' = hang, run' = [run EXCEPT ![Tick] = g]
      PROVE  Beat /\ run'[Tick].pc \in InLoop /\ run'[Tick].sid = s /\ run'[Tick].task = t
  <2>1. run'[Tick] = g /\ \A m \in Messages : run'[m] = run[m]
    BY <1>6, <1>9
  <2>2. ChatInv(sess', hang', run')
    BY <1>3, <1>9, <2>1, TickMoves
  <2>3. TickFrame'
    BY <1>2, <1>9, <2>1 DEF TickFrame
  <2> QED BY <1>9, <2>1, <2>2, <2>3 DEF Beat, InLoop
<1>10. CASE FinalReply(Tick)
  <2> DEFINE ss == SetStatus(sess, s, "done")
  <2>1. Return(Tick, f, ss, hang, queue)
    BY <1>10 DEF FinalReply, Complete
  <2>2. ss[s].st = "done" /\ ChatInv(ss, hang, run)
    BY <1>2, <1>3, StatusWrite, AutonomousWrite
  <2> HIDE DEF ss, f
  <2>3. sess' = ss /\ hang' = hang /\ queue' = MarkDone(queue, t) /\ run' = [run EXCEPT ![Tick] = Idle]
    BY <1>7, <2>1, <2>2 DEF Settle
  <2>4. Beat /\ run'[Tick].pc = "idle"
    BY <1>8, <2>2, <2>3
  <2> QED BY <1>1, <1>4, <2>3, <2>4 DEF ss, f
<1>11. CASE RunFails(Tick)
  <2> DEFINE ss == SetStatus(sess, s, "failed")
  <2>1. Return(Tick, f, ss, hang, queue)
    BY <1>11 DEF RunFails, Fail
  <2>2. ss[s].st = "failed" /\ ChatInv(ss, hang, run)
    BY <1>2, <1>3, StatusWrite, AutonomousWrite
  <2> HIDE DEF ss, f
  <2>3. sess' = ss /\ hang' = hang /\ queue' = MarkFailed(queue, t) /\ run' = [run EXCEPT ![Tick] = Idle]
    BY <1>7, <2>1, <2>2 DEF Settle
  <2>4. Beat /\ run'[Tick].pc = "idle"
    BY <1>8, <2>2, <2>3
  <2> QED BY <1>1, <1>4, <2>3, <2>4 DEF ss, f
<1>12. CASE CallTool(Tick)
  <2> DEFINE g == [f EXCEPT !.pc = "tool"]
  <2>1. g \in Frame /\ g.pc = "tool" /\ g.caller = "queue" /\ g.sid = s /\ g.task = t
    BY <1>2 DEF Frame, InLoop
  <2>2. run' = [run EXCEPT ![Tick] = g] /\ sess' = sess /\ hang' = hang /\ queue' = queue
    BY <1>12 DEF CallTool, Put
  <2> HIDE DEF g, f
  <2>3. Beat /\ run'[Tick].pc \in InLoop /\ run'[Tick].sid = s /\ run'[Tick].task = t
    BY <1>9, <2>1, <2>2
  <2> QED BY <1>1, <1>4, <2>2, <2>3 DEF f
<1>13. CASE ToolReturns(Tick)
  <2> DEFINE g1 == [nx EXCEPT !.pc = "llm"]
             g2 == [nx EXCEPT !.pc = "final"]
             h2 == Post(hang, "session_displaced", s, {})
  <2>1. f.iter + 1 \in Nat
    BY <1>2 DEF Frame
  <2>2. nx \in Frame /\ nx.caller = "queue" /\ nx.sid = s /\ nx.task = t
    BY <1>2, <2>1 DEF Frame
  <2>3. BeginRound(Tick, nx, sess, hang, queue) \/ (Put(Tick, g2) /\ UNCHANGED <<sess, hang, queue>>)
    BY <1>13 DEF ToolReturns
  <2> HIDE DEF nx, f
  <2>4. /\ g1 \in Frame /\ g1.pc = "llm" /\ g1.caller = "queue" /\ g1.sid = s /\ g1.task = t
        /\ g2 \in Frame /\ g2.pc = "final" /\ g2.caller = "queue" /\ g2.sid = s /\ g2.task = t
    BY <2>2 DEF Frame, InLoop
  <2>5. \/ run' = [run EXCEPT ![Tick] = g1] /\ UNCHANGED <<sess, hang, queue>>
        \/ run' = [run EXCEPT ![Tick] = g2] /\ UNCHANGED <<sess, hang, queue>>
        \/ /\ IsDisplaced(sess, s) /\ CanPost(hang)
           /\ sess' = sess /\ hang' = h2 /\ queue' = queue /\ run' = [run EXCEPT ![Tick] = Idle]
    <3>1. CASE IsDisplaced(sess, s) /\ BeginRound(Tick, nx, sess, hang, queue)
      <4>1. sess[s].st # "failed" /\ sess[s].st # "done"
        BY <3>1 DEF IsDisplaced, Displaced
      <4> QED BY <2>2, <3>1, <4>1 DEF BeginRound, Return, Settle, Put
    <3>2. CASE ~IsDisplaced(sess, s) /\ BeginRound(Tick, nx, sess, hang, queue)
      BY <2>2, <3>2 DEF BeginRound, Put
    <3> QED BY <2>3, <3>1, <3>2 DEF Put
  <2>6. ASSUME IsDisplaced(sess, s), CanPost(hang) PROVE ChatInv(sess, h2, run)
    <3>1. sess[s].origin = "queue" /\ sess[s].st # "none" /\ {} \in SUBSET SessionIds
      BY <1>2 DEF Autonomous
    <3> QED BY <1>2, <1>3, <2>6, <3>1, Stashes
  <2> HIDE DEF g1, g2, h2
  <2>7. CASE run' = [run EXCEPT ![Tick] = g1] /\ UNCHANGED <<sess, hang, queue>>
    <3>1. Beat /\ run'[Tick].pc \in InLoop /\ run'[Tick].sid = s /\ run'[Tick].task = t
      BY <1>9, <2>4, <2>7
    <3> QED BY <1>1, <1>4, <2>7, <3>1 DEF f
  <2>8. CASE run' = [run EXCEPT ![Tick] = g2] /\ UNCHANGED <<sess, hang, queue>>
    <3>1. Beat /\ run'[Tick].pc \in InLoop /\ run'[Tick].sid = s /\ run'[Tick].task = t
      BY <1>9, <2>4, <2>8
    <3> QED BY <1>1, <1>4, <2>8, <3>1 DEF f
  <2>9. CASE /\ IsDisplaced(sess, s) /\ CanPost(hang)
             /\ sess' = sess /\ hang' = h2 /\ queue' = queue /\ run' = [run EXCEPT ![Tick] = Idle]
    <3>1. Beat /\ run'[Tick].pc = "idle"
      BY <1>8, <2>6, <2>9
    <3> QED BY <1>1, <1>4, <2>9, <3>1 DEF f, h2
  <2> QED BY <2>5, <2>7, <2>8, <2>9
<1>14. CASE AskUser(Tick) \/ RequestApproval(Tick) \/ PublishDrains(Tick)
  BY <1>2, <1>14 DEF AskUser, RequestApproval, PublishDrains, MayAsk
<1> QED BY <1>10, <1>11, <1>12, <1>13, <1>14 DEF ExecutorStep

\* A queue run that asks Lin ends; its session waits with a question.
LEMMA OwnRunAsks ==
  ASSUME TypeOK, OwnersInv, AskUser(Tick) \/ RequestApproval(Tick)
  PROVE  /\ Beat /\ run[Tick].pc \in InLoop /\ Loaned(sess, run[Tick].sid)
         /\ sess' = WaitUser(sess, run[Tick].sid) /\ run'[Tick].pc = "idle"
<1> DEFINE f  == run[Tick]
           s  == f.sid
           ss == WaitUser(sess, s)
<1>1. f.pc \in {"llm", "tool"} /\ f.pc \in InLoop /\ CanPost(hang) /\ (f.caller = "queue" => QueueAsks)
  BY DEF AskUser, RequestApproval, MayAsk, InLoop
<1>2. f.caller = "queue" /\ s \in SessionIds /\ Loaned(sess, s)
  BY <1>1 DEF OwnersInv, FrameInv, TickFrame, Loaned
<1>3. PICK kind \in AskKinds : Return(Tick, f, ss, Post(hang, kind, s, {}), queue)
  BY <1>2 DEF AskUser, RequestApproval, AskKinds
<1> DEFINE hh == Post(hang, kind, s, {})
<1>4. sess' = ss /\ hang' = hh /\ run' = [run EXCEPT ![Tick] = Idle]
  BY <1>2, <1>3 DEF Return, Put
<1>5. ChatInv(ss, hh, run)
  BY <1>1, <1>2, Asks, ReachedNow DEF Reached
<1>6. run'[Tick] = Idle /\ \A m \in Messages : run'[m] = run[m]
  BY <1>4, ExecutorAssumption DEF TypeOK
<1> HIDE DEF hh, ss, f
<1>7. ChatInv(sess', hang', run')
  BY <1>4, <1>5, <1>6, TickMoves
<1>8. Idle.pc = "idle"
  BY DEF Idle, Ended
<1>9. TickFrame'
  BY <1>6, <1>8 DEF TickFrame, InLoop
<1> QED BY <1>1, <1>2, <1>4, <1>6, <1>7, <1>8, <1>9 DEF Beat, f, ss

-----------------------------------------------------------------------------
(* Who holds what: the invariant                                           *)

\* the same rows are pending, for the same sessions
KeepsPending(hh, hh2) ==
  /\ \A kinds : Pending(hh2, kinds) = Pending(hh, kinds)
  /\ \A h \in HangIds : hh2[h].kind = hh[h].kind /\ hh2[h].sid = hh[h].sid /\ hh2[h].sids = hh[h].sids

\* A message that moves is neither new nor over.
LEMMA BusyMessage ==
  ASSUME NEW m \in Messages, MessageStep(m)
  PROVE  run[m].pc \notin {"new", "done"}
BY DEF MessageStep, Routed, Classified, Planned, Reflected, ApprovedToolEnds, Sent, ExecutorStep,
       FinalReply, RunFails, CallTool, ToolReturns, AskUser, RequestApproval, PublishDrains, MayAsk

\* A step of one message, while the process is up.
LEMMA TurnKeepsOwners ==
  ASSUME TypeOK, OwnersInv, up, NEW m \in Messages, Turn(m), up' = up
  PROVE  OwnersInv'
<1>1. PICK g \in Frame : run' = [run EXCEPT ![m] = g] /\ MessageFrame(g)
  BY DEF Turn
<1>2. run'[Tick] = run[Tick] /\ \A n \in Messages : run'[n] = IF n = m THEN g ELSE run[n]
  BY <1>1, ExecutorAssumption DEF TypeOK
<1>3. \A n \in Messages : MessageFrame(run'[n])
  BY <1>1, <1>2 DEF OwnersInv, FrameInv
<1>4. TickFrame'
  BY <1>2 DEF Turn, LinOnly, OwnersInv, FrameInv, TickFrame
<1> QED BY <1>3, <1>4 DEF Turn, OwnersInv, FrameInv

\* A step of the tick keeps OwnersInv.
LEMMA BeatKeepsOwners ==
  ASSUME OwnersInv, up, Beat, up' = up
  PROVE  OwnersInv'
BY DEF Beat, OwnersInv, FrameInv

\* The tick moves only while the process is up.
LEMMA TickIsUp == ASSUME OwnersInv, TickStep PROVE up /\ up' = up
<1>1. up' = up
  BY QuietKeepsUp DEF TickStep, TickResumesDisplaced, TickUnblocksWaiting, TickReconciles, TickPicks, TickClaims,
                      ExecutorStep, FinalReply, RunFails, CallTool, ToolReturns, AskUser, RequestApproval, PublishDrains
<1>2. CASE TickResumesDisplaced \/ TickUnblocksWaiting \/ TickReconciles \/ TickPicks
  BY <1>1, <1>2 DEF TickResumesDisplaced, TickUnblocksWaiting, TickReconciles, TickPicks, NothingToWake, TickReady
<1>3. CASE TickClaims \/ ExecutorStep(Tick)
  <2>1. run[Tick].pc # "idle"
    BY <1>3 DEF TickClaims, ExecutorStep, FinalReply, RunFails, CallTool, ToolReturns, AskUser,
                RequestApproval, PublishDrains, MayAsk
  <2> QED BY <1>1, <2>1 DEF OwnersInv, FrameInv
<1> QED BY <1>2, <1>3 DEF TickStep

\* Every step of the tick is a Beat.
LEMMA TickBeats ==
  ASSUME TypeOK, OwnersInv, TickStep
  PROVE  Beat
BY DisplacedWakes, WaitingWakes, LooksOnly, ClaimsOwn, OwnRunGoesOn, OwnRunAsks DEF TickStep

\* A process that ends leaves the tables alone and all coroutines gone.
LEMMA DyingKeepsOwners ==
  ASSUME TypeOK, OwnersInv, Crash \/ Shutdown
  PROVE  OwnersInv' /\ UNCHANGED <<sess, hang, queue>> /\ run'[Tick].pc = "idle"
<1>1. PICK flag : Halt(flag) /\ UNCHANGED <<sess, hang, queue>>
  BY DEF Crash, Die, Shutdown
<1>2. up' = FALSE /\ run' = [p \in Procs |-> IF p = Tick THEN Idle ELSE IF run[p].pc = "new" THEN Fresh ELSE Ended]
  BY <1>1 DEF Halt
<1>3. run'[Tick] = Idle /\ \A m \in Messages : run'[m] \in {Fresh, Ended}
  BY <1>2, ExecutorAssumption
<1>4. Idle.pc = "idle" /\ \A f \in {Fresh, Ended} : MessageFrame(f) /\ f.pc \in {"new", "done"} /\ f.todo = {} /\ f.pc \notin Working
  BY DEF Idle, Fresh, Ended, MessageFrame, Working, InLoop
<1> HIDE DEF Idle
<1>5. \A m \in Messages : run'[m].pc \notin Working /\ run'[m].todo = {} /\ MessageFrame(run'[m]) /\ run'[m].pc \in {"new", "done"}
  BY <1>3, <1>4
<1>6. ChatInv(sess, hang, run')
  BY <1>5, Rests DEF OwnersInv
<1>7. TickFrame'
  BY <1>3, <1>4 DEF TickFrame, InLoop
<1> QED BY <1>1, <1>2, <1>3, <1>4, <1>5, <1>6, <1>7 DEF OwnersInv, FrameInv

\* The restart pauses what was active and asks once about all of it.
LEMMA RestartKeepsOwners ==
  ASSUME TypeOK, OwnersInv, Restart
  PROVE  OwnersInv'
<1> DEFINE orphans == ChatActives(sess)
           sid == IF Cardinality(orphans) = 1 THEN CHOOSE s \in orphans : TRUE ELSE NoSession
<1>1. /\ ~up /\ run' = run /\ run[Tick].pc = "idle"
      /\ \A m \in Messages : MessageFrame(run[m]) /\ run[m].pc \in {"new", "done"} /\ run[m].todo = {}
  BY DEF Restart, OwnersInv, FrameInv
<1>2. Tables(sess, hang, run) /\ ChatInv(sess, hang, run)
  BY ReachedNow DEF Reached
<1>3. \A m \in Messages, s \in SessionIds : ~Drives(run, m, s)
  BY <1>1 DEF Drives, Working, InLoop
<1>4. ChatInv(sess', hang', run)
  <2>1. CASE CrashDetected
    <3>1. sess' = RecoveredSess /\ hang' = AskToContinue /\ (orphans # {} => CanPost(hang))
      BY <2>1 DEF Restart
    <3>2. RecoveredSess \in SessionTable
      BY RecoveredType
    <3>3. \A s \in SessionIds :
            \/ RecoveredSess[s] = sess[s]
            \/ /\ sess[s].origin = "queue" /\ RecoveredSess[s].st = "cancelled" /\ RecoveredSess[s].origin = "queue"
            \/ /\ sess[s].st = "active" /\ sess[s].origin = "chat"
               /\ RecoveredSess[s].st = "paused" /\ RecoveredSess[s].origin = "chat"
      BY <1>2 DEF RecoveredSess, QueueActives, ChatActives, Active, Tables, SessionTable, Session
    <3>4. \A s \in SessionIds : sess[s].origin = "queue" => Loaned(sess, s) \/ Free(hang, run, s)
      BY <1>2, QueueIsReady DEF Ready
    <3>8. \A s \in SessionIds : sess[s].origin = "queue" /\ RecoveredSess[s].st = "cancelled" /\ RecoveredSess[s].origin = "queue"
                               => Autonomous(RecoveredSess, s)
      BY DEF Autonomous
    <3>9. ASSUME NEW s \in SessionIds
          PROVE  \/ RecoveredSess[s] = sess[s]
                 \/ /\ Free(hang, run, s) /\ RecoveredSess[s].st # "waiting_user"
                    /\ Autonomous(sess, s) => Autonomous(RecoveredSess, s)
                 \/ /\ sess[s].st = "active" /\ sess[s].origin = "chat"
                    /\ RecoveredSess[s].st = "paused" /\ RecoveredSess[s].origin = "chat"
                 \/ Loaned(sess, s) /\ Autonomous(RecoveredSess, s)
      BY <3>3, <3>4, <3>8
    <3>5. ChatInv(RecoveredSess, hang, run) /\ Tables(RecoveredSess, hang, run)
      BY <1>2, <3>2, <3>9, FreeWrites DEF Tables
    <3>6. CASE orphans = {}
      BY <3>1, <3>5, <3>6 DEF AskToContinue
    <3>7. CASE orphans # {}
      <4>1. orphans \in SUBSET SessionIds /\ sid \in orphans \cup {NoSession}
        BY <3>7 DEF ChatActives, Active
      <4>2. ASSUME NEW s \in orphans
            PROVE  Free(hang, run, s) /\ RecoveredSess[s].st = "paused" /\ RecoveredSess[s].origin = "chat"
        <5>1. s \in SessionIds /\ sess[s].st = "active" /\ sess[s].origin = "chat"
          BY DEF ChatActives, Active
        <5>2. \A h \in Pending(hang, AskKinds) : hang[h].sid # s
          BY <1>2, <5>1 DEF ChatInv, AsksHold, Loaned, Autonomous
        <5>3. \A h \in Pending(hang, {"crash_resume"}) : s \notin hang[h].sids
          BY <1>2, <5>1 DEF ChatInv, CrashRowsHold, Parked
        <5>4. RecoveredSess[s].st = "paused" /\ RecoveredSess[s].origin = "chat"
          BY <1>2, <5>1 DEF RecoveredSess, QueueActives, ChatActives, Active, Tables, SessionTable, Session
        <5> QED BY <1>1, <1>3, <5>1, <5>2, <5>3, <5>4 DEF Free
      <4>3. hang' = Post(hang, "crash_resume", sid, orphans)
        BY <3>1, <3>7 DEF AskToContinue
      <4> HIDE DEF orphans, sid
      <4> QED BY <3>1, <3>5, <3>7, <4>1, <4>2, <4>3, AsksAfterCrash
    <3> QED BY <3>6, <3>7
  <2>2. CASE ~CrashDetected
    BY <1>2, <2>2 DEF Restart
  <2> QED BY <2>1, <2>2
<1>5. TickFrame'
  BY <1>1 DEF TickFrame, InLoop
<1> QED BY <1>1, <1>4, <1>5 DEF OwnersInv, FrameInv, Restart

\* An hour makes rows due for the sweep and changes nobody's hold.
LEMMA HourKeepsOwners ==
  ASSUME TypeOK, OwnersInv, HourPasses
  PROVE  OwnersInv' /\ UNCHANGED <<sess, queue, run>> /\ KeepsPending(hang, hang')
<1>1. /\ hang' = [h \in HangIds |-> IF hang[h].st = "fresh" THEN [hang[h] EXCEPT !.st = "stale"] ELSE hang[h]]
      /\ UNCHANGED <<sess, queue, run, up>>
  BY DEF HourPasses
<1>2. hang \in HangingTable /\ hang' \in HangingTable
  BY ClockAndCancelAreHarmless DEF Harmless, TypeOK
<1>3. \A h \in HangIds : /\ hang'[h].kind = hang[h].kind /\ hang'[h].sid = hang[h].sid /\ hang'[h].sids = hang[h].sids
                         /\ hang'[h].st \in {"fresh", "stale"} <=> hang[h].st \in {"fresh", "stale"}
  BY <1>1, <1>2 DEF HangingTable, HangRow
<1>4. KeepsPending(hang, hang')
  BY <1>3 DEF KeepsPending, Pending
<1>5. ChatInv(sess, hang', run)
  BY <1>2, <1>3, <1>4, Ages, ReachedNow DEF Reached, KeepsPending
<1> QED BY <1>1, <1>4, <1>5 DEF OwnersInv, FrameInv, TickFrame

\* Every step keeps OwnersInv: one case per action.
LEMMA OwnersStep ==
  ASSUME Mild, TypeOK, OwnersInv, SnapInv, [Next]_vars
  PROVE  OwnersInv'
<1>1. CASE TickStep
  BY <1>1, TickIsUp, TickBeats, BeatKeepsOwners
<1>2. ASSUME NEW m \in Messages, MessageArrives(m) \/ MessageStep(m) PROVE OwnersInv'
  <2>1. CASE MessageArrives(m)
    <3>1. up
      BY <2>1 DEF MessageArrives, StopPhrase, ResumePhrase, Route, Arrives
    <3> QED BY <2>1, <3>1, ArrivalTurn, TurnKeepsOwners
  <2>2. CASE MessageStep(m)
    <3>1. up
      BY <2>2, BusyMessage DEF OwnersInv, FrameInv
    <3> QED BY <2>2, <3>1, MessageTurn, TurnKeepsOwners DEF Mild
  <2> QED BY <1>2, <2>1, <2>2
<1>3. CASE HourPasses
  BY <1>3, HourKeepsOwners
<1>4. CASE Crash \/ Shutdown
  BY <1>4, DyingKeepsOwners
<1>5. CASE Restart
  BY <1>5, RestartKeepsOwners
<1>6. CASE TornStep \/ TornRecovery
  BY <1>6 DEF Mild, TornStep, TornAsk, TornApproval, TornAnswer, TornSettle, TornClaim, TornRecovery
<1>7. CASE UNCHANGED vars \/ AgendaAddsTask \/ \E p \in Procs : ToolAddsTask(p) \/ ToolCancelsTask(p)
  <2>1. UNCHANGED <<sess, hang, run, up>>
    BY <1>7 DEF vars, hostVars, AgendaAddsTask, ToolAddsTask, ToolCancelsTask
  <2> QED BY <2>1 DEF OwnersInv, FrameInv, TickFrame
<1> QED BY <1>1, <1>2, <1>3, <1>4, <1>5, <1>6, <1>7 DEF Next

\* At first there are no sessions and no rows.
LEMMA InitOwners == Init => OwnersInv
<1> SUFFICES ASSUME Init PROVE OwnersInv
  OBVIOUS
<1>1. \A p \in Messages : run[p] = Fresh
  BY ExecutorAssumption DEF Init
<1>2. run[Tick] = Idle
  BY DEF Init
<1>3. \A kinds : Pending(hang, kinds) = {}
  BY DEF Init, EmptyHanging, Pending
<1>4. \A s \in SessionIds : sess[s].st = "none"
  BY DEF Init, EmptySessions, NoRow
<1>5. \A m \in Messages : run[m].pc = "new" /\ run[m].todo = {} /\ run[m].caller = "none"
  BY <1>1 DEF Fresh, Ended
<1>6. run[Tick].pc = "idle"
  BY <1>2 DEF Idle, Ended
<1>7. ChatInv(sess, hang, run)
  BY <1>3, <1>4, <1>5 DEF ChatInv, RunsHold, AsksHold, CrashRowsHold, ListsHold, StashesHold, Drives, Working, InLoop
<1> QED BY <1>5, <1>6, <1>7 DEF OwnersInv, FrameInv, TickFrame, MessageFrame, InLoop, Init

\* Whatever interleaving of messages, ticks, crashes and restarts, and whoever asks
\* Lin: a chat session has one holder, a run, a question or a list.
THEOREM OwnersHold == ASSUME Mild PROVE Spec => []OwnersInv
<1>1. Init => OwnersInv
  BY InitOwners
<1>2. TypeOK /\ OwnersInv /\ SnapInv /\ [Next]_vars => OwnersInv'
  BY OwnersStep
<1>3. Spec => []SnapInv
  BY SnapAlways DEF Mild
<1> QED BY <1>1, <1>2, <1>3, TypeCorrect, PTL DEF Spec

\* No two coroutines drive the same session: not two messages, not a message and
\* the tick, whatever woke them.  As long as one message is routed at a time (two
\* that may choose from one list do wake a session twice), no publish blocks, no
\* handler is cut between two writes and queue runs ask nothing.
THEOREM OneDriver == ASSUME Calm PROVE Spec => []NoDoubleRun
<1>1. TypeOK /\ OwnersInv => NoDoubleRun
  <2> SUFFICES ASSUME TypeOK, OwnersInv, NEW p \in Procs, NEW q \in Procs, Driving(p), Driving(q),
                      run[p].sid = run[q].sid, run[p].sid # NoSession
               PROVE  p = q
    BY DEF NoDoubleRun
  <2>1. run[p].sid \in SessionIds
    BY DEF TypeOK, Frame
  <2>2. Drives(run, p, run[p].sid) /\ Drives(run, q, run[p].sid)
    BY DEF Driving, Drives, Working
  <2>3. \A m \in Messages : Drives(run, m, run[p].sid) =>
          sess[run[p].sid].origin = "chat" /\ \A n \in Messages : Drives(run, n, run[p].sid) => n = m
    BY <2>1 DEF OwnersInv, ChatInv, RunsHold, Calm, Loaned
  <2>4. Driving(Tick) => run[Tick].sid \in SessionIds /\ sess[run[Tick].sid].origin = "queue"
    BY DEF Driving, OwnersInv, FrameInv, TickFrame, Autonomous, InLoop
  <2> QED BY <2>2, <2>3, <2>4
<1> QED BY <1>1, TypeCorrect, OwnersHold, PTL DEF Calm

\* A pending question's session waits for its answer, so an answer or an expiry
\* never hits a session that has gone on.
THEOREM AskedStillWaits == ASSUME Calm PROVE Spec => []QuestionHasWaiter
<1>1. OwnersInv => QuestionHasWaiter
  BY DEF OwnersInv, ChatInv, AsksHold, QuestionHasWaiter, AskedOf, AskKinds, Calm, Loaned
<1> QED BY <1>1, OwnersHold, PTL DEF Calm

\* A session that waits for Lin has exactly one question that wakes it.
THEOREM WaiterHasOneQuestion == ASSUME Calm PROVE Spec => []WaitingHasQuestion
<1>1. OwnersInv => WaitingHasQuestion
  <2> SUFFICES ASSUME OwnersInv, NEW s \in SessionIds, sess[s].st = "waiting_user"
               PROVE  Cardinality(AskedOf(s)) = 1
    BY DEF WaitingHasQuestion
  <2>1. PICK h \in Pending(hang, AskKinds) : hang[h].sid = s
    BY DEF OwnersInv, ChatInv, AsksHold, Calm, Loaned
  <2>2. \A g \in Pending(hang, AskKinds) : hang[g].sid = s => g = h
    BY <2>1 DEF OwnersInv, ChatInv, AsksHold, Calm, Loaned
  <2>3. AskedOf(s) = {h}
    BY <2>1, <2>2 DEF AskedOf, AskKinds
  <2> QED BY <2>3, FS_Singleton
<1> QED BY <1>1, OwnersHold, PTL DEF Calm
=============================================================================
