--------------------------- MODULE Claims_proofs ---------------------------
(***************************************************************************)
(* What becomes of autonomous work.  On OwnersInv rest three more          *)
(* invariants: QueueInv ties a claimed row, its session and the stash of a *)
(* displaced run together; MannedInv says that every active session has a  *)
(* coroutine at work on it; PausedKept that a paused run is on its way to  *)
(* a stash or has one.  DoneRowDone, NoOrphan, ClaimCanSettle, OneStash,   *)
(* ActiveDriven and PausedHasStash follow.  The last two sections are      *)
(* about single steps: the tick gives way to Lin (TickRespectsLin), and    *)
(* nothing writes over a session that is done or cancelled (EndedStays).   *)
(* LinsInv and the two theorems on Lin's own sessions (LinsTasksHold,      *)
(* LinsEndedStay) hold also where queue runs ask her.                      *)
(***************************************************************************)
EXTENDS Owners_proofs

USE DEF Procs, NoSession, NoTask

-----------------------------------------------------------------------------
(* Claims, autonomous sessions and stashes                                 *)

\* the tick is at work on autonomous session s
TickDrives(rr, s) == rr[Tick].pc \in InLoop /\ rr[Tick].sid = s

\* the run the tick is inside works for the claimed row
RunHasClaim(ss, qq, rr) ==
  rr[Tick].pc \in InLoop =>
    /\ rr[Tick].task \in RowsIn(qq, "running") /\ qq[rr[Tick].task].sid = rr[Tick].sid
    /\ ss[rr[Tick].sid].st \in {"active"} \cup Displaced

\* a claimed row points to a session that can still end
ClaimsCanEnd(ss, qq) ==
  \A t \in RowsIn(qq, "running") :
    qq[t].sid \in SessionIds /\ Autonomous(ss, qq[t].sid) /\ ss[qq[t].sid].st \notin {"done", "cancelled"}

\* an autonomous session that is at work or blocked has its claimed row
Claimants(ss, qq) ==
  \A s \in SessionIds : Autonomous(ss, s) /\ ss[s].st \in {"active"} \cup Blocked =>
    \E t \in RowsIn(qq, "running") : qq[t].sid = s

\* the one stash belongs to a displaced session the tick is not driving
StashesWait(ss, hh, rr) ==
  \A h \in Pending(hh, Stash) :
    /\ IsDisplaced(ss, hh[h].sid) /\ ~TickDrives(rr, hh[h].sid)
    /\ \A g \in Pending(hh, Stash) : g = h

\* a row is done only if its session is
DoneRowsStay(ss, qq) ==
  \A t \in RowsIn(qq, "done") : qq[t].sid \in SessionIds /\ Autonomous(ss, qq[t].sid) /\ ss[qq[t].sid].st = "done"

\* the row being classified is still unclaimed when the classifier answers
PickedWaits(qq, rr) == rr[Tick].pc = "classify" => rr[Tick].task \in RowsIn(qq, "pending")

\* the invariant of claims, autonomous sessions and stashes
QueueInv(ss, hh, qq, rr) ==
  /\ RunHasClaim(ss, qq, rr) /\ ClaimsCanEnd(ss, qq) /\ Claimants(ss, qq)
  /\ StashesWait(ss, hh, rr) /\ DoneRowsStay(ss, qq) /\ PickedWaits(qq, rr)

\* QueueInv of the present tables
QueueHolds == QueueInv(sess, hang, queue, run)

\* What the queue's operations write, row by row.
LEMMA SettledRows ==
  ASSUME NEW qq \in TaskTable, NEW t \in Tasks, NEW s \in SessionIds
  PROVE  /\ \A u \in Tasks : u # t => /\ MarkDone(qq, t)[u] = qq[u] /\ MarkFailed(qq, t)[u] = qq[u]
                                      /\ AddRow(qq, t)[u] = qq[u] /\ MarkRunning(qq, t, s)[u] = qq[u]
         /\ MarkDone(qq, t)[t].st = "done" /\ MarkDone(qq, t)[t].sid = qq[t].sid
         /\ MarkFailed(qq, t)[t].st \in {"failed", "pending"}
         /\ AddRow(qq, t)[t].st = "pending"
         /\ MarkRunning(qq, t, s)[t].st = "running" /\ MarkRunning(qq, t, s)[t].sid = s
BY DEF MarkDone, MarkFailed, AddRow, MarkRunning, TaskTable, Row

\* Lin's messages, the clock and a crash leave the claims, the stashes and the
\* sessions behind them as they were, but for displacing what was active.
LEMMA OthersKeepQueue ==
  ASSUME ~QueueAsks, TypeOK, OwnersInv, QueueHolds, LinOnly(sess, sess'), queue' = queue,
         Pending(hang', Stash) = Pending(hang, Stash),
         \A h \in Pending(hang, Stash) : hang'[h].sid = hang[h].sid,
         run'[Tick] = run[Tick] \/ run'[Tick].pc = "idle"
  PROVE  QueueHolds'
<1>1. \A s \in SessionIds : Autonomous(sess, s) =>
         Autonomous(sess', s) /\ (sess'[s] = sess[s] \/ (sess[s].st = "active" /\ sess'[s].st \in Displaced))
  BY DEF LinOnly
<1>2. \A s \in SessionIds : Autonomous(sess', s) => Autonomous(sess, s)
  BY DEF LinOnly
<1>3. run'[Tick].pc # "idle" => run'[Tick] = run[Tick]
  OBVIOUS
<1>4. RunHasClaim(sess', queue', run')
  <2>1. run[Tick].pc \in InLoop => run[Tick].sid \in SessionIds /\ Autonomous(sess, run[Tick].sid)
    BY DEF OwnersInv, FrameInv, TickFrame
  <2> QED BY <1>1, <2>1 DEF QueueHolds, QueueInv, RunHasClaim, InLoop, Displaced
<1>5. ClaimsCanEnd(sess', queue')
  BY <1>1 DEF QueueHolds, QueueInv, ClaimsCanEnd, Displaced
<1>6. Claimants(sess', queue')
  BY <1>1, <1>2 DEF QueueHolds, QueueInv, Claimants, Displaced
<1>7. StashesWait(sess', hang', run')
  <2>1. \A h \in Pending(hang, Stash) :
          hang[h].sid \in SessionIds /\ Autonomous(sess, hang[h].sid) /\ IsDisplaced(sess, hang[h].sid)
    BY DEF OwnersInv, ChatInv, StashesHold, Autonomous, QueueHolds, QueueInv, StashesWait
  <2>2. \A h \in Pending(hang, Stash) : IsDisplaced(sess', hang[h].sid)
    BY <1>1, <2>1 DEF IsDisplaced, Displaced
  <2>3. \A s : TickDrives(run', s) => TickDrives(run, s)
    BY DEF TickDrives, InLoop
  <2> QED BY <2>2, <2>3 DEF QueueHolds, QueueInv, StashesWait
<1>8. DoneRowsStay(sess', queue')
  BY <1>1 DEF QueueHolds, QueueInv, DoneRowsStay
<1>9. PickedWaits(queue', run')
  BY DEF QueueHolds, QueueInv, PickedWaits
<1> QED BY <1>4, <1>5, <1>6, <1>7, <1>8, <1>9 DEF QueueHolds, QueueInv

\* A new row of the queue is nobody's.
LEMMA AddingKeepsQueue ==
  ASSUME TypeOK, QueueHolds, NEW t \in RowsIn(queue, "absent"), queue' = AddRow(queue, t), UNCHANGED <<sess, hang, run>>
  PROVE  QueueHolds'
<1>1. t \in Tasks /\ queue \in TaskTable
  BY DEF RowsIn, TypeOK
<1>2. queue'[t].st = "pending" /\ \A u \in Tasks : u # t => queue'[u] = queue[u]
  <2>1. CASE SessionIds = {}
    BY <1>1 DEF AddRow, TaskTable, Row
  <2>2. CASE SessionIds # {}
    BY <1>1, <2>2, SettledRows
  <2> QED BY <2>1, <2>2
<1>3. /\ \A st \in {"running", "done"} : \A u : u \in RowsIn(queue', st) <=> u \in RowsIn(queue, st)
      /\ RowsIn(queue, "pending") \subseteq RowsIn(queue', "pending")
      /\ \A u \in RowsIn(queue, "running") \cup RowsIn(queue, "done") : queue'[u] = queue[u]
  BY <1>1, <1>2 DEF RowsIn
<1>4. RunHasClaim(sess', queue', run') /\ PickedWaits(queue', run')
  BY <1>3 DEF QueueHolds, QueueInv, RunHasClaim, PickedWaits
<1>5. ClaimsCanEnd(sess', queue') /\ DoneRowsStay(sess', queue')
  BY <1>3 DEF QueueHolds, QueueInv, ClaimsCanEnd, DoneRowsStay
<1>6. Claimants(sess', queue')
  BY <1>3 DEF QueueHolds, QueueInv, Claimants
<1>7. StashesWait(sess', hang', run')
  BY DEF QueueHolds, QueueInv, StashesWait
<1> QED BY <1>4, <1>5, <1>6, <1>7 DEF QueueHolds, QueueInv

\* Recovery: the claim of a cancelled orphan is given back, the others stand.
LEMMA RestartKeepsQueue ==
  ASSUME TypeOK, OwnersInv, QueueHolds, Restart
  PROVE  QueueHolds'
<1>1. /\ run' = run /\ run[Tick].pc = "idle"
  BY DEF Restart, OwnersInv, FrameInv
<1>2. CASE CrashDetected
  <2>1. sess' = RecoveredSess /\ queue' = RecoveredQueue /\ hang' = AskToContinue
        /\ (ChatActives(sess) # {} => CanPost(hang))
    BY <1>2 DEF Restart
  <2>2. sess \in SessionTable /\ hang \in HangingTable /\ queue \in TaskTable
    BY DEF TypeOK
  <2>3. \A s \in SessionIds :
          /\ RecoveredSess[s].origin = sess[s].origin
          /\ \/ RecoveredSess[s].st = sess[s].st /\ (sess[s].origin = "queue" => sess[s].st # "active")
             \/ sess[s].origin = "queue" /\ sess[s].st = "active" /\ RecoveredSess[s].st = "cancelled"
             \/ sess[s].origin = "chat"
    BY <2>2 DEF RecoveredSess, QueueActives, ChatActives, Active, SessionTable, Session
  <2>4. \A s \in SessionIds : Autonomous(sess, s) =>
          /\ Autonomous(RecoveredSess, s)
          /\ \/ RecoveredSess[s].st = sess[s].st /\ sess[s].st # "active"
             \/ sess[s].st = "active" /\ RecoveredSess[s].st = "cancelled"
    BY <2>3 DEF Autonomous
  <2>5. \A s \in SessionIds : Autonomous(RecoveredSess, s) => Autonomous(sess, s)
    BY <2>3 DEF Autonomous
  <2>6. \A t \in Tasks :
          \/ RecoveredQueue[t] = queue[t] /\ ~(queue[t].st = "running" /\ queue[t].sid \in QueueActives(sess))
          \/ RecoveredQueue[t].st = "pending" /\ queue[t].st = "running" /\ queue[t].sid \in QueueActives(sess)
    BY <2>2 DEF RecoveredQueue, Requeue, TaskTable, Row
  <2>7. KeepsStashes(hang, hang')
    BY <2>1, <2>2, AskKeepsStashes DEF AskToContinue, Questions, KeepsStashes
  <2> HIDE DEF RecoveredSess
  <2>8. \A s \in SessionIds : Autonomous(sess, s) /\ sess[s].st = "active" <=> s \in QueueActives(sess)
    BY DEF Autonomous, QueueActives, Active
  <2>9. RunHasClaim(sess', queue', run') /\ PickedWaits(queue', run')
    BY <1>1 DEF RunHasClaim, PickedWaits, InLoop
  <2>10. ClaimsCanEnd(RecoveredSess, RecoveredQueue)
    <3> SUFFICES ASSUME NEW t \in RowsIn(RecoveredQueue, "running")
                 PROVE  LET s == RecoveredQueue[t].sid
                        IN  s \in SessionIds /\ Autonomous(RecoveredSess, s) /\ RecoveredSess[s].st \notin {"done", "cancelled"}
      BY DEF ClaimsCanEnd
    <3>1. t \in RowsIn(queue, "running") /\ RecoveredQueue[t] = queue[t] /\ queue[t].sid \notin QueueActives(sess)
      BY <2>6 DEF RowsIn
    <3>2. LET s == queue[t].sid IN s \in SessionIds /\ Autonomous(sess, s) /\ sess[s].st \notin {"done", "cancelled"}
      BY <3>1 DEF QueueHolds, QueueInv, ClaimsCanEnd
    <3> QED BY <2>4, <2>8, <3>1, <3>2
  <2>11. Claimants(RecoveredSess, RecoveredQueue)
    <3> SUFFICES ASSUME NEW s \in SessionIds, Autonomous(RecoveredSess, s), RecoveredSess[s].st \in {"active"} \cup Blocked
                 PROVE  \E t \in RowsIn(RecoveredQueue, "running") : RecoveredQueue[t].sid = s
      BY DEF Claimants
    <3>1. Autonomous(sess, s) /\ sess[s].st \in {"active"} \cup Blocked /\ s \notin QueueActives(sess)
      BY <2>4, <2>5, <2>8 DEF Blocked
    <3>2. PICK t \in RowsIn(queue, "running") : queue[t].sid = s
      BY <3>1 DEF QueueHolds, QueueInv, Claimants
    <3> QED BY <2>6, <3>1, <3>2 DEF RowsIn
  <2>12. DoneRowsStay(RecoveredSess, RecoveredQueue)
    <3> SUFFICES ASSUME NEW t \in RowsIn(RecoveredQueue, "done")
                 PROVE  LET s == RecoveredQueue[t].sid
                        IN  s \in SessionIds /\ Autonomous(RecoveredSess, s) /\ RecoveredSess[s].st = "done"
      BY DEF DoneRowsStay
    <3>1. t \in RowsIn(queue, "done") /\ RecoveredQueue[t] = queue[t]
      BY <2>6 DEF RowsIn
    <3> QED BY <2>4, <3>1 DEF QueueHolds, QueueInv, DoneRowsStay
  <2>13. StashesWait(RecoveredSess, hang', run')
    <3>1. \A h \in Pending(hang, Stash) : /\ hang[h].sid \in SessionIds /\ Autonomous(sess, hang[h].sid)
                                          /\ IsDisplaced(sess, hang[h].sid)
      BY DEF OwnersInv, ChatInv, StashesHold, Autonomous, QueueHolds, QueueInv, StashesWait
    <3>2. \A h \in Pending(hang, Stash) : IsDisplaced(RecoveredSess, hang[h].sid)
      BY <2>4, <3>1 DEF IsDisplaced, Displaced
    <3> QED BY <1>1, <2>7, <3>2 DEF QueueHolds, QueueInv, StashesWait, KeepsStashes
  <2> QED BY <2>1, <2>9, <2>10, <2>11, <2>12, <2>13 DEF QueueHolds, QueueInv
<1>3. CASE ~CrashDetected
  BY <1>1, <1>3 DEF Restart, QueueHolds, QueueInv, RunHasClaim, PickedWaits, StashesWait
<1> QED BY <1>2, <1>3

\* The tick's sweep: an expired stash goes, and its session fails; while a stash
\* is there to be read, nothing else expired, and its session still waits for it.
LEMMA SweepKeepsQueue ==
  ASSUME TypeOK, OwnersInv, QueueHolds, run[Tick].pc = "idle"
  PROVE  /\ QueueInv(SweptSess, SweptHang, queue, run)
         /\ LeftHang = SweptHang
         /\ StashRow # NoHanging => StashRow \in Pending(SweptHang, Stash)
         /\ \A h \in Pending(SweptHang, Stash) : h = StashRow /\ LeftSid = SweptHang[h].sid
<1>0. hang \in HangingTable
  BY DEF TypeOK
<1>1. /\ Pending(SweptHang, Stash) = Pending(hang, Stash) \ Expired(hang, Stash)
      /\ \A h \in Pending(SweptHang, Stash) : SweptHang[h] = hang[h]
  <2>1. Resolves(hang, SweptHang, Expired(hang, Stash))
    BY <1>0, ResolvesSwept DEF SweptHang
  <2> QED BY <2>1 DEF Resolves, Pending, Expired
<1>2. \A s \in SessionIds :
         /\ SweptSess[s].origin = sess[s].origin
         /\ \/ SweptSess[s].st = sess[s].st
            \/ SweptSess[s].st = "failed" /\ \E h \in Expired(hang, Stash) : hang[h].sid = s
  BY SweptOwners
<1>3. \A h \in Pending(hang, Stash) :
         /\ hang[h].sid \in SessionIds /\ Autonomous(sess, hang[h].sid) /\ sess[hang[h].sid].st \in Displaced
         /\ \A g \in Pending(hang, Stash) : g = h
  BY DEF OwnersInv, ChatInv, StashesHold, Autonomous, QueueHolds, QueueInv, StashesWait, IsDisplaced
<1>4. Expired(hang, Stash) \subseteq Pending(hang, Stash)
  BY DEF Expired
<1>5. \A s \in SessionIds :
         /\ Autonomous(SweptSess, s) <=> Autonomous(sess, s)
         /\ \/ SweptSess[s].st = sess[s].st
            \/ SweptSess[s].st = "failed" /\ sess[s].st \in Displaced
  BY <1>2, <1>3, <1>4 DEF Autonomous, Displaced
<1>6. Pending(SweptHang, Stash) # {} => Expired(hang, Stash) = {}
  BY <1>1, <1>3, <1>4
<1>7. \A h \in Pending(SweptHang, Stash) :
         /\ SweptHang[h].sid \in SessionIds /\ IsDisplaced(SweptSess, SweptHang[h].sid)
         /\ \A g \in Pending(SweptHang, Stash) : g = h
  BY <1>1, <1>2, <1>3, <1>6 DEF IsDisplaced, SessionIds
<1>8. QueueInv(SweptSess, SweptHang, queue, run)
  <2>1. RunHasClaim(SweptSess, queue, run) /\ PickedWaits(queue, run) /\ \A s : ~TickDrives(run, s)
    BY DEF RunHasClaim, PickedWaits, TickDrives, InLoop
  <2>2. ClaimsCanEnd(SweptSess, queue)
    BY <1>5 DEF QueueHolds, QueueInv, ClaimsCanEnd
  <2>3. Claimants(SweptSess, queue)
    BY <1>5 DEF QueueHolds, QueueInv, Claimants, Blocked
  <2>4. DoneRowsStay(SweptSess, queue)
    BY <1>5 DEF QueueHolds, QueueInv, DoneRowsStay, Displaced
  <2>5. StashesWait(SweptSess, SweptHang, run)
    BY <1>7, <2>1 DEF StashesWait
  <2> QED BY <2>1, <2>2, <2>3, <2>4, <2>5 DEF QueueInv
<1>9. SweptHang \in HangingTable
  BY SweptOwners DEF Tables
<1>10. StashRow # NoHanging => StashRow \in Pending(SweptHang, Stash)
  BY SweptOwners
<1>11. LeftHang = SweptHang
  BY <1>7, <1>10 DEF LeftHang, StashDead, StashSid
<1>12. Pending(SweptHang, Stash) # {} => StashRow \in Pending(SweptHang, Stash)
  <2>1. NoHanging \notin Pending(SweptHang, Stash)
    BY DEF NoHanging, Pending, HangIds
  <2> SUFFICES ASSUME Pending(SweptHang, Stash) # {} PROVE StashRow # NoHanging
    BY <1>10
  <2>2. PICK h \in Pending(SweptHang, Stash) : \A g \in Pending(SweptHang, Stash) : g = h
    BY <1>7
  <2>3. h \in Nat /\ h # NoHanging
    BY <2>1, HangingAssumption DEF Pending, HangIds
  <2>4. \A g \in Pending(SweptHang, Stash) : g <= h
    BY <2>2, <2>3
  <2>5. Newest(SweptHang, "session_displaced") \in Pending(SweptHang, Stash)
    BY <2>4 DEF Newest, Stash
  <2> QED BY <2>1, <2>5 DEF StashRow
<1>13. \A h \in Pending(SweptHang, Stash) : h = StashRow /\ LeftSid = SweptHang[h].sid
  <2> SUFFICES ASSUME NEW h \in Pending(SweptHang, Stash) PROVE h = StashRow /\ LeftSid = SweptHang[h].sid
    OBVIOUS
  <2>1. h = StashRow
    BY <1>7, <1>12
  <2>2. NoHanging \notin Pending(SweptHang, Stash)
    BY DEF NoHanging, Pending, HangIds
  <2>3. Newest(LeftHang, "session_displaced") = StashRow
    BY <1>11 DEF StashRow
  <2> QED BY <1>11, <2>1, <2>2, <2>3 DEF LeftSid
<1> QED BY <1>8, <1>10, <1>11, <1>13

\* A displaced session with no stash left wakes up and its claim's run goes on.
LEMMA WakingKeepsQueue ==
  ASSUME NEW ss \in SessionTable, NEW hh, NEW qq, QueueInv(ss, hh, qq, run), run[Tick].pc = "idle",
         \A t, u \in RowsIn(qq, "running") : t = u,
         NEW s \in SessionIds, Autonomous(ss, s), ss[s].st \in Displaced,
         \A h \in Pending(hh, Stash) : hh[h].sid # s, NEW r2,
         NEW t \in Claimed(qq),
         \/ r2 = run
         \/ t # NoTask /\ qq[t].sid = s /\ r2[Tick].pc = "llm" /\ r2[Tick].sid = s /\ r2[Tick].task = t
  PROVE  QueueInv(SetStatus(ss, s, "active"), hh, qq, r2)
<1> DEFINE s2 == SetStatus(ss, s, "active")
<1>1. s2[s].st = "active" /\ s2[s].origin = ss[s].origin /\ \A r \in SessionIds : r # s => s2[r] = ss[r]
  BY StatusWrite
<1> HIDE DEF s2
<1>2. \A r \in SessionIds : Autonomous(s2, r) <=> Autonomous(ss, r)
  BY <1>1 DEF Autonomous, Displaced
<1>3. r2[Tick].pc \in InLoop =>
        /\ r2[Tick].task \in RowsIn(qq, "running") /\ qq[r2[Tick].task].sid = s /\ r2[Tick].sid = s
  BY DEF Claimed, RowsIn, Tasks, InLoop
<1>4. r2[Tick].pc # "classify"
  OBVIOUS
<1>5. RunHasClaim(s2, qq, r2) /\ PickedWaits(qq, r2)
  BY <1>1, <1>3, <1>4 DEF RunHasClaim, PickedWaits
<1>6. ClaimsCanEnd(s2, qq)
  BY <1>1, <1>2 DEF QueueInv, ClaimsCanEnd
<1>7. Claimants(s2, qq)
  BY <1>1, <1>2 DEF QueueInv, Claimants, Blocked, Displaced
<1>8. DoneRowsStay(s2, qq)
  BY <1>1, <1>2 DEF QueueInv, DoneRowsStay, Displaced
<1>9. StashesWait(s2, hh, r2)
  <2>1. \A h \in Pending(hh, Stash) : ~TickDrives(r2, hh[h].sid)
    BY <1>3 DEF TickDrives
  <2>2. \A h \in Pending(hh, Stash) : IsDisplaced(s2, hh[h].sid)
    <3> SUFFICES ASSUME NEW h \in Pending(hh, Stash) PROVE IsDisplaced(s2, hh[h].sid)
      OBVIOUS
    <3>1. IsDisplaced(ss, hh[h].sid) /\ hh[h].sid # s
      BY DEF QueueInv, StashesWait
    <3>2. s2[hh[h].sid] = ss[hh[h].sid]
      BY <3>1 DEF s2, SetStatus, SessionTable
    <3> QED BY <3>1, <3>2 DEF IsDisplaced
  <2> QED BY <2>1, <2>2 DEF QueueInv, StashesWait
<1> QED BY <1>5, <1>6, <1>7, <1>8, <1>9 DEF QueueInv, s2

\* The tick wakes a session whose row is still claimed, so its run has a claim.
LEMMA WakersKeepQueue ==
  ASSUME TypeOK, OwnersInv, QueueHolds, ClaimInv, TickResumesDisplaced \/ TickUnblocksWaiting
  PROVE  QueueHolds'
<1>0. run[Tick].pc = "idle"
  BY DEF TickResumesDisplaced, TickUnblocksWaiting, TickReady
<1>1. /\ QueueInv(SweptSess, SweptHang, queue, run) /\ LeftHang = SweptHang
      /\ \A h \in Pending(SweptHang, Stash) : h = StashRow /\ LeftSid = SweptHang[h].sid
  BY <1>0, SweepKeepsQueue
<1>2. \A t, u \in RowsIn(queue, "running") : t = u
  BY DEF ClaimInv, SingleClaim, RowsIn
<1>3. SweptSess \in SessionTable /\ SweptHang \in HangingTable
  BY SweptOwners DEF Tables
<1>4. CASE TickResumesDisplaced
  <2> DEFINE h2 == ResolveRow(SweptHang, StashRow)
             s  == StashSid
  <2>1. /\ StashRow \in Pending(SweptHang, Stash) /\ s \in SessionIds /\ SweptSess[s].st \in Displaced
        /\ sess' = SetStatus(SweptSess, s, "active") /\ hang' = h2 /\ queue' = queue
        /\ \E t \in Claimed(queue) :
             \/ run' = run
             \/ t # NoTask /\ queue[t].sid = s /\ run'[Tick].pc = "llm" /\ run'[Tick].sid = s /\ run'[Tick].task = t
    BY <1>4, DisplacedWakes
  <2>2. Autonomous(SweptSess, s)
    <3>1. StashRow # NoHanging
      BY <2>1 DEF Pending, HangIds, NoHanging
    <3> QED BY <3>1, SweptOwners
  <2>3. Pending(h2, Stash) = {}
    <3>1. StashRow \in HangIds
      BY <2>1 DEF Pending
    <3>2. h2[StashRow].st = "resolved" /\ \A h \in HangIds : h # StashRow => h2[h] = SweptHang[h]
      BY <1>3, <3>1 DEF ResolveRow, HangingTable, HangRow
    <3> QED BY <1>1, <3>2 DEF Pending
  <2> HIDE DEF h2, s
  <2>4. QueueInv(SweptSess, h2, queue, run)
    BY <1>1, <2>3 DEF QueueInv, StashesWait
  <2>5. PICK t \in Claimed(queue) :
             \/ run' = run
             \/ t # NoTask /\ queue[t].sid = s /\ run'[Tick].pc = "llm" /\ run'[Tick].sid = s /\ run'[Tick].task = t
    BY <2>1
  <2>6. \A h \in Pending(h2, Stash) : h2[h].sid # s
    BY <2>3
  <2>7. QueueInv(SetStatus(SweptSess, s, "active"), h2, queue, run')
    BY <1>0, <1>2, <1>3, <2>1, <2>2, <2>4, <2>5, <2>6, WakingKeepsQueue
  <2> QED BY <2>1, <2>7 DEF QueueHolds
<1>5. CASE TickUnblocksWaiting
  <2>1. PICK s \in Waiting :
              /\ s \in SessionIds
              /\ sess' = SetStatus(SweptSess, s, "active") /\ hang' = LeftHang /\ queue' = queue
              /\ \E t \in Claimed(queue) :
                   \/ run' = run
                   \/ t # NoTask /\ queue[t].sid = s /\ run'[Tick].pc = "llm" /\ run'[Tick].sid = s /\ run'[Tick].task = t
    BY <1>5, WaitingWakes
  <2>2. s # LeftSid /\ SweptSess[s].st \in Displaced /\ Autonomous(SweptSess, s)
    BY DEF Waiting, Unblockable, Displaced, Autonomous
  <2>3. \A h \in Pending(SweptHang, Stash) : SweptHang[h].sid # s
    BY <1>1, <2>2
  <2>4. PICK t \in Claimed(queue) :
             \/ run' = run
             \/ t # NoTask /\ queue[t].sid = s /\ run'[Tick].pc = "llm" /\ run'[Tick].sid = s /\ run'[Tick].task = t
    BY <2>1
  <2>5. QueueInv(SetStatus(SweptSess, s, "active"), SweptHang, queue, run')
    BY <1>0, <1>1, <1>2, <1>3, <2>1, <2>2, <2>3, <2>4, WakingKeepsQueue
  <2> QED BY <1>1, <2>1, <2>5 DEF QueueHolds
<1> QED BY <1>4, <1>5

\* A claim is given back, or the next row is read, with nothing awake.
LEMMA LooksKeepQueue ==
  ASSUME TypeOK, OwnersInv, QueueHolds, ClaimInv, TickReconciles \/ TickPicks
  PROVE  QueueHolds'
<1>0. run[Tick].pc = "idle"
  BY DEF TickReconciles, TickPicks, NothingToWake, TickReady
<1>1. QueueInv(SweptSess, SweptHang, queue, run) /\ LeftHang = SweptHang
  BY <1>0, SweepKeepsQueue
<1>2. sess' = SweptSess /\ hang' = SweptHang
  BY <1>1, LooksOnly
<1>3. queue \in TaskTable
  BY DEF TypeOK
<1>4. CASE TickPicks
  <2> DEFINE t == NextIdle(queue)
             g == [Idle EXCEPT !.pc = "classify", !.task = t]
  <2>1. queue' = queue /\ (run' = run \/ (t # NoTask /\ run' = [run EXCEPT ![Tick] = g]))
    BY <1>4 DEF TickPicks, Put
  <2>2. CASE run' = run
    BY <1>1, <1>2, <2>1, <2>2 DEF QueueHolds
  <2>3. CASE t # NoTask /\ run' = [run EXCEPT ![Tick] = g]
    <3>1. t \in RowsIn(queue, "pending")
      <4>1. Waits(queue) \subseteq RowsIn(queue, "pending") /\ Waits(queue) \subseteq Nat /\ Waits(queue) # {}
        BY <2>3 DEF NextIdle, Waits, RowsIn, Tasks
      <4>2. \E k \in Waits(queue) : \A u \in Waits(queue) : k <= u
        BY <4>1, LeastElement
      <4> QED BY <4>1, <4>2 DEF NextIdle
    <3>2. g.pc = "classify" /\ g.task = t
      BY DEF Idle, Ended
    <3> HIDE DEF g, t
    <3>3. run'[Tick] = g
      BY <2>3 DEF TypeOK
    <3>4. /\ RunHasClaim(SweptSess, queue, run') /\ PickedWaits(queue, run')
          /\ \A s : ~TickDrives(run', s)
      BY <3>1, <3>2, <3>3 DEF RunHasClaim, PickedWaits, TickDrives, InLoop
    <3> QED BY <1>1, <1>2, <2>1, <3>4 DEF QueueHolds, QueueInv, StashesWait
  <2> QED BY <2>1, <2>2, <2>3
<1>5. CASE TickReconciles
  <2>1. PICK t \in RowsIn(queue, "running") :
          queue' = IF queue[t].sid # NoSession /\ SweptSess[queue[t].sid].st = "failed"
                     THEN MarkFailed(queue, t) ELSE queue
    BY <1>5 DEF TickReconciles
  <2>2. run' = run /\ t \in Tasks
    BY <1>5 DEF TickReconciles, RowsIn
  <2>3. CASE queue' = queue
    BY <1>1, <1>2, <2>2, <2>3 DEF QueueHolds
  <2>4. CASE queue' = MarkFailed(queue, t) /\ SweptSess[queue[t].sid].st = "failed"
    <3>1. queue[t].sid \in SessionIds
      BY <1>1 DEF QueueInv, ClaimsCanEnd
    <3>2. queue'[t].st \in {"failed", "pending"} /\ \A u \in Tasks : u # t => queue'[u] = queue[u]
      BY <1>3, <2>2, <2>4, <3>1, SettledRows
    <3>3. \A st \in {"running", "done"} : \A u \in RowsIn(queue', st) : u \in RowsIn(queue, st) /\ queue'[u] = queue[u] /\ u # t
      BY <3>2 DEF RowsIn
    <3>4. ClaimsCanEnd(SweptSess, queue') /\ DoneRowsStay(SweptSess, queue')
      BY <1>1, <3>3 DEF QueueInv, ClaimsCanEnd, DoneRowsStay
    <3>5. Claimants(SweptSess, queue')
      <4> SUFFICES ASSUME NEW s \in SessionIds, Autonomous(SweptSess, s), SweptSess[s].st \in {"active"} \cup Blocked
                   PROVE  \E u \in RowsIn(queue', "running") : queue'[u].sid = s
        BY DEF Claimants
      <4>1. PICK u \in RowsIn(queue, "running") : queue[u].sid = s
        BY <1>1 DEF QueueInv, Claimants
      <4>2. u # t
        BY <2>4, <4>1 DEF Blocked
      <4> QED BY <3>2, <4>1, <4>2 DEF RowsIn
    <3>6. RunHasClaim(SweptSess, queue', run') /\ PickedWaits(queue', run')
      BY <1>0, <2>2 DEF RunHasClaim, PickedWaits, InLoop
    <3> QED BY <1>1, <1>2, <2>2, <3>4, <3>5, <3>6 DEF QueueHolds, QueueInv
  <2> QED BY <2>1, <2>3, <2>4
<1> QED BY <1>4, <1>5

\* A new claim: a new session, which is nobody else's.
LEMMA ClaimingKeepsQueue ==
  ASSUME TypeOK, OwnersInv, QueueHolds, ClaimInv, TickClaims
  PROVE  QueueHolds'
<1> DEFINE s == NextSession(sess)
           t == run[Tick].task
<1>1. /\ hang' = hang /\ s \in SessionIds /\ sess[s].st = "none"
      /\ sess'[s].origin = "queue" /\ sess'[s].st \in {"active", "waiting_dependency"}
      /\ \A r \in SessionIds : r # s => sess'[r] = sess[r]
      /\ queue' = MarkRunning(queue, t, s)
      /\ \/ run'[Tick].pc = "idle" /\ sess'[s].st = "waiting_dependency"
         \/ run'[Tick].pc = "llm" /\ run'[Tick].sid = s /\ run'[Tick].task = t
  BY ClaimsOwn
<1>2. RowsIn(queue, "running") = {} /\ t \in RowsIn(queue, "pending")
  BY DEF TickClaims, ClaimInv, QueueHolds, QueueInv, PickedWaits
<1>3. queue \in TaskTable /\ t \in Tasks
  BY <1>2 DEF TypeOK, RowsIn
<1> HIDE DEF s, t
<1>4. queue'[t].st = "running" /\ queue'[t].sid = s /\ \A u \in Tasks : u # t => queue'[u] = queue[u]
  BY <1>1, <1>3, SettledRows
<1>5. /\ RowsIn(queue', "running") = {t}
      /\ \A u \in RowsIn(queue', "done") : u \in RowsIn(queue, "done") /\ queue'[u] = queue[u]
  BY <1>2, <1>3, <1>4 DEF RowsIn
<1>6. \A r \in SessionIds : Autonomous(sess', r) <=> r = s \/ Autonomous(sess, r)
  BY <1>1 DEF Autonomous
<1>7. \A r \in SessionIds : sess[r].st # "none" => sess'[r] = sess[r]
  BY <1>1
<1>8. RunHasClaim(sess', queue', run') /\ PickedWaits(queue', run')
  <2>1. run'[Tick].pc \in InLoop => sess'[s].st \in {"active"} \cup Displaced
    BY <1>1 DEF Displaced
  <2> QED BY <1>1, <1>4, <1>5, <2>1 DEF RunHasClaim, PickedWaits, InLoop
<1>9. ClaimsCanEnd(sess', queue')
  BY <1>1, <1>4, <1>5, <1>6 DEF ClaimsCanEnd
<1>10. Claimants(sess', queue')
  <2> SUFFICES ASSUME NEW r \in SessionIds, r # s, Autonomous(sess', r), sess'[r].st \in {"active"} \cup Blocked
               PROVE  FALSE
    BY <1>4, <1>5 DEF Claimants
  <2>1. Autonomous(sess, r) /\ sess[r].st \in {"active"} \cup Blocked
    BY <1>1, <1>6
  <2> QED BY <1>2, <2>1 DEF QueueHolds, QueueInv, Claimants
<1>11. DoneRowsStay(sess', queue')
  BY <1>5, <1>6, <1>7 DEF QueueHolds, QueueInv, DoneRowsStay
<1>12. StashesWait(sess', hang', run')
  <2>1. \A h \in Pending(hang, Stash) : hang[h].sid \in SessionIds /\ sess[hang[h].sid].st \in Displaced
    BY DEF OwnersInv, ChatInv, StashesHold, QueueHolds, QueueInv, StashesWait, IsDisplaced
  <2>2. \A h \in Pending(hang, Stash) : IsDisplaced(sess', hang[h].sid) /\ ~TickDrives(run', hang[h].sid)
    BY <1>1, <1>7, <2>1 DEF IsDisplaced, TickDrives, InLoop, Displaced, SessionIds
  <2> QED BY <1>1, <2>2 DEF QueueHolds, QueueInv, StashesWait
<1> QED BY <1>8, <1>9, <1>10, <1>11, <1>12 DEF QueueHolds, QueueInv

\* The run the tick is inside: what ends it settles its own row, and a displaced
\* run leaves the only stash there is.
LEMMA OwnRunKeepsQueue ==
  ASSUME TypeOK, OwnersInv, QueueHolds, ClaimInv, ~QueueAsks, ExecutorStep(Tick)
  PROVE  QueueHolds'
<1> DEFINE s == run[Tick].sid
           t == run[Tick].task
<1>1. run[Tick].pc \in InLoop
  BY OwnRunGoesOn
<1>2. \/ /\ sess' = SetStatus(sess, s, "done") /\ hang' = hang /\ queue' = MarkDone(queue, t)
         /\ run'[Tick].pc = "idle"
      \/ /\ sess' = SetStatus(sess, s, "failed") /\ hang' = hang /\ queue' = MarkFailed(queue, t)
         /\ run'[Tick].pc = "idle"
      \/ /\ sess' = sess /\ hang' = hang /\ queue' = queue
         /\ run'[Tick].pc \in InLoop /\ run'[Tick].sid = s /\ run'[Tick].task = t
      \/ /\ IsDisplaced(sess, s) /\ CanPost(hang)
         /\ sess' = sess /\ hang' = Post(hang, "session_displaced", s, {}) /\ queue' = queue
         /\ run'[Tick].pc = "idle"
  BY OwnRunGoesOn
<1>3. s \in SessionIds /\ Autonomous(sess, s) /\ sess \in SessionTable /\ queue \in TaskTable /\ hang \in HangingTable
  BY <1>1 DEF OwnersInv, FrameInv, TickFrame, TypeOK
<1>4. t \in RowsIn(queue, "running") /\ queue[t].sid = s /\ sess[s].st \in {"active"} \cup Displaced /\ t \in Tasks
  BY <1>1 DEF QueueHolds, QueueInv, RunHasClaim, RowsIn
<1>5. \A u \in RowsIn(queue, "running") : u = t
  BY <1>4 DEF ClaimInv, SingleClaim, RowsIn
<1>6. \A h \in Pending(hang, Stash) : hang[h].sid # s
  BY <1>1 DEF QueueHolds, QueueInv, StashesWait, TickDrives
\* no stash is there while a run goes on: its session would have a claim too
<1>7. Pending(hang, Stash) = {}
  <2> SUFFICES ASSUME NEW h \in Pending(hang, Stash) PROVE FALSE
    OBVIOUS
  <2>1. hang[h].sid \in SessionIds /\ Autonomous(sess, hang[h].sid) /\ sess[hang[h].sid].st \in Blocked
    BY DEF OwnersInv, ChatInv, StashesHold, Autonomous, QueueHolds, QueueInv, StashesWait, IsDisplaced, Displaced, Blocked
  <2>2. PICK u \in RowsIn(queue, "running") : queue[u].sid = hang[h].sid
    BY <2>1 DEF QueueHolds, QueueInv, Claimants
  <2> QED BY <1>4, <1>5, <1>6, <2>2
<1> HIDE DEF s, t
<1>8. ASSUME NEW st \in {"done", "failed"}, sess' = SetStatus(sess, s, st), hang' = hang, run'[Tick].pc = "idle",
             \A u \in Tasks : u # t => queue'[u] = queue[u], queue'[t].st # "running",
             queue'[t].st = "done" => st = "done" /\ queue'[t].sid = s
      PROVE  QueueHolds'
  <2>1. sess'[s].st = st /\ sess'[s].origin = sess[s].origin /\ \A r \in SessionIds : r # s => sess'[r] = sess[r]
    BY <1>3, <1>8, StatusWrite
  <2>2. \A r \in SessionIds : Autonomous(sess', r) <=> Autonomous(sess, r)
    BY <1>3, <2>1 DEF Autonomous
  <2>3. RowsIn(queue', "running") = {}
    BY <1>5, <1>8 DEF RowsIn
  <2>4. \A u \in RowsIn(queue', "done") : u = t \/ (u \in RowsIn(queue, "done") /\ queue'[u] = queue[u])
    BY <1>8 DEF RowsIn
  <2>5. RunHasClaim(sess', queue', run') /\ PickedWaits(queue', run') /\ ClaimsCanEnd(sess', queue')
    BY <1>8, <2>3 DEF RunHasClaim, PickedWaits, ClaimsCanEnd, InLoop
  <2>6. StashesWait(sess', hang', run')
    BY <1>7, <1>8 DEF StashesWait
  <2>7. Claimants(sess', queue')
    <3> SUFFICES ASSUME NEW r \in SessionIds, Autonomous(sess', r), sess'[r].st \in {"active"} \cup Blocked PROVE FALSE
      BY DEF Claimants
    <3>1. r # s
      BY <1>8, <2>1 DEF Blocked
    <3>2. PICK u \in RowsIn(queue, "running") : queue[u].sid = r
      BY <2>1, <2>2, <3>1 DEF QueueHolds, QueueInv, Claimants
    <3> QED BY <1>4, <1>5, <3>1, <3>2
  <2>8. DoneRowsStay(sess', queue')
    <3> SUFFICES ASSUME NEW u \in RowsIn(queue', "done")
                 PROVE  queue'[u].sid \in SessionIds /\ Autonomous(sess', queue'[u].sid) /\ sess'[queue'[u].sid].st = "done"
      BY DEF DoneRowsStay
    <3>1. CASE u = t
      BY <1>3, <1>8, <2>1, <2>2, <3>1 DEF RowsIn
    <3>2. CASE u \in RowsIn(queue, "done") /\ queue'[u] = queue[u]
      <4>1. queue[u].sid \in SessionIds /\ Autonomous(sess, queue[u].sid) /\ sess[queue[u].sid].st = "done"
        BY <3>2 DEF QueueHolds, QueueInv, DoneRowsStay
      <4>2. queue[u].sid # s
        BY <1>4, <4>1 DEF Displaced
      <4> QED BY <2>1, <2>2, <3>2, <4>1, <4>2
    <3> QED BY <2>4, <3>1, <3>2
  <2> QED BY <2>5, <2>6, <2>7, <2>8 DEF QueueHolds, QueueInv
<1>9. CASE sess' = SetStatus(sess, s, "done") /\ hang' = hang /\ queue' = MarkDone(queue, t) /\ run'[Tick].pc = "idle"
  BY <1>3, <1>4, <1>8, <1>9, SettledRows
<1>10. CASE sess' = SetStatus(sess, s, "failed") /\ hang' = hang /\ queue' = MarkFailed(queue, t) /\ run'[Tick].pc = "idle"
  BY <1>3, <1>4, <1>8, <1>10, SettledRows
<1>11. CASE /\ sess' = sess /\ hang' = hang /\ queue' = queue
            /\ run'[Tick].pc \in InLoop /\ run'[Tick].sid = s /\ run'[Tick].task = t
  <2>1. run'[Tick].pc # "classify"
    BY <1>11 DEF InLoop
  <2>2. RunHasClaim(sess, queue, run') /\ PickedWaits(queue, run')
    BY <1>4, <1>11, <2>1 DEF RunHasClaim, PickedWaits
  <2>3. StashesWait(sess, hang, run')
    BY <1>7 DEF StashesWait
  <2> QED BY <1>11, <2>2, <2>3 DEF QueueHolds, QueueInv
<1>12. CASE /\ IsDisplaced(sess, s) /\ CanPost(hang)
            /\ sess' = sess /\ hang' = Post(hang, "session_displaced", s, {}) /\ queue' = queue
            /\ run'[Tick].pc = "idle"
  <2> DEFINE h2 == Post(hang, "session_displaced", s, {})
  <2>0. CanPost(hang) /\ hang \in HangingTable
    BY <1>3, <1>12
  <2>1. ASSUME NEW sid, NEW none
        PROVE  \E n \in HangIds :
                 /\ Post(hang, "session_displaced", sid, none)[n] =
                      [kind |-> "session_displaced", sid |-> sid, sids |-> none, st |-> "fresh"]
                 /\ \A kinds : Pending(Post(hang, "session_displaced", sid, none), kinds) =
                                 IF "session_displaced" \in kinds THEN Pending(hang, kinds) \cup {n}
                                 ELSE Pending(hang, kinds)
    BY <2>0, PostedRow
  <2>2. PICK n \in HangIds :
        /\ h2[n] = [kind |-> "session_displaced", sid |-> s, sids |-> {}, st |-> "fresh"]
        /\ \A kinds : Pending(h2, kinds) =
                        IF "session_displaced" \in kinds THEN Pending(hang, kinds) \cup {n} ELSE Pending(hang, kinds)
    BY <2>1
  <2> HIDE DEF h2
  <2>3. Pending(h2, Stash) = {n} /\ h2[n].sid = s
    BY <1>7, <2>2 DEF Stash
  <2>4. RunHasClaim(sess, queue, run') /\ PickedWaits(queue, run') /\ ~TickDrives(run', s)
    BY <1>12 DEF RunHasClaim, PickedWaits, TickDrives, InLoop
  <2>5. StashesWait(sess, h2, run')
    BY <1>12, <2>3, <2>4 DEF StashesWait
  <2> QED BY <1>12, <2>4, <2>5 DEF QueueHolds, QueueInv, h2
<1> QED BY <1>2, <1>9, <1>10, <1>11, <1>12 DEF s, t

\* Every step keeps QueueInv: one case per action.
LEMMA QueueStep ==
  ASSUME Calm, ~Cancels, TypeOK, OwnersInv, SnapInv, ClaimInv, QueueHolds, [Next]_vars
  PROVE  QueueHolds'
<1>1. CASE TickStep
  BY <1>1, WakersKeepQueue, LooksKeepQueue, ClaimingKeepsQueue, OwnRunKeepsQueue DEF TickStep, Calm
<1>2. ASSUME NEW m \in Messages, MessageArrives(m) \/ MessageStep(m) PROVE QueueHolds'
  <2>1. Turn(m)
    BY <1>2, ArrivalTurn, MessageTurn DEF Calm, Mild
  <2>2. run'[Tick] = run[Tick]
    BY <2>1, ExecutorAssumption DEF Turn, TypeOK
  <2> QED BY <2>1, <2>2, OthersKeepQueue DEF Turn, KeepsStashes, Calm
<1>3. CASE HourPasses
  <2>1. LinOnly(sess, sess') /\ run' = run /\ queue' = queue /\ KeepsPending(hang, hang')
    BY <1>3, HourKeepsOwners DEF LinOnly
  <2>2. \A h \in Pending(hang, Stash) : hang'[h].sid = hang[h].sid
    BY <2>1 DEF KeepsPending, Pending
  <2> QED BY <2>1, <2>2, OthersKeepQueue DEF KeepsPending, Calm
<1>4. CASE Crash \/ Shutdown
  BY <1>4, DyingKeepsOwners, OthersKeepQueue DEF LinOnly, Calm
<1>5. CASE Restart
  BY <1>5, RestartKeepsQueue
<1>6. CASE TornStep \/ TornRecovery
  BY <1>6 DEF Calm, Mild, TornStep, TornAsk, TornApproval, TornAnswer, TornSettle, TornClaim, TornRecovery
<1>7. CASE AgendaAddsTask \/ \E p \in Procs : ToolAddsTask(p)
  BY <1>7, AddingKeepsQueue DEF AgendaAddsTask, ToolAddsTask
<1>8. CASE \E p \in Procs : ToolCancelsTask(p)
  BY <1>8 DEF ToolCancelsTask
<1>9. CASE UNCHANGED vars
  BY <1>9 DEF vars, QueueHolds, QueueInv, RunHasClaim, ClaimsCanEnd, Claimants, StashesWait, DoneRowsStay, PickedWaits
<1> QED BY <1>1, <1>2, <1>3, <1>4, <1>5, <1>6, <1>7, <1>8, <1>9 DEF Next

\* At first nothing is claimed, stashed or done.
LEMMA InitQueue == Init => QueueHolds
<1> SUFFICES ASSUME Init PROVE QueueHolds
  OBVIOUS
<1>1. \A t \in Tasks : queue[t].st \in {"pending", "absent"}
  BY DEF Init, FreshQueue
<1>2. RowsIn(queue, "running") = {} /\ RowsIn(queue, "done") = {}
  BY <1>1 DEF RowsIn
<1>3. Pending(hang, Stash) = {}
  BY DEF Init, EmptyHanging, Pending
<1>4. \A s \in SessionIds : ~Autonomous(sess, s)
  BY DEF Init, EmptySessions, NoRow, Autonomous
<1>5. run[Tick].pc = "idle"
  BY DEF Init, Idle, Ended
<1> QED BY <1>2, <1>3, <1>4, <1>5 DEF QueueHolds, QueueInv, RunHasClaim, ClaimsCanEnd, Claimants, StashesWait,
                                       DoneRowsStay, PickedWaits, InLoop

\* Without cancellations a claim, its session and its stash stay together.
THEOREM QueueAlwaysHolds == ASSUME Calm, ~Cancels PROVE Spec => []QueueHolds
<1>1. Init => QueueHolds
  BY InitQueue
<1>2. TypeOK /\ OwnersInv /\ SnapInv /\ ClaimInv /\ QueueHolds /\ [Next]_vars => QueueHolds'
  BY QueueStep
<1>3. Spec => []SnapInv
  BY SnapAlways DEF Calm, Mild
<1> QED BY <1>1, <1>2, <1>3, TypeCorrect, OwnersHold, OneClaimWithReason, PTL DEF Spec, Calm

\* No unfinished autonomous session is left without the claimed row that leads
\* run_queue_tick back to it.
THEOREM NoneOrphaned == ASSUME Calm, ~Cancels PROVE Spec => []NoOrphan
<1>1. QueueHolds => NoOrphan
  BY DEF QueueHolds, QueueInv, Claimants, NoOrphan, Autonomous, Blocked
<1> QED BY <1>1, QueueAlwaysHolds, PTL

\* A claim never points to a session that has ended without its row settling.
THEOREM ClaimsSettle == ASSUME Calm, ~Cancels PROVE Spec => []ClaimCanSettle
<1>1. QueueHolds => ClaimCanSettle
  BY DEF QueueHolds, QueueInv, ClaimsCanEnd, ClaimCanSettle, Autonomous
<1> QED BY <1>1, QueueAlwaysHolds, PTL

\* A row is done only if its session ended well.
THEOREM DoneMeansDone == ASSUME Calm, ~Cancels PROVE Spec => []DoneRowDone
<1>1. QueueHolds => DoneRowDone
  BY DEF QueueHolds, QueueInv, DoneRowsStay, DoneRowDone
<1> QED BY <1>1, QueueAlwaysHolds, PTL

\* There is never more than one stashed history, and its session still waits for it.
THEOREM AtMostOneStash == ASSUME Calm, ~Cancels PROVE Spec => []OneStash
<1>1. QueueHolds => OneStash
  BY DEF QueueHolds, QueueInv, StashesWait, OneStash
<1> QED BY <1>1, QueueAlwaysHolds, PTL

-----------------------------------------------------------------------------
(* Every active session has somebody at work on it                         *)

\* what a step of m does to the sessions it drives or wakes: what m lets go of
\* is not active, and what m wakes it drives
Hands(m) ==
  /\ \A s \in SessionIds : sess'[s].st = "active" /\ sess'[s].origin = "chat" =>
       Drives(run', m, s) \/ (sess[s].st = "active" /\ ~Drives(run, m, s))
  /\ run'[m].pc = "reflect" /\ run'[m].sid \in SessionIds =>
       ~(sess'[run'[m].sid].st = "active" /\ sess'[run'[m].sid].origin = "chat")

\* a chat session whose run is being reflected on is not active
NoneReflectedOn ==
  \A m \in Messages : run[m].pc = "reflect" /\ run[m].sid \in SessionIds =>
    ~(sess[run[m].sid].st = "active" /\ sess[run[m].sid].origin = "chat")

\* every active chat session has a message at work on it
LinsManned ==
  \A s \in SessionIds : sess[s].st = "active" /\ sess[s].origin = "chat" => \E m \in Messages : Drives(run, m, s)

\* while the process is up, every active autonomous session has the tick at work on it
OwnManned ==
  up => \A s \in SessionIds : sess[s].st = "active" /\ Autonomous(sess, s) => TickDrives(run, s)

\* what holds of Lin's sessions whatever the queue asks; without shutdowns no exit is clean
LinsInv == (up => LinsManned) /\ NoneReflectedOn /\ clean = FALSE

\* the invariant behind ActiveDriven
MannedInv == LinsInv /\ OwnManned

\* A step of one coroutine moves no other.
LEMMA FrameChange ==
  ASSUME NEW rr \in [Procs -> Frame], NEW m \in Messages, NEW g
  PROVE  [rr EXCEPT ![m] = g][m] = g /\ [rr EXCEPT ![m] = g][Tick] = rr[Tick]
         /\ \A n \in Messages : n # m => [rr EXCEPT ![m] = g][n] = rr[n]
BY ExecutorAssumption

\* A run that ends leaves its session in another status than active.
LEMMA EndsHands ==
  ASSUME TypeOK, NEW m \in Messages, NEW f \in Frame, f.sid = run[m].sid, NEW ss, NEW hh, NEW qq,
         \A s \in SessionIds : ss[s].st = "active" => sess[s].st = "active" /\ s # f.sid,
         Return(m, f, ss, hh, qq)
  PROVE  Hands(m)
<1> DEFINE g1 == Idle
           g2 == [f EXCEPT !.pc = "reflect", !.iter = 0]
           g3 == Sending(f.sid, f.todo)
<1>1. /\ sess' = ss
      /\ \/ run' = [run EXCEPT ![m] = g1]
         \/ run' = [run EXCEPT ![m] = g2] /\ ss[f.sid].st = "failed"
         \/ run' = [run EXCEPT ![m] = g3]
  BY DEF Return, Put
<1>2. g1.pc = "idle" /\ g2.pc = "reflect" /\ g2.sid = f.sid /\ g3.pc = "send"
  BY DEF Idle, Ended, Sending, Frame
<1> HIDE DEF g1, g2, g3
<1>3. run'[m].pc = "reflect" => run'[m].sid = f.sid /\ sess'[f.sid].st = "failed"
  BY <1>1, <1>2, FrameChange DEF TypeOK
<1>4. \A s \in SessionIds : s # f.sid => ~Drives(run, m, s)
  BY DEF Drives
<1> QED BY <1>1, <1>3, <1>4 DEF Hands

\* A round that begins is driven; a displaced run was not active.
LEMMA BeginsHands ==
  ASSUME TypeOK, NEW m \in Messages, NEW f \in Frame, f.caller # "queue", NEW ss, NEW hh, NEW qq,
         \A s \in SessionIds : ss[s].st = "active" => s = f.sid \/ (sess[s].st = "active" /\ ~Drives(run, m, s)),
         BeginRound(m, f, ss, hh, qq)
  PROVE  Hands(m)
<1> DEFINE g1 == [f EXCEPT !.pc = "llm"]
           g2 == [f EXCEPT !.pc = "reflect", !.iter = 0]
           g3 == Sending(f.sid, f.todo)
<1>1. /\ sess' = ss
      /\ \/ run' = [run EXCEPT ![m] = g1]
         \/ run' = [run EXCEPT ![m] = g2] /\ IsDisplaced(ss, f.sid)
         \/ run' = [run EXCEPT ![m] = g3] /\ IsDisplaced(ss, f.sid)
  BY DEF BeginRound, Return, Put
<1>2. g1.pc = "llm" /\ g1.sid = f.sid /\ g2.pc = "reflect" /\ g2.sid = f.sid /\ g3.pc = "send"
  BY DEF Sending, Ended, Frame
<1> HIDE DEF g1, g2, g3
<1>3. IsDisplaced(ss, f.sid) => ss[f.sid].st # "active"
  BY DEF IsDisplaced, Displaced
<1>4. \/ run'[m].pc = "llm" /\ run'[m].sid = f.sid
      \/ run'[m].pc = "reflect" /\ run'[m].sid = f.sid /\ ss[f.sid].st # "active"
      \/ run'[m].pc = "send" /\ ss[f.sid].st # "active"
  BY <1>1, <1>2, <1>3, FrameChange DEF TypeOK
<1> QED BY <1>1, <1>4 DEF Hands, Drives, Working, InLoop

\* The executor keeps the session it drives or leaves it inactive.
LEMMA ExecutorHands ==
  ASSUME TypeOK, OwnersInv, ~BusStalls, NEW m \in Messages, ExecutorStep(m)
  PROVE  Hands(m)
<1> DEFINE f == run[m]
           n == [f EXCEPT !.iter = @ + 1]
<1>1. f \in Frame /\ f.caller # "queue" /\ f.pc # "publish" /\ f.sid \in SessionIds \cup {NoSession} /\ sess \in SessionTable
  BY DEF TypeOK, Frame, OwnersInv, FrameInv, MessageFrame
<1>2. ASSUME NEW st, st # "active", NEW s \in SessionIds, SetStatus(sess, f.sid, st)[s].st = "active"
      PROVE  sess[s].st = "active" /\ s # f.sid
  <2>1. CASE f.sid = NoSession
    BY <1>2, <2>1 DEF SetStatus, SessionIds
  <2>2. CASE f.sid \in SessionIds
    BY <1>1, <1>2, <2>2, StatusWrite
  <2> QED BY <1>1, <2>1, <2>2
<1>3. CASE FinalReply(m) \/ RunFails(m) \/ AskUser(m) \/ RequestApproval(m)
  <2>1. PICK st \in {"done", "failed", "waiting_user"} : \E hh : Return(m, f, SetStatus(sess, f.sid, st), hh, queue)
    BY <1>3 DEF FinalReply, RunFails, AskUser, RequestApproval, Complete, Fail, WaitUser
  <2>2. \A s \in SessionIds : SetStatus(sess, f.sid, st)[s].st = "active" => sess[s].st = "active" /\ s # f.sid
    BY <1>2
  <2> QED BY <1>1, <2>1, <2>2, EndsHands
<1>4. CASE CallTool(m)
  <2> DEFINE g == [f EXCEPT !.pc = "tool"]
  <2>1. run' = [run EXCEPT ![m] = g] /\ sess' = sess
    BY <1>4 DEF CallTool, Put
  <2>2. g.pc = "tool" /\ g.sid = f.sid
    BY <1>1 DEF Frame
  <2> HIDE DEF g
  <2>3. run'[m] = g
    BY <2>1, FrameChange DEF TypeOK
  <2> QED BY <2>1, <2>2, <2>3 DEF Hands, Drives, Working, InLoop
<1>5. CASE ToolReturns(m)
  <2> DEFINE g == [n EXCEPT !.pc = "final"]
  <2>1. f.iter + 1 \in Nat
    BY <1>1 DEF Frame
  <2>2. n \in Frame /\ n.sid = f.sid /\ n.caller # "queue"
    BY <1>1, <2>1 DEF Frame
  <2>3. BeginRound(m, n, sess, hang, queue) \/ (run' = [run EXCEPT ![m] = g] /\ sess' = sess)
    BY <1>5 DEF ToolReturns, Put
  <2> HIDE DEF n
  <2>4. g.pc = "final" /\ g.sid = f.sid
    BY <2>2 DEF Frame
  <2>5. \A s \in SessionIds : sess[s].st = "active" => s = n.sid \/ (sess[s].st = "active" /\ ~Drives(run, m, s))
    BY <2>2 DEF Drives
  <2>6. CASE BeginRound(m, n, sess, hang, queue)
    BY <2>2, <2>5, <2>6, BeginsHands
  <2> HIDE DEF g
  <2>7. CASE run' = [run EXCEPT ![m] = g] /\ sess' = sess
    <3>1. run'[m] = g
      BY <2>7, FrameChange DEF TypeOK
    <3> QED BY <2>4, <2>7, <3>1 DEF Hands, Drives, Working, InLoop
  <2> QED BY <2>3, <2>6, <2>7
<1>6. CASE PublishDrains(m)
  BY <1>1, <1>6 DEF PublishDrains
<1> QED BY <1>3, <1>4, <1>5, <1>6 DEF ExecutorStep

\* A message that drives nothing wakes one session and drives it.
LEMMA WakesHands ==
  ASSUME TypeOK, NEW m \in Messages, run[m].pc \notin Working, NEW ss \in SessionTable,
         \A s \in SessionIds : ss[s].st = "active" => sess[s].st = "active",
         NEW f \in Frame, f.caller # "queue", NEW hh, NEW qq,
         BeginRound(m, f, Resume(ss, f.sid), hh, qq)
  PROVE  Hands(m)
<1>1. f.sid \in SessionIds \cup {NoSession}
  BY DEF Frame
<1>2. \A s \in SessionIds : Resume(ss, f.sid)[s].st = "active" => s = f.sid \/ ss[s].st = "active"
  BY <1>1, ResumedRuns, StatusWrite
<1>3. \A s \in SessionIds : Resume(ss, f.sid)[s].st = "active" => s = f.sid \/ (sess[s].st = "active" /\ ~Drives(run, m, s))
  BY <1>2 DEF Drives
<1> QED BY <1>3, BeginsHands

\* A message that drives nothing and goes on with nothing wakes nobody.
LEMMA IdlesHands ==
  ASSUME TypeOK, NEW m \in Messages, run[m].pc \notin Working,
         \A s \in SessionIds : sess'[s].st = "active" => sess[s].st = "active",
         NEW g, run' = [run EXCEPT ![m] = g], g.pc # "reflect"
  PROVE  Hands(m)
BY FrameChange DEF Hands, Drives, TypeOK

\* The next crashed session that is woken is driven.
LEMMA NextCrashedHands ==
  ASSUME TypeOK, NEW m \in Messages, run[m].pc \notin Working, NEW ss \in SessionTable,
         \A s \in SessionIds : ss[s].st = "active" => sess[s].st = "active",
         NEW hh, NEW todo \in SUBSET SessionIds, NextCrashed(m, ss, hh, todo)
  PROVE  Hands(m)
<1> DEFINE left == {s \in todo : Resumable(ss, s)}
           s    == CHOOSE s \in left : \A r \in left : s >= r
           rest == {r \in todo : r < s}
           f    == [Calling("crash", s, NoTask, FALSE) EXCEPT !.todo = rest]
<1>1. CASE left = {}
  <2>1. sess' = ss /\ run' = [run EXCEPT ![m] = Ended]
    BY <1>1 DEF NextCrashed, End, Put
  <2>2. Ended.pc # "reflect"
    BY DEF Ended
  <2> QED BY <2>1, <2>2, IdlesHands
<1>2. CASE left # {}
  <2>1. \E x \in left : \A r \in left : x >= r
    BY <1>2, NewestSession
  <2>2. s \in SessionIds
    BY <2>1
  <2>3. BeginRound(m, f, Resume(ss, s), hh, queue)
    BY <1>2 DEF NextCrashed
  <2> HIDE DEF s
  <2>4. Calling("crash", s, NoTask, FALSE) \in Frame
    BY <2>2, CallingType DEF Caller
  <2>5. f \in Frame /\ f.sid = s /\ f.caller # "queue"
    BY <2>4 DEF Frame, Calling, Ended
  <2> HIDE DEF f
  <2> QED BY <2>3, <2>5, WakesHands
<1> QED BY <1>1, <1>2

\* So is a session woken by an answer.
LEMMA DispatchHands ==
  ASSUME TypeOK, NEW m \in Messages, run[m].pc \notin Working, NEW ss \in SessionTable, NEW hh \in HangingTable,
         \A s \in SessionIds : ss[s].st = "active" => sess[s].st = "active",
         NEW h \in HangIds, NEW text, Dispatch(m, h, text, ss, hh)
  PROVE  Hands(m)
<1> DEFINE s == hh[h].sid
<1>1. s \in SessionIds \cup {NoSession} /\ hh[h].sids \in SUBSET SessionIds
  BY DEF HangingTable, HangRow
<1>2. CASE Approve(m, h, ss, hh)
  <2> DEFINE g == [Ended EXCEPT !.pc = "approved", !.sid = s]
  <2>1. sess' = Resume(ss, s) /\ run' = [run EXCEPT ![m] = g]
    BY <1>2 DEF Approve, Put
  <2>2. g.pc = "approved" /\ g.sid = s
    BY DEF Ended
  <2> HIDE DEF g
  <2>3. run'[m].pc = "approved" /\ run'[m].sid = s
    BY <2>1, <2>2, FrameChange DEF TypeOK
  <2>4. \A r \in SessionIds : Resume(ss, s)[r].st = "active" => r = s \/ ss[r].st = "active"
    BY <1>1, ResumedRuns, StatusWrite
  <2> QED BY <2>1, <2>3, <2>4 DEF Hands, Drives, Working
<1>3. CASE Decline(m, h, ss, hh)
  <2> DEFINE g == Sending(s, {})
  <2>1. sess' = Cancel(Resume(ss, s), s) /\ run' = [run EXCEPT ![m] = g]
    BY <1>3 DEF Decline, Put
  <2>2. g.pc # "reflect"
    BY DEF Sending, Ended
  <2> HIDE DEF g
  <2>3. \A r \in SessionIds : sess'[r].st = "active" => ss[r].st = "active"
    <3>1. CASE s = NoSession
      BY <2>1, <3>1 DEF Cancel, SetStatus, Resume, Resumable
    <3>2. CASE s \in SessionIds
      <4>1. Resume(ss, s) \in SessionTable
        BY <1>1, LifecycleType
      <4>2. \A r \in SessionIds : r # s => Resume(ss, s)[r] = ss[r]
        BY <1>1, <3>2, ResumedRuns, StatusWrite
      <4> QED BY <2>1, <3>2, <4>1, <4>2, StatusWrite DEF Cancel
    <3> QED BY <1>1, <3>1, <3>2
  <2> QED BY <2>1, <2>2, <2>3, IdlesHands
<1>4. CASE ResumeCrashed(m, h, ss, hh)
  BY <1>1, <1>4, NextCrashedHands DEF ResumeCrashed
<1>5. CASE DropCrashed(m, h, ss, hh)
  <2>1. sess' = [r \in SessionIds |-> IF r \in hh[h].sids THEN [ss[r] EXCEPT !.st = "cancelled"] ELSE ss[r]]
        /\ run' = [run EXCEPT ![m] = Ended] /\ Ended.pc # "reflect"
    BY <1>5 DEF DropCrashed, End, Put, Ended
  <2>2. \A r \in SessionIds : sess'[r].st = "active" => ss[r].st = "active"
    BY <2>1 DEF SessionTable, Session
  <2> QED BY <2>1, <2>2, IdlesHands
<1>6. CASE NotAnAnswer(m, ss, hh)
  <2> DEFINE g == [Ended EXCEPT !.pc = "classify"]
  <2>1. sess' = ss /\ run' = [run EXCEPT ![m] = g] /\ g.pc # "reflect"
    BY <1>6 DEF NotAnAnswer, Put, Ended
  <2> HIDE DEF g
  <2> QED BY <2>1, IdlesHands
<1>7. CASE Answer(m, h, ss, hh)
  <2> DEFINE f == Calling("answer", s, NoTask, FALSE)
  <2>1. f \in Frame /\ f.sid = s /\ f.caller # "queue"
    BY <1>1, CallingType DEF Caller, Calling, Ended
  <2>2. \E h2 : BeginRound(m, f, Resume(ss, s), h2, queue)
    BY <1>7 DEF Answer
  <2> HIDE DEF f
  <2> QED BY <2>1, <2>2, WakesHands
<1> QED BY <1>2, <1>3, <1>4, <1>5, <1>6, <1>7 DEF Dispatch

\* A message that arrives wakes nobody without driving it.
LEMMA ArrivalHands ==
  ASSUME TypeOK, NEW m \in Messages, MessageArrives(m)
  PROVE  Hands(m)
<1>0. run[m].pc \notin Working
  BY DEF MessageArrives, StopPhrase, ResumePhrase, Route, Arrives, Working, InLoop
<1>1. CASE StopPhrase(m) \/ ResumePhrase(m)
  <2>1. sess' = sess /\ run' = [run EXCEPT ![m] = Ended] /\ Ended.pc # "reflect"
    BY <1>1 DEF StopPhrase, ResumePhrase, End, Put, Ended
  <2> QED BY <1>0, <2>1, IdlesHands
<1>2. CASE Route(m)
  <2> DEFINE ss == SweepSessions(sess, hang, Questions)
             hh == SweepRows(hang, Questions)
             items == Pending(hh, Questions)
  <2>1. ss \in SessionTable /\ hh \in HangingTable
    BY SweepSessionsType, HangingUpdateType DEF TypeOK
  <2>2. \A s \in SessionIds : ss[s].st = "active" => sess[s].st = "active"
    BY DEF SweepSessions, TypeOK, SessionTable, Session
  <2>3. items \subseteq HangIds
    BY DEF Pending
  <2>4. \/ NotAnAnswer(m, ss, hh)
        \/ \E h \in items, text \in {"plain", "yes", "no"} : Dispatch(m, h, text, ss, hh)
        \/ \E text \in {"plain", "yes", "no"} :
             sess' = ss /\ Put(m, [Ended EXCEPT !.pc = "routing", !.hids = items, !.text = text])
    BY <1>2 DEF Route
  <2> HIDE DEF ss, hh, items
  <2>5. CASE NotAnAnswer(m, ss, hh)
    <3> DEFINE g == [Ended EXCEPT !.pc = "classify"]
    <3>1. sess' = ss /\ run' = [run EXCEPT ![m] = g] /\ g.pc # "reflect"
      BY <2>5 DEF NotAnAnswer, Put, Ended
    <3> HIDE DEF g
    <3> QED BY <1>0, <2>2, <3>1, IdlesHands
  <2>6. CASE \E h \in items, text \in {"plain", "yes", "no"} : Dispatch(m, h, text, ss, hh)
    BY <1>0, <2>1, <2>2, <2>3, <2>6, DispatchHands
  <2>7. ASSUME NEW text \in {"plain", "yes", "no"}, sess' = ss,
               Put(m, [Ended EXCEPT !.pc = "routing", !.hids = items, !.text = text])
        PROVE  Hands(m)
    <3> DEFINE g == [Ended EXCEPT !.pc = "routing", !.hids = items, !.text = text]
    <3>1. run' = [run EXCEPT ![m] = g] /\ g.pc # "reflect"
      BY <2>7 DEF Put, Ended
    <3> HIDE DEF g
    <3> QED BY <1>0, <2>2, <2>7, <3>1, IdlesHands
  <2> QED BY <2>4, <2>5, <2>6, <2>7
<1> QED BY <1>1, <1>2 DEF MessageArrives

\* So every step of a message keeps hands on what it wakes: one case per place.
LEMMA MessageHands ==
  ASSUME TypeOK, OwnersInv, SnapInv, NoneReflectedOn, ~BusStalls, NEW m \in Messages, MessageStep(m)
  PROVE  Hands(m)
<1>0. sess \in SessionTable /\ hang \in HangingTable /\ run[m] \in Frame /\ run[m].todo \in SUBSET SessionIds
  BY DEF TypeOK, Frame
<1>1. CASE Routed(m)
  <2>1. run[m].pc \notin Working /\ run[m].hids \subseteq HangIds
    BY <1>0, <1>1 DEF Routed, Working, InLoop, Frame
  <2>2. CASE \E h \in run[m].hids : Dispatch(m, h, run[m].text, sess, hang)
    BY <1>0, <2>1, <2>2, DispatchHands
  <2>3. CASE End(m) /\ UNCHANGED <<sess, hang, queue, approved>>
    <3>1. Ended.pc # "reflect"
      BY DEF Ended
    <3> QED BY <2>1, <2>3, <3>1, IdlesHands DEF End, Put
  <2> QED BY <1>1, <2>2, <2>3 DEF Routed
<1>2. CASE Classified(m)
  <2> DEFINE simple == [Calling("simple", NoSession, NoTask, frozen) EXCEPT !.pc = "llm"]
             plan == [Ended EXCEPT !.pc = "plan", !.gated = frozen]
  <2>1. run[m].pc \notin Working /\ sess' = sess /\ (Put(m, Ended) \/ Put(m, simple) \/ Put(m, plan))
    BY <1>2 DEF Classified, End, Working, InLoop
  <2>2. Ended.pc # "reflect" /\ simple.pc # "reflect" /\ plan.pc # "reflect"
    BY DEF Ended, Calling
  <2> HIDE DEF simple, plan
  <2> QED BY <2>1, <2>2, IdlesHands DEF Put
<1>3. CASE Planned(m)
  <2> DEFINE f == Calling("deep", NextSession(sess), NoTask, run[m].gated)
  <2>1. PICK tags \in SUBSET Tags : BeginRound(m, f, StartChat(sess, tags), hang, queue)
    BY <1>3 DEF Planned
  <2>2. CanCreate(sess) /\ run[m].pc = "plan"
    BY <1>3 DEF Planned
  <2>3. NextSession(sess) \in SessionIds /\ run[m].gated \in BOOLEAN
    BY <1>0, <2>2, NextSessionUnused DEF Frame
  <2>4. f \in Frame /\ f.sid = NextSession(sess) /\ f.caller # "queue"
    BY <2>3, CallingType DEF Caller, Calling, Ended
  <2>5. \A s \in SessionIds : StartChat(sess, tags)[s].st = "active" => s = NextSession(sess) \/ sess[s].st = "active"
    BY <1>0, <2>2, ChatStart DEF Displaced
  <2>6. \A s : ~Drives(run, m, s)
    BY <2>2 DEF Drives, Working, InLoop
  <2> HIDE DEF f
  <2> QED BY <2>1, <2>4, <2>5, <2>6, BeginsHands
<1>4. CASE Reflected(m)
  <2> DEFINE s == run[m].sid
             f == [run[m] EXCEPT !.caller = "retry"]
             g == Sending(s, {})
  <2>1. run[m].pc = "reflect" /\ (BeginRound(m, f, Resume(sess, s), hang, queue) \/ (Put(m, g) /\ sess' = sess))
    BY <1>4 DEF Reflected
  <2>2. s \in SessionIds => ~(sess[s].st = "active" /\ sess[s].origin = "chat")
    BY <2>1 DEF NoneReflectedOn
  <2>3. f \in Frame /\ f.sid = s /\ f.caller # "queue" /\ g.pc # "reflect" /\ s \in SessionIds \cup {NoSession}
    BY <1>0 DEF Frame, Caller, Sending, Ended
  <2>4. \A r \in SessionIds : Resume(sess, s)[r].st = "active" => r = s \/ sess[r].st = "active"
    BY <1>0, <2>3, ResumedRuns, StatusWrite
  <2>5. \A r \in SessionIds : Drives(run, m, r) => r = s
    BY DEF Drives
  <2> HIDE DEF f, g, s
  <2>6. CASE BeginRound(m, f, Resume(sess, s), hang, queue)
    BY <2>3, <2>4, <2>5, <2>6, BeginsHands
  <2>7. CASE Put(m, g) /\ sess' = sess
    <3>1. run'[m].pc # "reflect"
      BY <2>3, <2>7, FrameChange DEF Put, TypeOK
    <3> QED BY <2>2, <2>5, <2>7, <3>1 DEF Hands
  <2> QED BY <2>1, <2>6, <2>7
<1>5. CASE ApprovedToolEnds(m)
  <2> DEFINE s == run[m].sid
             g == Sending(s, {})
  <2>1. PICK st \in {"done", "failed"} : sess' = SetStatus(sess, s, st)
    BY <1>5 DEF ApprovedToolEnds, Complete, Fail
  <2>2. run' = [run EXCEPT ![m] = g] /\ g.pc = "send" /\ s \in SessionIds \cup {NoSession}
    BY <1>0, <1>5 DEF ApprovedToolEnds, Put, Sending, Ended, Frame
  <2>3. \A r \in SessionIds : Drives(run, m, r) => r = s
    BY DEF Drives
  <2> HIDE DEF g, s
  <2>4. run'[m].pc = "send"
    BY <2>2, FrameChange DEF TypeOK
  <2>5. ASSUME NEW r \in SessionIds, sess'[r].st = "active" PROVE r # s /\ sess[r].st = "active"
    <3>1. CASE s = NoSession
      BY <2>1, <2>5, <3>1 DEF SetStatus, SessionIds
    <3>2. CASE s \in SessionIds
      BY <1>0, <2>1, <2>5, <3>2, StatusWrite
    <3> QED BY <2>2, <3>1, <3>2
  <2> QED BY <2>3, <2>4, <2>5 DEF Hands
<1>6. CASE Sent(m)
  <2>1. run[m].pc \notin Working /\ NextCrashed(m, sess, hang, run[m].todo)
    BY <1>6 DEF Sent, Working, InLoop
  <2> QED BY <1>0, <2>1, NextCrashedHands
<1>7. CASE ExecutorStep(m)
  BY <1>7, ExecutorHands
<1> QED BY <1>1, <1>2, <1>3, <1>4, <1>5, <1>6, <1>7 DEF MessageStep

\* Such a step keeps Lin's active sessions driven.
LEMMA MessageKeepsLins ==
  ASSUME TypeOK, OwnersInv, OwnersInv', LinsInv, up, NEW m \in Messages, Turn(m), Hands(m), UNCHANGED <<up, clean>>
  PROVE  LinsInv'
<1>1. \A n \in Messages : n # m => run'[n] = run[n]
  BY FrameChange DEF Turn, TypeOK
<1>2. ASSUME NEW s \in SessionIds, sess'[s].origin = "chat", sess[s].st = "active" PROVE sess[s].origin = "chat"
  BY <1>2 DEF Turn, LinOnly, Autonomous, TypeOK, SessionTable, Session
<1>3. LinsManned'
  <2> SUFFICES ASSUME NEW s \in SessionIds, sess'[s].st = "active", sess'[s].origin = "chat"
               PROVE  \E n \in Messages : Drives(run', n, s)
    BY DEF LinsManned
  <2>1. Drives(run', m, s) \/ (sess[s].st = "active" /\ ~Drives(run, m, s))
    BY DEF Hands
  <2>2. CASE sess[s].st = "active" /\ ~Drives(run, m, s)
    BY <1>1, <1>2, <2>2 DEF LinsInv, LinsManned, Drives
  <2> QED BY <2>1, <2>2
<1>4. NoneReflectedOn'
  <2> SUFFICES ASSUME NEW n \in Messages, run'[n].pc = "reflect", run'[n].sid \in SessionIds,
                      sess'[run'[n].sid].st = "active", sess'[run'[n].sid].origin = "chat"
               PROVE  FALSE
    BY DEF NoneReflectedOn
  <2>1. n # m /\ run'[n] = run[n]
    BY <1>1 DEF Hands
  <2>2. Drives(run', n, run'[n].sid)
    BY DEF Drives, Working
  <2>3. ~Drives(run', m, run'[n].sid)
    BY <2>1, <2>2 DEF OwnersInv, ChatInv, RunsHold, Loaned, Autonomous
  <2>4. sess[run[n].sid].st = "active"
    BY <2>1, <2>3 DEF Hands
  <2> QED BY <1>2, <2>1, <2>4 DEF LinsInv, NoneReflectedOn
<1> QED BY <1>3, <1>4 DEF LinsInv

\* The tick writes autonomous sessions, and makes new ones: Lin's it leaves alone.
LEMMA TickLeavesLins ==
  ASSUME TypeOK, OwnersInv, TickStep
  PROVE  \A s \in SessionIds :
           \/ sess'[s] = sess[s]
           \/ sess'[s].origin = "queue" /\ (sess[s].origin = "queue" \/ sess[s].st = "none")
<1>0. sess \in SessionTable /\ SweptSess \in SessionTable
  BY SweptOwners DEF TypeOK, Tables
<1>1. \A s \in SessionIds : SweptSess[s] = sess[s] \/ (SweptSess[s].origin = "queue" /\ sess[s].origin = "queue")
  <2> SUFFICES ASSUME NEW s \in SessionIds, SweptSess[s] # sess[s] PROVE sess[s].origin = "queue"
    BY SweptOwners
  <2>1. PICK h \in Expired(hang, Stash) : hang[h].sid = s
    BY <1>0 DEF SweptSess, SweepSessions, SessionTable, Session
  <2>2. h \in Pending(hang, Stash)
    BY DEF Expired, Pending
  <2> QED BY <2>1, <2>2 DEF OwnersInv, ChatInv, StashesHold
<1>2. ASSUME NEW s \in SessionIds, SweptSess[s].origin = "queue", sess' = SetStatus(SweptSess, s, "active")
      PROVE  \A r \in SessionIds : sess'[r] = sess[r] \/ (sess'[r].origin = "queue" /\ sess[r].origin = "queue")
  <2>1. sess'[s].origin = "queue" /\ \A r \in SessionIds : r # s => sess'[r] = SweptSess[r]
    BY <1>0, <1>2, StatusWrite
  <2>2. sess[s].origin = "queue"
    BY <1>2, SweptOwners
  <2> QED BY <1>1, <2>1, <2>2
<1>3. CASE TickResumesDisplaced
  <2>1. StashSid \in SessionIds /\ sess' = SetStatus(SweptSess, StashSid, "active")
    BY <1>3, DisplacedWakes
  <2>2. StashRow # NoHanging
    BY <1>3 DEF TickResumesDisplaced, CanResumeStash
  <2>3. SweptSess[StashSid].origin = "queue"
    BY <2>2, SweptOwners DEF Autonomous
  <2> QED BY <1>2, <2>1, <2>3
<1>4. CASE TickUnblocksWaiting
  <2>1. PICK s \in Waiting : s \in SessionIds /\ sess' = SetStatus(SweptSess, s, "active")
    BY <1>4, WaitingWakes
  <2>2. SweptSess[s].origin = "queue"
    BY <2>1 DEF Waiting, Unblockable
  <2> QED BY <1>2, <2>1, <2>2
<1>5. CASE TickReconciles \/ TickPicks
  BY <1>1, <1>5, LooksOnly
<1>6. CASE TickClaims
  BY <1>6, ClaimsOwn
<1>7. CASE ExecutorStep(Tick)
  <2> DEFINE s == run[Tick].sid
  <2>1. run[Tick].pc \in InLoop /\ \E st \in {"done", "failed", "waiting_user"} : sess' \in {sess, SetStatus(sess, s, st)}
    <3>1. CASE AskUser(Tick) \/ RequestApproval(Tick)
      BY <3>1, OwnRunAsks DEF WaitUser
    <3>2. CASE ~(AskUser(Tick) \/ RequestApproval(Tick))
      BY <1>7, <3>2, OwnRunGoesOn
    <3> QED BY <3>1, <3>2
  <2>2. s \in SessionIds /\ sess[s].origin = "queue"
    BY <2>1 DEF OwnersInv, FrameInv, TickFrame, Autonomous
  <2> HIDE DEF s
  <2> QED BY <1>0, <2>1, <2>2, StatusWrite
<1> QED BY <1>3, <1>4, <1>5, <1>6, <1>7 DEF TickStep

\* So it keeps LinsInv.
LEMMA TickKeepsLins ==
  ASSUME TypeOK, OwnersInv, LinsInv, TickStep
  PROVE  LinsInv'
<1>1. up /\ up' = up /\ \A m \in Messages : run'[m] = run[m]
  BY TickIsUp, TickBeats DEF Beat
<1>2. clean' = clean
  BY DEF TickStep, TickResumesDisplaced, TickUnblocksWaiting, TickReconciles, TickPicks, TickClaims, ExecutorStep,
         FinalReply, RunFails, CallTool, ToolReturns, AskUser, RequestApproval, PublishDrains, Quiet, hostVars
<1>3. \A s \in SessionIds : sess'[s].origin = "chat" => sess'[s] = sess[s]
  BY TickLeavesLins
<1>4. LinsManned'
  BY <1>1, <1>3 DEF LinsInv, LinsManned, Drives
<1>5. NoneReflectedOn'
  BY <1>1, <1>3 DEF LinsInv, NoneReflectedOn
<1> QED BY <1>1, <1>2, <1>4, <1>5 DEF LinsInv

\* The tick wakes only what it drives, and leaves Lin's sessions alone.
LEMMA TickHands ==
  ASSUME TypeOK, OwnersInv, QueueHolds, ClaimInv, ~QueueAsks, TickStep
  PROVE  \A s \in SessionIds : sess'[s].st = "active" =>
           TickDrives(run', s) \/ (sess[s].st = "active" /\ ~TickDrives(run, s))
<1>1. CASE TickResumesDisplaced \/ TickUnblocksWaiting
  <2>0. run[Tick].pc = "idle"
    BY <1>1 DEF TickResumesDisplaced, TickUnblocksWaiting, TickReady
  <2>1. /\ QueueInv(SweptSess, SweptHang, queue, run) /\ SweptSess \in SessionTable
        /\ \A r \in SessionIds : SweptSess[r].st = "active" => sess[r].st = "active"
    BY <2>0, SweepKeepsQueue, SweptOwners DEF Tables
  <2>2. PICK s \in SessionIds :
          /\ Autonomous(SweptSess, s) /\ SweptSess[s].st \in Displaced
          /\ sess' = SetStatus(SweptSess, s, "active")
          /\ \E t \in Claimed(queue) : \/ ~(t # NoTask /\ queue[t].sid = s)
                                       \/ run'[Tick].pc = "llm" /\ run'[Tick].sid = s
    <3>1. CASE TickResumesDisplaced
      <4>1. StashRow # NoHanging
        BY <3>1 DEF TickResumesDisplaced, CanResumeStash
      <4>2. Autonomous(SweptSess, StashSid)
        BY <4>1, SweptOwners
      <4> QED BY <3>1, <4>2, DisplacedWakes
    <3>2. CASE TickUnblocksWaiting
      BY <3>2, WaitingWakes DEF Waiting, Unblockable, Displaced, Autonomous
    <3> QED BY <1>1, <3>1, <3>2
  <2>3. PICK u \in RowsIn(queue, "running") : queue[u].sid = s
    BY <2>1, <2>2 DEF QueueInv, Claimants, Displaced, Blocked
  <2>4. \A t \in Claimed(queue) : t = u /\ t # NoTask
    BY <2>3 DEF Claimed, ClaimInv, SingleClaim, RowsIn, Tasks
  <2>5. TickDrives(run', s)
    BY <2>2, <2>3, <2>4 DEF TickDrives, InLoop
  <2>6. \A r \in SessionIds : r # s => sess'[r] = SweptSess[r]
    BY <2>1, <2>2, StatusWrite
  <2>7. \A r : ~TickDrives(run, r)
    BY <2>0 DEF TickDrives, InLoop
  <2> QED BY <2>1, <2>5, <2>6, <2>7
<1>2. CASE TickReconciles \/ TickPicks
  <2>0. run[Tick].pc = "idle"
    BY <1>2 DEF TickReconciles, TickPicks, NothingToWake, TickReady
  <2>1. sess' = SweptSess /\ \A r \in SessionIds : SweptSess[r].st = "active" => sess[r].st = "active"
    BY <1>2, LooksOnly, SweptOwners
  <2> QED BY <2>0, <2>1 DEF TickDrives, InLoop
<1>3. CASE TickClaims
  <2>1. run[Tick].pc = "classify"
    BY <1>3 DEF TickClaims
  <2> QED BY <1>3, <2>1, ClaimsOwn DEF TickDrives, InLoop
<1>4. CASE ExecutorStep(Tick)
  <2> DEFINE s == run[Tick].sid
  <2>1. run[Tick].pc \in InLoop
    BY <1>4, OwnRunGoesOn
  <2>2. \/ \E st \in {"done", "failed"} : sess' = SetStatus(sess, s, st)
        \/ sess' = sess /\ run'[Tick].pc \in InLoop /\ run'[Tick].sid = s
        \/ sess' = sess /\ IsDisplaced(sess, s)
    BY <1>4, OwnRunGoesOn
  <2>3. s \in SessionIds /\ sess \in SessionTable
    BY <2>1 DEF OwnersInv, FrameInv, TickFrame, TypeOK
  <2>4. \A r : TickDrives(run, r) <=> r = s
    BY <2>1 DEF TickDrives
  <2> HIDE DEF s
  <2>5. CASE \E st \in {"done", "failed"} : sess' = SetStatus(sess, s, st)
    <3>1. sess'[s].st # "active" /\ \A r \in SessionIds : r # s => sess'[r] = sess[r]
      BY <2>3, <2>5, StatusWrite
    <3> QED BY <2>4, <3>1
  <2>6. CASE sess' = sess /\ run'[Tick].pc \in InLoop /\ run'[Tick].sid = s
    BY <2>4, <2>6 DEF TickDrives
  <2>7. CASE sess' = sess /\ IsDisplaced(sess, s)
    BY <2>4, <2>7 DEF IsDisplaced, Displaced
  <2> QED BY <2>2, <2>5, <2>6, <2>7
<1> QED BY <1>1, <1>2, <1>3, <1>4 DEF TickStep

\* What the exits of a process and its restart leave.
LEMMA RestartIsIdle ==
  ASSUME ~Torn, TypeOK, OwnersInv, LinsInv, Restart
  PROVE  clean' = FALSE /\ run' = run /\ \A s \in SessionIds : sess'[s].st # "active"
<1>1. ~clean /\ clean' = FALSE /\ run' = run
  BY DEF Restart, LinsInv
<1>2. CASE CrashDetected
  BY <1>2 DEF Restart, RecoveredSess, QueueActives, ChatActives, Active, TypeOK, SessionTable, Session
<1>3. CASE ~CrashDetected
  BY <1>1, <1>3 DEF Restart, CrashDetected, Active
<1> QED BY <1>1, <1>2, <1>3

\* Every step keeps Lin's active sessions driven: one case per action.
LEMMA LinsStep ==
  ASSUME Mild, ~Shutdowns, TypeOK, OwnersInv, OwnersInv', SnapInv, LinsInv, [Next]_vars
  PROVE  LinsInv'
<1>1. CASE TickStep
  BY <1>1, TickKeepsLins
<1>2. ASSUME NEW m \in Messages, MessageArrives(m) \/ MessageStep(m) PROVE LinsInv'
  <2>1. Turn(m) /\ Hands(m) /\ up' = up
    BY <1>2, ArrivalTurn, MessageTurn, ArrivalHands, MessageHands DEF Mild, LinsInv
  <2>2. up
    BY <1>2, BusyMessage DEF OwnersInv, FrameInv, MessageArrives, StopPhrase, ResumePhrase, Route, Arrives
  <2>3. clean' = clean
    BY <1>2 DEF MessageArrives, StopPhrase, ResumePhrase, Route, MessageStep, Routed, Classified, Planned, Reflected,
                ApprovedToolEnds, Sent, ExecutorStep, FinalReply, RunFails, CallTool, ToolReturns, AskUser,
                RequestApproval, PublishDrains, Quiet, hostVars
  <2> QED BY <2>1, <2>2, <2>3, MessageKeepsLins
<1>3. CASE Crash
  <2>1. up' = FALSE /\ clean' = FALSE
    BY <1>3 DEF Crash, Die, Halt
  <2>2. \A m \in Messages : run'[m].pc # "reflect"
    BY <2>1 DEF OwnersInv, FrameInv
  <2> QED BY <2>1, <2>2 DEF LinsInv, NoneReflectedOn
<1>4. CASE Restart
  BY <1>4, RestartIsIdle DEF Mild, LinsInv, LinsManned, NoneReflectedOn
<1>5. CASE TornStep \/ TornRecovery \/ Shutdown
  BY <1>5 DEF Mild, TornStep, TornAsk, TornApproval, TornAnswer, TornSettle, TornClaim, TornRecovery, Shutdown
<1>6. CASE HourPasses \/ AgendaAddsTask \/ (\E p \in Procs : ToolAddsTask(p) \/ ToolCancelsTask(p)) \/ UNCHANGED vars
  <2>1. UNCHANGED <<sess, run, up, clean>>
    BY <1>6 DEF HourPasses, AgendaAddsTask, ToolAddsTask, ToolCancelsTask, vars, hostVars
  <2> QED BY <2>1 DEF LinsInv, LinsManned, NoneReflectedOn
<1> QED BY <1>1, <1>2, <1>3, <1>4, <1>5, <1>6 DEF Next

\* Lin's active sessions have a message at work on them, whatever the queue asks and
\* whoever cancels its rows.
THEOREM LinsMannedAlways == ASSUME Mild, ~Shutdowns PROVE Spec => []LinsInv
<1>1. Init => LinsInv
  BY ExecutorAssumption DEF Init, LinsInv, LinsManned, NoneReflectedOn, EmptySessions, NoRow, Fresh, Ended
<1>2. TypeOK /\ OwnersInv /\ OwnersInv' /\ SnapInv /\ LinsInv /\ [Next]_vars => LinsInv'
  BY LinsStep
<1>3. Spec => []SnapInv
  BY SnapAlways DEF Mild
<1> QED BY <1>1, <1>2, <1>3, TypeCorrect, OwnersHold, PTL DEF Spec

\* One of Lin's sessions that waits has its one question, one that does not has
\* none, an active one is driven and never by two: also where queue runs ask her
\* and her answer lends their sessions to her side, and where rows are cancelled.
THEOREM LinsTasksAlwaysHold == ASSUME Mild, ~Shutdowns PROVE Spec => []LinsTasksHold
<1>1. OwnersInv /\ LinsInv => LinsTasksHold
  <2> SUFFICES ASSUME OwnersInv, LinsInv, NEW s \in SessionIds, sess[s].origin = "chat"
               PROVE  /\ Cardinality(AskedOf(s)) = IF sess[s].st = "waiting_user" THEN 1 ELSE 0
                      /\ up /\ sess[s].st = "active" => \E p \in Procs : Driving(p) /\ run[p].sid = s
                      /\ \A p, q \in Procs :
                           Driving(p) /\ Driving(q) /\ run[p].sid = s /\ run[q].sid = s => p = q
    BY DEF LinsTasksHold, LinsSessions
  <2>1. ~Loaned(sess, s)
    BY DEF Loaned, Autonomous
  <2>2. ASSUME sess[s].st = "waiting_user" PROVE Cardinality(AskedOf(s)) = 1
    <3>1. PICK h \in Pending(hang, AskKinds) : hang[h].sid = s
      BY <2>1, <2>2 DEF OwnersInv, ChatInv, AsksHold
    <3>2. \A g \in Pending(hang, AskKinds) : hang[g].sid = s => g = h
      BY <2>1, <3>1 DEF OwnersInv, ChatInv, AsksHold
    <3>3. AskedOf(s) = {h}
      BY <3>1, <3>2 DEF AskedOf, AskKinds
    <3> QED BY <3>3, FS_Singleton
  <2>3. ASSUME sess[s].st # "waiting_user" PROVE Cardinality(AskedOf(s)) = 0
    <3>1. AskedOf(s) = {}
      BY <2>1, <2>3 DEF OwnersInv, ChatInv, AsksHold, AskedOf, AskKinds
    <3> QED BY <3>1, FS_EmptySet
  <2>4. Cardinality(AskedOf(s)) = IF sess[s].st = "waiting_user" THEN 1 ELSE 0
    BY <2>2, <2>3
  <2>5. up /\ sess[s].st = "active" => \E p \in Procs : Driving(p) /\ run[p].sid = s
    BY DEF LinsInv, LinsManned, Drives, Driving, Working
  <2>6. ASSUME NEW p \in Procs, NEW q \in Procs, Driving(p), Driving(q), run[p].sid = s, run[q].sid = s
        PROVE  p = q
    <3>1. p # Tick /\ q # Tick
      BY <2>6 DEF Driving, OwnersInv, FrameInv, TickFrame, Autonomous, InLoop
    <3>2. Drives(run, p, s) /\ Drives(run, q, s)
      BY <2>6 DEF Driving, Drives, Working
    <3> QED BY <2>1, <3>1, <3>2 DEF OwnersInv, ChatInv, RunsHold
  <2> QED BY <2>4, <2>5, <2>6
<1> QED BY <1>1, OwnersHold, LinsMannedAlways, PTL

\* Every step keeps the tick at work on the active autonomous sessions: one case per action.
LEMMA OwnMannedStep ==
  ASSUME Calm, ~Cancels, ~Shutdowns, TypeOK, OwnersInv, SnapInv, ClaimInv, QueueHolds, MannedInv, [Next]_vars
  PROVE  OwnManned'
<1>1. CASE TickStep
  <2>1. \A s \in SessionIds : sess'[s].st = "active" =>
          TickDrives(run', s) \/ (sess[s].st = "active" /\ ~TickDrives(run, s))
    BY <1>1, TickHands DEF Calm
  <2>2. \A s \in SessionIds : sess'[s] = sess[s] \/ (sess'[s].origin = "queue" /\ (sess[s].origin = "queue" \/ sess[s].st = "none"))
    BY <1>1, TickLeavesLins
  <2>3. up
    BY <1>1, TickIsUp
  <2> QED BY <2>1, <2>2, <2>3 DEF MannedInv, OwnManned, Autonomous
<1>2. ASSUME NEW m \in Messages, MessageArrives(m) \/ MessageStep(m) PROVE OwnManned'
  <2>1. Turn(m) /\ up' = up
    BY <1>2, ArrivalTurn, MessageTurn DEF Calm, Mild
  <2>2. run'[Tick] = run[Tick]
    BY <2>1, FrameChange DEF Turn, TypeOK
  <2> QED BY <2>1, <2>2 DEF Turn, LinOnly, MannedInv, OwnManned, TickDrives, Displaced, Calm
<1>3. CASE Crash
  BY <1>3 DEF Crash, Die, Halt, OwnManned
<1>4. CASE Restart
  BY <1>4, RestartIsIdle DEF Calm, Mild, MannedInv, OwnManned
<1>5. CASE TornStep \/ TornRecovery \/ Shutdown \/ \E p \in Procs : ToolCancelsTask(p)
  BY <1>5 DEF Calm, Mild, TornStep, TornAsk, TornApproval, TornAnswer, TornSettle, TornClaim, TornRecovery, Shutdown,
              ToolCancelsTask
<1>6. CASE HourPasses \/ AgendaAddsTask \/ (\E p \in Procs : ToolAddsTask(p)) \/ UNCHANGED vars
  <2>1. UNCHANGED <<sess, run, up>>
    BY <1>6 DEF HourPasses, AgendaAddsTask, ToolAddsTask, vars, hostVars
  <2> QED BY <2>1 DEF MannedInv, OwnManned, Autonomous, TickDrives
<1> QED BY <1>1, <1>2, <1>3, <1>4, <1>5, <1>6 DEF Next

\* Without cancellations and shutdowns nothing stays active with nobody at work on it.
THEOREM MannedAlways == ASSUME Calm, ~Cancels, ~Shutdowns PROVE Spec => []MannedInv
<1>1. Init => OwnManned
  BY DEF Init, OwnManned, EmptySessions, NoRow, Autonomous
<1>2. TypeOK /\ OwnersInv /\ SnapInv /\ ClaimInv /\ QueueHolds /\ MannedInv /\ [Next]_vars => OwnManned'
  BY OwnMannedStep
<1>3. Spec => []SnapInv
  BY SnapAlways DEF Calm, Mild
<1>4. Spec => []LinsInv /\ []OwnersInv
  BY LinsMannedAlways, OwnersHold DEF Calm
<1>5. MannedInv <=> LinsInv /\ OwnManned
  BY DEF MannedInv
<1> QED BY <1>1, <1>2, <1>3, <1>4, <1>5, TypeCorrect, OneClaimWithReason, QueueAlwaysHolds, PTL DEF Spec

\* While the process is up, every active session has a coroutine at work on it.
THEOREM ActiveIsDriven == ASSUME Calm, ~Cancels, ~Shutdowns PROVE Spec => []ActiveDriven
<1>1. TypeOK /\ MannedInv => ActiveDriven
  <2> SUFFICES ASSUME TypeOK, MannedInv, up, NEW s \in Active(sess) PROVE \E p \in Procs : Driving(p) /\ run[p].sid = s
    BY DEF ActiveDriven
  <2>1. TickDrives(run, s) \/ \E m \in Messages : Drives(run, m, s)
    BY DEF MannedInv, LinsInv, LinsManned, OwnManned, Active, Autonomous, TypeOK, SessionTable, Session
  <2> QED BY <2>1 DEF TickDrives, Drives, Driving, Working
<1> QED BY <1>1, TypeCorrect, MannedAlways, PTL

-----------------------------------------------------------------------------
(* A paused autonomous session is not forgotten                            *)

\* a paused autonomous session is driven towards its stash, or has one
PausedKept ==
  \A s \in SessionIds : Autonomous(sess, s) /\ sess[s].st = "paused" =>
    TickDrives(run, s) \/ \E h \in Pending(hang, Stash) : hang[h].sid = s

\* A message pauses an autonomous session only while the tick is at work on it.
LEMMA MessageKeepsPaused ==
  ASSUME ~QueueAsks, TypeOK, OwnersInv, MannedInv, up, PausedKept, NEW m \in Messages, Turn(m)
  PROVE  PausedKept'
<1>1. run'[Tick] = run[Tick]
  BY FrameChange DEF Turn, TypeOK
<1> SUFFICES ASSUME NEW s \in SessionIds, Autonomous(sess', s), sess'[s].st = "paused"
             PROVE  TickDrives(run', s) \/ \E h \in Pending(hang', Stash) : hang'[h].sid = s
  BY DEF PausedKept
<1>2. Autonomous(sess, s) /\ (sess'[s] = sess[s] \/ sess[s].st = "active")
  BY DEF Turn, LinOnly
<1>3. CASE sess'[s] = sess[s]
  <2>1. TickDrives(run, s) \/ \E h \in Pending(hang, Stash) : hang[h].sid = s
    BY <1>2, <1>3 DEF PausedKept
  <2> QED BY <1>1, <2>1 DEF Turn, KeepsStashes, TickDrives
<1>4. CASE sess[s].st = "active"
  BY <1>1, <1>2, <1>4 DEF MannedInv, OwnManned, TickDrives
<1> QED BY <1>2, <1>3, <1>4

\* The tick stashes what was paused under it before it lets go.
LEMMA TickKeepsPaused ==
  ASSUME TypeOK, OwnersInv, QueueHolds, ClaimInv, ~QueueAsks, PausedKept, TickStep
  PROVE  PausedKept'
<1>1. CASE run[Tick].pc = "idle"
  <2>1. /\ LeftHang = SweptHang /\ SweptSess \in SessionTable
        /\ \A h \in Pending(SweptHang, Stash) : h = StashRow
    BY <1>1, SweepKeepsQueue, SweptOwners DEF Tables
  <2>2. ASSUME NEW s \in SessionIds, Autonomous(SweptSess, s), SweptSess[s].st = "paused"
        PROVE  \E h \in Pending(SweptHang, Stash) : SweptHang[h].sid = s
    <3>1. Autonomous(sess, s) /\ sess[s].st = "paused" /\ ~\E h \in Expired(hang, Stash) : hang[h].sid = s
      <4>1. \A h \in Expired(hang, Stash) : hang[h].sid = s => SweptSess[s].st = "failed"
        BY DEF SweptSess, SweepSessions, TypeOK, SessionTable, Session
      <4> QED BY <2>2, <4>1, SweptOwners DEF Autonomous
    <3>2. ~TickDrives(run, s)
      BY <1>1 DEF TickDrives, InLoop
    <3>3. PICK h \in Pending(hang, Stash) : hang[h].sid = s
      BY <3>1, <3>2 DEF PausedKept
    <3>4. h \in Pending(SweptHang, Stash) /\ SweptHang[h] = hang[h]
      <4>1. h \notin Expired(hang, Stash) /\ h \in HangIds
        BY <3>1, <3>3 DEF Pending
      <4>2. SweptHang[h] = hang[h]
        BY <4>1 DEF SweptHang, SweepRows
      <4> QED BY <4>1, <4>2 DEF Pending
    <3> QED BY <3>3, <3>4
  <2>3. CASE TickResumesDisplaced
    <3>1. /\ StashSid \in SessionIds /\ sess' = SetStatus(SweptSess, StashSid, "active")
      BY <2>3, DisplacedWakes
    <3>2. sess'[StashSid].st = "active" /\ \A r \in SessionIds : r # StashSid => sess'[r] = SweptSess[r]
      BY <2>1, <3>1, StatusWrite
    <3> SUFFICES ASSUME NEW s \in SessionIds, Autonomous(sess', s), sess'[s].st = "paused" PROVE FALSE
      BY DEF PausedKept
    <3>3. s # StashSid /\ Autonomous(SweptSess, s) /\ SweptSess[s].st = "paused"
      BY <3>2 DEF Autonomous
    <3> QED BY <2>1, <2>2, <3>3 DEF StashSid
  <2>4. CASE TickUnblocksWaiting
    <3>1. PICK w \in SessionIds : sess' = SetStatus(SweptSess, w, "active") /\ hang' = SweptHang
      BY <2>1, <2>4, WaitingWakes
    <3>2. sess'[w].st = "active" /\ \A r \in SessionIds : r # w => sess'[r] = SweptSess[r]
      BY <2>1, <3>1, StatusWrite
    <3> SUFFICES ASSUME NEW s \in SessionIds, Autonomous(sess', s), sess'[s].st = "paused"
                 PROVE  \E h \in Pending(hang', Stash) : hang'[h].sid = s
      BY DEF PausedKept
    <3>3. Autonomous(SweptSess, s) /\ SweptSess[s].st = "paused"
      BY <3>2 DEF Autonomous
    <3> QED BY <2>2, <3>1, <3>3
  <2>5. CASE TickReconciles \/ TickPicks
    <3>1. sess' = SweptSess /\ hang' = SweptHang
      BY <2>1, <2>5, LooksOnly
    <3> QED BY <2>2, <3>1 DEF PausedKept
  <2>6. ~TickClaims /\ ~ExecutorStep(Tick)
    BY <1>1, OwnRunGoesOn DEF TickClaims, InLoop
  <2> QED BY <2>3, <2>4, <2>5, <2>6 DEF TickStep
<1>2. CASE TickClaims
  <2> DEFINE s == NextSession(sess)
  <2>1. /\ hang' = hang /\ s \in SessionIds /\ sess'[s].st \in {"active", "waiting_dependency"}
        /\ \A r \in SessionIds : r # s => sess'[r] = sess[r]
    BY <1>2, ClaimsOwn
  <2>2. \A r : ~TickDrives(run, r)
    BY <1>2 DEF TickClaims, TickDrives, InLoop
  <2> HIDE DEF s
  <2>3. \A r \in SessionIds : Autonomous(sess', r) /\ sess'[r].st = "paused" => Autonomous(sess, r) /\ sess[r].st = "paused"
    BY <2>1 DEF Autonomous
  <2> QED BY <2>1, <2>2, <2>3 DEF PausedKept
<1>3. CASE ExecutorStep(Tick)
  <2> DEFINE s == run[Tick].sid
  <2>1. /\ run[Tick].pc \in InLoop
        /\ \/ \E st \in {"done", "failed"} : sess' = SetStatus(sess, s, st)
           \/ sess' = sess /\ run'[Tick].pc \in InLoop /\ run'[Tick].sid = s
           \/ sess' = sess /\ CanPost(hang) /\ hang' = Post(hang, "session_displaced", s, {})
    BY <1>3, OwnRunGoesOn
  <2>2. s \in SessionIds /\ Autonomous(sess, s) /\ sess \in SessionTable /\ hang \in HangingTable
    BY <2>1 DEF OwnersInv, FrameInv, TickFrame, TypeOK
  \* while the tick is inside a run there is no stash, so this is the only one
  <2>3. \A r \in SessionIds : Autonomous(sess, r) /\ sess[r].st = "paused" => r = s
    <3> SUFFICES ASSUME NEW r \in SessionIds, Autonomous(sess, r), sess[r].st = "paused" PROVE r = s
      OBVIOUS
    <3>1. PICK t \in RowsIn(queue, "running") : queue[t].sid = r
      BY DEF QueueHolds, QueueInv, Claimants, Blocked
    <3>2. run[Tick].task \in RowsIn(queue, "running") /\ queue[run[Tick].task].sid = s
      BY <2>1 DEF QueueHolds, QueueInv, RunHasClaim
    <3> QED BY <3>1, <3>2 DEF ClaimInv, SingleClaim, RowsIn
  <2> HIDE DEF s
  <2>4. CASE \E st \in {"done", "failed"} : sess' = SetStatus(sess, s, st)
    <3>1. sess'[s].st # "paused" /\ \A r \in SessionIds : r # s => sess'[r] = sess[r]
      BY <2>2, <2>4, StatusWrite
    <3>2. \A r \in SessionIds : ~(Autonomous(sess', r) /\ sess'[r].st = "paused")
      BY <2>3, <3>1 DEF Autonomous
    <3> QED BY <3>2 DEF PausedKept
  <2>5. CASE sess' = sess /\ run'[Tick].pc \in InLoop /\ run'[Tick].sid = s
    BY <2>3, <2>5 DEF PausedKept, TickDrives
  <2>6. CASE sess' = sess /\ CanPost(hang) /\ hang' = Post(hang, "session_displaced", s, {})
    <3>1. ASSUME NEW sid, NEW none
          PROVE  \E n \in HangIds :
                   Post(hang, "session_displaced", sid, none)[n] =
                     [kind |-> "session_displaced", sid |-> sid, sids |-> none, st |-> "fresh"]
      BY <2>2, <2>6, PostedRow
    <3>2. PICK n \in HangIds : hang'[n] = [kind |-> "session_displaced", sid |-> s, sids |-> {}, st |-> "fresh"]
      BY <2>6, <3>1
    <3>3. n \in Pending(hang', Stash) /\ hang'[n].sid = s
      BY <3>2 DEF Pending, Stash
    <3> QED BY <2>3, <2>6, <3>3 DEF PausedKept
  <2> QED BY <2>1, <2>4, <2>5, <2>6
<1> QED BY <1>1, <1>2, <1>3 DEF TickStep, TickResumesDisplaced, TickUnblocksWaiting, TickReconciles, TickPicks,
                                NothingToWake, TickReady

\* Every step without a crash keeps PausedKept: one case per action.
LEMMA PausedStep ==
  ASSUME Calm, ~Cancels, ~Shutdowns, ~Crashes, TypeOK, OwnersInv, SnapInv, ClaimInv, QueueHolds, MannedInv,
         up /\ PausedKept, [Next]_vars
  PROVE  (up /\ PausedKept)'
<1>1. CASE TickStep
  BY <1>1, TickKeepsPaused, TickIsUp DEF Calm
<1>2. ASSUME NEW m \in Messages, MessageArrives(m) \/ MessageStep(m) PROVE (up /\ PausedKept)'
  <2>1. Turn(m) /\ up' = up
    BY <1>2, ArrivalTurn, MessageTurn DEF Calm, Mild
  <2> QED BY <2>1, MessageKeepsPaused DEF Calm
<1>3. CASE HourPasses
  <2>1. UNCHANGED <<sess, run, up>> /\ KeepsPending(hang, hang')
    BY <1>3, HourKeepsOwners DEF HourPasses
  <2>2. \A h \in Pending(hang, Stash) : h \in Pending(hang', Stash) /\ hang'[h].sid = hang[h].sid
    BY <2>1 DEF KeepsPending, Pending
  <2> QED BY <2>1, <2>2 DEF PausedKept
<1>4. CASE TornStep \/ TornRecovery \/ Shutdown \/ Crash \/ Restart \/ \E p \in Procs : ToolCancelsTask(p)
  BY <1>4 DEF Calm, Mild, TornStep, TornAsk, TornApproval, TornAnswer, TornSettle, TornClaim, TornRecovery, Shutdown,
              Crash, Restart, ToolCancelsTask
<1>5. CASE AgendaAddsTask \/ (\E p \in Procs : ToolAddsTask(p)) \/ UNCHANGED vars
  <2>1. UNCHANGED <<sess, hang, run, up>>
    BY <1>5 DEF AgendaAddsTask, ToolAddsTask, vars, hostVars
  <2> QED BY <2>1 DEF PausedKept
<1> QED BY <1>1, <1>2, <1>3, <1>4, <1>5 DEF Next

\* A queue session paused for want of a slot is never forgotten: its run is
\* about to stash its history, or has done so.
THEOREM PausedIsStashed == ASSUME Calm, ~Cancels, ~Shutdowns, ~Crashes PROVE Spec => []PausedHasStash
<1>1. Init => up /\ PausedKept
  BY DEF Init, PausedKept, EmptySessions, NoRow, Autonomous
<1>2. TypeOK /\ OwnersInv /\ SnapInv /\ ClaimInv /\ QueueHolds /\ MannedInv /\ (up /\ PausedKept) /\ [Next]_vars
        => (up /\ PausedKept)'
  BY PausedStep
<1>3. Spec => []SnapInv
  BY SnapAlways DEF Calm, Mild
<1>4. up /\ PausedKept => PausedHasStash
  BY DEF PausedKept, PausedHasStash, Autonomous, TickDrives, Driving
<1> QED BY <1>1, <1>2, <1>3, <1>4, TypeCorrect, OwnersHold, OneClaimWithReason, QueueAlwaysHolds, MannedAlways, PTL DEF Spec, Calm

-----------------------------------------------------------------------------
(* The tick and Lin's resources                                            *)

\* A run that returns is idle, reflected on or on its way to Lin.
LEMMA ReturnMoves ==
  ASSUME TypeOK, NEW m \in Messages, NEW f \in Frame, NEW ss, NEW hh, NEW qq, Return(m, f, ss, hh, qq)
  PROVE  /\ run'[m].pc \in {"idle", "reflect", "send"}
         /\ run'[m].pc = "reflect" => f.caller = "deep"
<1> DEFINE g1 == Idle
           g2 == [f EXCEPT !.pc = "reflect", !.iter = 0]
           g3 == Sending(f.sid, f.todo)
<1>1. \/ run' = [run EXCEPT ![m] = g1]
      \/ run' = [run EXCEPT ![m] = g2] /\ f.caller = "deep"
      \/ run' = [run EXCEPT ![m] = g3]
  BY DEF Return, Put
<1>2. g1.pc = "idle" /\ g2.pc = "reflect" /\ g3.pc = "send"
  BY DEF Idle, Ended, Sending, Frame
<1> HIDE DEF g1, g2, g3
<1> QED BY <1>1, <1>2 DEF TypeOK

\* A round that begins waits for the model, or its run returns.
LEMMA BeginMoves ==
  ASSUME TypeOK, NEW m \in Messages, NEW f \in Frame, NEW ss, NEW hh, NEW qq, BeginRound(m, f, ss, hh, qq)
  PROVE  /\ run'[m].pc \in {"llm", "idle", "reflect", "send"}
         /\ run'[m].pc = "reflect" => f.caller = "deep"
         /\ ~IsDisplaced(ss, f.sid) => run'[m].pc = "llm"
<1>1. CASE IsDisplaced(ss, f.sid)
  BY <1>1, ReturnMoves DEF BeginRound
<1>2. CASE ~IsDisplaced(ss, f.sid)
  <2> DEFINE g == [f EXCEPT !.pc = "llm"]
  <2>1. run' = [run EXCEPT ![m] = g] /\ g.pc = "llm"
    BY <1>2 DEF BeginRound, Put, Frame
  <2> HIDE DEF g
  <2> QED BY <1>2, <2>1 DEF TypeOK
<1> QED BY <1>1, <1>2

\* The next crashed session runs, or there is none.
LEMMA NextCrashedMoves ==
  ASSUME TypeOK, NEW m \in Messages, NEW ss \in SessionTable, NEW hh, NEW todo \in SUBSET SessionIds,
         NextCrashed(m, ss, hh, todo)
  PROVE  run'[m].pc \in {"llm", "done"}
<1> DEFINE left == {s \in todo : Resumable(ss, s)}
           s    == CHOOSE s \in left : \A r \in left : s >= r
           rest == {r \in todo : r < s}
           f    == [Calling("crash", s, NoTask, FALSE) EXCEPT !.todo = rest]
<1>1. CASE left = {}
  <2>1. run' = [run EXCEPT ![m] = Ended] /\ Ended.pc = "done"
    BY <1>1 DEF NextCrashed, End, Put, Ended
  <2> QED BY <2>1 DEF TypeOK
<1>2. CASE left # {}
  <2>1. \E x \in left : \A r \in left : x >= r
    BY <1>2, NewestSession
  <2>2. s \in SessionIds
    BY <2>1
  <2>3. BeginRound(m, f, Resume(ss, s), hh, queue)
    BY <1>2 DEF NextCrashed
  <2> HIDE DEF s
  <2>4. Calling("crash", s, NoTask, FALSE) \in Frame
    BY <2>2, CallingType DEF Caller
  <2>5. f \in Frame /\ f.sid = s
    BY <2>4 DEF Frame, Calling, Ended
  <2> HIDE DEF f
  <2>6. ~IsDisplaced(Resume(ss, s), s)
    BY <2>2, ResumedRuns
  <2> QED BY <2>3, <2>5, <2>6, BeginMoves
<1> QED BY <1>1, <1>2

\* A message that answered a question sits in another await.
LEMMA DispatchMoves ==
  ASSUME TypeOK, NEW m \in Messages, NEW ss \in SessionTable, NEW hh \in HangingTable,
         NEW h \in HangIds, NEW text, Dispatch(m, h, text, ss, hh)
  PROVE  run'[m].pc \in {"approved", "send", "llm", "done", "classify", "idle"}
<1> DEFINE s == hh[h].sid
<1>1. s \in SessionIds \cup {NoSession} /\ hh[h].sids \in SUBSET SessionIds
  BY DEF HangingTable, HangRow
<1>2. CASE Approve(m, h, ss, hh) \/ Decline(m, h, ss, hh) \/ DropCrashed(m, h, ss, hh) \/ NotAnAnswer(m, ss, hh)
  <2> DEFINE g1 == [Ended EXCEPT !.pc = "approved", !.sid = s]
             g2 == Sending(s, {})
             g3 == [Ended EXCEPT !.pc = "classify"]
  <2>1. run' \in {[run EXCEPT ![m] = g1], [run EXCEPT ![m] = g2], [run EXCEPT ![m] = g3], [run EXCEPT ![m] = Ended]}
    BY <1>2 DEF Approve, Decline, DropCrashed, NotAnAnswer, End, Put
  <2>2. g1.pc = "approved" /\ g2.pc = "send" /\ g3.pc = "classify" /\ Ended.pc = "done"
    BY DEF Sending, Ended
  <2> HIDE DEF g1, g2, g3
  <2> QED BY <2>1, <2>2 DEF TypeOK
<1>3. CASE ResumeCrashed(m, h, ss, hh)
  BY <1>1, <1>3, NextCrashedMoves DEF ResumeCrashed
<1>4. CASE Answer(m, h, ss, hh)
  <2> DEFINE f == Calling("answer", s, NoTask, FALSE)
  <2>1. f \in Frame /\ f.caller = "answer"
    BY <1>1, CallingType DEF Caller, Calling, Ended
  <2>2. \E h2 : BeginRound(m, f, Resume(ss, s), h2, queue)
    BY <1>4 DEF Answer
  <2> HIDE DEF f
  <2> QED BY <2>1, <2>2, BeginMoves
<1> QED BY <1>2, <1>3, <1>4 DEF Dispatch

\* A step of an executor run leaves the await it sat in.
LEMMA ExecutorMoves ==
  ASSUME TypeOK, NEW m \in Messages, ExecutorStep(m)
  PROVE  run'[m].pc # run[m].pc
<1> DEFINE f == run[m]
           n == [f EXCEPT !.iter = @ + 1]
<1>1. f \in Frame
  BY DEF TypeOK
<1>2. CASE \E ss, hh : Return(m, f, ss, hh, queue) /\ f.pc \in InLoop
  BY <1>1, <1>2, ReturnMoves DEF InLoop
<1>3. CASE CallTool(m)
  <2>1. f.pc = "llm" /\ run' = [run EXCEPT ![m] = [f EXCEPT !.pc = "tool"]]
    BY <1>3 DEF CallTool, Put
  <2> QED BY <1>1, <2>1 DEF TypeOK, Frame
<1>4. CASE ToolReturns(m)
  <2>1. n \in Frame /\ f.pc = "tool"
    BY <1>1, <1>4 DEF Frame, ToolReturns
  <2>2. BeginRound(m, n, sess, hang, queue) \/ run' = [run EXCEPT ![m] = [n EXCEPT !.pc = "final"]]
    BY <1>4 DEF ToolReturns, Put
  <2> HIDE DEF n
  <2>3. CASE BeginRound(m, n, sess, hang, queue)
    BY <2>1, <2>3, BeginMoves
  <2>4. CASE run' = [run EXCEPT ![m] = [n EXCEPT !.pc = "final"]]
    BY <2>1, <2>4 DEF TypeOK, Frame
  <2> QED BY <2>2, <2>3, <2>4
<1>5. CASE f.pc \in {"llm", "tool"} /\ run' = [run EXCEPT ![m] = [f EXCEPT !.pc = "publish"]]
  BY <1>1, <1>5 DEF TypeOK, Frame
<1> QED BY <1>2, <1>3, <1>4, <1>5
        DEF ExecutorStep, FinalReply, RunFails, AskUser, RequestApproval, PublishDrains, MayAsk, InLoop, Put

\* Every step of a message leaves the await it sat in.
LEMMA MessagesMove ==
  ASSUME TypeOK, NEW m \in Messages, MessageArrives(m) \/ MessageStep(m)
  PROVE  run'[m] # run[m]
<1>0. sess \in SessionTable /\ hang \in HangingTable /\ run[m] \in Frame /\ run[m].todo \in SUBSET SessionIds
      /\ run[m].sid \in SessionIds \cup {NoSession} /\ run[m].hids \subseteq HangIds
  BY DEF TypeOK, Frame
<1>1. CASE MessageArrives(m)
  <2> DEFINE ss == SweepSessions(sess, hang, Questions)
             hh == SweepRows(hang, Questions)
             items == Pending(hh, Questions)
  <2>1. ss \in SessionTable /\ hh \in HangingTable /\ items \subseteq HangIds
    BY SweepSessionsType, HangingUpdateType DEF TypeOK, Pending
  <2>2. /\ run[m].pc = "new"
        /\ \/ End(m) \/ NotAnAnswer(m, ss, hh)
           \/ \E h \in items, text \in {"plain", "yes", "no"} : Dispatch(m, h, text, ss, hh)
           \/ \E text \in {"plain", "yes", "no"} :
                Put(m, [Ended EXCEPT !.pc = "routing", !.hids = items, !.text = text])
    BY <1>1 DEF MessageArrives, StopPhrase, ResumePhrase, Route, Arrives
  <2> HIDE DEF ss, hh, items
  <2>3. CASE \E h \in items, text \in {"plain", "yes", "no"} : Dispatch(m, h, text, ss, hh)
    <3>1. run'[m].pc \in {"approved", "send", "llm", "done", "classify", "idle"}
      BY <2>1, <2>3, DispatchMoves
    <3> QED BY <2>2, <3>1
  <2>4. ASSUME NEW g, Put(m, g), g.pc # "new"
        PROVE  run'[m] # run[m]
    BY <2>2, <2>4 DEF Put, TypeOK
  <2>5. Ended.pc # "new" /\ [Ended EXCEPT !.pc = "classify"].pc # "new"
    BY DEF Ended
  <2>6. \A text : [Ended EXCEPT !.pc = "routing", !.hids = items, !.text = text].pc # "new"
    BY DEF Ended
  <2> QED BY <2>2, <2>3, <2>4, <2>5, <2>6 DEF End, NotAnAnswer
<1>2. CASE Routed(m)
  <2>1. CASE \E h \in run[m].hids : Dispatch(m, h, run[m].text, sess, hang)
    <3>1. run'[m].pc \in {"approved", "send", "llm", "done", "classify", "idle"}
      BY <1>0, <2>1, DispatchMoves
    <3> QED BY <1>2, <3>1 DEF Routed
  <2>2. CASE End(m)
    <3>1. Ended.pc = "done"
      BY DEF Ended
    <3> QED BY <1>2, <2>2, <3>1 DEF Routed, End, Put, TypeOK
  <2> QED BY <1>2, <2>1, <2>2 DEF Routed
<1>3. CASE Classified(m)
  <2> DEFINE simple == [Calling("simple", NoSession, NoTask, frozen) EXCEPT !.pc = "llm"]
             plan == [Ended EXCEPT !.pc = "plan", !.gated = frozen]
  <2>1. run[m].pc = "classify" /\ (Put(m, Ended) \/ Put(m, simple) \/ Put(m, plan))
    BY <1>3 DEF Classified, End
  <2>2. Ended.pc = "done" /\ simple.pc = "llm" /\ plan.pc = "plan"
    BY DEF Ended, Calling
  <2> HIDE DEF simple, plan
  <2> QED BY <2>1, <2>2 DEF Put, TypeOK
<1>4. CASE Planned(m)
  <2> DEFINE f == Calling("deep", NextSession(sess), NoTask, run[m].gated)
  <2>1. PICK tags \in SUBSET Tags : BeginRound(m, f, StartChat(sess, tags), hang, queue)
    BY <1>4 DEF Planned
  <2>2. CanCreate(sess) /\ run[m].pc = "plan"
    BY <1>4 DEF Planned
  <2>3. NextSession(sess) \in SessionIds /\ run[m].gated \in BOOLEAN
    BY <1>0, <2>2, NextSessionUnused DEF Frame
  <2>4. f \in Frame
    BY <2>3, CallingType DEF Caller
  <2> HIDE DEF f
  <2>5. run'[m].pc \in {"llm", "idle", "reflect", "send"}
    BY <2>1, <2>4, BeginMoves
  <2> QED BY <2>2, <2>5
<1>5. CASE Reflected(m)
  <2> DEFINE s == run[m].sid
             f == [run[m] EXCEPT !.caller = "retry"]
             g == Sending(s, {})
  <2>1. run[m].pc = "reflect" /\ (BeginRound(m, f, Resume(sess, s), hang, queue) \/ Put(m, g))
    BY <1>5 DEF Reflected
  <2>2. f \in Frame /\ f.caller = "retry" /\ g.pc = "send"
    BY <1>0 DEF Frame, Caller, Sending, Ended
  <2> HIDE DEF f, g
  <2>3. CASE BeginRound(m, f, Resume(sess, s), hang, queue)
    BY <2>1, <2>2, <2>3, BeginMoves
  <2>4. CASE Put(m, g)
    BY <2>1, <2>2, <2>4 DEF Put, TypeOK
  <2> QED BY <2>1, <2>3, <2>4
<1>6. CASE ApprovedToolEnds(m)
  <2> DEFINE g == Sending(run[m].sid, {})
  <2>1. run[m].pc = "approved" /\ Put(m, g) /\ g.pc = "send"
    BY <1>6 DEF ApprovedToolEnds, Sending, Ended
  <2> HIDE DEF g
  <2> QED BY <2>1 DEF Put, TypeOK
<1>7. CASE Sent(m)
  <2>1. run[m].pc = "send" /\ NextCrashed(m, sess, hang, run[m].todo)
    BY <1>7 DEF Sent
  <2>2. run'[m].pc \in {"llm", "done"}
    BY <1>0, <2>1, NextCrashedMoves
  <2> QED BY <2>1, <2>2
<1>8. CASE ExecutorStep(m)
  BY <1>8, ExecutorMoves
<1> QED BY <1>1, <1>2, <1>3, <1>4, <1>5, <1>6, <1>7, <1>8 DEF MessageStep

\* A session s that becomes active when its tags were free and there was a slot
\* left neither meets Lin's task nor takes one slot too many.
LEMMA FreeToRun ==
  ASSUME NEW ss \in SessionTable, NEW ss2 \in SessionTable, NEW s \in SessionIds,
         \A r \in SessionIds : r # s => ss2[r] = ss[r],
         ss2[s].origin = "queue", ~SlotsFull(ss),
         Conflicts(ss, ss2[s].tags, ChatActives(ss)) = {}
  PROVE  /\ Conflicts(ss2, ss2[s].tags, ChatActives(ss2)) = {}
         /\ Cardinality(Active(ss2)) <= MaxConcurrent
<1>1. \A r \in ChatActives(ss2) : r \in ChatActives(ss) /\ ss2[r] = ss[r]
  BY DEF ChatActives, Active
<1>2. Conflicts(ss2, ss2[s].tags, ChatActives(ss2)) = {}
  BY <1>1 DEF Conflicts
<1>3. IsFiniteSet(SessionIds)
  BY SessionsAssumption, FS_Interval DEF SessionIds
<1>4. Active(ss) \subseteq SessionIds /\ Active(ss2) \subseteq Active(ss) \cup {s}
  BY DEF Active
<1>5. IsFiniteSet(Active(ss)) /\ Cardinality(Active(ss)) \in Nat
  BY <1>3, <1>4, FS_Subset, FS_CardinalityType
<1>6. /\ IsFiniteSet(Active(ss) \cup {s})
      /\ Cardinality(Active(ss) \cup {s}) <= Cardinality(Active(ss)) + 1
      /\ Cardinality(Active(ss) \cup {s}) \in Nat
  <2> DEFINE A == Active(ss)
  <2>1. IsFiniteSet(A) /\ Cardinality(A) \in Nat
    BY <1>5
  <2> HIDE DEF A
  <2>2. /\ IsFiniteSet(A \cup {s})
        /\ Cardinality(A \cup {s}) = IF s \in A THEN Cardinality(A) ELSE Cardinality(A) + 1
    BY <2>1, FS_AddElement
  <2>3. Cardinality(A \cup {s}) <= Cardinality(A) + 1 /\ Cardinality(A \cup {s}) \in Nat
    BY <2>1, <2>2
  <2> QED BY <2>2, <2>3 DEF A
<1>7. Cardinality(Active(ss2)) <= Cardinality(Active(ss) \cup {s}) /\ Cardinality(Active(ss2)) \in Nat
  BY <1>4, <1>6, FS_Subset, FS_CardinalityType
<1>8. Cardinality(Active(ss)) < MaxConcurrent
  BY <1>5, SchedulerAssumption DEF SlotsFull
<1> QED BY <1>2, <1>5, <1>6, <1>7, <1>8, SchedulerAssumption

\* each autonomous session of ss2 that was not active in ss respects Lin's work
Respectful(ss, ss2) ==
  \A s \in QueueActives(ss2) \ QueueActives(ss) :
    /\ Conflicts(ss2, ss2[s].tags, ChatActives(ss2)) = {}
    /\ Cardinality(Active(ss2)) <= MaxConcurrent

\* Nothing new is active: nothing to respect.
LEMMA NoneWoken ==
  ASSUME NEW ss, NEW ss2, \A s \in SessionIds : ss2[s].st = "active" => ss[s] = ss2[s]
  PROVE  Respectful(ss, ss2)
BY DEF Respectful, QueueActives, Active

\* The sweep makes nothing active.
LEMMA SweptActives ==
  ASSUME TypeOK
  PROVE  SweptSess \in SessionTable /\ \A s \in SessionIds : SweptSess[s].st = "active" => SweptSess[s] = sess[s]
<1>1. SweptSess \in SessionTable
  BY SweepSessionsType DEF SweptSess, TypeOK
<1>2. \A s \in SessionIds : SweptSess[s].st = "active" => SweptSess[s] = sess[s]
  BY DEF SweptSess, SweepSessions, TypeOK, SessionTable, Session
<1> QED BY <1>1, <1>2

\* A session woken from the swept table, its tags free and a slot left.
LEMMA WokenRespects ==
  ASSUME TypeOK, NEW s \in SessionIds, ~StashBlocked(SweptSess, s),
         NEW ss2 \in {SweptSess, SetStatus(SweptSess, s, "active")}
  PROVE  Respectful(sess, ss2)
<1>0. SweptSess \in SessionTable /\ \A r \in SessionIds : SweptSess[r].st = "active" => SweptSess[r] = sess[r]
  BY SweptActives
<1>1. CASE ss2 = SweptSess
  BY <1>0, <1>1, NoneWoken
<1>2. CASE ss2 = SetStatus(SweptSess, s, "active")
  <2>1. ss2 \in SessionTable /\ ss2[s].tags = SweptSess[s].tags
    BY <1>0, <1>2 DEF SetStatus, SessionTable, Session, SessionIds, Status
  <2>2. \A r \in SessionIds : r # s => ss2[r] = SweptSess[r]
    BY <1>0, <1>2, StatusWrite
  <2>3. ~SlotsFull(SweptSess) /\ Conflicts(SweptSess, SweptSess[s].tags, ChatActives(SweptSess)) = {}
    BY DEF StashBlocked
  <2> HIDE DEF SweptSess
  <2>4. SUFFICES ASSUME NEW r \in QueueActives(ss2) \ QueueActives(sess)
                 PROVE  /\ Conflicts(ss2, ss2[r].tags, ChatActives(ss2)) = {}
                        /\ Cardinality(Active(ss2)) <= MaxConcurrent
    BY DEF Respectful
  <2>5. r = s /\ ss2[s].origin = "queue"
    BY <1>0, <2>2, <2>4 DEF QueueActives, Active
  <2> QED BY <1>0, <2>1, <2>2, <2>3, <2>5, FreeToRun
<1> QED BY <1>1, <1>2

\* The three ways of the tick to make an autonomous session active, and its run.
LEMMA TickIsRespectful ==
  ASSUME TypeOK, TickStep
  PROVE  Respectful(sess, sess')
<1>0. SweptSess \in SessionTable /\ \A r \in SessionIds : SweptSess[r].st = "active" => SweptSess[r] = sess[r]
  BY SweptActives
<1>1. CASE TickResumesDisplaced
  <2>1. sess' = Resume(SweptSess, StashSid) /\ ~StashBlocked(SweptSess, StashSid) /\ StashRow # NoHanging
    BY <1>1 DEF TickResumesDisplaced, Continue, BeginRound, Return, CanResumeStash
  <2>2. SweptHang \in HangingTable
    BY HangingUpdateType DEF SweptHang, TypeOK
  <2>3. StashRow \in HangIds
    BY <2>1, <2>2, NewestPending DEF StashRow, Pending
  <2>4. StashSid \in SessionIds \cup {NoSession}
    BY <2>2, <2>3 DEF StashSid, HangingTable, HangRow
  <2>5. CASE StashSid = NoSession
    <3>1. sess' = SweptSess
      BY <2>1, <2>5 DEF Resume, Resumable
    <3> QED BY <1>0, <3>1, NoneWoken
  <2>6. CASE StashSid \in SessionIds
    <3>1. sess' \in {SweptSess, SetStatus(SweptSess, StashSid, "active")}
      BY <2>1 DEF Resume
    <3> QED BY <2>1, <2>6, <3>1, WokenRespects
  <2> QED BY <2>4, <2>5, <2>6
<1>2. CASE TickUnblocksWaiting
  <2> DEFINE s == ResumeWaiting(SweptSess, LeftSid)
  <2>1. sess' = ActivateWaiting(SweptSess, s) /\ Waiting # {}
    BY <1>2 DEF TickUnblocksWaiting, Continue, BeginRound, Return
  <2>2. Waiting \subseteq SessionIds
    BY DEF Waiting, Unblockable
  <2>3. \E x \in Waiting : \A r \in Waiting : x <= r
    BY <2>1, <2>2, SessionIdsAreNat, LeastElement
  <2>4. s \in Waiting
    BY <2>3 DEF ResumeWaiting, Waiting
  <2>5. s \in SessionIds /\ ~StashBlocked(SweptSess, s)
    BY <2>4 DEF Waiting, Unblockable, QueueBlocked, StashBlocked
  <2>6. sess' \in {SweptSess, SetStatus(SweptSess, s, "active")}
    BY <2>1 DEF ActivateWaiting
  <2> HIDE DEF s
  <2> QED BY <2>5, <2>6, WokenRespects
<1>3. CASE TickReconciles \/ TickPicks
  <2>1. sess' = SweptSess
    BY <1>3 DEF TickReconciles, TickPicks
  <2> QED BY <1>0, <2>1, NoneWoken
<1>4. CASE TickClaims
  <2> DEFINE s == NextSession(sess)
  <2>1. PICK tags \in SUBSET Tags : sess' = StartQueue(sess, tags)
    BY <1>4 DEF TickClaims, BeginRound, Return
  <2>2. sess \in SessionTable /\ CanCreate(sess)
    BY <1>4 DEF TickClaims, TypeOK
  <2>3. s \in SessionIds
    BY <2>2, NextSessionUnused
  <2>4. /\ sess'[s] = [st |-> IF QueueBlocked(sess, tags) THEN "waiting_dependency" ELSE "active",
                       origin |-> "queue", tags |-> tags]
        /\ \A r \in SessionIds : r # s => sess'[r] = sess[r]
    BY <2>1, <2>2, <2>3 DEF StartQueue, Create, SessionTable
  <2>5. sess' \in SessionTable
    BY <2>1, <2>2, <2>3 DEF StartQueue, Create, SessionTable, Session, Status, Blocked
  <2> HIDE DEF s
  <2>6. CASE QueueBlocked(sess, tags)
    BY <2>4, <2>6, NoneWoken
  <2>7. CASE ~QueueBlocked(sess, tags)
    <3>1. ~SlotsFull(sess) /\ Conflicts(sess, sess'[s].tags, ChatActives(sess)) = {} /\ sess'[s].origin = "queue"
      BY <2>4, <2>7 DEF QueueBlocked
    <3>2. /\ Conflicts(sess', sess'[s].tags, ChatActives(sess')) = {}
          /\ Cardinality(Active(sess')) <= MaxConcurrent
      BY <2>2, <2>3, <2>4, <2>5, <3>1, FreeToRun
    <3>3. \A r \in QueueActives(sess') \ QueueActives(sess) : r = s
      BY <2>4 DEF QueueActives, Active
    <3> QED BY <3>2, <3>3 DEF Respectful
  <2> QED BY <2>6, <2>7
<1>5. CASE ExecutorStep(Tick)
  <2> DEFINE s == run[Tick].sid
  <2>1. s \in SessionIds \cup {NoSession} /\ sess \in SessionTable
    BY DEF TypeOK, Frame
  <2>2. \E st \in {"done", "failed", "waiting_user"} : sess' \in {sess, SetStatus(sess, s, st)}
    BY <1>5 DEF ExecutorStep, FinalReply, RunFails, CallTool, ToolReturns, AskUser, RequestApproval,
                PublishDrains, BeginRound, Return, Complete, Fail, WaitUser
  <2> HIDE DEF s
  <2>3. \A r \in SessionIds : sess'[r].st = "active" => sess[r] = sess'[r]
    <3>1. CASE s = NoSession
      BY <2>2, <3>1 DEF SetStatus
    <3>2. CASE s \in SessionIds
      BY <2>1, <2>2, <3>2, StatusWrite
    <3> QED BY <2>1, <3>1, <3>2
  <2> QED BY <2>3, NoneWoken
<1> QED BY <1>1, <1>2, <1>3, <1>4, <1>5 DEF TickStep

\* Whatever the tick wakes or starts, it neither takes a resource of Lin's
\* running task nor a slot that is not there, in every environment.
THEOREM TickGivesWay == Spec => TickRespectsLin
<1> DEFINE Gives == ByTick => Respectful(sess, sess')
<1>1. TypeOK /\ [Next]_vars => Gives
  <2> SUFFICES ASSUME TypeOK, [Next]_vars, ByTick PROVE Respectful(sess, sess')
    OBVIOUS
  <2>1. CASE TickStep
    BY <2>1, TickIsRespectful
  <2>2. CASE \E m \in Messages : MessageArrives(m) \/ MessageStep(m)
    BY <2>2, MessagesMove DEF ByTick
  <2>3. CASE Crash \/ Shutdown \/ TornStep \/ Restart \/ TornRecovery
    <3>1. ~up \/ ~up'
      BY <2>3 DEF Crash, Shutdown, TornStep, TornAsk, TornApproval, TornAnswer, TornSettle, TornClaim,
                  Die, Halt, Restart, TornRecovery
    <3> QED BY <3>1 DEF ByTick
  <2>4. CASE sess' = sess
    BY <2>4, NoneWoken
  <2>5. CASE AgendaAddsTask \/ HourPasses \/ (\E p \in Procs : ToolAddsTask(p) \/ ToolCancelsTask(p)) \/ UNCHANGED vars
    BY <2>4, <2>5 DEF AgendaAddsTask, HourPasses, ToolAddsTask, ToolCancelsTask, vars
  <2> QED BY <2>1, <2>2, <2>3, <2>5 DEF Next
<1>2. TypeOK /\ [Next]_vars
        => [ByTick =>
              \A s \in QueueActives(sess') \ QueueActives(sess) :
                /\ Conflicts(sess', sess'[s].tags, ChatActives(sess')) = {}
                /\ Cardinality(Active(sess')) <= MaxConcurrent]_vars
  BY <1>1 DEF Respectful
<1> QED BY <1>2, TypeCorrect, PTL DEF Spec, TickRespectsLin

-----------------------------------------------------------------------------
(* What has ended                                                          *)

\* the two ends that are for good; a failed session may be tried again
Final == {"done", "cancelled"}

\* what is done or cancelled in ss, and not lent to Lin's side, is as it was in ss2
KeepsFinal(ss, ss2) ==
  \A s \in SessionIds : ss[s].st \in Final /\ ~Loaned(ss, s) => ss2[s] = ss[s]

\* Ended sessions stay so through two changes that each leave them.
LEMMA KeepsFinalTwice ==
  ASSUME NEW s1, NEW s2, NEW s3, KeepsFinal(s1, s2), KeepsFinal(s2, s3)
  PROVE  KeepsFinal(s1, s3)
BY DEF KeepsFinal, Loaned, Autonomous

\* A status is written over any but a final one.
LEMMA WriteKeepsFinal ==
  ASSUME NEW ss \in SessionTable, NEW s \in SessionIds \cup {NoSession}, NEW st,
         s \in SessionIds => ss[s].st \notin Final \/ Loaned(ss, s)
  PROVE  KeepsFinal(ss, SetStatus(ss, s, st))
<1>1. CASE s = NoSession
  BY <1>1 DEF SetStatus, KeepsFinal
<1>2. CASE s \in SessionIds
  BY <1>2, StatusWrite DEF KeepsFinal
<1> QED BY <1>1, <1>2

\* resume() and activate_waiting() look at the status they overwrite.
LEMMA WakingKeepsFinal ==
  ASSUME NEW ss \in SessionTable, NEW s \in SessionIds \cup {NoSession}
  PROVE  KeepsFinal(ss, Resume(ss, s)) /\ (s \in SessionIds => KeepsFinal(ss, ActivateWaiting(ss, s)))
<1>1. KeepsFinal(ss, ss)
  BY DEF KeepsFinal
<1>2. Resumable(ss, s) => s \in SessionIds /\ ss[s].st \notin Final
  BY DEF Resumable, Blocked, Final
<1>3. KeepsFinal(ss, Resume(ss, s))
  BY <1>1, <1>2, WriteKeepsFinal DEF Resume
<1>4. s \in SessionIds => KeepsFinal(ss, ActivateWaiting(ss, s))
  BY <1>1, WriteKeepsFinal DEF ActivateWaiting, Final
<1> QED BY <1>3, <1>4

\* Questions and crash_resume rows expire on sessions that wait or rest.
LEMMA ExpiryKeepsFinal ==
  ASSUME TypeOK, OwnersInv
  PROVE  KeepsFinal(sess, SweepSessions(sess, hang, Questions))
<1> SUFFICES ASSUME NEW s \in SessionIds, sess[s].st \in Final, ~Loaned(sess, s),
                    NEW h \in Expired(hang, Questions), hang[h].sid = s
             PROVE  FALSE
  BY DEF KeepsFinal, SweepSessions, TypeOK, SessionTable
<1>1. h \in Pending(hang, AskKinds) \/ h \in Pending(hang, {"crash_resume"})
  BY DEF Expired, Pending, AskKinds, Questions
<1>2. CASE h \in Pending(hang, AskKinds)
  BY <1>2 DEF OwnersInv, ChatInv, AsksHold, Final
<1>3. CASE h \in Pending(hang, {"crash_resume"})
  BY <1>3 DEF OwnersInv, ChatInv, CrashRowsHold, Parked, Final
<1> QED BY <1>1, <1>2, <1>3

\* The next crashed session is resumed, or none is.
LEMMA NextCrashedKeepsFinal ==
  ASSUME NEW m \in Messages, NEW ss \in SessionTable, NEW hh, NEW todo \in SUBSET SessionIds,
         NextCrashed(m, ss, hh, todo)
  PROVE  KeepsFinal(ss, sess')
<1> DEFINE left == {s \in todo : Resumable(ss, s)}
           s    == CHOOSE s \in left : \A r \in left : s >= r
<1>1. CASE left = {}
  BY <1>1 DEF NextCrashed, KeepsFinal
<1>2. CASE left # {}
  <2>1. \E x \in left : \A r \in left : x >= r
    BY <1>2, NewestSession
  <2>2. s \in SessionIds
    BY <2>1
  <2>3. sess' = Resume(ss, s)
    BY <1>2 DEF NextCrashed, BeginRound, Return
  <2> HIDE DEF s
  <2> QED BY <2>2, <2>3, WakingKeepsFinal
<1> QED BY <1>1, <1>2

\* An answer, whatever it says, reaches a session that waits or rests: a question
\* that is pending still has its waiter.
LEMMA DispatchKeepsFinal ==
  ASSUME NEW m \in Messages, NEW ss, NEW hh, Tables(ss, hh, run), ChatInv(ss, hh, run),
         NEW h \in Pending(hh, Questions), NEW text, Dispatch(m, h, text, ss, hh)
  PROVE  KeepsFinal(ss, sess')
<1> DEFINE s == hh[h].sid
<1>1. /\ s \in SessionIds \cup {NoSession} /\ hh[h].sids \in SUBSET SessionIds
      /\ ss \in SessionTable /\ ss \in [SessionIds -> Session]
  BY DEF Tables, HangingTable, HangRow, Pending, SessionTable
<1>2. KeepsFinal(ss, Resume(ss, s)) /\ Resume(ss, s) \in SessionTable
  BY <1>1, WakingKeepsFinal, LifecycleType
<1>3. CASE sess' = Resume(ss, s)
  BY <1>2, <1>3
<1>4. CASE hh[h].kind = "approval" /\ Decline(m, h, ss, hh)
  <2>1. sess' = SetStatus(Resume(ss, s), s, "cancelled")
    BY <1>4 DEF Decline, Cancel
  <2>2. h \in Pending(hh, AskKinds)
    BY <1>4 DEF Pending, AskKinds
  <2>3. s \in SessionIds => ss[s].st \notin Final \/ Loaned(ss, s)
    BY <2>2 DEF ChatInv, AsksHold, Final
  <2>4. CASE s = NoSession
    BY <1>2, <2>1, <2>4 DEF SetStatus
  <2>5. CASE s \in SessionIds
    <3>1. \A r \in SessionIds : r # s => sess'[r] = Resume(ss, s)[r]
      BY <1>2, <2>1, <2>5, StatusWrite
    <3> QED BY <1>2, <2>3, <3>1 DEF KeepsFinal
  <2> QED BY <1>1, <2>4, <2>5
<1>5. CASE ResumeCrashed(m, h, ss, hh)
  BY <1>1, <1>5, NextCrashedKeepsFinal DEF ResumeCrashed
<1>6. CASE hh[h].kind = "crash_resume" /\ DropCrashed(m, h, ss, hh)
  <2>1. \A r \in hh[h].sids : ss[r].st = "paused"
    BY <1>6 DEF Pending, ChatInv, CrashRowsHold, Parked
  <2> QED BY <1>6, <2>1 DEF DropCrashed, KeepsFinal, Final
<1>7. CASE NotAnAnswer(m, ss, hh)
  BY <1>7 DEF NotAnAnswer, KeepsFinal
<1> QED BY <1>3, <1>4, <1>5, <1>6, <1>7 DEF Dispatch, Approve, Answer, BeginRound, Return

\* A run writes the end of the session it drives, and that one has not ended.
LEMMA ExecutorKeepsFinal ==
  ASSUME TypeOK, NEW p \in Procs, ExecutorStep(p),
         run[p].sid \in SessionIds => sess[run[p].sid].st \notin Final \/ Loaned(sess, run[p].sid)
  PROVE  KeepsFinal(sess, sess')
<1> DEFINE s == run[p].sid
<1>1. s \in SessionIds \cup {NoSession} /\ sess \in SessionTable
  BY DEF TypeOK, Frame
<1>2. \E st \in {"done", "failed", "waiting_user"} : sess' \in {sess, SetStatus(sess, s, st)}
  BY DEF ExecutorStep, FinalReply, RunFails, CallTool, ToolReturns, AskUser, RequestApproval,
         PublishDrains, BeginRound, Return, Complete, Fail, WaitUser
<1>3. \A st : KeepsFinal(sess, SetStatus(sess, s, st))
  BY <1>1, WriteKeepsFinal
<1>4. KeepsFinal(sess, sess)
  BY DEF KeepsFinal
<1> QED BY <1>2, <1>3, <1>4

\* The session a message drives is none that has ended.
LEMMA DrivenIsNotFinal ==
  ASSUME OwnersInv, NEW m \in Messages, run[m].pc \in Working, run[m].sid \in SessionIds
  PROVE  sess[run[m].sid].st \notin Final \/ Loaned(sess, run[m].sid)
BY DEF OwnersInv, ChatInv, RunsHold, Drives, Final

\* No step of a message writes over what has ended: one case per place.
LEMMA MessageKeepsFinal ==
  ASSUME TypeOK, OwnersInv, SnapInv, NEW m \in Messages, MessageArrives(m) \/ MessageStep(m)
  PROVE  KeepsFinal(sess, sess')
<1>0. sess \in SessionTable /\ hang \in HangingTable /\ run[m] \in Frame /\ run[m].todo \in SUBSET SessionIds
      /\ run[m].sid \in SessionIds \cup {NoSession} /\ run[m].hids \subseteq HangIds
  BY DEF TypeOK, Frame
<1>1. CASE sess' = sess
  BY <1>1 DEF KeepsFinal
<1>2. CASE Route(m)
  <2> DEFINE ss == SweepSessions(sess, hang, Questions)
             hh == SweepRows(hang, Questions)
             items == Pending(hh, Questions)
  <2>1. Tables(ss, hh, run) /\ ChatInv(ss, hh, run) /\ items = Pending(hh, Questions)
    BY RouteSweeps DEF Reached
  <2>2. KeepsFinal(sess, ss)
    BY ExpiryKeepsFinal
  <2>3. sess' = ss \/ \E h \in items, text \in {"plain", "yes", "no"} : Dispatch(m, h, text, ss, hh)
    BY <1>2 DEF Route, NotAnAnswer
  <2> HIDE DEF ss, hh, items
  <2>4. ASSUME NEW h \in items, NEW text, Dispatch(m, h, text, ss, hh)
        PROVE  KeepsFinal(ss, sess')
    BY <2>1, <2>4, DispatchKeepsFinal
  <2> QED BY <2>2, <2>3, <2>4, KeepsFinalTwice
<1>3. CASE Routed(m)
  <2>1. run[m].hids \subseteq Pending(hang, Questions) /\ Tables(sess, hang, run) /\ ChatInv(sess, hang, run)
    BY <1>3, ReachedNow DEF Routed, SnapInv, Reached
  <2> QED BY <1>1, <1>3, <2>1, DispatchKeepsFinal DEF Routed
<1>4. CASE Planned(m)
  <2>1. PICK tags \in SUBSET Tags : sess' = StartChat(sess, tags)
    BY <1>4 DEF Planned, BeginRound, Return
  <2>2. CanCreate(sess)
    BY <1>4 DEF Planned
  <2> QED BY <1>0, <2>1, <2>2, ChatStart, NextSessionUnused DEF KeepsFinal, Final
<1>5. CASE Reflected(m)
  <2>1. sess' \in {sess, Resume(sess, run[m].sid)}
    BY <1>5 DEF Reflected, BeginRound, Return
  <2> QED BY <1>0, <1>1, <2>1, WakingKeepsFinal
<1>6. CASE ApprovedToolEnds(m)
  <2>1. run[m].pc \in Working /\ \E st : sess' = SetStatus(sess, run[m].sid, st)
    BY <1>6 DEF ApprovedToolEnds, Complete, Fail, Working
  <2> QED BY <1>0, <2>1, DrivenIsNotFinal, WriteKeepsFinal
<1>7. CASE Sent(m)
  BY <1>0, <1>7, NextCrashedKeepsFinal DEF Sent
<1>8. CASE ExecutorStep(m)
  <2>1. run[m].pc \in Working
    BY <1>8 DEF ExecutorStep, FinalReply, RunFails, CallTool, ToolReturns, AskUser, RequestApproval,
                PublishDrains, MayAsk, Working, InLoop
  <2> QED BY <1>8, <2>1, DrivenIsNotFinal, ExecutorKeepsFinal
<1>9. CASE StopPhrase(m) \/ ResumePhrase(m) \/ Classified(m)
  BY <1>1, <1>9 DEF StopPhrase, ResumePhrase, Classified
<1> QED BY <1>2, <1>3, <1>4, <1>5, <1>6, <1>7, <1>8, <1>9 DEF MessageArrives, MessageStep

\* Nor does a step of the tick: a stash expires on a displaced session.
LEMMA TickKeepsFinal ==
  ASSUME TypeOK, OwnersInv, QueueHolds, TickStep
  PROVE  KeepsFinal(sess, sess')
<1>0. sess \in SessionTable /\ SweptSess \in SessionTable
  BY SweptActives DEF TypeOK
<1>1. KeepsFinal(sess, SweptSess)
  <2> SUFFICES ASSUME NEW s \in SessionIds, sess[s].st \in Final,
                      NEW h \in Expired(hang, Stash), hang[h].sid = s
               PROVE  FALSE
    BY DEF KeepsFinal, SweptSess, SweepSessions, TypeOK, SessionTable
  <2>1. h \in Pending(hang, Stash)
    BY DEF Expired, Pending
  <2> QED BY <2>1 DEF QueueHolds, QueueInv, StashesWait, IsDisplaced, Displaced, Final
<1>2. CASE TickResumesDisplaced
  <2>1. sess' = Resume(SweptSess, StashSid) /\ StashRow # NoHanging
    BY <1>2 DEF TickResumesDisplaced, Continue, BeginRound, Return, CanResumeStash
  <2>2. SweptHang \in HangingTable
    BY HangingUpdateType DEF SweptHang, TypeOK
  <2>3. StashRow \in HangIds
    BY <2>1, <2>2, NewestPending DEF StashRow, Pending
  <2>4. StashSid \in SessionIds \cup {NoSession}
    BY <2>2, <2>3 DEF StashSid, HangingTable, HangRow
  <2>5. KeepsFinal(SweptSess, sess')
    BY <1>0, <2>1, <2>4, WakingKeepsFinal
  <2> QED BY <1>1, <2>5, KeepsFinalTwice
<1>3. CASE TickUnblocksWaiting
  <2> DEFINE s == ResumeWaiting(SweptSess, LeftSid)
  <2>1. sess' = ActivateWaiting(SweptSess, s) /\ Waiting # {}
    BY <1>3 DEF TickUnblocksWaiting, Continue, BeginRound, Return
  <2>2. Waiting \subseteq SessionIds
    BY DEF Waiting, Unblockable
  <2>3. \E x \in Waiting : \A r \in Waiting : x <= r
    BY <2>1, <2>2, SessionIdsAreNat, LeastElement
  <2>4. s \in SessionIds
    BY <2>2, <2>3 DEF ResumeWaiting, Waiting
  <2> HIDE DEF s
  <2>5. KeepsFinal(SweptSess, sess')
    BY <1>0, <2>1, <2>4, WakingKeepsFinal
  <2> QED BY <1>1, <2>5, KeepsFinalTwice
<1>4. CASE TickReconciles \/ TickPicks
  BY <1>1, <1>4 DEF TickReconciles, TickPicks
<1>5. CASE TickClaims
  <2>1. PICK tags \in SUBSET Tags : sess' = StartQueue(sess, tags)
    BY <1>5 DEF TickClaims, BeginRound, Return
  <2>2. NextSession(sess) \in SessionIds /\ sess[NextSession(sess)].st = "none"
    BY <1>0, <1>5, NextSessionUnused DEF TickClaims
  <2> QED BY <1>0, <2>1, <2>2 DEF StartQueue, Create, KeepsFinal, SessionTable, Final
<1>6. CASE ExecutorStep(Tick)
  <2>1. run[Tick].pc \in InLoop
    BY <1>6 DEF ExecutorStep, FinalReply, RunFails, CallTool, ToolReturns, AskUser, RequestApproval,
                PublishDrains, MayAsk, InLoop
  <2>2. sess[run[Tick].sid].st \notin Final
    BY <2>1 DEF QueueHolds, QueueInv, RunHasClaim, Displaced, Final
  <2> QED BY <1>6, <2>2, ExecutorKeepsFinal
<1> QED BY <1>2, <1>3, <1>4, <1>5, <1>6 DEF TickStep

\* Nor any step that is not the tick's: one case per action.
LEMMA OthersKeepFinal ==
  ASSUME ~Torn, TypeOK, OwnersInv, SnapInv, [Next]_vars
  PROVE  TickStep \/ KeepsFinal(sess, sess')
<1>1. CASE \E m \in Messages : MessageArrives(m) \/ MessageStep(m)
  BY <1>1, MessageKeepsFinal
<1>2. CASE sess' = sess
  BY <1>2 DEF KeepsFinal
<1>3. CASE sess' = RecoveredSess
  BY <1>3 DEF KeepsFinal, RecoveredSess, ChatActives, QueueActives, Active, Final, TypeOK, SessionTable
<1>4. CASE TornStep \/ TornRecovery
  BY <1>4 DEF TornStep, TornAsk, TornApproval, TornAnswer, TornSettle, TornClaim, TornRecovery
<1>5. CASE Crash \/ Shutdown \/ Restart
  BY <1>2, <1>3, <1>5 DEF Crash, Die, Shutdown, Restart
<1>6. CASE AgendaAddsTask \/ HourPasses \/ (\E p \in Procs : ToolAddsTask(p) \/ ToolCancelsTask(p)) \/ UNCHANGED vars
  BY <1>2, <1>6 DEF AgendaAddsTask, HourPasses, ToolAddsTask, ToolCancelsTask, vars
<1> QED BY <1>1, <1>4, <1>5, <1>6 DEF Next

\* What Lin declined, or a crash cut short, stays cancelled, and what is done stays
\* done: no expiry, late answer, retry, tick or recovery writes over it.
THEOREM EndedForGood == ASSUME Calm, ~Cancels PROVE Spec => EndedStays
<1>1. TypeOK /\ OwnersInv /\ SnapInv /\ QueueHolds /\ [Next]_vars => KeepsFinal(sess, sess')
  BY TickKeepsFinal, OthersKeepFinal DEF Calm, Mild
<1>2. TypeOK /\ OwnersInv /\ SnapInv /\ QueueHolds /\ [Next]_vars
        => [\A s \in SessionIds : sess[s].st \in {"done", "cancelled"} => sess'[s].st = sess[s].st]_vars
  BY <1>1 DEF KeepsFinal, Loaned, Calm, Final
<1>3. Spec => []SnapInv
  BY SnapAlways DEF Calm, Mild
<1> QED BY <1>2, <1>3, TypeCorrect, OwnersHold, QueueAlwaysHolds, PTL DEF Spec, EndedStays, Calm

\* What Lin declined of her own tasks stays declined, and what is done of them done,
\* where queue runs ask her and rows are cancelled too: no answer to the queue's
\* questions and no step of the tick reaches it.
THEOREM LinsEndedForGood == ASSUME Mild PROVE Spec => LinsEndedStay
<1>1. TypeOK /\ OwnersInv /\ SnapInv /\ [Next]_vars
        => [\A s \in LinsSessions : sess[s].st \in {"done", "cancelled"} => sess'[s].st = sess[s].st]_vars
  <2> SUFFICES ASSUME TypeOK, OwnersInv, SnapInv, [Next]_vars,
                      NEW s \in SessionIds, sess[s].origin = "chat", sess[s].st \in {"done", "cancelled"}
               PROVE  sess'[s].st = sess[s].st
    BY DEF LinsSessions
  <2>1. CASE TickStep
    BY <2>1, TickLeavesLins
  <2>2. CASE KeepsFinal(sess, sess')
    BY <2>2 DEF KeepsFinal, Final, Loaned, Autonomous
  <2> QED BY <2>1, <2>2, OthersKeepFinal DEF Mild
<1>2. Spec => []SnapInv
  BY SnapAlways DEF Mild
<1> QED BY <1>1, <1>2, TypeCorrect, OwnersHold, PTL DEF Spec, LinsEndedStay
=============================================================================
