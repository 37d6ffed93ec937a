-------------------------- MODULE AgentCore_proofs --------------------------
(***************************************************************************)
(* Type correctness of AgentCore and its queue discipline, for every       *)
(* number of sessions, rows, messages and rounds and every combination of  *)
(* faults.  First what the operators on the three tables return: every one *)
(* of them maps tables to tables, and none but MarkRunning adds to the     *)
(* claimed rows.  Then the steps: nearly all are Harmless: they keep the   *)
(* types, claim no row and do not put the tick into the classifier;        *)
(* TickPicks and TickClaims are the two others.  Last the refinement: the  *)
(* tick is the worker of WorkQueue, every step is one of its steps or      *)
(* none of its business, and what WorkQueue promises holds of the rows.    *)
(***************************************************************************)
EXTENDS AgentCore, TLAPS, WellFoundedInduction

-----------------------------------------------------------------------------
(* The operators on the three tables                                       *)

\* Ids are natural numbers, so the CHOOSEs for the oldest row find one.
LEMMA LeastElement ==
  ASSUME NEW S, S \subseteq Nat, S # {}
  PROVE  \E m \in S : \A k \in S : m <= k
<1> DEFINE Below == OpToRel(<, Nat)
<1>1. IsWellFoundedOn(Below, Nat)
  BY NatLessThanWellFounded
<1>2. \A x, y \in Nat : <<x, y>> \in Below <=> x < y
  BY DEF OpToRel
<1> HIDE DEF Below
<1>3. PICK m \in S : \A k \in S : ~(<<k, m>> \in Below)
  BY <1>1, WFMin
<1>4. \A k \in S : m \in Nat /\ k \in Nat /\ ~(k < m)
  BY <1>2, <1>3
<1>5. \A k \in S : m <= k
  BY <1>4
<1> QED
  BY <1>5

\* Bounded ids also have a greatest one: the newest pending row exists.
LEMMA GreatestElement ==
  ASSUME NEW n \in Nat, NEW S, S \subseteq 1..n, S # {}
  PROVE  \E m \in S : \A k \in S : k <= m
<1> DEFINE Gaps == {n - k : k \in S}
<1>1. \A k \in S : k \in 1..n /\ n - k \in Nat
  OBVIOUS
<1>2. Gaps \subseteq Nat /\ Gaps # {}
  BY <1>1
<1>3. PICK g \in Gaps : \A h \in Gaps : g <= h
  BY <1>2, LeastElement
<1>4. PICK m \in S : g = n - m
  OBVIOUS
<1>5. \A k \in S : n - m <= n - k
  BY <1>3, <1>4
<1>6. \A k \in S : k <= m
  BY <1>1, <1>5
<1> QED
  BY <1>6

-----------------------------------------------------------------------------
(* task_sessions *)

\* Sessions are numbered, so some least one is free or next.
LEMMA SessionIdsAreNat == SessionIds \subseteq Nat
BY SessionsAssumption DEF SessionIds

\* Of the sessions a list holds, one is the newest.
LEMMA NewestSession ==
  ASSUME NEW S, S \subseteq SessionIds, S # {}
  PROVE  \E x \in S : \A r \in S : x >= r
<1>1. MaxSessions \in Nat /\ S \subseteq 1..MaxSessions
  BY SessionsAssumption DEF SessionIds
<1>2. PICK x \in S : \A r \in S : r <= x
  BY <1>1, GreatestElement
<1>3. \A r \in S : r \in Nat /\ x \in Nat
  BY SessionIdsAreNat
<1>4. \A r \in S : x >= r
  BY <1>2, <1>3
<1> QED
  BY <1>4

\* A new session gets a row of the table.
LEMMA NextSessionType ==
  ASSUME NEW ss \in SessionTable, CanCreate(ss)
  PROVE  NextSession(ss) \in SessionIds
<1> DEFINE Unused == {s \in SessionIds : ss[s].st = "none"}
<1>1. Unused \subseteq Nat /\ Unused # {}
  BY SessionIdsAreNat DEF CanCreate
<1>2. PICK m \in Unused : \A k \in Unused : m <= k
  BY <1>1, LeastElement
<1>3. \A r \in SessionIds : r < m => ss[r].st # "none"
  BY <1>2, SessionIdsAreNat
<1> QED
  BY <1>2, <1>3 DEF NextSession

\* sessions.create writes a session.
LEMMA CreateType ==
  ASSUME NEW ss \in SessionTable, NEW st \in Status,
         NEW origin \in {"chat", "queue"}, NEW tags \in SUBSET Tags
  PROVE  Create(ss, st, origin, tags) \in SessionTable
<1> DEFINE row == [st |-> st, origin |-> origin, tags |-> tags]
<1>1. row \in Session
  BY DEF Session
<1> QED
  BY <1>1 DEF Create, SessionTable

\* So does every status update.
LEMMA SetStatusType ==
  ASSUME NEW ss \in SessionTable, NEW s, NEW st \in Status
  PROVE  SetStatus(ss, s, st) \in SessionTable
<1>1. \A r \in SessionIds : [ss[r] EXCEPT !.st = st] \in Session
  BY DEF SessionTable, Session
<1> QED
  BY <1>1 DEF SetStatus, SessionTable

\* Every lifecycle call of agent/sessions.py returns a table.
LEMMA LifecycleType ==
  ASSUME NEW ss \in SessionTable, NEW s
  PROVE  /\ Pause(ss, s) \in SessionTable
         /\ WaitUser(ss, s) \in SessionTable
         /\ Complete(ss, s) \in SessionTable
         /\ Fail(ss, s) \in SessionTable
         /\ Cancel(ss, s) \in SessionTable
         /\ Resume(ss, s) \in SessionTable
         /\ ActivateWaiting(ss, s) \in SessionTable
<1>1. {"paused", "waiting_user", "done", "failed", "cancelled", "active"} \subseteq Status
  BY DEF Status, Blocked, Terminal
<1> QED
  BY <1>1, SetStatusType
     DEF Pause, WaitUser, Complete, Fail, Cancel, Resume, ActivateWaiting

\* start_session for a task of Lin's.
LEMMA StartChatType ==
  ASSUME NEW ss \in SessionTable, NEW tags \in SUBSET Tags
  PROVE  StartChat(ss, tags) \in SessionTable
<1>1. {"active", "paused", "waiting_dependency"} \subseteq Status
  BY DEF Status, Blocked
<1>2. \A s \in SessionIds :
        /\ ss[s] \in Session
        /\ [ss[s] EXCEPT !.st = "paused"] \in Session
        /\ [ss[s] EXCEPT !.st = "waiting_dependency"] \in Session
  BY <1>1 DEF SessionTable, Session
<1> DEFINE blocked   == Conflicts(ss, tags, QueueActives(ss))
           remaining == QueueActives(ss) \ blocked
           evicted   == IF 1 + Cardinality(remaining) > MaxConcurrent THEN remaining ELSE {}
           paused    == ChatActives(ss) \cup evicted
           settled   == [s \in SessionIds |->
                           IF s \in paused THEN [ss[s] EXCEPT !.st = "paused"]
                           ELSE IF s \in blocked
                             THEN [ss[s] EXCEPT !.st = "waiting_dependency"]
                           ELSE ss[s]]
<1> HIDE DEF blocked, paused
<1>3. settled \in SessionTable
  BY <1>2 DEF SessionTable
<1>4. StartChat(ss, tags) = Create(settled, "active", "chat", tags)
  BY DEF StartChat, blocked, paused
<1> HIDE DEF settled
<1> QED
  BY <1>1, <1>3, <1>4, CreateType

\* start_session for an autonomous task.
LEMMA StartQueueType ==
  ASSUME NEW ss \in SessionTable, NEW tags \in SUBSET Tags
  PROVE  StartQueue(ss, tags) \in SessionTable
<1>1. {"active", "waiting_dependency"} \subseteq Status
  BY DEF Status, Blocked
<1> QED
  BY <1>1, CreateType DEF StartQueue

\* resume_waiting picks a session.
LEMMA ResumeWaitingType ==
  ASSUME NEW ss \in SessionTable, NEW stashed, Unblockable(ss, stashed) # {}
  PROVE  ResumeWaiting(ss, stashed) \in SessionIds
<1>1. Unblockable(ss, stashed) \subseteq SessionIds
  BY DEF Unblockable
<1>2. \E s \in Unblockable(ss, stashed) : \A r \in Unblockable(ss, stashed) : s <= r
  BY <1>1, SessionIdsAreNat, LeastElement
<1> QED
  BY <1>1, <1>2 DEF ResumeWaiting

-----------------------------------------------------------------------------
(* hanging_questions *)

\* hanging.create writes a question or a stash.
LEMMA PostType ==
  ASSUME NEW hh \in HangingTable, NEW kind \in Kinds,
         NEW sid \in SessionIds \cup {NoSession}, NEW sids \in SUBSET SessionIds
  PROVE  Post(hh, kind, sid, sids) \in HangingTable
<1> DEFINE row == [kind |-> kind, sid |-> sid, sids |-> sids, st |-> "fresh"]
<1>1. row \in HangRow
  BY DEF HangRow
<1> QED
  BY <1>1 DEF Post, HangingTable

\* Resolving and sweeping keep the table of questions.
LEMMA HangingUpdateType ==
  ASSUME NEW hh \in HangingTable, NEW h, NEW kinds
  PROVE  ResolveRow(hh, h) \in HangingTable /\ SweepRows(hh, kinds) \in HangingTable
<1>1. \A g \in HangIds : hh[g] \in HangRow /\ [hh[g] EXCEPT !.st = "resolved"] \in HangRow
  BY DEF HangingTable, HangRow
<1>2. ResolveRow(hh, h) \in HangingTable
  BY <1>1 DEF ResolveRow, HangingTable
<1>3. SweepRows(hh, kinds) \in HangingTable
  BY <1>1 DEF SweepRows, HangingTable
<1> QED
  BY <1>2, <1>3

\* A sweep fails the sessions of what expired.
LEMMA SweepSessionsType ==
  ASSUME NEW ss \in SessionTable, NEW hh \in HangingTable, NEW kinds
  PROVE  SweepSessions(ss, hh, kinds) \in SessionTable
<1>1. "failed" \in Status
  BY DEF Status, Terminal
<1>2. \A s \in SessionIds : ss[s] \in Session /\ [ss[s] EXCEPT !.st = "failed"] \in Session
  BY <1>1 DEF SessionTable, Session
<1> QED
  BY <1>2 DEF SweepSessions, SessionTable

\* What hanging.pending(kind) finds is a pending row of that kind.
LEMMA NewestPending ==
  ASSUME NEW hh \in HangingTable, NEW kind, Newest(hh, kind) # NoHanging
  PROVE  Newest(hh, kind) \in Pending(hh, {kind}) /\ Newest(hh, kind) \in HangIds
<1>1. Pending(hh, {kind}) \subseteq 1..MaxHanging /\ Pending(hh, {kind}) # {}
  BY DEF Newest, Pending, HangIds
<1>2. \E h \in Pending(hh, {kind}) : \A g \in Pending(hh, {kind}) : g <= h
  BY <1>1, HangingAssumption, GreatestElement
<1>3. Newest(hh, kind) \in Pending(hh, {kind})
  BY <1>1, <1>2 DEF Newest
<1> QED
  BY <1>3 DEF Pending

-----------------------------------------------------------------------------
(* rubedo_queue *)

\* The claim query returns a row or none.
LEMMA NextIdleType == ASSUME NEW qq \in TaskTable PROVE NextIdle(qq) \in Tasks \cup {NoTask}
<1>1. Waits(qq) \subseteq Tasks /\ Tasks \subseteq Nat
  BY TaskQueueAssumption DEF Waits, RowsIn, Tasks
<1>2. CASE Waits(qq) = {}
  BY <1>2 DEF NextIdle
<1>3. CASE Waits(qq) # {}
  <2>1. \E t \in Waits(qq) : \A u \in Waits(qq) : t <= u
    BY <1>1, <1>3, LeastElement
  <2> QED
    BY <1>1, <1>3, <2>1 DEF NextIdle
<1> QED
  BY <1>2, <1>3

\* Every update of the queue keeps its table.
LEMMA TaskUpdateType ==
  ASSUME NEW qq \in TaskTable, NEW t, NEW s \in SessionIds \cup {NoSession}
  PROVE  /\ MarkRunning(qq, t, s) \in TaskTable
         /\ MarkDone(qq, t) \in TaskTable
         /\ Requeue(qq, t) \in TaskTable
         /\ MarkFailed(qq, t) \in TaskTable
         /\ CancelRow(qq, t) \in TaskTable
         /\ AddRow(qq, t) \in TaskTable
<1>1. \A u \in Tasks : qq[u] \in Row
  BY DEF TaskTable
<1>2. \A u \in Tasks : qq[u].retries + 1 \in Nat
  BY <1>1 DEF Row
<1>3. MarkRunning(qq, t, s) \in TaskTable
  <2>1. \A u \in Tasks : [[qq[u] EXCEPT !.st = "running"] EXCEPT !.sid = s] \in Row
    BY <1>1 DEF Row
  <2> QED
    BY <1>1, <2>1 DEF MarkRunning, TaskTable
<1>4. MarkDone(qq, t) \in TaskTable
  <2>1. \A u \in Tasks : [qq[u] EXCEPT !.st = "done"] \in Row
    BY <1>1 DEF Row
  <2> QED
    BY <1>1, <2>1 DEF MarkDone, TaskTable
<1>5. Requeue(qq, t) \in TaskTable
  <2>1. \A u \in Tasks : [[qq[u] EXCEPT !.st = "pending"] EXCEPT !.sid = NoSession] \in Row
    BY <1>1 DEF Row
  <2> QED
    BY <1>1, <2>1 DEF Requeue, TaskTable
<1>6. MarkFailed(qq, t) \in TaskTable
  <2>1. \A u \in Tasks :
          [st |-> "pending", sid |-> NoSession, retries |-> qq[u].retries + 1] \in Row
    BY <1>2 DEF Row
  <2>2. \A u \in Tasks :
          [[qq[u] EXCEPT !.st = "failed"] EXCEPT !.retries = qq[u].retries + 1] \in Row
    BY <1>1, <1>2 DEF Row
  <2> QED
    BY <1>1, <2>1, <2>2 DEF MarkFailed, TaskTable
<1>7. CancelRow(qq, t) \in TaskTable
  <2>1. \A u \in Tasks : [qq[u] EXCEPT !.st = "cancelled"] \in Row
    BY <1>1 DEF Row
  <2> QED
    BY <1>1, <2>1 DEF CancelRow, TaskTable
<1>8. AddRow(qq, t) \in TaskTable
  <2>1. \A u \in Tasks : [qq[u] EXCEPT !.st = "pending"] \in Row
    BY <1>1 DEF Row
  <2> QED
    BY <1>1, <2>1 DEF AddRow, TaskTable
<1> QED
  BY <1>3, <1>4, <1>5, <1>6, <1>7, <1>8

\* Settling, requeueing, cancelling and adding give claims back and add none;
\* marking a row running claims that row and no other.
LEMMA ClaimsAfterUpdate ==
  ASSUME NEW qq \in TaskTable, NEW t, NEW s
  PROVE  /\ RowsIn(MarkDone(qq, t), "running") \subseteq RowsIn(qq, "running")
         /\ RowsIn(Requeue(qq, t), "running") \subseteq RowsIn(qq, "running")
         /\ RowsIn(MarkFailed(qq, t), "running") \subseteq RowsIn(qq, "running")
         /\ RowsIn(CancelRow(qq, t), "running") \subseteq RowsIn(qq, "running")
         /\ RowsIn(AddRow(qq, t), "running") \subseteq RowsIn(qq, "running")
         /\ RowsIn(MarkRunning(qq, t, s), "running") \subseteq RowsIn(qq, "running") \cup {t}
<1>1. RowsIn(MarkDone(qq, t), "running") \subseteq RowsIn(qq, "running")
  BY DEF RowsIn, MarkDone, TaskTable, Row
<1>2. RowsIn(Requeue(qq, t), "running") \subseteq RowsIn(qq, "running")
  BY DEF RowsIn, Requeue, TaskTable, Row
<1>3. RowsIn(MarkFailed(qq, t), "running") \subseteq RowsIn(qq, "running")
  BY DEF RowsIn, MarkFailed, TaskTable, Row
<1>4. RowsIn(CancelRow(qq, t), "running") \subseteq RowsIn(qq, "running")
  BY DEF RowsIn, CancelRow, TaskTable, Row
<1>5. RowsIn(MarkRunning(qq, t, s), "running") \subseteq RowsIn(qq, "running") \cup {t}
  BY DEF RowsIn, MarkRunning, TaskTable, Row
<1>6. RowsIn(AddRow(qq, t), "running") \subseteq RowsIn(qq, "running")
  BY DEF RowsIn, AddRow, TaskTable, Row
<1> QED
  BY <1>1, <1>2, <1>3, <1>4, <1>5, <1>6

-----------------------------------------------------------------------------
(* The steps                                                               *)
USE DEF Procs, NoSession, NoTask

Harmless ==
  /\ TypeOK'
  /\ RowsIn(queue', "running") \subseteq RowsIn(queue, "running")
  /\ run'[Tick].pc = "classify" => run[Tick].pc = "classify"

\* one coroutine moves, working on the queue table qq
StepOf(p, qq) ==
  /\ sess' \in SessionTable /\ hang' \in HangingTable /\ queue' \in TaskTable
  /\ RowsIn(queue', "running") \subseteq RowsIn(qq, "running")
  /\ \E g \in Frame : /\ p = Tick => g.pc # "classify"
                      /\ run' = [run EXCEPT ![p] = g]

-----------------------------------------------------------------------------
(* Frames *)

\* Coroutines before, between and after their work.
LEMMA EndedType == Ended \in Frame /\ Fresh \in Frame /\ Idle \in Frame
BY DEF Ended, Fresh, Idle, Frame, Caller

\* A coroutine about to run the executor.
LEMMA CallingType ==
  ASSUME NEW caller \in Caller, NEW s \in SessionIds \cup {NoSession},
         NEW t \in Tasks \cup {NoTask}, NEW gated \in BOOLEAN
  PROVE  Calling(caller, s, t, gated) \in Frame
<1>1. Ended \in Frame
  BY EndedType
<1> QED
  BY <1>1 DEF Calling, Frame

\* A coroutine about to send its reply.
LEMMA SendingType ==
  ASSUME NEW s \in SessionIds \cup {NoSession}, NEW todo \in SUBSET SessionIds
  PROVE  Sending(s, todo) \in Frame /\ Sending(s, todo).pc = "send"
<1>1. Ended \in Frame
  BY EndedType
<1> QED
  BY <1>1 DEF Sending, Frame

-----------------------------------------------------------------------------
(* Steps of a coroutine *)

\* Settling the row of a run adds no claim.
LEMMA SettleStep ==
  ASSUME NEW qq \in TaskTable, NEW ss, NEW f
  PROVE  /\ Settle(qq, ss, f) \in TaskTable
         /\ RowsIn(Settle(qq, ss, f), "running") \subseteq RowsIn(qq, "running")
BY TaskUpdateType, ClaimsAfterUpdate DEF Settle

\* The executor returns to whoever called it.
LEMMA ReturnStep ==
  ASSUME NEW p \in Procs, NEW f \in Frame, NEW ss \in SessionTable,
         NEW hh \in HangingTable, NEW qq \in TaskTable, Return(p, f, ss, hh, qq)
  PROVE  StepOf(p, qq)
<1>1. sess' = ss /\ hang' = hh
  BY DEF Return
<1>2. f.sid \in SessionIds \cup {NoSession} /\ f.todo \in SUBSET SessionIds
  BY DEF Frame
<1>3. CASE queue' = Settle(qq, ss, f) /\ Put(p, Idle)
  <2>1. Idle \in Frame /\ Idle.pc # "classify"
    BY EndedType DEF Idle, Ended
  <2> QED
    BY <1>1, <1>3, <2>1, SettleStep DEF StepOf, Put
<1>4. CASE queue' = qq /\ Put(p, [f EXCEPT !.pc = "reflect", !.iter = 0])
  <2> DEFINE g == [f EXCEPT !.pc = "reflect", !.iter = 0]
  <2>1. g \in Frame /\ g.pc # "classify"
    BY DEF Frame
  <2> QED
    BY <1>1, <1>4, <2>1 DEF StepOf, Put
<1>5. CASE queue' = qq /\ Put(p, Sending(f.sid, f.todo))
  <2>1. Sending(f.sid, f.todo) \in Frame /\ Sending(f.sid, f.todo).pc # "classify"
    BY <1>2, SendingType
  <2> QED
    BY <1>1, <1>5, <2>1 DEF StepOf, Put
<1> QED
  BY <1>3, <1>4, <1>5 DEF Return

\* The top of a round: displaced and stashed, or on to the model.
LEMMA BeginRoundStep ==
  ASSUME NEW p \in Procs, NEW f \in Frame, NEW ss \in SessionTable,
         NEW hh \in HangingTable, NEW qq \in TaskTable, BeginRound(p, f, ss, hh, qq)
  PROVE  StepOf(p, qq)
<1>1. CASE IsDisplaced(ss, f.sid)
  <2> DEFINE stashed ==
        IF f.caller = "queue" THEN Post(hh, "session_displaced", f.sid, {}) ELSE hh
  <2>1. f.sid \in SessionIds \cup {NoSession}
    BY DEF Frame
  <2>2. stashed \in HangingTable
    BY <2>1, PostType DEF Kinds
  <2>3. Return(p, f, ss, stashed, qq)
    BY <1>1 DEF BeginRound
  <2> HIDE DEF stashed
  <2> QED
    BY <2>2, <2>3, ReturnStep
<1>2. CASE ~IsDisplaced(ss, f.sid)
  <2> DEFINE g == [f EXCEPT !.pc = "llm"]
  <2>1. g \in Frame /\ g.pc # "classify"
    BY DEF Frame, InLoop
  <2>2. sess' = ss /\ hang' = hh /\ queue' = qq /\ run' = [run EXCEPT ![p] = g]
    BY <1>2 DEF BeginRound, Put
  <2> HIDE DEF g
  <2> QED
    BY <2>1, <2>2 DEF StepOf
<1> QED
  BY <1>1, <1>2

\* A step of one coroutine that leaves the rest of the state well-typed keeps
\* the types, and is harmless if it worked on the queue table as it was.
LEMMA StepKeepsTypes ==
  ASSUME TypeOK, NEW p \in Procs, NEW qq, StepOf(p, qq),
         approved' \in [HangIds -> Nat], bound' \subseteq SessionIds, frozen' \in BOOLEAN,
         up' \in BOOLEAN, clean' \in BOOLEAN, faults' \in 0..MaxFaults
  PROVE  /\ TypeOK'
         /\ run'[Tick].pc = "classify" => run[Tick].pc = "classify"
         /\ p = Tick => run'[Tick].pc # "classify"
<1>1. PICK g \in Frame : /\ p = Tick => g.pc # "classify"
                         /\ run' = [run EXCEPT ![p] = g]
  BY DEF StepOf
<1>2. run \in [Procs -> Frame]
  BY DEF TypeOK
<1>3. run' \in [Procs -> Frame]
  BY <1>1, <1>2
<1>4. TypeOK'
  BY <1>3 DEF TypeOK, StepOf
<1> QED
  BY <1>1, <1>2, <1>4

\* A step of a coroutine that leaves the queue alone is harmless.
LEMMA StepIsHarmless ==
  ASSUME TypeOK, NEW p \in Procs, StepOf(p, queue),
         approved' \in [HangIds -> Nat], bound' \subseteq SessionIds, frozen' \in BOOLEAN,
         up' \in BOOLEAN, clean' \in BOOLEAN, faults' \in 0..MaxFaults
  PROVE  Harmless
BY StepKeepsTypes DEF Harmless, StepOf

\* The flags a Quiet step leaves alone keep their types.
LEMMA QuietTypes ==
  ASSUME TypeOK, Quiet
  PROVE  /\ approved' \in [HangIds -> Nat] /\ bound' \subseteq SessionIds /\ frozen' \in BOOLEAN
         /\ up' \in BOOLEAN /\ clean' \in BOOLEAN /\ faults' \in 0..MaxFaults
BY DEF Quiet, hostVars, TypeOK

\* So is one that moves nothing around the coroutine.
LEMMA QuietStepIsHarmless ==
  ASSUME TypeOK, NEW p \in Procs, StepOf(p, queue), Quiet
  PROVE  Harmless
BY QuietTypes, StepIsHarmless

\* A coroutine that only suspends somewhere else, the tables untouched.
LEMMA MoveStep ==
  ASSUME TypeOK, NEW p \in Procs, NEW g \in Frame, p = Tick => g.pc # "classify",
         Put(p, g), UNCHANGED <<sess, hang, queue>>
  PROVE  StepOf(p, queue)
BY DEF TypeOK, StepOf, Put

\* Every step of the executor is harmless.
LEMMA ExecutorIsHarmless ==
  ASSUME TypeOK, NEW p \in Procs, ExecutorStep(p)
  PROVE  Harmless
<1> DEFINE f == run[p]
<1>1. /\ f \in Frame /\ f.sid \in SessionIds \cup {NoSession}
      /\ sess \in SessionTable /\ hang \in HangingTable /\ queue \in TaskTable
  BY DEF TypeOK, Frame
<1>2. \A kind \in Kinds : Post(hang, kind, f.sid, {}) \in HangingTable
  BY <1>1, PostType
<1>3. "approval" \in Kinds /\ "ask_user" \in Kinds
  BY DEF Kinds, Questions
<1> HIDE DEF f
<1>4. CASE FinalReply(p)
  <2>1. Return(p, f, Complete(sess, f.sid), hang, queue) /\ Quiet
    BY <1>4 DEF FinalReply, f
  <2> QED
    BY <1>1, <2>1, LifecycleType, ReturnStep, QuietStepIsHarmless
<1>5. CASE RunFails(p)
  <2>1. Return(p, f, Fail(sess, f.sid), hang, queue) /\ Quiet
    BY <1>5 DEF RunFails, f
  <2> QED
    BY <1>1, <2>1, LifecycleType, ReturnStep, QuietStepIsHarmless
<1>6. CASE CallTool(p)
  <2> DEFINE g == [f EXCEPT !.pc = "tool"]
  <2>1. g \in Frame /\ g.pc # "classify"
    BY <1>1 DEF Frame, InLoop
  <2>2. Put(p, g) /\ UNCHANGED <<sess, hang, queue>> /\ Quiet
    BY <1>6 DEF CallTool, f
  <2> QED
    BY <2>1, <2>2, MoveStep, QuietStepIsHarmless
<1>7. CASE ToolReturns(p)
  <2> DEFINE next == [f EXCEPT !.iter = @ + 1]
             g == [next EXCEPT !.pc = "final"]
  <2>1. f.iter + 1 \in Nat
    BY <1>1 DEF Frame
  <2>2. next \in Frame
    BY <1>1, <2>1 DEF Frame
  <2>3. g \in Frame /\ g.pc # "classify"
    BY <2>2 DEF Frame, InLoop
  <2>4. /\ Quiet
        /\ \/ BeginRound(p, next, sess, hang, queue)
           \/ Put(p, g) /\ UNCHANGED <<sess, hang, queue>>
    BY <1>7 DEF ToolReturns, f
  <2> HIDE DEF next, g
  <2>5. CASE BeginRound(p, next, sess, hang, queue)
    BY <1>1, <2>2, <2>4, <2>5, BeginRoundStep, QuietStepIsHarmless
  <2>6. CASE Put(p, g) /\ UNCHANGED <<sess, hang, queue>>
    BY <2>3, <2>4, <2>6, MoveStep, QuietStepIsHarmless
  <2> QED
    BY <2>4, <2>5, <2>6
<1>8. CASE AskUser(p)
  <2>1. Return(p, f, WaitUser(sess, f.sid), Post(hang, "ask_user", f.sid, {}), queue) /\ Quiet
    BY <1>8 DEF AskUser, f
  <2> QED
    BY <1>1, <1>2, <1>3, <2>1, LifecycleType, ReturnStep, QuietStepIsHarmless
<1>9. CASE RequestApproval(p)
  <2> DEFINE hh == Post(hang, "approval", f.sid, {})
             g == [f EXCEPT !.pc = "publish"]
  <2>1. hh \in HangingTable
    BY <1>2, <1>3
  <2>2. g \in Frame /\ g.pc # "classify"
    BY <1>1 DEF Frame, InLoop
  <2>3. /\ Quiet
        /\ \/ Return(p, f, WaitUser(sess, f.sid), hh, queue)
           \/ hang' = hh /\ Put(p, g) /\ UNCHANGED <<sess, queue>>
    BY <1>9 DEF RequestApproval, f
  <2> HIDE DEF hh, g
  <2>4. CASE Return(p, f, WaitUser(sess, f.sid), hh, queue)
    BY <1>1, <2>1, <2>3, <2>4, LifecycleType, ReturnStep, QuietStepIsHarmless
  <2>5. CASE hang' = hh /\ Put(p, g) /\ UNCHANGED <<sess, queue>>
    <3>1. StepOf(p, queue)
      BY <1>1, <2>1, <2>2, <2>5 DEF StepOf, Put
    <3> QED
      BY <2>3, <3>1, QuietStepIsHarmless
  <2> QED
    BY <2>3, <2>4, <2>5
<1>10. CASE PublishDrains(p)
  <2>1. Return(p, f, WaitUser(sess, f.sid), hang, queue) /\ Quiet
    BY <1>10 DEF PublishDrains, f
  <2> QED
    BY <1>1, <2>1, LifecycleType, ReturnStep, QuietStepIsHarmless
<1> QED
  BY <1>4, <1>5, <1>6, <1>7, <1>8, <1>9, <1>10 DEF ExecutorStep

-----------------------------------------------------------------------------
(* The tick *)

\* What the tick finds after its sweep has the tables' types.
LEMMA SweptType ==
  ASSUME TypeOK
  PROVE  /\ SweptSess \in SessionTable /\ SweptHang \in HangingTable
         /\ LeftHang \in HangingTable
         /\ StashRow # NoHanging => StashSid \in SessionIds \cup {NoSession}
<1>1. SweptSess \in SessionTable /\ SweptHang \in HangingTable
  BY SweepSessionsType, HangingUpdateType DEF TypeOK, SweptSess, SweptHang
<1>2. LeftHang \in HangingTable
  BY <1>1, HangingUpdateType DEF LeftHang
<1>3. StashRow # NoHanging => StashSid \in SessionIds \cup {NoSession}
  <2>1. StashRow # NoHanging => StashRow \in HangIds
    BY <1>1, NewestPending DEF StashRow
  <2> QED
    BY <1>1, <2>1 DEF StashSid, HangingTable, HangRow
<1> QED
  BY <1>1, <1>2, <1>3

\* The tick goes on with a run it was told to resume.
LEMMA ContinueStep ==
  ASSUME TypeOK, run[Tick].pc # "classify",
         NEW t \in Tasks \cup {NoTask}, NEW s \in SessionIds \cup {NoSession},
         NEW ss \in SessionTable, NEW hh \in HangingTable, Continue(t, s, ss, hh)
  PROVE  StepOf(Tick, queue)
<1>1. CASE BeginRound(Tick, Calling("queue", s, t, FALSE), ss, hh, queue)
  <2>1. Calling("queue", s, t, FALSE) \in Frame
    BY CallingType DEF Caller
  <2> QED
    BY <1>1, <2>1, BeginRoundStep DEF TypeOK
<1>2. CASE sess' = ss /\ hang' = hh /\ UNCHANGED <<queue, run>>
  <2>1. run \in [Procs -> Frame] /\ queue \in TaskTable
    BY DEF TypeOK
  <2>2. run' = [run EXCEPT ![Tick] = run[Tick]] /\ run[Tick] \in Frame
    BY <1>2, <2>1
  <2> QED
    BY <1>2, <2>1, <2>2 DEF StepOf
<1> QED
  BY <1>1, <1>2 DEF Continue

\* The claimed row, if there is one.
LEMMA ClaimedType == Claimed(queue) \subseteq Tasks \cup {NoTask}
BY DEF Claimed, RowsIn

\* The tick's paths other than taking a new row.
LEMMA WakingIsHarmless ==
  ASSUME TypeOK, TickResumesDisplaced \/ TickUnblocksWaiting \/ TickReconciles
  PROVE  Harmless
<1>1. run[Tick].pc # "classify"
  BY DEF TickResumesDisplaced, TickUnblocksWaiting, TickReconciles, NothingToWake, TickReady
<1>2. Tick \in Procs
  OBVIOUS
<1>3. CASE TickResumesDisplaced
  <2>1. /\ StashSid \in SessionIds \cup {NoSession}
        /\ Resume(SweptSess, StashSid) \in SessionTable
        /\ ResolveRow(SweptHang, StashRow) \in HangingTable
    BY <1>3, SweptType, LifecycleType, HangingUpdateType
       DEF TickResumesDisplaced, CanResumeStash
  <2>2. PICK t \in Tasks \cup {NoTask} :
          Continue(t, StashSid, Resume(SweptSess, StashSid), ResolveRow(SweptHang, StashRow))
    BY <1>3, ClaimedType DEF TickResumesDisplaced
  <2>3. StepOf(Tick, queue)
    BY <1>1, <2>1, <2>2, ContinueStep
  <2> QED
    BY <1>2, <1>3, <2>3, QuietStepIsHarmless DEF TickResumesDisplaced
<1>4. CASE TickUnblocksWaiting
  <2> DEFINE s == ResumeWaiting(SweptSess, LeftSid)
  <2>1. s \in SessionIds
    BY <1>4, SweptType, ResumeWaitingType DEF TickUnblocksWaiting, Waiting
  <2>2. ActivateWaiting(SweptSess, s) \in SessionTable /\ LeftHang \in HangingTable
    BY SweptType, LifecycleType
  <2>3. PICK t \in Tasks \cup {NoTask} :
          Continue(t, s, ActivateWaiting(SweptSess, s), LeftHang)
    BY <1>4, ClaimedType DEF TickUnblocksWaiting
  <2> HIDE DEF s
  <2>4. StepOf(Tick, queue)
    BY <1>1, <2>1, <2>2, <2>3, ContinueStep
  <2> QED
    BY <1>2, <1>4, <2>4, QuietStepIsHarmless DEF TickUnblocksWaiting
<1>5. CASE TickReconciles
  <2>1. PICK t \in RowsIn(queue, "running") : queue' = MarkFailed(queue, t) \/ queue' = queue
    BY <1>5 DEF TickReconciles
  <2>2. queue' \in TaskTable /\ RowsIn(queue', "running") \subseteq RowsIn(queue, "running")
    BY <2>1, TaskUpdateType, ClaimsAfterUpdate DEF TypeOK
  <2>3. run \in [Procs -> Frame] /\ run' = run
    BY <1>5 DEF TickReconciles, TypeOK
  <2>4. run' = [run EXCEPT ![Tick] = run[Tick]] /\ run[Tick] \in Frame
    BY <2>3
  <2>5. sess' \in SessionTable /\ hang' \in HangingTable
    BY <1>5, SweptType DEF TickReconciles
  <2>6. StepOf(Tick, queue)
    BY <1>1, <2>2, <2>4, <2>5 DEF StepOf
  <2> QED
    BY <1>2, <1>5, <2>6, QuietStepIsHarmless DEF TickReconciles
<1> QED
  BY <1>3, <1>4, <1>5

\* Reading the next row happens only while no row is claimed.
LEMMA PicksStep ==
  ASSUME TypeOK, TickPicks
  PROVE  TypeOK' /\ RowsIn(queue', "running") = {}
<1> DEFINE t == NextIdle(queue)
           g == [Idle EXCEPT !.pc = "classify", !.task = t]
<1>1. t \in Tasks \cup {NoTask} /\ Idle \in Frame /\ run \in [Procs -> Frame]
  BY NextIdleType, EndedType DEF TypeOK
<1> HIDE DEF t
<1>2. g \in Frame
  BY <1>1 DEF Frame
<1>3. run' = run \/ run' = [run EXCEPT ![Tick] = g]
  BY DEF TickPicks, Put, t
<1> HIDE DEF g
<1>4. run' \in [Procs -> Frame]
  BY <1>1, <1>2, <1>3
<1>5. sess' \in SessionTable /\ hang' \in HangingTable /\ queue' = queue
  BY SweptType DEF TickPicks
<1>6. Quiet
  BY DEF TickPicks
<1>7. TypeOK'
  BY <1>4, <1>5, <1>6, QuietTypes DEF TypeOK
<1> QED
  BY <1>5, <1>7 DEF TickPicks

\* A claim, made after the classifier answered, takes one row at most.
LEMMA ClaimsStep ==
  ASSUME TypeOK, TickClaims
  PROVE  /\ TypeOK' /\ run[Tick].pc = "classify" /\ run'[Tick].pc # "classify"
         /\ \E t : RowsIn(queue', "running") \subseteq RowsIn(queue, "running") \cup {t}
<1> DEFINE t == run[Tick].task
           s == NextSession(sess)
           qq == MarkRunning(queue, t, s)
<1>1. s \in SessionIds /\ t \in Tasks \cup {NoTask}
  BY NextSessionType DEF TickClaims, TypeOK, Frame
<1>2. qq \in TaskTable /\ RowsIn(qq, "running") \subseteq RowsIn(queue, "running") \cup {t}
  BY <1>1, TaskUpdateType, ClaimsAfterUpdate DEF TypeOK
<1>3. PICK tags \in SUBSET Tags :
        \/ BeginRound(Tick, Calling("queue", s, t, FALSE), StartQueue(sess, tags), hang, qq)
        \/ /\ sess' = StartQueue(sess, tags) /\ queue' = qq
           /\ Put(Tick, Idle) /\ UNCHANGED hang
  BY DEF TickClaims
<1>4. StartQueue(sess, tags) \in SessionTable /\ hang \in HangingTable
  BY StartQueueType DEF TypeOK
<1>5. Calling("queue", s, t, FALSE) \in Frame
  BY <1>1, CallingType DEF Caller
<1> HIDE DEF qq, s, t
<1>6. StepOf(Tick, qq)
  <2>1. CASE BeginRound(Tick, Calling("queue", s, t, FALSE), StartQueue(sess, tags), hang, qq)
    BY <1>2, <1>4, <1>5, <2>1, BeginRoundStep
  <2>2. CASE /\ sess' = StartQueue(sess, tags) /\ queue' = qq
             /\ Put(Tick, Idle) /\ UNCHANGED hang
    <3>1. Idle \in Frame /\ Idle.pc # "classify"
      BY EndedType DEF Idle, Ended
    <3> QED
      BY <1>2, <1>4, <2>2, <3>1 DEF StepOf, Put
  <2> QED
    BY <1>3, <2>1, <2>2
<1>7. Quiet /\ run[Tick].pc = "classify"
  BY DEF TickClaims
<1>8. TypeOK' /\ run'[Tick].pc # "classify"
  BY <1>6, <1>7, QuietTypes, StepKeepsTypes
<1> QED
  BY <1>2, <1>6, <1>7, <1>8 DEF StepOf

-----------------------------------------------------------------------------
(* Owner messages *)

\* A message's coroutine is not the tick.
LEMMA MessageIsNoTick == ASSUME NEW m \in Messages PROVE m \in Procs /\ m # Tick
BY ExecutorAssumption

\* A message that is over leaves its last word on the tables.
LEMMA EndStep ==
  ASSUME TypeOK, NEW m \in Messages, End(m),
         sess' \in SessionTable, hang' \in HangingTable, queue' = queue
  PROVE  StepOf(m, queue)
<1>1. Ended \in Frame /\ m # Tick
  BY EndedType, MessageIsNoTick
<1> QED
  BY <1>1 DEF End, Put, StepOf, TypeOK

\* The sessions of a crash are resumed one after another.
LEMMA NextCrashedStep ==
  ASSUME TypeOK, NEW m \in Messages, NEW ss \in SessionTable, NEW hh \in HangingTable,
         NEW todo \in SUBSET SessionIds, NextCrashed(m, ss, hh, todo)
  PROVE  StepOf(m, queue)
<1> DEFINE left == {s \in todo : Resumable(ss, s)}
           s    == CHOOSE s \in left : \A r \in left : s >= r
           f    == [Calling("crash", s, NoTask, FALSE) EXCEPT !.todo = {r \in todo : r < s}]
<1>1. CASE left = {}
  BY <1>1, EndStep DEF NextCrashed
<1>2. CASE left # {}
  <2>1. \E x \in left : \A r \in left : x >= r
    BY <1>2, NewestSession
  <2>2. s \in SessionIds
    BY <2>1
  <2>3. Calling("crash", s, NoTask, FALSE) \in Frame
    BY <2>2, CallingType DEF Caller
  <2>4. {r \in todo : r < s} \in SUBSET SessionIds
    OBVIOUS
  <2>5. BeginRound(m, f, Resume(ss, s), hh, queue)
    BY <1>2 DEF NextCrashed
  <2> HIDE DEF s
  <2>6. f \in Frame
    BY <2>3, <2>4 DEF Frame
  <2> HIDE DEF f
  <2>7. Resume(ss, s) \in SessionTable /\ queue \in TaskTable
    BY LifecycleType DEF TypeOK
  <2> QED
    BY <2>5, <2>6, <2>7, MessageIsNoTick, BeginRoundStep
<1> QED
  BY <1>1, <1>2

\* A handler that ends with a reply.
LEMMA SendingStep ==
  ASSUME TypeOK, NEW m \in Messages, NEW s \in SessionIds \cup {NoSession},
         Put(m, Sending(s, {})),
         sess' \in SessionTable, hang' \in HangingTable, queue' = queue
  PROVE  StepOf(m, queue)
<1>1. Sending(s, {}) \in Frame /\ m # Tick
  BY SendingType, MessageIsNoTick
<1> QED
  BY <1>1 DEF Put, StepOf, TypeOK

\* A message that answers nothing goes on to the classifier.
LEMMA NotAnAnswerStep ==
  ASSUME TypeOK, NEW m \in Messages, NEW ss \in SessionTable, NEW hh \in HangingTable,
         NotAnAnswer(m, ss, hh)
  PROVE  StepOf(m, queue) /\ approved' \in [HangIds -> Nat]
<1> DEFINE g == [Ended EXCEPT !.pc = "classify"]
<1>1. Ended \in Frame /\ m # Tick
  BY EndedType, MessageIsNoTick
<1>2. g \in Frame
  BY <1>1 DEF Frame
<1>3. /\ sess' = ss /\ hang' = hh /\ queue' = queue /\ approved' = approved
      /\ run' = [run EXCEPT ![m] = g]
  BY DEF NotAnAnswer, Put
<1> HIDE DEF g
<1> QED
  BY <1>1, <1>2, <1>3 DEF StepOf, TypeOK

\* An answer is handed to the session that asked.
LEMMA DispatchStep ==
  ASSUME TypeOK, NEW m \in Messages, NEW h \in HangIds, NEW text,
         NEW ss \in SessionTable, NEW hh \in HangingTable, Dispatch(m, h, text, ss, hh)
  PROVE  StepOf(m, queue) /\ approved' \in [HangIds -> Nat]
<1> DEFINE sid == hh[h].sid
<1>1. sid \in SessionIds \cup {NoSession} /\ hh[h].sids \in SUBSET SessionIds
  BY DEF HangingTable, HangRow
<1>2. ResolveRow(hh, h) \in HangingTable
  BY HangingUpdateType
<1>3. Resume(ss, sid) \in SessionTable /\ Cancel(Resume(ss, sid), sid) \in SessionTable
  BY LifecycleType
<1>4. approved \in [HangIds -> Nat] /\ queue \in TaskTable
  BY DEF TypeOK
<1> HIDE DEF sid
<1>5. CASE Approve(m, h, ss, hh)
  <2> DEFINE g == [Ended EXCEPT !.pc = "approved", !.sid = sid]
  <2>1. Ended \in Frame /\ m # Tick
    BY EndedType, MessageIsNoTick
  <2>2. g \in Frame
    BY <1>1, <2>1 DEF Frame
  <2>3. /\ sess' = Resume(ss, sid) /\ hang' = ResolveRow(hh, h) /\ queue' = queue
        /\ approved' = [approved EXCEPT ![h] = @ + 1] /\ run' = [run EXCEPT ![m] = g]
    BY <1>5 DEF Approve, Put, sid
  <2> HIDE DEF g
  <2>4. StepOf(m, queue)
    BY <1>2, <1>3, <1>4, <2>1, <2>2, <2>3 DEF StepOf
  <2>5. approved[h] + 1 \in Nat
    BY <1>4
  <2>6. approved' \in [HangIds -> Nat]
    BY <1>4, <2>3, <2>5
  <2> QED
    BY <2>4, <2>6
<1>6. CASE Decline(m, h, ss, hh)
  <2>1. /\ sess' = Cancel(Resume(ss, sid), sid) /\ hang' = ResolveRow(hh, h)
        /\ Put(m, Sending(sid, {})) /\ UNCHANGED <<queue, approved>>
    BY <1>6 DEF Decline, sid
  <2> QED
    BY <1>1, <1>2, <1>3, <1>4, <2>1, SendingStep
<1>7. CASE ResumeCrashed(m, h, ss, hh)
  <2>1. NextCrashed(m, ss, ResolveRow(hh, h), hh[h].sids) /\ approved' = approved
    BY <1>7 DEF ResumeCrashed
  <2> QED
    BY <1>1, <1>2, <1>4, <2>1, NextCrashedStep
<1>8. CASE DropCrashed(m, h, ss, hh)
  <2>1. \A s \in SessionIds : ss[s] \in Session /\ [ss[s] EXCEPT !.st = "cancelled"] \in Session
    BY DEF SessionTable, Session, Status, Terminal
  <2>2. [s \in SessionIds |->
           IF s \in hh[h].sids THEN [ss[s] EXCEPT !.st = "cancelled"] ELSE ss[s]] \in SessionTable
    BY <2>1 DEF SessionTable
  <2>3. sess' \in SessionTable
    BY <1>8, <2>2 DEF DropCrashed
  <2>4. hang' = ResolveRow(hh, h) /\ End(m) /\ UNCHANGED <<queue, approved>>
    BY <1>8 DEF DropCrashed
  <2> QED
    BY <1>2, <1>4, <2>3, <2>4, EndStep
<1>9. CASE NotAnAnswer(m, ss, hh)
  BY <1>9, NotAnAnswerStep
<1>10. CASE Answer(m, h, ss, hh)
  <2> DEFINE f == Calling("answer", sid, NoTask, FALSE)
  <2>1. f \in Frame
    BY <1>1, CallingType DEF Caller
  <2>2. BeginRound(m, f, Resume(ss, sid), ResolveRow(hh, h), queue) /\ approved' = approved
    BY <1>10 DEF Answer, sid
  <2> HIDE DEF f
  <2> QED
    BY <1>2, <1>3, <1>4, <2>1, <2>2, MessageIsNoTick, BeginRoundStep
<1> QED
  BY <1>5, <1>6, <1>7, <1>8, <1>9, <1>10 DEF Dispatch

\* The types of what a message handler that starts or stops nothing leaves alone.
LEMMA HandlerIsHarmless ==
  ASSUME TypeOK, NEW m \in Messages, StepOf(m, queue), approved' \in [HangIds -> Nat],
         bound' \subseteq SessionIds, frozen' \in BOOLEAN, UNCHANGED hostVars
  PROVE  Harmless
<1>1. up' \in BOOLEAN /\ clean' \in BOOLEAN /\ faults' \in 0..MaxFaults
  BY DEF hostVars, TypeOK
<1> QED
  BY <1>1, MessageIsNoTick, StepIsHarmless

\* A message arrives, up to its first await.
LEMMA ArrivalIsHarmless ==
  ASSUME TypeOK, NEW m \in Messages, MessageArrives(m)
  PROVE  Harmless
<1>1. /\ approved \in [HangIds -> Nat] /\ bound \subseteq SessionIds /\ frozen \in BOOLEAN
      /\ sess \in SessionTable /\ hang \in HangingTable /\ queue \in TaskTable
  BY DEF TypeOK
<1>2. CASE StopPhrase(m) \/ ResumePhrase(m)
  <2>1. /\ frozen' \in BOOLEAN /\ End(m)
        /\ UNCHANGED <<sess, hang, queue, bound, approved, hostVars>>
    BY <1>2 DEF StopPhrase, ResumePhrase
  <2>2. StepOf(m, queue)
    BY <1>1, <2>1, EndStep
  <2> QED
    BY <1>1, <2>1, <2>2, HandlerIsHarmless
<1>3. CASE Route(m)
  <2> DEFINE ss    == SweepSessions(sess, hang, Questions)
             hh    == SweepRows(hang, Questions)
             items == Pending(hh, Questions)
  <2>1. ss \in SessionTable /\ hh \in HangingTable
    BY <1>1, SweepSessionsType, HangingUpdateType
  <2>2. items \subseteq HangIds
    BY DEF Pending
  <2>3. \/ NotAnAnswer(m, ss, hh)
        \/ \E h \in items, text \in {"plain", "yes", "no"} : Dispatch(m, h, text, ss, hh)
        \/ \E text \in {"plain", "yes", "no"} :
             /\ sess' = ss /\ hang' = hh
             /\ Put(m, [Ended EXCEPT !.pc = "routing", !.hids = items, !.text = text])
             /\ UNCHANGED <<queue, approved>>
    BY <1>3 DEF Route
  <2>4. UNCHANGED <<frozen, bound, hostVars>>
    BY <1>3 DEF Route
  <2> HIDE DEF ss, hh, items
  <2>5. CASE NotAnAnswer(m, ss, hh)
    <3>1. StepOf(m, queue) /\ approved' \in [HangIds -> Nat]
      BY <2>1, <2>5, NotAnAnswerStep
    <3> QED
      BY <1>1, <2>4, <3>1, HandlerIsHarmless
  <2>6. CASE \E h \in items, text \in {"plain", "yes", "no"} : Dispatch(m, h, text, ss, hh)
    <3>1. StepOf(m, queue) /\ approved' \in [HangIds -> Nat]
      BY <2>1, <2>2, <2>6, DispatchStep
    <3> QED
      BY <1>1, <2>4, <3>1, HandlerIsHarmless
  <2>7. ASSUME NEW text \in {"plain", "yes", "no"},
               sess' = ss, hang' = hh, UNCHANGED <<queue, approved>>,
               Put(m, [Ended EXCEPT !.pc = "routing", !.hids = items, !.text = text])
        PROVE  Harmless
    <3> DEFINE g == [Ended EXCEPT !.pc = "routing", !.hids = items, !.text = text]
    <3>1. Ended \in Frame /\ m # Tick
      BY EndedType, MessageIsNoTick
    <3>2. g \in Frame
      BY <2>2, <3>1 DEF Frame
    <3>3. run' = [run EXCEPT ![m] = g]
      BY <2>7 DEF Put
    <3> HIDE DEF g
    <3>4. StepOf(m, queue)
      BY <1>1, <2>1, <2>7, <3>1, <3>2, <3>3 DEF StepOf
    <3> QED
      BY <1>1, <2>4, <2>7, <3>4, HandlerIsHarmless
  <2> QED
    BY <2>3, <2>5, <2>6, <2>7
<1> QED
  BY <1>2, <1>3 DEF MessageArrives

\* Every later step of a message is harmless.
LEMMA MessageStepIsHarmless ==
  ASSUME TypeOK, NEW m \in Messages, MessageStep(m)
  PROVE  Harmless
<1>1. /\ approved \in [HangIds -> Nat] /\ bound \subseteq SessionIds /\ frozen \in BOOLEAN
      /\ sess \in SessionTable /\ hang \in HangingTable /\ queue \in TaskTable
  BY DEF TypeOK
<1>2. /\ run[m] \in Frame /\ run[m].sid \in SessionIds \cup {NoSession}
      /\ run[m].hids \subseteq HangIds /\ run[m].todo \in SUBSET SessionIds
      /\ run[m].gated \in BOOLEAN
  BY DEF TypeOK, Frame
<1>3. m \in Procs /\ m # Tick /\ Ended \in Frame
  BY MessageIsNoTick, EndedType
<1>4. CASE Routed(m)
  <2>1. UNCHANGED <<frozen, bound, hostVars>>
    BY <1>4 DEF Routed
  <2>2. StepOf(m, queue) /\ approved' \in [HangIds -> Nat]
    <3>1. CASE \E h \in run[m].hids : Dispatch(m, h, run[m].text, sess, hang)
      BY <1>1, <1>2, <3>1, DispatchStep
    <3>2. CASE End(m) /\ UNCHANGED <<sess, hang, queue, approved>>
      BY <1>1, <3>2, EndStep
    <3> QED
      BY <1>4, <3>1, <3>2 DEF Routed
  <2> QED
    BY <1>1, <2>1, <2>2, HandlerIsHarmless
<1>5. CASE Classified(m)
  <2> DEFINE talk == [Calling("simple", NoSession, NoTask, frozen) EXCEPT !.pc = "llm"]
             plan == [Ended EXCEPT !.pc = "plan", !.gated = frozen]
  <2>1. Calling("simple", NoSession, NoTask, frozen) \in Frame
    BY <1>1, CallingType DEF Caller
  <2>2. talk \in Frame
    BY <2>1 DEF Frame, InLoop
  <2>3. plan \in Frame
    BY <1>1, <1>3 DEF Frame
  <2>4. \/ Put(m, Ended) \/ Put(m, talk) \/ Put(m, plan)
    BY <1>5 DEF Classified, End
  <2>5. UNCHANGED <<sess, hang, queue>> /\ Quiet
    BY <1>5 DEF Classified
  <2> HIDE DEF talk, plan
  <2>6. StepOf(m, queue)
    BY <1>3, <2>2, <2>3, <2>4, <2>5, MoveStep
  <2> QED
    BY <1>3, <2>5, <2>6, QuietStepIsHarmless
<1>6. CASE Planned(m)
  <2> DEFINE f == Calling("deep", NextSession(sess), NoTask, run[m].gated)
  <2>1. NextSession(sess) \in SessionIds
    BY <1>1, <1>6, NextSessionType DEF Planned
  <2>2. f \in Frame
    BY <1>2, <2>1, CallingType DEF Caller
  <2>3. PICK tags \in SUBSET Tags : BeginRound(m, f, StartChat(sess, tags), hang, queue)
    BY <1>6 DEF Planned
  <2>4. StartChat(sess, tags) \in SessionTable /\ Quiet
    BY <1>1, <1>6, StartChatType DEF Planned
  <2> HIDE DEF f
  <2>5. StepOf(m, queue)
    BY <1>1, <1>3, <2>2, <2>3, <2>4, BeginRoundStep
  <2> QED
    BY <1>3, <2>4, <2>5, QuietStepIsHarmless
<1>7. CASE Reflected(m)
  <2> DEFINE f == [run[m] EXCEPT !.caller = "retry"]
  <2>1. f \in Frame
    BY <1>2 DEF Frame, Caller
  <2>2. /\ Quiet
        /\ \/ BeginRound(m, f, Resume(sess, run[m].sid), hang, queue)
           \/ Put(m, Sending(run[m].sid, {})) /\ UNCHANGED <<sess, hang, queue>>
    BY <1>7 DEF Reflected
  <2> HIDE DEF f
  <2>3. CASE BeginRound(m, f, Resume(sess, run[m].sid), hang, queue)
    <3>1. StepOf(m, queue)
      BY <1>1, <1>3, <2>1, <2>3, LifecycleType, BeginRoundStep
    <3> QED
      BY <1>3, <2>2, <3>1, QuietStepIsHarmless
  <2>4. CASE Put(m, Sending(run[m].sid, {})) /\ UNCHANGED <<sess, hang, queue>>
    <3>1. StepOf(m, queue)
      BY <1>1, <1>2, <2>4, SendingStep
    <3> QED
      BY <1>3, <2>2, <3>1, QuietStepIsHarmless
  <2> QED
    BY <2>2, <2>3, <2>4
<1>8. CASE ApprovedToolEnds(m)
  <2>1. /\ sess' \in SessionTable /\ Put(m, Sending(run[m].sid, {}))
        /\ UNCHANGED <<hang, queue>> /\ Quiet
    BY <1>1, <1>8, LifecycleType DEF ApprovedToolEnds
  <2>2. StepOf(m, queue)
    BY <1>1, <1>2, <2>1, SendingStep
  <2> QED
    BY <1>3, <2>1, <2>2, QuietStepIsHarmless
<1>9. CASE Sent(m)
  <2>1. /\ bound' = bound \cup ({run[m].sid} \ {NoSession})
        /\ NextCrashed(m, sess, hang, run[m].todo)
        /\ UNCHANGED <<frozen, approved, hostVars>>
    BY <1>9 DEF Sent
  <2>2. bound' \subseteq SessionIds
    BY <1>1, <1>2, <2>1
  <2>3. StepOf(m, queue)
    BY <1>1, <1>2, <2>1, NextCrashedStep
  <2> QED
    BY <1>1, <2>1, <2>2, <2>3, HandlerIsHarmless
<1>10. CASE ExecutorStep(m)
  BY <1>3, <1>10, ExecutorIsHarmless
<1> QED
  BY <1>4, <1>5, <1>6, <1>7, <1>8, <1>9, <1>10 DEF MessageStep

-----------------------------------------------------------------------------
(* Crashes, restarts and the clock *)

\* The faults are counted within their bound.
LEMMA FaultType == ASSUME TypeOK, Fault PROVE faults' \in 0..MaxFaults
BY AgentCoreAssumption DEF TypeOK, Fault

\* Whatever the tables were left like, a halt is harmless if it claims nothing.
LEMMA HaltIsHarmless ==
  ASSUME TypeOK, NEW flag \in BOOLEAN, Halt(flag),
         sess' \in SessionTable, hang' \in HangingTable, queue' = queue
  PROVE  Harmless
<1>1. Ended \in Frame /\ Fresh \in Frame /\ Idle \in Frame
  BY EndedType
<1>2. run' = [p \in Procs |-> IF p = Tick THEN Idle
                              ELSE IF run[p].pc = "new" THEN Fresh ELSE Ended]
  BY DEF Halt
<1>3. run' \in [Procs -> Frame] /\ run'[Tick] = Idle
  BY <1>1, <1>2
<1>4. Idle.pc # "classify"
  BY DEF Idle, Ended
<1>5. /\ up' = FALSE /\ clean' = flag /\ faults' \in 0..MaxFaults
      /\ UNCHANGED <<frozen, bound, approved>>
  BY FaultType DEF Halt
<1>6. TypeOK'
  BY <1>3, <1>5 DEF TypeOK
<1> QED
  BY <1>3, <1>4, <1>6 DEF Harmless

\* Every way to die is harmless, between two writes too.
LEMMA DyingIsHarmless ==
  ASSUME TypeOK, Crash \/ Shutdown \/ TornStep
  PROVE  Harmless
<1>1. /\ sess \in SessionTable /\ hang \in HangingTable /\ queue \in TaskTable
      /\ \A p \in Procs : run[p].sid \in SessionIds \cup {NoSession}
  BY DEF TypeOK, Frame
<1>2. \A ss \in SessionTable, hh \in HangingTable : Die(ss, hh, queue) => Harmless
  BY HaltIsHarmless DEF Die
<1>3. CASE Crash
  BY <1>1, <1>2, <1>3 DEF Crash
<1>4. CASE Shutdown
  BY <1>1, <1>4, HaltIsHarmless DEF Shutdown
<1>5. ASSUME NEW p \in Procs, TornAsk(p) PROVE Harmless
  BY <1>1, <1>2, <1>5, LifecycleType DEF TornAsk
<1>6. ASSUME NEW p \in Procs, TornApproval(p) PROVE Harmless
  <2>1. Post(hang, "approval", run[p].sid, {}) \in HangingTable
    BY <1>1, PostType DEF Kinds, Questions
  <2> QED
    BY <1>1, <1>2, <1>6, <2>1 DEF TornApproval
<1>7. ASSUME NEW h \in HangIds, TornAnswer(h) PROVE Harmless
  BY <1>1, <1>2, <1>7, HangingUpdateType DEF TornAnswer
<1>8. CASE TornSettle
  BY <1>1, <1>2, <1>8, LifecycleType DEF TornSettle
<1>9. CASE TornClaim
  BY <1>1, <1>2, <1>9, StartQueueType DEF TornClaim
<1> QED
  BY <1>3, <1>4, <1>5, <1>6, <1>7, <1>8, <1>9 DEF TornStep

\* Recovery gives claims of orphans back and takes none.
LEMMA RecoveredType ==
  ASSUME TypeOK
  PROVE  /\ RecoveredSess \in SessionTable /\ RecoveredQueue \in TaskTable
         /\ AskToContinue \in HangingTable
         /\ RowsIn(RecoveredQueue, "running") \subseteq RowsIn(queue, "running")
<1>1. sess \in SessionTable /\ hang \in HangingTable /\ queue \in TaskTable
  BY DEF TypeOK
<1>2. \A s \in SessionIds :
        /\ sess[s] \in Session
        /\ [sess[s] EXCEPT !.st = "cancelled"] \in Session
        /\ [sess[s] EXCEPT !.st = "paused"] \in Session
  BY <1>1 DEF SessionTable, Session, Status, Terminal, Blocked
<1>3. RecoveredSess \in SessionTable
  BY <1>2 DEF RecoveredSess, SessionTable
<1>4. \A t \in Tasks : queue[t] \in Row /\ Requeue(queue, t)[t] \in Row
  BY <1>1, TaskUpdateType DEF TaskTable
<1>5. RecoveredQueue \in TaskTable
  BY <1>4 DEF RecoveredQueue, TaskTable
<1>6. RowsIn(RecoveredQueue, "running") \subseteq RowsIn(queue, "running")
  BY DEF RowsIn, RecoveredQueue
<1>7. AskToContinue \in HangingTable
  <2> DEFINE orphans == ChatActives(sess)
             s == IF Cardinality(orphans) = 1 THEN CHOOSE x \in orphans : TRUE ELSE NoSession
  <2>1. orphans \subseteq SessionIds
    BY DEF ChatActives, Active
  <2>2. CASE orphans = {}
    BY <1>1, <2>2 DEF AskToContinue
  <2>3. CASE orphans # {}
    <3>1. s \in SessionIds \cup {NoSession}
      BY <2>1, <2>3
    <3>2. AskToContinue = Post(hang, "crash_resume", s, orphans)
      BY <2>3 DEF AskToContinue
    <3>3. "crash_resume" \in Kinds
      BY DEF Kinds, Questions
    <3> HIDE DEF s, orphans
    <3> QED
      BY <1>1, <2>1, <3>1, <3>2, <3>3, PostType
  <2> QED
    BY <2>2, <2>3
<1> QED
  BY <1>3, <1>5, <1>6, <1>7

\* So is the recovery after it.
LEMMA RecoveryIsHarmless ==
  ASSUME TypeOK, Restart \/ TornRecovery
  PROVE  Harmless
<1>1. CASE Restart
  <2>1. /\ sess' \in SessionTable /\ hang' \in HangingTable /\ queue' \in TaskTable
        /\ RowsIn(queue', "running") \subseteq RowsIn(queue, "running")
    BY <1>1, RecoveredType DEF Restart, TypeOK
  <2>2. /\ up' = TRUE /\ clean' = FALSE
        /\ UNCHANGED <<frozen, run, bound, approved, faults>>
    BY <1>1 DEF Restart
  <2>3. TypeOK'
    BY <2>1, <2>2 DEF TypeOK
  <2> QED
    BY <2>1, <2>2, <2>3 DEF Harmless
<1>2. CASE TornRecovery
  <2>1. /\ sess' \in SessionTable /\ queue' \in TaskTable
        /\ RowsIn(queue', "running") \subseteq RowsIn(queue, "running")
    BY <1>2, RecoveredType DEF TornRecovery
  <2>2. faults' \in 0..MaxFaults /\ UNCHANGED <<hang, frozen, run, bound, approved, up, clean>>
    BY <1>2, FaultType DEF TornRecovery
  <2>3. TypeOK'
    BY <2>1, <2>2 DEF TypeOK
  <2> QED
    BY <2>1, <2>2, <2>3 DEF Harmless
<1> QED
  BY <1>1, <1>2

\* A new row is pending, not claimed.
LEMMA AddingIsHarmless ==
  ASSUME TypeOK, AgendaAddsTask \/ \E p \in Procs : ToolAddsTask(p)
  PROVE  Harmless
<1>1. PICK t \in Tasks : queue' = AddRow(queue, t)
  BY DEF AgendaAddsTask, ToolAddsTask, RowsIn
<1>2. queue' \in TaskTable /\ RowsIn(queue', "running") \subseteq RowsIn(queue, "running")
  BY <1>1, TaskUpdateType, ClaimsAfterUpdate DEF TypeOK
<1>3. UNCHANGED <<sess, hang, frozen, run, bound, approved, up, clean, faults>>
  BY DEF AgendaAddsTask, ToolAddsTask, hostVars
<1>4. TypeOK'
  BY <1>2, <1>3 DEF TypeOK
<1> QED
  BY <1>2, <1>3, <1>4 DEF Harmless

\* An hour expires questions; a cancelled row gives its claim back.
LEMMA ClockAndCancelAreHarmless ==
  ASSUME TypeOK, HourPasses \/ \E p \in Procs : ToolCancelsTask(p)
  PROVE  Harmless
<1>1. CASE HourPasses
  <2>1. \A h \in HangIds : hang[h] \in HangRow /\ [hang[h] EXCEPT !.st = "stale"] \in HangRow
    BY DEF TypeOK, HangingTable, HangRow
  <2>2. hang' \in HangingTable
    BY <1>1, <2>1 DEF HourPasses, HangingTable
  <2>3. faults' \in 0..MaxFaults
    BY <1>1, FaultType DEF HourPasses
  <2>4. UNCHANGED <<sess, queue, frozen, run, bound, approved, up, clean>>
    BY <1>1 DEF HourPasses
  <2>5. TypeOK'
    BY <2>2, <2>3, <2>4 DEF TypeOK
  <2> QED
    BY <2>4, <2>5 DEF Harmless
<1>2. ASSUME NEW p \in Procs, ToolCancelsTask(p) PROVE Harmless
  <2>1. PICK t \in Tasks : queue' = CancelRow(queue, t)
    BY <1>2 DEF ToolCancelsTask, RowsIn
  <2>2. queue' \in TaskTable /\ RowsIn(queue', "running") \subseteq RowsIn(queue, "running")
    BY <2>1, TaskUpdateType, ClaimsAfterUpdate DEF TypeOK
  <2>3. faults' \in 0..MaxFaults
    BY <1>2, FaultType DEF ToolCancelsTask
  <2>4. UNCHANGED <<sess, hang, frozen, run, bound, approved, up, clean>>
    BY <1>2 DEF ToolCancelsTask
  <2>5. TypeOK'
    BY <2>2, <2>3, <2>4 DEF TypeOK
  <2> QED
    BY <2>2, <2>4, <2>5 DEF Harmless
<1> QED
  BY <1>1, <1>2

-----------------------------------------------------------------------------
\* The first start.
LEMMA InitType == Init => TypeOK
<1> SUFFICES ASSUME Init PROVE TypeOK
  OBVIOUS
<1>1. sess \in SessionTable
  BY DEF Init, EmptySessions, NoRow, SessionTable, Session, Status
<1>2. hang \in HangingTable
  BY DEF Init, EmptyHanging, HangingTable, HangRow, Kinds, Questions
<1>3. queue \in TaskTable
  BY DEF Init, FreshQueue, TaskTable, Row
<1>4. run \in [Procs -> Frame]
  BY EndedType DEF Init
<1>5. approved \in [HangIds -> Nat]
  BY DEF Init
<1>6. faults \in 0..MaxFaults
  BY AgentCoreAssumption DEF Init
<1>7. bound \subseteq SessionIds /\ frozen \in BOOLEAN /\ up \in BOOLEAN /\ clean \in BOOLEAN
  BY DEF Init
<1> QED
  BY <1>1, <1>2, <1>3, <1>4, <1>5, <1>6, <1>7 DEF TypeOK

\* A step claims nothing and stays out of the classifier, or is one of the two
\* that take a new row: read while none is claimed, claimed when classified.
LEMMA StepCases ==
  ASSUME TypeOK, [Next]_vars
  PROVE  /\ TypeOK'
         /\ \/ Harmless
            \/ TickPicks /\ RowsIn(queue', "running") = {}
            \/ /\ run[Tick].pc = "classify" /\ run'[Tick].pc # "classify"
               /\ \E t : RowsIn(queue', "running") \subseteq RowsIn(queue, "running") \cup {t}
<1>1. CASE TickStep
  <2>1. CASE TickResumesDisplaced \/ TickUnblocksWaiting \/ TickReconciles
    BY <2>1, WakingIsHarmless DEF Harmless
  <2>2. CASE TickPicks
    BY <2>2, PicksStep
  <2>3. CASE TickClaims
    BY <2>3, ClaimsStep
  <2>4. CASE ExecutorStep(Tick)
    BY <2>4, ExecutorIsHarmless DEF Harmless
  <2> QED
    BY <1>1, <2>1, <2>2, <2>3, <2>4 DEF TickStep
<1>2. ASSUME NEW m \in Messages, MessageArrives(m) \/ MessageStep(m)
      PROVE  Harmless
  BY <1>2, ArrivalIsHarmless, MessageStepIsHarmless
<1>3. CASE HourPasses \/ \E p \in Procs : ToolCancelsTask(p)
  BY <1>3, ClockAndCancelAreHarmless DEF Harmless
<1>4. CASE Crash \/ Shutdown \/ TornStep
  BY <1>4, DyingIsHarmless DEF Harmless
<1>5. CASE Restart \/ TornRecovery
  BY <1>5, RecoveryIsHarmless DEF Harmless
<1>6. CASE UNCHANGED vars
  BY <1>6 DEF vars, hostVars, TypeOK, Harmless
<1>7. CASE AgendaAddsTask \/ \E p \in Procs : ToolAddsTask(p)
  BY <1>7, AddingIsHarmless DEF Harmless
<1> QED
  BY <1>1, <1>2, <1>3, <1>4, <1>5, <1>6, <1>7 DEF Next, Harmless

\* Every table row, coroutine and flag keeps its shape through every
\* interleaving, crash and recovery.
THEOREM TypeCorrect == Spec => []TypeOK
<1>1. Init => TypeOK
  BY InitType
<1>2. TypeOK /\ [Next]_vars => TypeOK'
  BY StepCases
<1> QED
  BY <1>1, <1>2, PTL DEF Spec

\* ClaimInv is inductive once the types are known.
LEMMA ClaimInvStep == TypeOK /\ ClaimInv /\ [Next]_vars => ClaimInv'
<1> SUFFICES ASSUME TypeOK, ClaimInv, [Next]_vars PROVE ClaimInv'
  OBVIOUS
<1>1. \A t, u \in RowsIn(queue, "running") : t = u
  BY DEF ClaimInv, SingleClaim, RowsIn
<1>2. SingleClaim' <=> \A t, u \in RowsIn(queue', "running") : t = u
  BY DEF SingleClaim, RowsIn
<1>3. CASE Harmless
  BY <1>1, <1>2, <1>3 DEF ClaimInv, Harmless, RowsIn
<1>4. CASE TickPicks /\ RowsIn(queue', "running") = {}
  BY <1>2, <1>4 DEF ClaimInv, RowsIn
<1>5. CASE /\ run[Tick].pc = "classify" /\ run'[Tick].pc # "classify"
           /\ \E t : RowsIn(queue', "running") \subseteq RowsIn(queue, "running") \cup {t}
  <2>1. RowsIn(queue, "running") = {}
    BY <1>5 DEF ClaimInv
  <2> QED
    BY <1>2, <1>5, <2>1 DEF ClaimInv
<1> QED
  BY <1>3, <1>4, <1>5, StepCases

\* However the tick, Lin's messages, crashes and recoveries interleave, at most
\* one row is claimed, and none while the tick is classifying the next one.
THEOREM OneClaimWithReason == Spec => []ClaimInv
<1>1. Init => ClaimInv
  BY DEF Init, ClaimInv, SingleClaim, FreshQueue, RowsIn, Idle, Ended
<1>2. TypeOK /\ ClaimInv /\ [Next]_vars => ClaimInv'
  BY ClaimInvStep
<1> QED
  BY <1>1, <1>2, TypeCorrect, PTL DEF Spec

\* The queue never has two claimed rows, so queue_get_running()'s unordered
\* LIMIT 1 always finds the claimed one.
THEOREM OneClaim == Spec => []SingleClaim
<1>1. ClaimInv => SingleClaim
  BY DEF ClaimInv
<1> QED
  BY <1>1, OneClaimWithReason, PTL

-----------------------------------------------------------------------------
(* The tick is WorkQueue's worker: AgentCore implements it, step by step,  *)
(* under every fault.                                                      *)

StatusOf(qq) == [t \in Tasks |-> qq[t].st]
TriesOf(qq)  == [t \in Tasks |-> qq[t].retries]

\* What each update of the table is to a queue of statuses and counts.
LEMMA UpdatesMapped ==
  ASSUME NEW qq \in TaskTable, NEW t \in Tasks, NEW s \in SessionIds \cup {NoSession}
  PROVE  /\ StatusOf(AddRow(qq, t)) = [StatusOf(qq) EXCEPT ![t] = "pending"]
         /\ StatusOf(CancelRow(qq, t)) = [StatusOf(qq) EXCEPT ![t] = "cancelled"]
         /\ StatusOf(Requeue(qq, t)) = [StatusOf(qq) EXCEPT ![t] = "pending"]
         /\ StatusOf(MarkRunning(qq, t, s)) = [StatusOf(qq) EXCEPT ![t] = "running"]
         /\ StatusOf(MarkDone(qq, t)) = [StatusOf(qq) EXCEPT ![t] = "done"]
         /\ StatusOf(MarkFailed(qq, t)) =
              [StatusOf(qq) EXCEPT ![t] = IF TriesOf(qq)[t] + 1 > MaxRetries THEN "failed" ELSE "pending"]
         /\ TriesOf(MarkFailed(qq, t)) = [TriesOf(qq) EXCEPT ![t] = @ + 1]
         /\ \A new \in {AddRow(qq, t), CancelRow(qq, t), Requeue(qq, t),
                        MarkRunning(qq, t, s), MarkDone(qq, t)} : TriesOf(new) = TriesOf(qq)
<1>1. \A u \in Tasks : qq[u] \in Row
  BY DEF TaskTable
<1>2. /\ StatusOf(AddRow(qq, t)) = [StatusOf(qq) EXCEPT ![t] = "pending"]
      /\ TriesOf(AddRow(qq, t)) = TriesOf(qq)
  BY <1>1 DEF StatusOf, TriesOf, AddRow, TaskTable, Row
<1>3. /\ StatusOf(CancelRow(qq, t)) = [StatusOf(qq) EXCEPT ![t] = "cancelled"]
      /\ TriesOf(CancelRow(qq, t)) = TriesOf(qq)
  BY <1>1 DEF StatusOf, TriesOf, CancelRow, TaskTable, Row
<1>4. /\ StatusOf(Requeue(qq, t)) = [StatusOf(qq) EXCEPT ![t] = "pending"]
      /\ TriesOf(Requeue(qq, t)) = TriesOf(qq)
  BY <1>1 DEF StatusOf, TriesOf, Requeue, TaskTable, Row
<1>5. /\ StatusOf(MarkRunning(qq, t, s)) = [StatusOf(qq) EXCEPT ![t] = "running"]
      /\ TriesOf(MarkRunning(qq, t, s)) = TriesOf(qq)
  BY <1>1 DEF StatusOf, TriesOf, MarkRunning, TaskTable, Row
<1>6. /\ StatusOf(MarkDone(qq, t)) = [StatusOf(qq) EXCEPT ![t] = "done"]
      /\ TriesOf(MarkDone(qq, t)) = TriesOf(qq)
  BY <1>1 DEF StatusOf, TriesOf, MarkDone, TaskTable, Row
<1>7. StatusOf(MarkFailed(qq, t)) =
        [StatusOf(qq) EXCEPT ![t] = IF TriesOf(qq)[t] + 1 > MaxRetries THEN "failed" ELSE "pending"]
  BY <1>1 DEF StatusOf, TriesOf, MarkFailed, Exhausted, TaskTable, Row
<1>8. TriesOf(MarkFailed(qq, t)) = [TriesOf(qq) EXCEPT ![t] = @ + 1]
  BY <1>1 DEF TriesOf, MarkFailed, TaskTable, Row
<1> QED
  BY <1>2, <1>3, <1>4, <1>5, <1>6, <1>7, <1>8

\* where the tick can be: between two passes, at the classifier with the row it
\* read, in a run for a row
AtWork(f) ==
  \/ f = Idle
  \/ f.pc = "classify" /\ f.task \in Tasks
  \/ f.pc \in InLoop /\ f.caller = "queue" /\ f.task \in Tasks

\* The inductive invariant: the tick's coroutine is one of these and gone while the
\* process is down, and no run of Lin's would settle a row.
HandInv ==
  /\ AtWork(run[Tick])
  /\ ~up => run[Tick] = Idle
  /\ \A m \in Messages : run[m].caller # "queue"

\* a message's coroutine moves, and not as the queue's
LinMoves(m, qq) ==
  queue' = qq /\ \E g : g.caller # "queue" /\ run' = [run EXCEPT ![m] = g]

\* Frames that belong to no run of the queue.
LEMMA LinsFrames ==
  /\ Ended.caller = "none" /\ Fresh.caller = "none" /\ Idle.caller = "none"
  /\ \A s, todo : Sending(s, todo).caller = "none"
  /\ \A c, s, t, gated : Calling(c, s, t, gated).caller = c
BY DEF Ended, Fresh, Idle, Sending, Calling

\* A run of Lin's that begins a round or returns settles no row.
LEMMA LinReturns ==
  ASSUME NEW m, NEW f \in Frame, f.caller # "queue", NEW ss, NEW hh, NEW qq,
         Return(m, f, ss, hh, qq) \/ BeginRound(m, f, ss, hh, qq)
  PROVE  LinMoves(m, qq)
<1> DEFINE wait == [f EXCEPT !.pc = "reflect", !.iter = 0]
           go == [f EXCEPT !.pc = "llm"]
           said == Sending(f.sid, f.todo)
<1>1. wait.caller # "queue" /\ go.caller # "queue" /\ said.caller # "queue"
  BY LinsFrames DEF Frame
<1>2. queue' = qq /\ (Put(m, wait) \/ Put(m, go) \/ Put(m, said))
  BY DEF Return, BeginRound
<1> HIDE DEF wait, go, said
<1> QED
  BY <1>1, <1>2 DEF LinMoves, Put

\* The sessions of a crash are resumed beside the queue.
LEMMA NextCrashedBeside ==
  ASSUME NEW m, NEW ss, NEW hh, NEW todo \in SUBSET SessionIds, NextCrashed(m, ss, hh, todo)
  PROVE  LinMoves(m, queue)
<1> DEFINE left == {s \in todo : Resumable(ss, s)}
           s    == CHOOSE s \in left : \A r \in left : s >= r
           f    == [Calling("crash", s, NoTask, FALSE) EXCEPT !.todo = {r \in todo : r < s}]
<1>1. CASE left = {}
  BY <1>1, LinsFrames DEF NextCrashed, End, Put, LinMoves
<1>2. CASE left # {}
  <2>1. \E x \in left : \A r \in left : x >= r
    BY <1>2, NewestSession
  <2>2. s \in SessionIds
    BY <2>1
  <2>3. BeginRound(m, f, Resume(ss, s), hh, queue)
    BY <1>2 DEF NextCrashed
  <2> HIDE DEF s
  <2>4. f \in Frame /\ f.caller # "queue"
    <3>1. Calling("crash", s, NoTask, FALSE) \in Frame
      BY <2>2, CallingType DEF Caller
    <3>2. {r \in todo : r < s} \in SUBSET SessionIds
      OBVIOUS
    <3>3. f \in Frame
      BY <3>1, <3>2 DEF Frame
    <3>4. f.caller = "crash"
      BY DEF Calling, Ended
    <3> QED
      BY <3>3, <3>4
  <2> HIDE DEF f
  <2> QED
    BY <2>3, <2>4, LinReturns
<1> QED
  BY <1>1, <1>2

\* So is an answer handed to the session that asked.
LEMMA DispatchBeside ==
  ASSUME NEW m, NEW h \in HangIds, NEW text, NEW ss, NEW hh \in HangingTable,
         Dispatch(m, h, text, ss, hh)
  PROVE  LinMoves(m, queue)
<1> DEFINE sid == hh[h].sid
           yes == [Ended EXCEPT !.pc = "approved", !.sid = sid]
           other == [Ended EXCEPT !.pc = "classify"]
           f == Calling("answer", sid, NoTask, FALSE)
<1>1. sid \in SessionIds \cup {NoSession} /\ hh[h].sids \in SUBSET SessionIds
  BY DEF HangingTable, HangRow
<1>2. yes.caller # "queue" /\ other.caller # "queue"
  BY DEF Ended
<1>3. f \in Frame /\ f.caller # "queue"
  BY <1>1, CallingType, LinsFrames DEF Caller
<1>4. CASE Approve(m, h, ss, hh)
  BY <1>2, <1>4 DEF Approve, Put, LinMoves
<1>5. CASE Decline(m, h, ss, hh)
  BY <1>5, LinsFrames DEF Decline, Put, LinMoves
<1>6. CASE ResumeCrashed(m, h, ss, hh)
  BY <1>1, <1>6, NextCrashedBeside DEF ResumeCrashed
<1>7. CASE DropCrashed(m, h, ss, hh)
  BY <1>7, LinsFrames DEF DropCrashed, End, Put, LinMoves
<1>8. CASE NotAnAnswer(m, ss, hh)
  BY <1>2, <1>8 DEF NotAnAnswer, Put, LinMoves
<1>9. CASE Answer(m, h, ss, hh)
  <2>1. BeginRound(m, f, Resume(ss, sid), ResolveRow(hh, h), queue)
    BY <1>9 DEF Answer
  <2> HIDE DEF f, sid
  <2> QED
    BY <1>3, <2>1, LinReturns
<1> QED
  BY <1>4, <1>5, <1>6, <1>7, <1>8, <1>9 DEF Dispatch

\* And every round of a run of Lin's.
LEMMA LinsRunBeside ==
  ASSUME TypeOK, NEW m \in Messages, run[m].caller # "queue", ExecutorStep(m)
  PROVE  LinMoves(m, queue)
<1> DEFINE f == run[m]
           next == [f EXCEPT !.iter = @ + 1]
           atTool == [f EXCEPT !.pc = "tool"]
           last == [next EXCEPT !.pc = "final"]
           sends == [f EXCEPT !.pc = "publish"]
<1>1. f \in Frame /\ f.caller # "queue"
  BY DEF TypeOK
<1>2. next \in Frame /\ next.caller # "queue"
  BY <1>1 DEF Frame
<1>3. atTool.caller # "queue" /\ last.caller # "queue" /\ sends.caller # "queue"
  BY <1>1 DEF Frame
<1>4. \/ \E ss, hh : Return(m, f, ss, hh, queue)
      \/ \E ss, hh : BeginRound(m, next, ss, hh, queue)
      \/ queue' = queue /\ (Put(m, atTool) \/ Put(m, last) \/ Put(m, sends))
  BY DEF ExecutorStep, FinalReply, RunFails, CallTool, ToolReturns, AskUser, RequestApproval,
         PublishDrains
<1> HIDE DEF f, next, atTool, last, sends
<1> QED
  BY <1>1, <1>2, <1>3, <1>4, LinReturns DEF LinMoves, Put

\* Nothing a message does touches a row.
LEMMA MessagesBeside ==
  ASSUME TypeOK, HandInv, NEW m \in Messages, MessageArrives(m) \/ MessageStep(m)
  PROVE  LinMoves(m, queue)
<1>1. /\ run[m] \in Frame /\ run[m].caller # "queue"
      /\ run[m].sid \in SessionIds \cup {NoSession}
      /\ run[m].hids \subseteq HangIds /\ run[m].todo \in SUBSET SessionIds
      /\ run[m].gated \in BOOLEAN
      /\ sess \in SessionTable /\ hang \in HangingTable /\ frozen \in BOOLEAN
  BY DEF TypeOK, Frame, HandInv
<1>2. CASE StopPhrase(m) \/ ResumePhrase(m)
  BY <1>2, LinsFrames DEF StopPhrase, ResumePhrase, End, Put, LinMoves
<1>3. CASE Route(m)
  <2> DEFINE ss    == SweepSessions(sess, hang, Questions)
             hh    == SweepRows(hang, Questions)
             items == Pending(hh, Questions)
             asks(text) == [Ended EXCEPT !.pc = "routing", !.hids = items, !.text = text]
             other == [Ended EXCEPT !.pc = "classify"]
  <2>1. hh \in HangingTable /\ items \subseteq HangIds
    BY <1>1, HangingUpdateType DEF Pending
  <2>2. other.caller # "queue" /\ \A text : asks(text).caller # "queue"
    BY DEF Ended
  <2>3. \/ queue' = queue /\ Put(m, other)
        \/ \E h \in items, text \in {"plain", "yes", "no"} : Dispatch(m, h, text, ss, hh)
        \/ \E text \in {"plain", "yes", "no"} : queue' = queue /\ Put(m, asks(text))
    BY <1>3 DEF Route, NotAnAnswer
  <2> HIDE DEF ss, hh, items, asks, other
  <2> QED
    BY <2>1, <2>2, <2>3, DispatchBeside DEF LinMoves, Put
<1>4. CASE Routed(m)
  BY <1>1, <1>4, DispatchBeside, LinsFrames DEF Routed, End, Put, LinMoves
<1>5. CASE Classified(m)
  <2> DEFINE talk == [Calling("simple", NoSession, NoTask, frozen) EXCEPT !.pc = "llm"]
             plan == [Ended EXCEPT !.pc = "plan", !.gated = frozen]
  <2>1. talk.caller # "queue" /\ plan.caller # "queue" /\ Ended.caller # "queue"
    BY DEF Ended, Calling
  <2>2. queue' = queue /\ (Put(m, Ended) \/ Put(m, talk) \/ Put(m, plan))
    BY <1>5 DEF Classified, End
  <2> HIDE DEF talk, plan
  <2> QED
    BY <2>1, <2>2 DEF LinMoves, Put
<1>6. CASE Planned(m)
  <2> DEFINE f == Calling("deep", NextSession(sess), NoTask, run[m].gated)
  <2>1. NextSession(sess) \in SessionIds
    BY <1>1, <1>6, NextSessionType DEF Planned
  <2>2. f \in Frame /\ f.caller # "queue"
    BY <1>1, <2>1, CallingType, LinsFrames DEF Caller
  <2>3. PICK tags \in SUBSET Tags : BeginRound(m, f, StartChat(sess, tags), hang, queue)
    BY <1>6 DEF Planned
  <2> HIDE DEF f
  <2> QED
    BY <2>2, <2>3, LinReturns
<1>7. CASE Reflected(m)
  <2> DEFINE f == [run[m] EXCEPT !.caller = "retry"]
  <2>1. f \in Frame /\ f.caller # "queue"
    BY <1>1 DEF Frame, Caller
  <2>2. \/ BeginRound(m, f, Resume(sess, run[m].sid), hang, queue)
        \/ queue' = queue /\ Put(m, Sending(run[m].sid, {}))
    BY <1>7 DEF Reflected
  <2> HIDE DEF f
  <2> QED
    BY <2>1, <2>2, LinReturns, LinsFrames DEF LinMoves, Put
<1>8. CASE ApprovedToolEnds(m)
  BY <1>8, LinsFrames DEF ApprovedToolEnds, Put, LinMoves
<1>9. CASE Sent(m)
  BY <1>1, <1>9, NextCrashedBeside DEF Sent
<1>10. CASE ExecutorStep(m)
  BY <1>1, <1>10, LinsRunBeside
<1> QED
  BY <1>2, <1>3, <1>4, <1>5, <1>6, <1>7, <1>8, <1>9, <1>10 DEF MessageArrives, MessageStep

-----------------------------------------------------------------------------
(* The worker's own steps *)

\* A run of the tick's that returns settles its row or leaves it claimed.
LEMMA TickReturns ==
  ASSUME TypeOK, NEW f, f.caller = "queue", NEW ss, NEW hh, NEW qq, Return(Tick, f, ss, hh, qq)
  PROVE  /\ run' = [run EXCEPT ![Tick] = Idle] /\ run'[Tick] = Idle
         /\ queue' \in {qq, MarkDone(qq, f.task), MarkFailed(qq, f.task)}
BY DEF Return, Put, Settle, TypeOK

\* At the top of a round it goes on, or returns displaced, its row left alone.
LEMMA TickRounds ==
  ASSUME TypeOK, NEW f \in Frame, f.caller = "queue", NEW ss, NEW hh, NEW qq,
         BeginRound(Tick, f, ss, hh, qq)
  PROVE  /\ queue' = qq
         /\ \A m \in Messages : run'[m] = run[m]
         /\ \/ run'[Tick] = Idle
            \/ run'[Tick].pc = "llm" /\ run'[Tick].caller = "queue" /\ run'[Tick].task = f.task
<1>0. run \in [Procs -> Frame] /\ \A m \in Messages : m # Tick
  BY MessageIsNoTick DEF TypeOK
<1>1. CASE IsDisplaced(ss, f.sid)
  BY <1>0, <1>1 DEF BeginRound, Return, Settle, Put, IsDisplaced, Displaced
<1>2. CASE ~IsDisplaced(ss, f.sid)
  <2> DEFINE g == [f EXCEPT !.pc = "llm"]
  <2>1. g.pc = "llm" /\ g.caller = "queue" /\ g.task = f.task
    BY DEF Frame
  <2>2. queue' = qq /\ run' = [run EXCEPT ![Tick] = g]
    BY <1>2 DEF BeginRound, Put
  <2> HIDE DEF g
  <2> QED
    BY <1>0, <2>1, <2>2
<1> QED
  BY <1>1, <1>2

\* The passes that go on with a run, or find nothing to go on with.
LEMMA ContinuesTick ==
  ASSUME TypeOK, run[Tick] = Idle, NEW s \in SessionIds \cup {NoSession}, NEW ss, NEW hh,
         NEW t \in Claimed(queue), Continue(t, s, ss, hh)
  PROVE  /\ queue' = queue
         /\ \A m \in Messages : run'[m] = run[m]
         /\ \/ run'[Tick] = Idle
            \/ /\ run'[Tick].pc = "llm" /\ run'[Tick].caller = "queue"
               /\ run'[Tick].task \in RowsIn(queue, "running")
<1>1. CASE queue' = queue /\ run' = run
  BY <1>1
<1>2. CASE t # NoTask /\ BeginRound(Tick, Calling("queue", s, t, FALSE), ss, hh, queue)
  <2> DEFINE f == Calling("queue", s, t, FALSE)
  <2>1. t \in RowsIn(queue, "running") /\ t \in Tasks
    BY <1>2 DEF Claimed, RowsIn
  <2>2. f \in Frame
    BY <2>1, CallingType DEF Caller
  <2>3. f.task = t /\ f.caller = "queue"
    BY DEF Calling, Ended
  <2> HIDE DEF f
  <2> QED
    BY <1>2, <2>1, <2>2, <2>3, TickRounds DEF f
<1> QED
  BY <1>1, <1>2 DEF Continue

\* the state functions WorkQueue sees, the same before and after
LEMMA StutterMapped ==
  ASSUME queue' = queue, Stage' = Stage, run'[Tick].task = run[Tick].task
  PROVE  UNCHANGED Work!vars
BY DEF Work!vars

\* The tick between two passes has an empty hand.
LEMMA IdleHand ==
  /\ Idle.pc = "idle" /\ Idle.task = NoTask /\ Idle.caller = "none"
  /\ run[Tick] = Idle => Stage = "free"
  /\ run'[Tick] = Idle => Stage' = "free"
  /\ run[Tick].pc \in InLoop => Stage = "work"
  /\ run'[Tick].pc \in InLoop => Stage' = "work"
BY DEF Idle, Ended, Stage, InLoop

\* What happens to one job is a step of the queue.
LEMMA JobSteps ==
  ASSUME NEW j \in Tasks,
         \/ Work!Add(j) \/ Work!Cancel(j) \/ Work!GiveBack(j)
         \/ Work!Pick(j) \/ Work!GoOn(j) \/ Work!Fail(j)
  PROVE  Work!Next
BY DEF Work!Next

\* A run of the tick's that goes on, with the hand full.
LEMMA RunGoesOn ==
  ASSUME run[Tick].pc \in InLoop, run'[Tick].pc \in InLoop, queue' = queue,
         run'[Tick].task = run[Tick].task
  PROVE  UNCHANGED Work!vars
BY IdleHand, StutterMapped

\* A run of the tick's that is over lets go of its row, finishes or fails it.
LEMMA RunIsOver ==
  ASSUME TypeOK, run[Tick].pc \in InLoop, run[Tick].task \in Tasks, run'[Tick] = Idle,
         queue' \in {queue, MarkDone(queue, run[Tick].task), MarkFailed(queue, run[Tick].task)}
  PROVE  Work!Next
<1> PICK t \in Tasks : t = run[Tick].task
  OBVIOUS
<1>1. Stage = "work" /\ Stage' = "free" /\ run'[Tick].task = NoTask
  BY IdleHand
<1>2. Work!EmptyHand
  BY <1>1 DEF Work!EmptyHand, Work!InHand
<1>3. queue \in TaskTable /\ NoSession \in SessionIds \cup {NoSession}
  BY DEF TypeOK
<1>4. CASE queue' = queue
  BY <1>1, <1>2, <1>4 DEF Work!Next, Work!LetGo
<1>5. CASE queue' = MarkDone(queue, t)
  <2>1. StatusOf(queue') = [StatusOf(queue) EXCEPT ![t] = "done"] /\ TriesOf(queue') = TriesOf(queue)
    BY <1>3, <1>5, UpdatesMapped
  <2> QED
    BY <1>1, <1>2, <2>1 DEF Work!Next, Work!Finish, Work!Becomes, StatusOf, TriesOf
<1>6. CASE queue' = MarkFailed(queue, t)
  <2>1. /\ StatusOf(queue') =
             [StatusOf(queue) EXCEPT ![t] = IF TriesOf(queue)[t] + 1 > MaxRetries THEN "failed" ELSE "pending"]
        /\ TriesOf(queue') = [TriesOf(queue) EXCEPT ![t] = @ + 1]
    BY <1>3, <1>6, UpdatesMapped
  <2>2. Work!Fail(t)
    BY <1>1, <1>2, <2>1 DEF Work!Fail, Work!Becomes, StatusOf, TriesOf
  <2> QED
    BY <1>3, <2>2, JobSteps
<1> QED
  BY <1>4, <1>5, <1>6

\* what every step comes to
WorkStep == HandInv' /\ [Work!Next]_(Work!vars)

\* Waking a run, or finding nothing to wake.
LEMMA WakingWorks ==
  ASSUME TypeOK, HandInv, TickResumesDisplaced \/ TickUnblocksWaiting
  PROVE  WorkStep
<1>1. run[Tick] = Idle /\ up
  <2>1. run[Tick].pc = "idle" /\ up
    BY DEF TickResumesDisplaced, TickUnblocksWaiting, TickReady
  <2> QED
    BY <2>1 DEF HandInv, AtWork, InLoop
<1>2. up' = up
  BY DEF TickResumesDisplaced, TickUnblocksWaiting, Quiet, hostVars
<1>3. /\ queue' = queue
      /\ \A m \in Messages : run'[m] = run[m]
      /\ \/ run'[Tick] = Idle
         \/ /\ run'[Tick].pc = "llm" /\ run'[Tick].caller = "queue"
            /\ run'[Tick].task \in RowsIn(queue, "running")
  <2>1. CASE TickResumesDisplaced
    <3>1. StashSid \in SessionIds \cup {NoSession}
      BY <2>1, SweptType DEF TickResumesDisplaced, CanResumeStash
    <3>2. PICK t \in Claimed(queue) :
            Continue(t, StashSid, Resume(SweptSess, StashSid), ResolveRow(SweptHang, StashRow))
      BY <2>1 DEF TickResumesDisplaced
    <3> QED
      BY <1>1, <3>1, <3>2, ContinuesTick
  <2>2. CASE TickUnblocksWaiting
    <3> DEFINE s == ResumeWaiting(SweptSess, LeftSid)
    <3>1. s \in SessionIds
      BY <2>2, SweptType, ResumeWaitingType DEF TickUnblocksWaiting, Waiting
    <3>2. PICK t \in Claimed(queue) : Continue(t, s, ActivateWaiting(SweptSess, s), LeftHang)
      BY <2>2 DEF TickUnblocksWaiting
    <3> HIDE DEF s
    <3> QED
      BY <1>1, <3>1, <3>2, ContinuesTick
  <2> QED
    BY <2>1, <2>2
<1>4. HandInv'
  BY <1>1, <1>2, <1>3 DEF HandInv, AtWork, InLoop, RowsIn
<1>5. CASE run'[Tick] = Idle
  <2>1. UNCHANGED Work!vars
    BY <1>1, <1>3, <1>5, IdleHand, StutterMapped
  <2> QED
    BY <1>4, <2>1 DEF WorkStep
<1>6. CASE run'[Tick].pc = "llm" /\ run'[Tick].task \in RowsIn(queue, "running")
  <2> DEFINE t == run'[Tick].task
  <2>1. Stage = "free" /\ Stage' = "work"
    BY <1>1, <1>6, IdleHand DEF InLoop
  <2>2. t \in Tasks /\ queue[t].st = "running"
    BY <1>6 DEF RowsIn
  <2>3. Work!GoOn(t)
    BY <1>3, <2>1, <2>2 DEF Work!GoOn, Work!InHand
  <2> QED
    BY <1>4, <2>2, <2>3, JobSteps DEF WorkStep
<1> QED
  BY <1>3, <1>5, <1>6

\* Settling the claim of a session that failed out of band.
LEMMA ReconcilingWorks ==
  ASSUME TypeOK, HandInv, TickReconciles
  PROVE  WorkStep
<1>1. run[Tick] = Idle /\ up
  <2>1. run[Tick].pc = "idle" /\ up
    BY DEF TickReconciles, NothingToWake, TickReady
  <2> QED
    BY <2>1 DEF HandInv, AtWork, InLoop
<1>2. up' = up /\ run' = run
  BY DEF TickReconciles, Quiet, hostVars
<1>3. HandInv'
  BY <1>1, <1>2 DEF HandInv, AtWork
<1>4. Stage = "free" /\ Stage' = "free" /\ run'[Tick].task = NoTask /\ run[Tick].task = NoTask
  BY <1>1, <1>2, IdleHand
<1>5. PICK t \in RowsIn(queue, "running") : queue' = MarkFailed(queue, t) \/ queue' = queue
  BY DEF TickReconciles
<1>6. CASE queue' = queue
  <2>1. UNCHANGED Work!vars
    BY <1>4, <1>6, StutterMapped
  <2> QED
    BY <1>3, <2>1 DEF WorkStep
<1>7. CASE queue' = MarkFailed(queue, t)
  <2>1. t \in Tasks /\ queue[t].st = "running" /\ queue \in TaskTable
    BY DEF RowsIn, TypeOK
  <2>2. /\ StatusOf(queue') =
             [StatusOf(queue) EXCEPT ![t] = IF TriesOf(queue)[t] + 1 > MaxRetries THEN "failed" ELSE "pending"]
        /\ TriesOf(queue') = [TriesOf(queue) EXCEPT ![t] = @ + 1]
    BY <1>7, <2>1, UpdatesMapped
  <2>3. Work!Fail(t)
    BY <1>4, <2>1, <2>2
       DEF Work!Fail, Work!Becomes, Work!EmptyHand, Work!InHand, StatusOf, TriesOf
  <2> QED
    BY <1>3, <2>1, <2>3, JobSteps DEF WorkStep
<1> QED
  BY <1>5, <1>6, <1>7

\* The least row that waits is one of them.
LEMMA NextIdleWaits ==
  ASSUME NextIdle(queue) # NoTask
  PROVE  NextIdle(queue) \in Tasks /\ queue[NextIdle(queue)].st = "pending"
<1>1. Waits(queue) \subseteq Nat /\ Waits(queue) # {}
  BY DEF Waits, RowsIn, Tasks, NextIdle
<1>2. \E t \in Waits(queue) : \A u \in Waits(queue) : t <= u
  BY <1>1, LeastElement
<1>3. NextIdle(queue) \in Waits(queue)
  BY <1>1, <1>2 DEF NextIdle
<1> QED
  BY <1>3 DEF Waits, RowsIn

\* Reading the next row.
LEMMA PickingWorks ==
  ASSUME TypeOK, HandInv, TickPicks
  PROVE  WorkStep
<1>1. run[Tick] = Idle /\ up
  <2>1. run[Tick].pc = "idle" /\ up
    BY DEF TickPicks, NothingToWake, TickReady
  <2> QED
    BY <2>1 DEF HandInv, AtWork, InLoop
<1>2. up' = up /\ queue' = queue /\ RowsIn(queue, "running") = {} /\ run \in [Procs -> Frame]
  BY DEF TickPicks, Quiet, hostVars, TypeOK
<1>3. Stage = "free" /\ run[Tick].task = NoTask
  BY <1>1, IdleHand
<1>4. CASE run' = run
  <2>1. HandInv'
    BY <1>1, <1>2, <1>4 DEF HandInv, AtWork
  <2>2. UNCHANGED Work!vars
    BY <1>1, <1>2, <1>4, IdleHand, StutterMapped
  <2> QED
    BY <2>1, <2>2 DEF WorkStep
<1>5. CASE run' # run
  <2>1. PICK t \in Tasks : t = NextIdle(queue) /\ queue[t].st = "pending"
    BY <1>5, NextIdleWaits DEF TickPicks
  <2> DEFINE g == [Idle EXCEPT !.pc = "classify", !.task = t]
  <2>2. run' = [run EXCEPT ![Tick] = g]
    BY <1>5, <2>1 DEF TickPicks, Put
  <2>3. g.pc = "classify" /\ g.task = t
    BY DEF Idle, Ended
  <2> HIDE DEF g
  <2>4. run'[Tick] = g /\ \A m \in Messages : run'[m] = run[m]
    BY <1>2, <2>2, MessageIsNoTick
  <2>5. HandInv'
    BY <1>1, <1>2, <2>3, <2>4 DEF HandInv, AtWork
  <2>6. Stage' = "picked" /\ run'[Tick].task = t
    BY <2>3, <2>4 DEF Stage
  <2>7. Work!Claimed = {}
    BY <1>2 DEF Work!Claimed, RowsIn
  <2>8. Work!Pick(t)
    BY <1>2, <1>3, <2>1, <2>6, <2>7 DEF Work!Pick, Work!InHand
  <2> QED
    BY <2>5, <2>8, JobSteps DEF WorkStep
<1> QED
  BY <1>4, <1>5

\* The claim.
LEMMA ClaimingWorks ==
  ASSUME TypeOK, HandInv, TickClaims
  PROVE  WorkStep
<1>1. run[Tick].pc = "classify" /\ run[Tick].task \in Tasks /\ up
  BY DEF TickClaims, HandInv, AtWork, Idle, Ended, InLoop
<1> PICK t \in Tasks : t = run[Tick].task
  BY <1>1
<1>2. up' = up /\ run \in [Procs -> Frame] /\ queue \in TaskTable
  BY DEF TickClaims, Quiet, hostVars, TypeOK
<1>3. NextSession(sess) \in SessionIds
  BY NextSessionType DEF TickClaims, TypeOK
<1> DEFINE s == NextSession(sess)
           f == Calling("queue", s, t, FALSE)
           qq == MarkRunning(queue, t, s)
<1>4. f \in Frame
  BY <1>3, CallingType DEF Caller
<1>5. f.task = t /\ f.caller = "queue"
  BY DEF Calling, Ended
<1>6. StatusOf(qq) = [StatusOf(queue) EXCEPT ![t] = "running"] /\ TriesOf(qq) = TriesOf(queue)
  BY <1>2, <1>3, UpdatesMapped
<1>7. PICK tags \in SUBSET Tags :
        \/ BeginRound(Tick, f, StartQueue(sess, tags), hang, qq)
        \/ queue' = qq /\ Put(Tick, Idle)
  BY DEF TickClaims
<1> HIDE DEF f, qq, s
<1>8. /\ queue' = qq /\ \A m \in Messages : run'[m] = run[m]
      /\ \/ run'[Tick] = Idle
         \/ run'[Tick].pc = "llm" /\ run'[Tick].caller = "queue" /\ run'[Tick].task = t
  <2>1. CASE BeginRound(Tick, f, StartQueue(sess, tags), hang, qq)
    BY <1>4, <1>5, <2>1, TickRounds
  <2>2. CASE queue' = qq /\ Put(Tick, Idle)
    BY <1>2, <2>2, MessageIsNoTick DEF Put
  <2> QED
    BY <1>7, <2>1, <2>2
<1>9. HandInv'
  BY <1>1, <1>2, <1>8 DEF HandInv, AtWork, InLoop
<1>10. Stage = "picked"
  BY <1>1 DEF Stage
<1>11. Work!InHand("work", t) \/ Work!EmptyHand
  BY <1>8, IdleHand DEF Work!InHand, Work!EmptyHand, InLoop
<1>12. Work!Claim
  BY <1>6, <1>8, <1>10, <1>11
     DEF Work!Claim, Work!Becomes, Work!InHand, StatusOf, TriesOf
<1> QED
  BY <1>9, <1>12 DEF WorkStep, Work!Next

\* The rounds of the tick's run, and its end.
LEMMA OwnRunWorks ==
  ASSUME TypeOK, HandInv, ExecutorStep(Tick)
  PROVE  WorkStep
<1> DEFINE f == run[Tick]
           next == [f EXCEPT !.iter = @ + 1]
           atTool == [f EXCEPT !.pc = "tool"]
           last == [next EXCEPT !.pc = "final"]
           sends == [f EXCEPT !.pc = "publish"]
<1>1. f.pc \in InLoop
  BY DEF ExecutorStep, FinalReply, RunFails, CallTool, ToolReturns, AskUser, RequestApproval,
         PublishDrains, MayAsk, InLoop
<1>2. f \in Frame /\ f.caller = "queue" /\ f.task \in Tasks /\ run \in [Procs -> Frame]
  BY <1>1 DEF HandInv, AtWork, Idle, Ended, InLoop, TypeOK
<1>3. next \in Frame /\ next.caller = "queue" /\ next.task = f.task
  BY <1>2 DEF Frame
<1>4. \A g \in {atTool, last, sends} : g.pc \in InLoop /\ g.caller = "queue" /\ g.task = f.task
  BY <1>2 DEF Frame, InLoop
<1>5. up' = up
  BY DEF ExecutorStep, FinalReply, RunFails, CallTool, ToolReturns, AskUser, RequestApproval,
         PublishDrains, Quiet, hostVars
<1>6. \/ \E ss, hh : Return(Tick, f, ss, hh, queue)
      \/ \E ss, hh : BeginRound(Tick, next, ss, hh, queue)
      \/ queue' = queue /\ \E g \in {atTool, last, sends} : Put(Tick, g)
  BY DEF ExecutorStep, FinalReply, RunFails, CallTool, ToolReturns, AskUser, RequestApproval,
         PublishDrains
<1>7. up
  BY <1>1 DEF HandInv, Idle, Ended, InLoop
<1> HIDE DEF next, atTool, last, sends
<1>8. /\ \A m \in Messages : run'[m] = run[m]
      /\ \/ /\ run'[Tick] = Idle
            /\ queue' \in {queue, MarkDone(queue, f.task), MarkFailed(queue, f.task)}
         \/ /\ run'[Tick].pc \in InLoop /\ run'[Tick].caller = "queue"
            /\ run'[Tick].task = f.task /\ queue' = queue
  <2>1. CASE \E ss, hh : Return(Tick, f, ss, hh, queue)
    <3>1. /\ run' = [run EXCEPT ![Tick] = Idle] /\ run'[Tick] = Idle
          /\ queue' \in {queue, MarkDone(queue, f.task), MarkFailed(queue, f.task)}
      BY <1>2, <2>1, TickReturns
    <3> QED
      BY <1>2, <3>1, MessageIsNoTick
  <2>2. CASE \E ss, hh : BeginRound(Tick, next, ss, hh, queue)
    BY <1>3, <2>2, TickRounds DEF InLoop
  <2>3. CASE queue' = queue /\ \E g \in {atTool, last, sends} : Put(Tick, g)
    BY <1>2, <1>4, <2>3, MessageIsNoTick DEF Put
  <2> QED
    BY <1>6, <2>1, <2>2, <2>3
<1>9. HandInv'
  BY <1>2, <1>5, <1>7, <1>8 DEF HandInv, AtWork
<1>10. CASE run'[Tick] = Idle
  BY <1>1, <1>2, <1>8, <1>9, <1>10, RunIsOver, IdleHand DEF WorkStep, InLoop, Idle, Ended
<1>11. CASE run'[Tick].pc \in InLoop
  BY <1>1, <1>8, <1>9, <1>11, RunGoesOn DEF WorkStep, InLoop, Idle, Ended
<1> QED
  BY <1>8, <1>10, <1>11

\* A message leaves the tick and the process where they are.
LEMMA MessagesWork ==
  ASSUME TypeOK, HandInv, NEW m \in Messages, MessageArrives(m) \/ MessageStep(m)
  PROVE  WorkStep
<1>1. PICK g : g.caller # "queue" /\ run' = [run EXCEPT ![m] = g] /\ queue' = queue
  BY MessagesBeside DEF LinMoves
<1>2. run \in [Procs -> Frame] /\ m # Tick /\ m \in Procs
  BY MessageIsNoTick DEF TypeOK
<1>3. run'[Tick] = run[Tick] /\ \A n \in Messages : run'[n].caller # "queue"
  BY <1>1, <1>2 DEF HandInv
<1>4. up' = up
  BY DEF MessageArrives, StopPhrase, ResumePhrase, Route, MessageStep, Routed, Classified, Planned,
         Reflected, ApprovedToolEnds, Sent, ExecutorStep, FinalReply, RunFails, CallTool, ToolReturns,
         AskUser, RequestApproval, PublishDrains, Quiet, hostVars
<1>5. HandInv'
  BY <1>3, <1>4 DEF HandInv, AtWork
<1>6. UNCHANGED Work!vars
  BY <1>1, <1>3, StutterMapped DEF Stage
<1> QED
  BY <1>5, <1>6 DEF WorkStep

\* Dying, between two writes too, lets go of what is in hand.
LEMMA DyingWorks ==
  ASSUME TypeOK, HandInv, Crash \/ Shutdown \/ TornStep
  PROVE  WorkStep
<1>1. queue' = queue /\ \E flag \in BOOLEAN : Halt(flag)
  BY DEF Crash, Shutdown, TornStep, TornAsk, TornApproval, TornAnswer, TornSettle, TornClaim, Die
<1>2. /\ run'[Tick] = Idle /\ up' = FALSE
      /\ \A m \in Messages : run'[m].caller = "none"
  BY <1>1, MessageIsNoTick, LinsFrames DEF Halt
<1>3. HandInv'
  BY <1>2 DEF HandInv, AtWork
<1>4. Stage' = "free" /\ run'[Tick].task = NoTask
  BY <1>2, IdleHand
<1>5. CASE run[Tick] = Idle
  <2>1. UNCHANGED Work!vars
    BY <1>1, <1>4, <1>5, IdleHand, StutterMapped
  <2> QED
    BY <1>3, <2>1 DEF WorkStep
<1>6. CASE run[Tick] # Idle
  <2>1. Stage # "free"
    BY <1>6 DEF HandInv, AtWork, Stage
  <2>2. Work!LetGo
    BY <1>1, <1>4, <2>1 DEF Work!LetGo, Work!EmptyHand, Work!InHand
  <2> QED
    BY <1>3, <2>2 DEF WorkStep, Work!Next
<1> QED
  BY <1>5, <1>6

\* At most one claim is given back by a recovery, for there is at most one.
LEMMA RecoveryWorks ==
  ASSUME TypeOK, HandInv, ClaimInv, Restart \/ TornRecovery
  PROVE  WorkStep
<1>1. run' = run /\ ~up /\ run[Tick] = Idle
  BY DEF Restart, TornRecovery, HandInv
<1>2. queue' = queue \/ queue' = RecoveredQueue
  BY DEF Restart, TornRecovery
<1>3. HandInv'
  BY <1>1 DEF HandInv, AtWork
<1>4. Stage = "free" /\ Stage' = "free" /\ run'[Tick].task = NoTask /\ run[Tick].task = NoTask
  BY <1>1, IdleHand
<1>5. queue \in TaskTable
  BY DEF TypeOK
<1>6. CASE queue' = queue
  <2>1. UNCHANGED Work!vars
    BY <1>4, <1>6, StutterMapped
  <2> QED
    BY <1>3, <2>1 DEF WorkStep
<1>7. CASE queue' = RecoveredQueue /\ queue' # queue
  <2>1. PICK t \in Tasks : queue[t].st = "running" /\ queue[t].sid \in QueueActives(sess)
    BY <1>5, <1>7 DEF RecoveredQueue, TaskTable
  <2>2. \A u \in Tasks : queue[u].st = "running" => u = t
    BY <2>1 DEF ClaimInv, SingleClaim
  <2>3. \A u \in Tasks : RecoveredQueue[u] = Requeue(queue, t)[u]
    BY <1>5, <2>1, <2>2 DEF RecoveredQueue, Requeue, TaskTable
  <2>4. queue' = Requeue(queue, t)
    <3>1. RecoveredQueue \in TaskTable /\ Requeue(queue, t) \in TaskTable
      BY <1>5, RecoveredType, TaskUpdateType
    <3> QED
      BY <1>7, <2>3, <3>1 DEF TaskTable
  <2>5. StatusOf(queue') = [StatusOf(queue) EXCEPT ![t] = "pending"] /\ TriesOf(queue') = TriesOf(queue)
    BY <1>5, <2>4, UpdatesMapped
  <2>6. Work!GiveBack(t)
    BY <1>4, <2>1, <2>5 DEF Work!GiveBack, Work!Becomes, StatusOf, TriesOf
  <2> QED
    BY <1>3, <2>6, JobSteps DEF WorkStep
<1> QED
  BY <1>2, <1>6, <1>7

\* A row is added or cancelled beside the worker; an hour is none of its business.
LEMMA AroundWorks ==
  ASSUME TypeOK, HandInv,
         \/ AgendaAddsTask \/ \E p \in Procs : ToolAddsTask(p) \/ ToolCancelsTask(p)
         \/ HourPasses
  PROVE  WorkStep
<1>1. run' = run /\ up' = up
  BY DEF AgendaAddsTask, ToolAddsTask, ToolCancelsTask, HourPasses, hostVars
<1>2. HandInv' /\ Stage' = Stage /\ run'[Tick].task = run[Tick].task
  BY <1>1 DEF HandInv, AtWork, Stage
<1>3. queue \in TaskTable
  BY DEF TypeOK
<1>4. CASE queue' = queue
  <2>1. UNCHANGED Work!vars
    BY <1>2, <1>4, StutterMapped
  <2> QED
    BY <1>2, <2>1 DEF WorkStep
<1>5. ASSUME NEW t \in Tasks, queue[t].st = "absent", queue' = AddRow(queue, t) PROVE WorkStep
  <2>1. StatusOf(queue') = [StatusOf(queue) EXCEPT ![t] = "pending"] /\ TriesOf(queue') = TriesOf(queue)
    BY <1>3, <1>5, UpdatesMapped
  <2>2. Work!Add(t)
    BY <1>2, <1>5, <2>1 DEF Work!Add, Work!Becomes, StatusOf, TriesOf
  <2> QED
    BY <1>2, <2>2, JobSteps DEF WorkStep
<1>6. ASSUME NEW t \in Tasks, queue[t].st \in {"pending", "running"}, queue' = CancelRow(queue, t)
      PROVE  WorkStep
  <2>1. StatusOf(queue') = [StatusOf(queue) EXCEPT ![t] = "cancelled"] /\ TriesOf(queue') = TriesOf(queue)
    BY <1>3, <1>6, UpdatesMapped
  <2>2. Work!Cancel(t)
    BY <1>2, <1>6, <2>1 DEF Work!Cancel, Work!Becomes, StatusOf, TriesOf
  <2> QED
    BY <1>2, <2>2, JobSteps DEF WorkStep
<1>7. \/ queue' = queue
      \/ \E t \in Tasks : queue[t].st = "absent" /\ queue' = AddRow(queue, t)
      \/ \E t \in Tasks : queue[t].st \in {"pending", "running"} /\ queue' = CancelRow(queue, t)
  BY DEF AgendaAddsTask, ToolAddsTask, ToolCancelsTask, HourPasses, RowsIn
<1> QED
  BY <1>4, <1>5, <1>6, <1>7

\* Every step of the agent is a step of the queue, or none of its business.
LEMMA EveryStepWorks ==
  ASSUME TypeOK, HandInv, ClaimInv, [Next]_vars
  PROVE  WorkStep
<1>1. CASE TickStep
  BY <1>1, WakingWorks, ReconcilingWorks, PickingWorks, ClaimingWorks, OwnRunWorks DEF TickStep
<1>2. ASSUME NEW m \in Messages, MessageArrives(m) \/ MessageStep(m) PROVE WorkStep
  BY <1>2, MessagesWork
<1>3. CASE \/ AgendaAddsTask \/ \E p \in Procs : ToolAddsTask(p) \/ ToolCancelsTask(p)
           \/ HourPasses
  BY <1>3, AroundWorks
<1>4. CASE Crash \/ Shutdown \/ TornStep
  BY <1>4, DyingWorks
<1>5. CASE Restart \/ TornRecovery
  BY <1>5, RecoveryWorks
<1>6. CASE UNCHANGED vars
  <2>1. UNCHANGED Work!vars
    BY <1>6, StutterMapped DEF vars, Stage
  <2>2. HandInv'
    BY <1>6 DEF vars, hostVars, HandInv, AtWork
  <2> QED
    BY <2>1, <2>2 DEF WorkStep
<1> QED
  BY <1>1, <1>2, <1>3, <1>4, <1>5, <1>6 DEF Next

\* The first start: an empty hand, the first rows pending.
LEMMA WorkStarts == Init => HandInv /\ Work!Init
<1> SUFFICES ASSUME Init PROVE HandInv /\ Work!Init
  OBVIOUS
<1>1. run[Tick] = Idle /\ \A m \in Messages : run[m].caller = "none"
  BY MessageIsNoTick, LinsFrames DEF Init
<1>2. HandInv
  BY <1>1 DEF HandInv, AtWork, Init
<1>3. Stage = "free" /\ run[Tick].task = NoTask
  BY <1>1, IdleHand
<1> QED
  BY <1>2, <1>3 DEF Work!Init, Init, FreshQueue

\* The queue keeps WorkQueue's promise whatever happens around it: crashes between
\* two writes, orderly stops, cancelled rows, late answers, blocked publishes.
THEOREM QueueIsWorkQueue == Spec => QueueKeepsPromise
<1>1. Init => HandInv /\ Work!Init
  BY WorkStarts
<1>2. TypeOK /\ ClaimInv /\ HandInv /\ [Next]_vars => HandInv' /\ [Work!Next]_(Work!vars)
  BY EveryStepWorks DEF WorkStep
<1> QED
  BY <1>1, <1>2, TypeCorrect, OneClaimWithReason, PTL DEF Spec, QueueKeepsPromise, Work!Spec

-----------------------------------------------------------------------------
(* What the queue's promise comes to for the rows.                         *)

\* HandHolds, OneJob and TriesCounted of WorkQueue in the words of the table.
RowsSafe ==
  /\ Stage = "free" => run[Tick].task = NoTask
  /\ Stage # "free" => run[Tick].task \in Tasks
  /\ Stage = "picked" => queue[run[Tick].task].st \in {"pending", "cancelled"}
  /\ Stage = "work" => queue[run[Tick].task].st \in {"running", "cancelled"}
  /\ \A t, u \in Tasks : queue[t].st = "running" /\ queue[u].st = "running" => t = u
  /\ \A t \in Tasks :
       /\ Stage = "picked" => queue[t].st # "running"
       /\ Stage = "work" /\ queue[t].st = "running" => t = run[Tick].task
       /\ queue[t].st = "failed" => queue[t].retries = MaxRetries + 1
       /\ queue[t].st # "failed" => queue[t].retries <= MaxRetries

\* what a step may do to settled rows and to the counts
RowsKept ==
  \A t \in Tasks : /\ queue[t].st \in {"done", "failed"} => queue'[t].st = queue[t].st
                   /\ queue'[t].retries >= queue[t].retries

LEMMA RowsSafeMapped ==
  RowsSafe <=> Work!HandHolds /\ Work!OneJob /\ Work!TriesCounted
<1> DEFINE claimed == {t \in Tasks : queue[t].st = "running"}
<1>1. Work!Claimed = claimed
  BY DEF Work!Claimed
<1>2. Work!HandHolds <=>
        /\ Stage = "free" => run[Tick].task = NoTask
        /\ Stage # "free" => run[Tick].task \in Tasks
        /\ Stage = "picked" => claimed = {} /\ queue[run[Tick].task].st \in {"pending", "cancelled"}
        /\ Stage = "work" => queue[run[Tick].task].st \in {"running", "cancelled"}
  BY <1>1 DEF Work!HandHolds, Stage
<1>3. Work!OneJob <=>
        /\ \A t, u \in claimed : t = u
        /\ Stage # "free" => claimed \subseteq {run[Tick].task}
  BY <1>1 DEF Work!OneJob
<1>4. Work!TriesCounted <=>
        \A t \in Tasks : IF queue[t].st = "failed" THEN queue[t].retries = MaxRetries + 1
                         ELSE queue[t].retries <= MaxRetries
  BY DEF Work!TriesCounted
<1>5. Stage \in {"free", "picked", "work"}
  BY DEF Stage
<1> QED
  BY <1>2, <1>3, <1>4, <1>5 DEF RowsSafe

\* One row changes its status, one its count.
LEMMA RowsBecome ==
  ASSUME NEW j \in Tasks, NEW st
  PROVE  /\ Work!Becomes(j, st) =>
              \A t \in Tasks : queue'[t].st = IF t = j THEN st ELSE queue[t].st
         /\ UNCHANGED [t \in Tasks |-> queue[t].st] =>
              \A t \in Tasks : queue'[t].st = queue[t].st
         /\ UNCHANGED [t \in Tasks |-> queue[t].retries] =>
              \A t \in Tasks : queue'[t].retries = queue[t].retries
<1>1. ASSUME Work!Becomes(j, st), NEW t \in Tasks
      PROVE  queue'[t].st = IF t = j THEN st ELSE queue[t].st
  <2>1. [u \in Tasks |-> queue'[u].st] = [[u \in Tasks |-> queue[u].st] EXCEPT ![j] = st]
    BY <1>1 DEF Work!Becomes
  <2>2. [u \in Tasks |-> queue'[u].st][t] = [[u \in Tasks |-> queue[u].st] EXCEPT ![j] = st][t]
    BY <2>1
  <2> QED
    BY <2>2
<1>2. ASSUME UNCHANGED [t \in Tasks |-> queue[t].st], NEW t \in Tasks
      PROVE  queue'[t].st = queue[t].st
  <2>1. [u \in Tasks |-> queue'[u].st][t] = [u \in Tasks |-> queue[u].st][t]
    BY <1>2
  <2> QED
    BY <2>1
<1>3. ASSUME UNCHANGED [t \in Tasks |-> queue[t].retries], NEW t \in Tasks
      PROVE  queue'[t].retries = queue[t].retries
  <2>1. [u \in Tasks |-> queue'[u].retries][t] = [u \in Tasks |-> queue[u].retries][t]
    BY <1>3
  <2> QED
    BY <2>1
<1> QED
  BY <1>1, <1>2, <1>3

\* It is inductive in WorkQueue, whoever implements it.
LEMMA RowsSafeStep ==
  ASSUME TypeOK, RowsSafe, [Work!Next]_(Work!vars)
  PROVE  RowsSafe' /\ RowsKept
<1> DEFINE job == run[Tick].task
           statusKept == \A t \in Tasks : queue'[t].st = queue[t].st
           triesKept == \A t \in Tasks : queue'[t].retries = queue[t].retries
           become(j, st) == \A t \in Tasks : queue'[t].st = IF t = j THEN st ELSE queue[t].st
           handKept == Stage' = Stage /\ job' = job
           emptied == Stage' = "free" /\ job' = NoTask
<1>1. MaxRetries \in Nat /\ \A t \in Tasks : queue[t].retries \in Nat
  BY TaskQueueAssumption DEF TypeOK, TaskTable, Row
<1>2. CASE UNCHANGED Work!vars
  <2>1. statusKept /\ triesKept
    BY <1>2, RowsBecome DEF Work!vars
  <2>2. handKept
    BY <1>2 DEF Work!vars
  <2> QED
    BY <1>1, <2>1, <2>2 DEF RowsSafe, RowsKept
<1>3. ASSUME NEW j \in Tasks, Work!Add(j) PROVE RowsSafe' /\ RowsKept
  <2>1. become(j, "pending") /\ triesKept /\ handKept /\ queue[j].st = "absent"
    BY <1>3, RowsBecome DEF Work!Add
  <2> QED
    BY <1>1, <2>1 DEF RowsSafe, RowsKept
<1>4. ASSUME NEW j \in Tasks, Work!Cancel(j) PROVE RowsSafe' /\ RowsKept
  <2>1. /\ become(j, "cancelled") /\ triesKept /\ handKept
        /\ queue[j].st \in {"pending", "running"}
    BY <1>4, RowsBecome DEF Work!Cancel
  <2> QED
    BY <1>1, <2>1 DEF RowsSafe, RowsKept
<1>5. ASSUME NEW j \in Tasks, Work!GiveBack(j) PROVE RowsSafe' /\ RowsKept
  <2>1. /\ become(j, "pending") /\ triesKept /\ handKept
        /\ Stage = "free" /\ queue[j].st = "running"
    BY <1>5, RowsBecome DEF Work!GiveBack
  <2> QED
    BY <1>1, <2>1 DEF RowsSafe, RowsKept
<1>6. ASSUME NEW j \in Tasks, Work!Pick(j) PROVE RowsSafe' /\ RowsKept
  <2>1. /\ statusKept /\ triesKept /\ Stage' = "picked" /\ job' = j
        /\ queue[j].st = "pending" /\ \A t \in Tasks : queue[t].st # "running"
    BY <1>6, RowsBecome DEF Work!Pick, Work!InHand, Work!Claimed
  <2> QED
    BY <1>1, <2>1 DEF RowsSafe, RowsKept
<1>7. ASSUME NEW j \in Tasks, Work!GoOn(j) PROVE RowsSafe' /\ RowsKept
  <2>1. /\ statusKept /\ triesKept /\ Stage' = "work" /\ job' = j
        /\ queue[j].st = "running"
    BY <1>7, RowsBecome DEF Work!GoOn, Work!InHand
  <2> QED
    BY <1>1, <2>1 DEF RowsSafe, RowsKept
<1>8. ASSUME NEW j \in Tasks, Work!Fail(j) PROVE RowsSafe' /\ RowsKept
  <2> PICK st : st = IF queue[j].retries + 1 > MaxRetries THEN "failed" ELSE "pending"
    OBVIOUS
  <2>0. [t \in Tasks |-> queue[t].st][j] = queue[j].st
        /\ [t \in Tasks |-> queue[t].retries][j] = queue[j].retries
    OBVIOUS
  <2>1. become(j, st)
    <3>1. Work!Becomes(j, st)
      BY <1>8, <2>0 DEF Work!Fail, Work!Becomes
    <3> QED
      BY <3>1, RowsBecome
  <2>2. \A t \in Tasks : queue'[t].retries = IF t = j THEN queue[t].retries + 1 ELSE queue[t].retries
    <3> SUFFICES ASSUME NEW t \in Tasks
                 PROVE  queue'[t].retries = IF t = j THEN queue[t].retries + 1 ELSE queue[t].retries
      OBVIOUS
    <3>1. [u \in Tasks |-> queue'[u].retries] =
          [[u \in Tasks |-> queue[u].retries] EXCEPT ![j] = @ + 1]
      BY <1>8 DEF Work!Fail
    <3>2. [u \in Tasks |-> queue'[u].retries][t] =
          [[u \in Tasks |-> queue[u].retries] EXCEPT ![j] = @ + 1][t]
      BY <3>1
    <3> QED
      BY <3>2
  <2>3. /\ emptied
        /\ \/ Stage = "work" /\ j = job
           \/ Stage = "free" /\ queue[j].st = "running"
    <3>1. emptied
      BY <1>8 DEF Work!Fail, Work!EmptyHand, Work!InHand
    <3>2. \/ Stage = "work" /\ j = job
          \/ Stage = "free" /\ queue[j].st = "running"
      BY <1>8, <2>0 DEF Work!Fail
    <3> QED
      BY <3>1, <3>2
  <2> QED
    BY <1>1, <2>1, <2>2, <2>3 DEF RowsSafe, RowsKept
<1>9. CASE Work!Claim
  <2> PICK j \in Tasks : j = job
    BY <1>9 DEF RowsSafe, Work!Claim
  <2>1. /\ become(j, "running") /\ triesKept /\ Stage = "picked"
        /\ emptied \/ (Stage' = "work" /\ job' = j)
    <3>1. Work!Becomes(j, "running")
      BY <1>9 DEF Work!Claim, Work!Becomes
    <3> QED
      BY <1>9, <3>1, RowsBecome DEF Work!Claim, Work!EmptyHand, Work!InHand
  <2> QED
    BY <1>1, <2>1 DEF RowsSafe, RowsKept
<1>10. CASE Work!LetGo
  <2>1. emptied
    BY <1>10 DEF Work!LetGo, Work!EmptyHand, Work!InHand
  <2>2. statusKept /\ triesKept
    <3>1. UNCHANGED [t \in Tasks |-> queue[t].st] /\ UNCHANGED [t \in Tasks |-> queue[t].retries]
      BY <1>10 DEF Work!LetGo
    <3> QED
      BY <3>1, RowsBecome
  <2> QED
    BY <1>1, <2>1, <2>2 DEF RowsSafe, RowsKept
<1>11. CASE Work!Finish
  <2> PICK j \in Tasks : j = job
    BY <1>11 DEF RowsSafe, Work!Finish
  <2>1. become(j, "done") /\ triesKept /\ emptied /\ Stage = "work"
    <3>1. Work!Becomes(j, "done")
      BY <1>11 DEF Work!Finish, Work!Becomes
    <3> QED
      BY <1>11, <3>1, RowsBecome DEF Work!Finish, Work!EmptyHand, Work!InHand
  <2> QED
    BY <1>1, <2>1 DEF RowsSafe, RowsKept
<1> QED
  BY <1>2, <1>3, <1>4, <1>5, <1>6, <1>7, <1>8, <1>9, <1>10, <1>11 DEF Work!Next

\* The first rows are untried.
LEMMA RowsStart == Init => RowsSafe
<1> SUFFICES ASSUME Init PROVE RowsSafe
  OBVIOUS
<1>1. run[Tick] = Idle
  BY DEF Init
<1> QED
  BY <1>1, IdleHand, TaskQueueAssumption DEF RowsSafe, Init, FreshQueue

\* The tick has one job at a time; one row is claimed at most, and beside a job in
\* hand none but that one; a row is given up after max_retries counted failures and
\* one more, not sooner or later, however many crashes and cancellations it met.
THEOREM OneJobTriesCounted == Spec => [](Work!HandHolds /\ Work!OneJob /\ Work!TriesCounted)
<1>1. Init => RowsSafe
  BY RowsStart
<1>2. TypeOK /\ RowsSafe /\ [Work!Next]_(Work!vars) => RowsSafe'
  BY RowsSafeStep
<1>3. RowsSafe => Work!HandHolds /\ Work!OneJob /\ Work!TriesCounted
  BY RowsSafeMapped
<1> QED
  BY <1>1, <1>2, <1>3, TypeCorrect, QueueIsWorkQueue, PTL
     DEF Spec, QueueKeepsPromise, Work!Spec

\* A row that is done or given up stays so, and no step forgets a failed attempt.
THEOREM RowsSettleOnce == Spec => Work!SettledStays
<1>1. Init => RowsSafe
  BY RowsStart
<1>2. TypeOK /\ RowsSafe /\ [Work!Next]_(Work!vars) => RowsSafe'
  BY RowsSafeStep
<1>3. TypeOK /\ RowsSafe /\ [Work!Next]_(Work!vars) =>
        [\A j \in Tasks :
           /\ [t \in Tasks |-> queue[t].st][j] \in {"done", "failed"}
                => ([t \in Tasks |-> queue[t].st]')[j] = [t \in Tasks |-> queue[t].st][j]
           /\ ([t \in Tasks |-> queue[t].retries]')[j] >= [t \in Tasks |-> queue[t].retries][j]]_(Work!vars)
  BY RowsSafeStep DEF RowsKept
<1> QED
  BY <1>1, <1>2, <1>3, TypeCorrect, QueueIsWorkQueue, PTL
     DEF Spec, QueueKeepsPromise, Work!Spec, Work!SettledStays
=============================================================================
