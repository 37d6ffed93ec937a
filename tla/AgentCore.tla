----------------------------- MODULE AgentCore -----------------------------
(***************************************************************************)
(* The telegram process as a whole: owner messages, the queue tick and the *)
(* database they share, with agent/crash_recovery.py on restart.  Every    *)
(* memory/db.py call commits on its own, so the process can also die       *)
(* between two writes of one handler: the Torn actions.                    *)
(***************************************************************************)
EXTENDS QueueRunner, Controller

CONSTANTS
  MaxFaults,     \* bound: crashes, shutdowns, cancelled rows and hours passed
  Crashes,       \* may the process die?
  Shutdowns,     \* may the launcher stop it in an orderly way?
  Torn,          \* may it die between two writes of one handler?
  Cancels        \* may Lin have a queued task cancelled?

ASSUME AgentCoreAssumption ==
  /\ MaxFaults \in Nat
  /\ Crashes \in BOOLEAN /\ Shutdowns \in BOOLEAN
  /\ Torn \in BOOLEAN /\ Cancels \in BOOLEAN

Init ==
  /\ sess = EmptySessions
  /\ hang = EmptyHanging
  /\ queue = FreshQueue
  /\ frozen = FALSE
  /\ run = [p \in Procs |-> IF p = Tick THEN Idle ELSE Fresh]
  /\ bound = {}
  /\ approved = [h \in HangIds |-> 0]
  /\ up = TRUE
  /\ clean = FALSE
  /\ faults = 0

Fault == faults < MaxFaults /\ faults' = faults + 1

-----------------------------------------------------------------------------
\* the queue_add tool: priority and age give the new row any place in the order
ToolAddsTask(p) ==
  /\ run[p].pc = "tool"
  /\ \E t \in RowsIn(queue, "absent") : queue' = AddRow(queue, t)
  /\ UNCHANGED <<sess, hang, frozen, run, bound, approved, hostVars>>

\* the idle agenda has an idea: nobody is at work and the queue lists nothing
AgendaAddsTask ==
  /\ up /\ run[Tick].pc = "idle"
  /\ Active(sess) = {} /\ ListEmpty(queue)
  /\ \E t \in RowsIn(queue, "absent") \ Scheduled : queue' = AddRow(queue, t)
  /\ UNCHANGED <<sess, hang, frozen, run, bound, approved, hostVars>>

\* the queue_cancel tool: the row changes, its session does not
ToolCancelsTask(p) ==
  /\ Cancels /\ Fault
  /\ run[p].pc = "tool"
  /\ \E t \in RowsIn(queue, "pending") \cup RowsIn(queue, "running") :
       queue' = CancelRow(queue, t)
  /\ UNCHANGED <<sess, hang, frozen, run, bound, approved, up, clean>>

\* an hour without an answer; no single await lasts that long
HourPasses ==
  /\ Fault
  /\ \A p \in Procs : run[p].pc \notin {"publish", "routing", "classify"}
  /\ \E h \in HangIds : hang[h].st = "fresh"
  /\ hang' = [h \in HangIds |->
                IF hang[h].st = "fresh" THEN [hang[h] EXCEPT !.st = "stale"] ELSE hang[h]]
  /\ UNCHANGED <<sess, queue, frozen, run, bound, approved, up, clean>>

-----------------------------------------------------------------------------
\* every coroutine is gone; messages that had arrived are lost
Halt(flag) ==
  /\ Fault /\ up /\ up' = FALSE /\ clean' = flag
  /\ run' = [p \in Procs |-> IF p = Tick THEN Idle
                             ELSE IF run[p].pc = "new" THEN Fresh ELSE Ended]
  /\ UNCHANGED <<frozen, bound, approved>>

Die(ss, hh, qq) == Halt(FALSE) /\ sess' = ss /\ hang' = hh /\ queue' = qq

\* os._exit of the restart tools, a kill, a power cut
Crash == Crashes /\ Die(sess, hang, queue)

\* SIGTERM to the launcher marks the shutdown clean and stops the process
Shutdown ==
  /\ Shutdowns /\ Halt(TRUE)
  /\ UNCHANGED <<sess, hang, queue>>

\* wait_user is written, the question is not
TornAsk(p) ==
  /\ Torn /\ MayAsk(p) /\ run[p].sid # NoSession
  /\ Die(WaitUser(sess, run[p].sid), hang, queue)

\* the approval is written, wait_user is not
TornApproval(p) ==
  /\ Torn /\ MayAsk(p)
  /\ Die(sess, Post(hang, "approval", run[p].sid, {}), queue)

\* the question is resolved, its session not yet resumed
TornAnswer(h) ==
  /\ Torn /\ h \in Pending(hang, {"approval", "ask_user"})
  /\ \E m \in Messages : Arrives(m)
  /\ Die(sess, ResolveRow(hang, h), queue)

\* the queue session is done, its row still claimed
TornSettle ==
  /\ Torn /\ run[Tick].pc \in {"llm", "final"}
  /\ Die(Complete(sess, run[Tick].sid), hang, queue)

\* the queue session exists, its row is not claimed yet
TornClaim ==
  /\ Torn /\ run[Tick].pc = "classify" /\ CanCreate(sess)
  /\ \E tags \in SUBSET Tags : Die(StartQueue(sess, tags), hang, queue)

TornStep ==
  \/ \E p \in Procs : TornAsk(p) \/ TornApproval(p)
  \/ \E h \in HangIds : TornAnswer(h)
  \/ TornSettle \/ TornClaim

-----------------------------------------------------------------------------
(* recover_after_crash, before anything else runs                          *)

CrashDetected == ~clean /\ Active(sess) # {}

\* mutant: the orphan is cancelled before its claim is looked up
RequeuesNothing == queue

\* mutant: only Lin's orphans are looked after
QueueOrphansStayActive ==
  [s \in SessionIds |->
     IF s \in ChatActives(sess) THEN [sess[s] EXCEPT !.st = "paused"] ELSE sess[s]]

\* mutant: every orphan is paused, as Lin's are
PausesAllOrphans ==
  [s \in SessionIds |->
     IF s \in Active(sess) THEN [sess[s] EXCEPT !.st = "paused"] ELSE sess[s]]

\* mutant: every unfinished session counts as an orphan
PausesAllUnfinished ==
  [s \in SessionIds |->
     IF sess[s].st \in {"active"} \cup Blocked THEN [sess[s] EXCEPT !.st = "paused"] ELSE sess[s]]

\* queue orphans are cancelled and a claimed row among them requeued; chat
\* orphans are paused
RecoveredQueue ==
  [t \in Tasks |->
     IF queue[t].st = "running" /\ queue[t].sid \in QueueActives(sess)
       THEN Requeue(queue, t)[t] ELSE queue[t]]

RecoveredSess ==
  [s \in SessionIds |->
     IF s \in QueueActives(sess) THEN [sess[s] EXCEPT !.st = "cancelled"]
     ELSE IF s \in ChatActives(sess) THEN [sess[s] EXCEPT !.st = "paused"]
     ELSE sess[s]]

\* one question for all of Lin's orphans, linked to a session only if single
AskToContinue ==
  LET orphans == ChatActives(sess) IN
  IF orphans = {} THEN hang
  ELSE Post(hang, "crash_resume",
            IF Cardinality(orphans) = 1 THEN CHOOSE s \in orphans : TRUE ELSE NoSession,
            orphans)

Restart ==
  /\ ~up /\ up' = TRUE /\ clean' = FALSE
  /\ IF CrashDetected
       THEN /\ ChatActives(sess) # {} => CanPost(hang)
            /\ queue' = RecoveredQueue
            /\ sess' = RecoveredSess
            /\ hang' = AskToContinue
       ELSE UNCHANGED <<sess, hang, queue>>
  /\ UNCHANGED <<frozen, run, bound, approved, faults>>

\* dies again after pausing the orphans, before the question is written
TornRecovery ==
  /\ Torn /\ Fault
  /\ ~up /\ CrashDetected
  /\ queue' = RecoveredQueue
  /\ sess' = RecoveredSess
  /\ UNCHANGED <<hang, frozen, run, bound, approved, up, clean>>

-----------------------------------------------------------------------------
Next ==
  \/ TickStep
  \/ \E m \in Messages : MessageArrives(m) \/ MessageStep(m)
  \/ \E p \in Procs : ToolAddsTask(p) \/ ToolCancelsTask(p)
  \/ AgendaAddsTask
  \/ HourPasses
  \/ Crash \/ Shutdown \/ TornStep
  \/ Restart \/ TornRecovery

Spec == Init /\ [][Next]_vars

Fairness ==
  /\ WF_vars(TickStep)
  /\ \A m \in Messages : WF_vars(MessageStep(m))

FairSpec == Spec /\ Fairness

-----------------------------------------------------------------------------
\* Every table row, coroutine and flag keeps its shape.
TypeOK ==
  /\ sess \in SessionTable
  /\ hang \in HangingTable
  /\ queue \in TaskTable
  /\ run \in [Procs -> Frame]
  /\ approved \in [HangIds -> Nat]
  /\ bound \subseteq SessionIds
  /\ frozen \in BOOLEAN /\ up \in BOOLEAN /\ clean \in BOOLEAN
  /\ faults \in 0..MaxFaults

\* The tick claims one row at a time.  queue_get_running() reads LIMIT 1 in no
\* order and every settling path trusts what it returns.
SingleClaim ==
  \A t, u \in Tasks : queue[t].st = "running" /\ queue[u].st = "running" => t = u

\* SingleClaim and why a claim keeps it: run_queue_tick checks for a claimed row,
\* then awaits the classifier, and nothing is claimed during that await.
ClaimInv ==
  /\ SingleClaim
  /\ run[Tick].pc = "classify" => RowsIn(queue, "running") = {}

Driving(p) == run[p].pc \in InLoop \cup {"approved", "reflect"}

\* A session is active only while some coroutine is working on it.  An active
\* session that nobody drives keeps its lane and its slot for ever: no tick,
\* sweep or message handler ever looks at it again.
ActiveDriven ==
  up => \A s \in Active(sess) : \E p \in Procs : Driving(p) /\ run[p].sid = s

\* No two coroutines drive the same session, whatever woke them: a message, the
\* answer to a question, crash_resume, or the tick's two wakers.
NoDoubleRun ==
  \A p, q \in Procs :
    Driving(p) /\ Driving(q) /\ run[p].sid = run[q].sid /\ run[p].sid # NoSession => p = q

\* An unfinished autonomous session is the one a claimed row points to, so that
\* run_queue_tick can find it again (queue_runner's module docstring).
NoOrphan ==
  up => \A s \in SessionIds :
          sess[s].origin = "queue" /\ sess[s].st \in Blocked \cup {"active"} =>
            \E t \in RowsIn(queue, "running") : queue[t].sid = s

\* The session of a claimed row can still make its row settle: _execute settles
\* when the run ends and reconciliation only looks for a failed session, so a
\* claim on a session that is done or cancelled is never given back.
ClaimCanSettle ==
  \A t \in RowsIn(queue, "running") :
    sess[queue[t].sid].st \notin {"none", "done", "cancelled"}

\* A row is reported done only if its session ended well.
DoneRowDone == \A t \in RowsIn(queue, "done") : sess[queue[t].sid].st = "done"

AskedOf(s) == {h \in Pending(hang, {"approval", "ask_user"}) : hang[h].sid = s}

\* A session waiting for Lin has exactly one question that wakes it
\* (hanging_get_pending_for_session says so).
WaitingHasQuestion ==
  \A s \in SessionIds : sess[s].st = "waiting_user" => Cardinality(AskedOf(s)) = 1

\* A pending question belongs to a session that still waits for the answer:
\* otherwise the answer, or the question's expiry, hits a session gone on.
QuestionHasWaiter ==
  \A s \in SessionIds : AskedOf(s) # {} => sess[s].st = "waiting_user"

\* At most one stashed history, of a session that is still displaced
\* (resume_displaced reads the newest stash only).
OneStash ==
  \A h, g \in Pending(hang, Stash) : h = g /\ IsDisplaced(sess, hang[h].sid)

\* A queue session paused for want of a slot is woken by its stash alone:
\* there is one, or the live run is about to notice and write it.
PausedHasStash ==
  up => \A s \in SessionIds :
          sess[s].origin = "queue" /\ sess[s].st = "paused" =>
            \/ Driving(Tick) /\ run[Tick].sid = s
            \/ \E h \in Pending(hang, Stash) : hang[h].sid = s

\* A question some message was listed, before the fast model told it which one
\* Lin answers.
Listed(h) == \E m \in Messages : run[m].pc = "routing" /\ h \in run[m].hids

\* A "yes" is spent when it is used: afterwards only a message that had been
\* listed the question before (it sits in the router's await, and no one reads
\* the row again) can start the confirmed tool a second time; no later message,
\* expiry, crash or restart starts it or lists it to anyone.
YesIsSpent ==
  [][\A h \in HangIds :
       approved[h] > 0 /\ ~Listed(h) => approved'[h] = approved[h] /\ ~Listed(h)']_vars

\* Lin never has two threads of conversation at work (scheduler.py's lanes).
OneChatActive == Cardinality(ChatActives(sess)) <= 1

\* What Lin declined stays declined and what is done stays done: no expiry, late
\* answer, retry, tick or recovery writes either again (sessions.py's status
\* setters look at nothing, so each of their callers must be right).
EndedStays ==
  [][\A s \in SessionIds : sess[s].st \in {"done", "cancelled"} => sess'[s].st = sess[s].st]_vars

ByTick == up /\ up' /\ \A m \in Messages : run'[m] = run[m]

\* Lin's own tasks: chat sessions
LinsSessions == {s \in SessionIds : sess[s].origin = "chat"}

\* Whatever the queue asks Lin and whoever answers it, her own sessions stay in
\* order: one of hers that waits has its one question, one that does not has
\* none, an active one is driven, and never by two coroutines.
LinsTasksHold ==
  \A s \in LinsSessions :
    /\ Cardinality(AskedOf(s)) = IF sess[s].st = "waiting_user" THEN 1 ELSE 0
    /\ up /\ sess[s].st = "active" => \E p \in Procs : Driving(p) /\ run[p].sid = s
    /\ \A p, q \in Procs :
         Driving(p) /\ Driving(q) /\ run[p].sid = s /\ run[q].sid = s => p = q

\* So with her own tasks, queue questions or not.
LinsEndedStay ==
  [][\A s \in LinsSessions : sess[s].st \in {"done", "cancelled"} => sess'[s].st = sess[s].st]_vars

\* Whichever of its three paths activates an autonomous session, the tick never
\* takes a resource of Lin's running task, nor a slot that is not there.
TickRespectsLin ==
  [][ByTick =>
       \A s \in QueueActives(sess') \ QueueActives(sess) :
         /\ Conflicts(sess', sess'[s].tags, ChatActives(sess')) = {}
         /\ Cardinality(Active(sess')) <= MaxConcurrent]_vars

\* The tick as WorkQueue's worker: between reading the next row and its claim, in
\* a run, or neither.
Stage == IF run[Tick].pc = "classify" THEN "picked"
         ELSE IF run[Tick].pc \in InLoop THEN "work" ELSE "free"

Work == INSTANCE WorkQueue WITH
  Jobs     <- Tasks,
  First    <- FirstTasks,
  NoJob    <- NoTask,
  MaxTries <- MaxRetries,
  status   <- [t \in Tasks |-> queue[t].st],
  tries    <- [t \in Tasks |-> queue[t].retries],
  stage    <- Stage,
  job      <- run[Tick].task

\* The queue is a WorkQueue under every fault: no crash, answer or cancellation
\* makes the tick claim, count, settle or give back what is not the job in its
\* hand or the claimed one.
QueueKeepsPromise == Work!Spec

\* While the stop-phrase holds, no row is claimed (queue_runner: "no new task
\* starts while either is set").
FreezeHolds ==
  [][frozen => \A t \in Tasks : queue'[t].st = "running" => queue[t].st = "running"]_vars

\* A claim is given back unless autonomy stays frozen: displaced, blocked and
\* expired runs all end, and their rows with them.
ClaimSettles ==
  \A t \in Tasks : <>[](queue[t].st = "running") => []<>frozen
=============================================================================
