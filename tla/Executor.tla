------------------------------ MODULE Executor ------------------------------
(***************************************************************************)
(* The shared state of the telegram process and agent/executor.py's tool   *)
(* loop.  Every owner message is an asyncio Task of its own and the day    *)
(* tick is one more; a process gives way to the others only where it       *)
(* awaits, so one action runs from one await to the next.  run[p] is the   *)
(* suspended coroutine: pc names the await it sits in.                     *)
(***************************************************************************)
EXTENDS Scheduler, Hanging, TaskQueue

CONSTANTS
  Messages,      \* owner messages, one asyncio Task each
  Tick,          \* the day/tick.py loop
  MaxIter,       \* rounds of the tool loop (max_iterations)
  QueueAsks,     \* may a queue run ask Lin or hit a yellow/red tool?
  BusStalls      \* may a bus publish block (the display lags behind)?

ASSUME ExecutorAssumption ==
  /\ Tick \notin Messages
  /\ MaxIter \in Nat \ {0}
  /\ QueueAsks \in BOOLEAN /\ BusStalls \in BOOLEAN

VARIABLES
  sess,          \* task_sessions
  hang,          \* hanging_questions
  queue,         \* rubedo_queue
  frozen,        \* meta autonomy_frozen (stop-phrase)
  run,           \* the coroutines
  bound,         \* sessions with a message_bindings row
  approved,      \* history: how often each approval's tool was started
  up,            \* is the process alive?
  clean,         \* agent_state.clean_shutdown
  faults         \* crashes, shutdowns, cancelled rows, hours passed so far

vars == <<sess, hang, queue, frozen, run, bound, approved, up, clean, faults>>
hostVars == <<up, clean, faults>>

Procs == Messages \cup {Tick}

\* awaits of the tool loop: an LLM call, a tool, the last LLM call after the
\* rounds ran out, the bus publish between a request and its wait_user
InLoop == {"llm", "tool", "final", "publish"}

Caller == {"none", "queue", "simple", "deep", "retry", "answer", "crash"}

Frame ==
  [pc     : {"new", "idle", "routing", "classify", "plan", "approved",
             "reflect", "send", "done"} \cup InLoop,
   caller : Caller,                      \* who called executor.run
   sid    : SessionIds \cup {NoSession},
   task   : Tasks \cup {NoTask},         \* the row the tick works on
   text   : {"plain", "yes", "no"},      \* what Lin wrote
   hids   : SUBSET HangIds,              \* routing's snapshot of pending rows
   todo   : SUBSET SessionIds,           \* crash_resume sessions still to go
   iter   : Nat,
   gated  : BOOLEAN]                     \* frozen when read: no tools

Ended == [pc |-> "done", caller |-> "none", sid |-> NoSession, task |-> NoTask,
          text |-> "plain", hids |-> {}, todo |-> {}, iter |-> 0, gated |-> FALSE]
Fresh == [Ended EXCEPT !.pc = "new"]
Idle  == [Ended EXCEPT !.pc = "idle"]
Rest(p) == IF p = Tick THEN Idle ELSE Ended

Calling(caller, s, task, gated) ==
  [Ended EXCEPT !.caller = caller, !.sid = s, !.task = task, !.gated = gated]

\* the reply is on its way to Lin; what is left of a crash_resume follows
Sending(s, todo) == [Ended EXCEPT !.pc = "send", !.sid = s, !.todo = todo]

Put(p, f) == run' = [run EXCEPT ![p] = f]

-----------------------------------------------------------------------------
(* Back in the caller: queue_runner._execute settles the row in the same   *)
(* breath, a deep task that failed is reflected on, the rest is sent.      *)

\* mutant: whatever ended the run, the row is done
SettleAsDone(qq, ss, f) ==
  IF ss[f.sid].st \in Terminal THEN MarkDone(qq, f.task) ELSE qq

Settle(qq, ss, f) ==
  IF ss[f.sid].st = "failed" THEN MarkFailed(qq, f.task)
  ELSE IF ss[f.sid].st = "done" THEN MarkDone(qq, f.task)
  ELSE qq

Return(p, f, ss, hh, qq) ==
  /\ sess' = ss
  /\ hang' = hh
  /\ \/ /\ f.caller = "queue"
        /\ queue' = Settle(qq, ss, f)
        /\ Put(p, Idle)
     \/ /\ f.caller = "deep" /\ ss[f.sid].st = "failed"
        /\ queue' = qq
        /\ Put(p, [f EXCEPT !.pc = "reflect", !.iter = 0])
     \/ /\ f.caller # "queue" /\ ~(f.caller = "deep" /\ ss[f.sid].st = "failed")
        /\ queue' = qq
        /\ Put(p, Sending(f.sid, f.todo))

\* mutant: resumable_on_pause is not passed, the history is dropped
HaltWithoutStash(p, f, ss, hh, qq) ==
  \/ IsDisplaced(ss, f.sid) /\ Return(p, f, ss, hh, qq)
  \/ /\ ~IsDisplaced(ss, f.sid)
     /\ sess' = ss /\ hang' = hh /\ queue' = qq
     /\ Put(p, [f EXCEPT !.pc = "llm"])

\* top of a round: a run whose session was displaced stops here; a queue run
\* stashes its history first
BeginRound(p, f, ss, hh, qq) ==
  \/ /\ IsDisplaced(ss, f.sid)
     /\ f.caller = "queue" => CanPost(hh)
     /\ Return(p, f, ss,
               IF f.caller = "queue" THEN Post(hh, "session_displaced", f.sid, {}) ELSE hh,
               qq)
  \/ /\ ~IsDisplaced(ss, f.sid)
     /\ sess' = ss /\ hang' = hh /\ queue' = qq
     /\ Put(p, [f EXCEPT !.pc = "llm"])

-----------------------------------------------------------------------------
Quiet == UNCHANGED <<frozen, bound, approved, hostVars>>

\* the model answers without a tool call (or with its last words)
FinalReply(p) ==
  /\ run[p].pc \in {"llm", "final"}
  /\ Return(p, run[p], Complete(sess, run[p].sid), hang, queue)
  /\ Quiet

\* an LLM error reaches the caller, which fails the session; a detected loop
\* and an error on the last call fail it here
RunFails(p) ==
  /\ run[p].pc \in {"llm", "tool", "final"}
  /\ Return(p, run[p], Fail(sess, run[p].sid), hang, queue)
  /\ Quiet

CallTool(p) ==
  /\ run[p].pc = "llm" /\ ~run[p].gated
  /\ Put(p, [run[p] EXCEPT !.pc = "tool"])
  /\ UNCHANGED <<sess, hang, queue>> /\ Quiet

\* the round's last tool is back, or timed out
ToolReturns(p) ==
  LET f == [run[p] EXCEPT !.iter = @ + 1] IN
  /\ run[p].pc = "tool"
  /\ \/ f.iter < MaxIter /\ BeginRound(p, f, sess, hang, queue)
     \/ /\ f.iter >= MaxIter
        /\ Put(p, [f EXCEPT !.pc = "final"])
        /\ UNCHANGED <<sess, hang, queue>>
  /\ Quiet

MayAsk(p) ==
  /\ run[p].pc \in {"llm", "tool"} /\ ~run[p].gated
  /\ run[p].caller = "queue" => QueueAsks
  /\ CanPost(hang)

\* mutant: the session is not put to waiting_user
AskUserStaysActive(p) ==
  /\ MayAsk(p) /\ run[p].sid # NoSession
  /\ Return(p, run[p], sess, Post(hang, "ask_user", run[p].sid, {}), queue)
  /\ Quiet

\* the ask_user tool halts the run, its history goes into the hanging row
AskUser(p) ==
  /\ MayAsk(p) /\ run[p].sid # NoSession
  /\ Return(p, run[p], WaitUser(sess, run[p].sid),
            Post(hang, "ask_user", run[p].sid, {}), queue)
  /\ Quiet

\* a yellow/red tool halts the run; the row is there before wait_user, with a
\* bus publish between them (a queue run's bus client is never connected)
RequestApproval(p) ==
  LET hh == Post(hang, "approval", run[p].sid, {}) IN
  /\ MayAsk(p)
  /\ \/ Return(p, run[p], WaitUser(sess, run[p].sid), hh, queue)
     \/ /\ BusStalls /\ run[p].caller # "queue"
        /\ hang' = hh
        /\ Put(p, [run[p] EXCEPT !.pc = "publish"])
        /\ UNCHANGED <<sess, queue>>
  /\ Quiet

PublishDrains(p) ==
  /\ run[p].pc = "publish"
  /\ Return(p, run[p], WaitUser(sess, run[p].sid), hang, queue)
  /\ Quiet

ExecutorStep(p) ==
  \/ FinalReply(p) \/ RunFails(p) \/ CallTool(p) \/ ToolReturns(p)
  \/ AskUser(p) \/ RequestApproval(p) \/ PublishDrains(p)
=============================================================================
