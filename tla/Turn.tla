-------------------------------- MODULE Turn --------------------------------
(***************************************************************************)
(* agent/executor.py's tool loop call by call: the model's answers, the    *)
(* gate a tool call passes (agent/zones.py, agent/idempotency.py), the     *)
(* step journal that agent/crash_recovery.py reads after a crash, and the  *)
(* controller around it: approved tools, the reflective retry, the resume  *)
(* after a crash.  Executor.tla has the sessions and questions of the same *)
(* loop; here a turn's session is only what the journal needs.             *)
(*                                                                         *)
(* A tool call is one pair of name and arguments.  A tool that is in no    *)
(* map is a call whose tool returns an error.                              *)
(***************************************************************************)
EXTENDS LLMAccess, FiniteSets

CONSTANTS
  Sessioned,     \* turns with a task session: the deep ones
  MaxRounds,     \* turn -> max_iterations
  Calls,         \* tool calls
  Menu,          \* bound: turn -> the calls its model may make
  SideEffects,   \* calls of SIDE_EFFECT_TOOLS
  Cooled,        \* calls of tools with a cooldown
  Gated,         \* calls in the yellow or red zone
  Asks,          \* calls of ask_user
  ReadOnly,      \* calls of _READ_ONLY_TOOLS
  Reporting,     \* calls of session_plan and session_report
  Limit,         \* EXACT_DUPLICATE_LIMIT
  MaxCrashes     \* bound: crashes in one behaviour

NoTool == "none"

ASSUME TurnAssumption ==
  /\ NoTool \notin Calls
  /\ Sessioned \subseteq Callers
  /\ MaxRounds \in [Callers -> Nat \ {0}]
  /\ Menu \in [Callers -> SUBSET Calls]
  /\ Cooled \subseteq SideEffects /\ SideEffects \subseteq Calls
  /\ Gated \subseteq Calls /\ Asks \subseteq Calls \ Gated
  /\ ReadOnly \subseteq Calls /\ Reporting \subseteq ReadOnly
  /\ Limit \in Nat \ {0} /\ MaxCrashes \in Nat

VARIABLES
  turn,          \* the coroutines
  sess,          \* the turns' sessions with the end of their journals
  stamp,         \* tool_last_call:* younger than the cooldown
  up,            \* is the process alive?
  crashes,       \* crashes so far
  writing,       \* turns with threads that have a report to write
  inFlight,      \* history: the executor's tool when the process died
  blurred        \* history: was anything written after the step's start?

vars == <<llmVars, turn, sess, stamp, up, crashes, writing, inFlight, blurred>>

\* awaits of executor.run: a model call, the publish of ToolCalled, the tool,
\* the publish of ToolFinished; then of the reflection on a failure
InRun == {"llm", "called", "tool", "finished"}
Running == InRun \cup {"failed", "reflect"}

Frame ==
  [pc      : Running \cup {"new", "waiting", "asked", "approved", "cut", "paused", "done"},
   round   : Nat,
   counts  : [Calls -> 0..(Limit - 1)],   \* exact_counts
   tool    : Calls \cup {NoTool},
   trimmed : BOOLEAN,                  \* this round's request was trimmed
   retried : BOOLEAN,                  \* no reflection any more
   ran     : [SideEffects -> Nat]]     \* history: side effects of this run

Row ==
  [st   : {"none", "active", "waiting_user", "failed", "done", "paused", "cancelled"},
   last : {"step_started", "other"},   \* kind of the last journal entry
   step : Calls \cup {NoTool},         \* the tool that entry names
   note : {"none", "read", "write", "between"}]   \* the crash_recovery entry

NoCounts == [c \in Calls |-> 0]
Fresh == [pc |-> "new", round |-> 0, counts |-> NoCounts, tool |-> NoTool,
          trimmed |-> FALSE, retried |-> FALSE, ran |-> [c \in SideEffects |-> 0]]
NoRow == [st |-> "none", last |-> "other", step |-> NoTool, note |-> "none"]

Init ==
  /\ LLMInit
  /\ turn = [p \in Callers |-> Fresh]
  /\ sess = [p \in Callers |-> NoRow]
  /\ stamp = [c \in Cooled |-> FALSE]
  /\ up = TRUE
  /\ crashes = 0
  /\ writing = {}
  /\ inFlight = [p \in Callers |-> NoTool]
  /\ blurred = [p \in Callers |-> FALSE]

-----------------------------------------------------------------------------
At(p, pc) == up /\ turn[p].pc = pc
Put(p, f) == turn' = [turn EXCEPT ![p] = f]
Rest(p) == Put(p, [Fresh EXCEPT !.pc = "done"])

\* agent/sessions.py: every call writes the journal, and does nothing for a
\* turn without a session
Journal(r, kind, step) == [r EXCEPT !.last = kind, !.step = step]
PutRow(p, r) == sess' = IF p \in Sessioned THEN [sess EXCEPT ![p] = r] ELSE sess
Becomes(p, r, st) == PutRow(p, [Journal(r, "other", NoTool) EXCEPT !.st = st])

Still == UNCHANGED <<stamp, up, crashes, writing, inFlight, blurred>>
KeepLLM == UNCHANGED llmVars

\* executor.run is entered, with counts of its own
EnterRun(p, retried) ==
  Put(p, [Fresh EXCEPT !.pc = "llm", !.round = 1, !.retried = retried])

\* sessions.pause, with its entry in the journal
Displace(r) == [Journal(r, "other", NoTool) EXCEPT !.st = "paused"]

\* scheduler.start_session: a deep turn opens a session and pauses Lin's other
\* ones that are active, whatever they are doing
Opens(p) ==
  sess' = IF p \in Sessioned
          THEN [q \in Callers |-> IF q = p THEN [NoRow EXCEPT !.st = "active"]
                                 ELSE IF sess[q].st = "active" THEN Displace(sess[q])
                                 ELSE sess[q]]
          ELSE sess

Begin(p) ==
  /\ At(p, "new")
  /\ EnterRun(p, FALSE) /\ Request(p, "openrouter")
  /\ Opens(p)
  /\ Still

\* a task of Lin's that is none of Callers begins.  (A session is blocked on a
\* resource only in the queue's lane: Executor.tla.)
Displaced(p) ==
  /\ up /\ sess[p].st = "active"
  /\ sess' = [sess EXCEPT ![p] = Displace(@)]
  /\ UNCHANGED turn /\ KeepLLM /\ Still

\* the rounds are used up: the last call has no tools
LastWords(p) == turn[p].round > MaxRounds[p]

-----------------------------------------------------------------------------
(* The gate every tool call passes, one call of an answer after the other. *)

\* the run fails; a session is looked back on once
Fails(p, r) ==
  /\ Becomes(p, r, "failed")
  /\ \/ /\ p \in Sessioned /\ ~turn[p].retried
        /\ Put(p, [Fresh EXCEPT !.pc = "failed"])
     \/ (p \notin Sessioned \/ turn[p].retried) /\ Rest(p)

\* yellow or red: the run ends with a question to Lin, and whatever else the
\* answer asked for is dropped
AsksLin(p, f, r, c) ==
  /\ c \in Gated
  /\ Put(p, [Fresh EXCEPT !.pc = "waiting", !.tool = c])
  /\ Becomes(p, r, "waiting_user")

\* ask_user ends a run that has a session to come back to; in any other it is a
\* tool like the rest
Halts(p, c) == c \in Asks /\ p \in Sessioned

AsksQuestion(p, f, r, c) ==
  /\ Halts(p, c)
  /\ Put(p, [Fresh EXCEPT !.pc = "asked"])
  /\ Becomes(p, r, "waiting_user")

Inline(p, c) == c \notin Gated /\ ~Halts(p, c)
Counted(f, c) == f.counts[c] + 1

Loops(p, f, r, c) == Inline(p, c) /\ Counted(f, c) >= Limit /\ Fails(p, r)

\* mutant: nothing stops a model that repeats itself
AdmitsLoops(p, f, r, c) ==
  /\ Inline(p, c)
  /\ Put(p, [f EXCEPT !.pc = "called", !.tool = c, !.counts[c] = @ + 1])
  /\ PutRow(p, r)

Admits(p, f, r, c) ==
  /\ Inline(p, c) /\ Counted(f, c) < Limit
  /\ Put(p, [f EXCEPT !.pc = "called", !.tool = c, !.counts[c] = @ + 1])
  /\ PutRow(p, r)

Gate(p, f, r, c) ==
  \/ AsksQuestion(p, f, r, c) \/ AsksLin(p, f, r, c)
  \/ Loops(p, f, r, c) \/ Admits(p, f, r, c)

\* at the top of a round a run notices that its session was displaced; the
\* last call is not such a round
Notices(p, f, r) == p \in Sessioned /\ r.st = "paused" /\ f.round < MaxRounds[p]

\* the answer has another tool call, or its round is over
Onward(p, f, r) ==
  \/ (\E c \in Menu[p] : Gate(p, f, r, c)) /\ KeepLLM
  \/ Notices(p, f, r) /\ Rest(p) /\ PutRow(p, r) /\ KeepLLM
  \/ /\ ~Notices(p, f, r)
     /\ Put(p, [f EXCEPT !.pc = "llm", !.round = @ + 1, !.tool = NoTool, !.trimmed = FALSE])
     /\ PutRow(p, r)
     /\ Request(p, "openrouter")

-----------------------------------------------------------------------------
(* What the model call brings.                                             *)

ModelWalks(p) ==
  /\ Walks(p) /\ call'[p].st # "exhausted"
  /\ UNCHANGED <<turn, sess>> /\ Still

FinalReply(p) ==
  /\ At(p, "llm") /\ Answers(p)
  /\ Becomes(p, sess[p], "done") /\ Rest(p)
  /\ Still

AnswerCallsTool(p) ==
  /\ At(p, "llm") /\ ~LastWords(p) /\ Answers(p)
  /\ \E c \in Menu[p] : Gate(p, turn[p], sess[p], c)
  /\ Still

\* mutant: the retry is not remembered
TrimsForEver(p) ==
  /\ At(p, "llm") /\ ~LastWords(p) /\ ~turn[p].trimmed
  /\ BadRequestAsks(p, "openrouter")
  /\ UNCHANGED <<turn, sess>> /\ Still

\* the context was too long: once per round the history is cut short
Trims(p) ==
  /\ At(p, "llm") /\ ~LastWords(p) /\ ~turn[p].trimmed
  /\ BadRequestAsks(p, "openrouter")
  /\ Put(p, [turn[p] EXCEPT !.trimmed = TRUE])
  /\ UNCHANGED sess /\ Still

\* mutant: AllKeysExhausted leaves the session as it is
ModelFailsUnsettled(p) ==
  /\ At(p, "llm")
  /\ \/ BadRequest(p) /\ Fails(p, sess[p])
     \/ Walks(p) /\ call'[p].st = "exhausted" /\ Rest(p) /\ UNCHANGED sess
  /\ Still

\* AllKeysExhausted, or the error goes up to the controller
ModelFails(p) ==
  /\ At(p, "llm")
  /\ BadRequest(p) \/ (Walks(p) /\ call'[p].st = "exhausted")
  /\ Fails(p, sess[p])
  /\ Still

-----------------------------------------------------------------------------
(* A tool call that was let in: ToolCalled is out.                         *)

\* mutant: the limit of the loop check is used for side effects too
DuplicateAtLimit(p) == turn[p].tool \in SideEffects /\ Counted(turn[p], turn[p].tool) > Limit

IsDuplicate(p) == turn[p].tool \in SideEffects /\ turn[p].counts[turn[p].tool] > 1
CheckCooldown(p) == turn[p].tool \in Cooled /\ stamp[turn[p].tool]

\* answered with a message; the journal hears nothing of it (the publish of
\* its ToolFinished is left out: nothing is read across it)
Blocked(p) ==
  /\ At(p, "called")
  /\ IsDuplicate(p) \/ CheckCooldown(p)
  /\ Onward(p, turn[p], sess[p])
  /\ Still

Launched(f) ==
  [f EXCEPT !.pc = "tool",
            !.ran = [c \in SideEffects |-> IF c = f.tool THEN @[c] + 1 ELSE @[c]]]

\* the thread of a call that reports
Spawns(p) == writing' = IF turn[p].tool \in Reporting THEN writing \cup {p} ELSE writing

\* mutant: the step is journalled when it is over
StartsUnlogged(p) ==
  /\ At(p, "called") /\ ~IsDuplicate(p) /\ ~CheckCooldown(p)
  /\ Put(p, Launched(turn[p])) /\ Spawns(p)
  /\ UNCHANGED <<sess, stamp, up, crashes, inFlight, blurred>> /\ KeepLLM

\* step_started is written, then the tool runs
Starts(p) ==
  /\ At(p, "called") /\ ~IsDuplicate(p) /\ ~CheckCooldown(p)
  /\ Put(p, Launched(turn[p])) /\ Spawns(p)
  /\ PutRow(p, Journal(sess[p], "step_started", turn[p].tool))
  /\ UNCHANGED <<stamp, up, crashes, inFlight, blurred>> /\ KeepLLM

\* session_plan and session_report write to their turn's session; without one,
\* to the session that became active last, which is any of those that are
\* active or one outside the model
Hears(p) == IF p \in Sessioned THEN {p} ELSE {q \in Sessioned : sess[q].st = "active"}

\* a report thread writes, maybe long after its call timed out; how many a turn
\* has is not counted, so there may be more after it
ReportWrites(p) ==
  /\ up /\ p \in writing
  /\ writing' = writing \/ writing' = writing \ {p}
  /\ \/ \E q \in Hears(p) :
          /\ sess' = [sess EXCEPT ![q] = Journal(@, "other", NoTool)]
          /\ blurred' = [blurred EXCEPT ![q] = @ \/ turn[q].pc = "tool"]
     \/ p \notin Sessioned /\ UNCHANGED <<sess, blurred>>
  /\ UNCHANGED <<turn, stamp, up, crashes, inFlight>> /\ KeepLLM

\* the history of the step is over
Forget(p) == blurred' = [blurred EXCEPT ![p] = FALSE]

MarkCalled(c) == stamp' = IF c \in Cooled THEN [stamp EXCEPT ![c] = TRUE] ELSE stamp

\* it returned (and is marked), or raised, or ran out of time, or is unknown
ToolEnds(p) ==
  /\ At(p, "tool")
  /\ Put(p, [turn[p] EXCEPT !.pc = "finished"])
  /\ MarkCalled(turn[p].tool) \/ UNCHANGED stamp
  /\ Forget(p)
  /\ UNCHANGED <<sess, up, crashes, writing, inFlight>> /\ KeepLLM

\* ToolFinished is out: the journal gets its tool_call
Finished(p) ==
  /\ At(p, "finished")
  /\ Onward(p, turn[p], Journal(sess[p], "other", NoTool))
  /\ Still

-----------------------------------------------------------------------------
(* The controller: approvals, and one look back at a failure.              *)

\* Lin says yes: the tool runs outside the loop, without limit, cooldown,
\* timeout or step journal
Approve(p) ==
  /\ At(p, "waiting")
  /\ Put(p, [turn[p] EXCEPT !.pc = "approved"])
  /\ Becomes(p, sess[p], "active")
  /\ KeepLLM /\ Still

Decline(p) ==
  /\ At(p, "waiting")
  /\ Rest(p) /\ Becomes(p, sess[p], "cancelled")
  /\ KeepLLM /\ Still

\* Lin answers a question: a run of its own, which is not reflected on
Answered(p) ==
  /\ At(p, "asked")
  /\ EnterRun(p, TRUE) /\ Request(p, "openrouter")
  /\ Becomes(p, sess[p], "active")
  /\ Still

ApprovedReturns(p) ==
  /\ At(p, "approved")
  /\ Rest(p)
  /\ \E st \in {"done", "failed"} : Becomes(p, sess[p], st)
  /\ KeepLLM /\ Still

Reflects(p) ==
  /\ At(p, "failed")
  /\ Request(p, "groq")
  /\ Put(p, [turn[p] EXCEPT !.pc = "reflect"])
  /\ UNCHANGED sess /\ Still

\* a corrected approach is a second run; sessions.resume refuses a failed
\* session, so it stays failed meanwhile
Retries(p) ==
  /\ At(p, "reflect")
  /\ EnterRun(p, TRUE) /\ AnswersAndAsks(p, "openrouter")
  /\ PutRow(p, Journal(sess[p], "other", NoTool))
  /\ Still

\* the reflection sees no better way, or fails itself
Gives(p) ==
  /\ At(p, "reflect")
  /\ Answers(p) \/ BadRequest(p) \/ (Walks(p) /\ call'[p].st = "exhausted")
  /\ Rest(p)
  /\ PutRow(p, Journal(sess[p], "other", NoTool))
  /\ Still

-----------------------------------------------------------------------------
\* the cooldown of c is over
WindowPasses(c) ==
  /\ stamp[c] /\ stamp' = [stamp EXCEPT ![c] = FALSE]
  /\ UNCHANGED <<turn, sess, up, crashes, writing, inFlight, blurred>> /\ KeepLLM

\* coroutines, threads, semaphore and key positions are gone; sessions, questions and
\* cooldowns are in the database
Crash ==
  /\ up /\ crashes < MaxCrashes
  /\ up' = FALSE /\ crashes' = crashes + 1
  /\ turn' = [p \in Callers |->
                IF turn[p].pc \in Running \cup {"approved"}
                THEN [Fresh EXCEPT !.pc = "cut"] ELSE turn[p]]
  /\ inFlight' = [p \in Callers |->
                    IF p \in Sessioned /\ turn[p].pc = "tool" THEN turn[p].tool ELSE NoTool]
  /\ writing' = {}
  /\ Reset
  /\ UNCHANGED <<sess, stamp, blurred>>

\* _interrupted_step and _step_note
KindOf(c) == IF c \in ReadOnly THEN "read" ELSE "write"
StepNote(r) == IF r.last = "step_started" THEN KindOf(r.step) ELSE "between"

Orphans == {p \in Callers : sess[p].st = "active"}

\* recover_after_crash pauses what is still active and leaves a note
Restart ==
  /\ ~up /\ up' = TRUE
  /\ sess' = [p \in Callers |->
                IF p \in Orphans
                THEN [NoRow EXCEPT !.st = "paused", !.note = StepNote(sess[p])]
                ELSE sess[p]]
  /\ turn' = [p \in Callers |->
                IF p \in Orphans THEN [Fresh EXCEPT !.pc = "paused"]
                ELSE IF turn[p].pc = "cut" THEN [Fresh EXCEPT !.pc = "done"]
                ELSE turn[p]]
  /\ UNCHANGED <<stamp, crashes, writing, inFlight, blurred>> /\ KeepLLM

\* the note is read once, by the answer to crash_resume
NoteRead(p) ==
  /\ inFlight' = [inFlight EXCEPT ![p] = NoTool] /\ Forget(p)
  /\ UNCHANGED <<stamp, up, crashes, writing>>

\* Lin wants it continued: a fresh run that is told the note and is not
\* reflected on
Resume(p) ==
  /\ At(p, "paused")
  /\ EnterRun(p, TRUE) /\ Request(p, "openrouter")
  /\ Becomes(p, NoRow, "active")
  /\ NoteRead(p)

Abandon(p) ==
  /\ At(p, "paused")
  /\ Rest(p) /\ Becomes(p, NoRow, "cancelled")
  /\ NoteRead(p) /\ KeepLLM

\* nobody answers within APPROVAL_TTL_HOURS: the question's session fails.  A
\* crash_resume about several sessions is linked to none of them.
Expire(p) ==
  /\ \/ (At(p, "waiting") \/ At(p, "asked")) /\ Becomes(p, sess[p], "failed") /\ Still
     \/ /\ At(p, "paused") /\ NoteRead(p)
        /\ Becomes(p, sess[p], "failed") \/ UNCHANGED sess
  /\ Rest(p) /\ KeepLLM

-----------------------------------------------------------------------------
\* what happens without Lin
Works(p) ==
  /\ turn[p].pc \in Running
  /\ \/ FinalReply(p) \/ AnswerCallsTool(p) \/ ModelFails(p)
     \/ Trims(p) \/ ModelWalks(p)
     \/ Blocked(p) \/ Starts(p) \/ ToolEnds(p) \/ Finished(p)
     \/ Reflects(p) \/ Retries(p) \/ Gives(p)

Next ==
  \/ \E p \in Callers :
       \/ Works(p) \/ ReportWrites(p)
       \/ Begin(p) \/ Displaced(p)
       \/ Approve(p) \/ Decline(p) \/ Answered(p) \/ ApprovedReturns(p)
       \/ Resume(p) \/ Abandon(p) \/ Expire(p)
  \/ \E c \in Cooled : WindowPasses(c)
  \/ Crash \/ Restart

Spec == Init /\ [][Next]_vars

\* a provider answers or the client gives up, a tool has 60 seconds, the bus
\* takes what is published
FairSpec == Spec /\ \A p \in Callers : WF_vars(Works(p))

-----------------------------------------------------------------------------
\* the records and tables keep their shape
TypeOK ==
  /\ LLMTypeOK
  /\ turn \in [Callers -> Frame]
  /\ sess \in [Callers -> Row]
  /\ stamp \in [Cooled -> BOOLEAN]
  /\ up \in BOOLEAN /\ crashes \in 0..MaxCrashes
  /\ writing \subseteq Callers
  /\ inFlight \in [Callers -> Calls \cup {NoTool}]
  /\ blurred \in [Callers -> BOOLEAN]

\* a side effect starts at most once in a run, also when its first try is
\* reported as timed out or failed and the model asks again
\* (agent/idempotency.py:5-8)
EffectOnce == \A p \in Callers, c \in SideEffects : turn[p].ran[c] <= 1

\* after a crash the note of a paused session names the kind of the step of its
\* loop that was in flight (agent/crash_recovery.py:9-14).  It says "between
\* two steps" of such a step only if an entry of another kind followed the
\* step's step_started: a report of the step itself, of an earlier call whose
\* thread is late, or of a turn without a session.  A tool that runs on Lin's
\* yes is no step of the loop and has no entry to be found by.
CutStepsReported ==
  \A p \in Sessioned :
    turn[p].pc = "paused" /\ inFlight[p] # NoTool =>
      \/ sess[p].note = KindOf(inFlight[p])
      \/ blurred[p] /\ sess[p].note = "between"

\* a turn that is over leaves its session settled or paused by a newer task,
\* never active or waiting for an answer: however its run ended, with a reply,
\* a failure, an answer that never came, displaced or cut by a crash
SessionSettled ==
  \A p \in Sessioned :
    turn[p].pc = "done" => sess[p].st \in {"done", "failed", "cancelled", "paused"}

\* a turn at work ends, asks Lin or dies with the process: no order of model
\* failures and waiting callers blocks it
TurnEnds == \A p \in Callers : turn[p].pc \in Running ~> turn[p].pc \notin Running
=============================================================================
