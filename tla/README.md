# rubedo5 in TLA+

rubedo5 is a personal agent: one process talks to its owner ("Lin") over
Telegram, runs her tasks through an LLM tool loop, works through a queue of its
own between her messages, and keeps her day (alarm, briefing, reminders,
wrap-up). All of that shares one asyncio loop, one PostgreSQL database and one
set of resources. This directory models it, checks it with TLC on small
instances, and proves with TLAPS what holds for instances of every size.

Contents: [inventory](#1-inventory), [modules](#2-modules-and-the-code),
[runs](#3-runs), [findings](#4-where-the-code-disagrees-with-its-own-words),
[proofs](#5-proofs), [limits](#6-what-is-not-shown), [plan](#7-plan).

## 1. Inventory

### Processes

| process | code | what it does |
|---|---|---|
| launcher | `launcher.py` | starts the others, restarts what dies, applies updates, marks clean shutdowns |
| agent | `interface/telegram.py` | one asyncio loop: the bus server, one task per owner message, the tick loop, the heartbeat; tools run in threads |
| display | `display/window.py` | a draw loop that polls tables and flag files, and a listener thread on the bus |

### Components

What is modelled is marked *yes*, *partly* or *no*; `PROJECT.json` says per
component what is left out.

| component | state it keeps | operations | correct when | |
|---|---|---|---|---|
| task sessions, `agent/sessions.py` | `task_sessions`: status, origin, tags | create, pause, wait_user, block_dependency, resume, activate_waiting, complete, fail, cancel | an active session has a driver, a blocked one a waker; what was cancelled stays so | yes |
| scheduler, `agent/scheduler.py` | none | start_session, resume_waiting, resume_displaced | Lin's resources and slots are respected | yes |
| hanging questions, `agent/hanging.py`, `approval.py`, `questions.py` | `hanging_questions` | create, pending (with its sweep), resolve | a waiting session has exactly one question, a question a waiting session; a yes is spent when it is used | partly |
| queue, `memory/db.py` | `rubedo_queue` | add, next_idle, mark_running / done / failed, requeue, cancel | one claim at a time; every claim is given back | partly |
| executor, `agent/executor.py` | a run's locals | run | stops when displaced, halts for Lin, settles only its own session | yes |
| queue runner, `agent/queue_runner.py` | none | run_queue_tick, _execute | every row ends with its session | yes |
| controller, `agent/controller.py`, `routing.py`, `stopword.py` | a message's locals, the freeze flag, `message_bindings` | handle_message | an answer reaches the session that asked, once | partly |
| crash recovery, `agent/crash_recovery.py` | `agent_state` | detect_crash, recover_after_crash, shutdown_clean | nothing is lost, left active, or said to be between steps when it was not | partly |
| tool gate, `agent/idempotency.py`, `zones.py` | `tool_last_call:*`, a run's counters | check_cooldown, mark_called, resolve_zone | no side effect twice by accident | partly |
| LLM access, `llm/` | semaphore, key indexes | chat | one call at a time; "exhausted" only when it is true; no deadlock | yes |
| supervisor, `launcher.py` | exit codes, counts, pending update | supervise_tick, main | an update that was seen keeps the agent down until it is applied; the agent comes back | yes |
| day phases and tick, `day/tick.py`, `phase.py`, `planner.py`, `wrapup.py`, `agent/anchors.py` | phase, per-date marks, anchor times, proposals | the tick's checks, the answers to a proposal | each thing once a date; agreed times stand | partly |
| notifications, `agent/notify.py` | `notification_bundle` | deliver | nothing is marked in silence | yes |
| task pool, `day/pool.py` | `pool_tasks` | add, done, delete, snooze, mark_nudged, run_tick | at most so many nudges a day | yes |
| idle agenda, `day/agenda.py` | two metas | run | one question a date; only when idle | partly |
| day plan, `day/state.py`, `tools/tasks.py` | `day_tasks`, `recurring_tasks` | add, done, remove, hydrate_recurring | a recurring task stands once in the plan of a date | yes |
| undo, `agent/undo.py` | meta `last_undo`, snapshot files | snapshot_before_write, rollback_last, verify_last_write | a rollback restores the write it names | yes |
| audit log, `agent/audit.py` | a folder, a counter | write, check_normal_threshold, archive_and_clear | every milestone is marked once, and not before it is reached | yes |
| bus, `bus/` | subscribers, connections | publish, _broadcast, reconnect | events arrive in order, once | yes |
| display, `display/window.py` | the screen's dictionary, flag files | poll, listen, tap, sleep | the screen comes to show the tables | partly |
| transport, memory and profile store, other tools, prompts / classifier / planner / reflection, research, PR flow, remote shell, credentials, migrations | | | | no |

### How they interact, and what is hard about it

* Every owner message is an asyncio task of its own
  (`interface/telegram.py:136`), so messages overlap each other and the tick.
  They give way only at an `await`: a model call, a tool, a send, a bus
  publish. Between two awaits code is atomic with respect to the other
  coroutines, and state read before an await is stale after it.
* They meet in the database. Every call of `memory/db.py` commits by itself
  and most updates do not look at the value they overwrite, so a process that
  dies between two calls leaves half a handler behind.
* A run is displaced by writing to its row. The run notices at the top of its
  next round, stashes its history in `hanging_questions`, and a later tick
  brings it back, if the stash has not expired.
* Four paths make a session active: starting it, Lin's answer (controller),
  `resume_waiting` and `resume_displaced` (tick). Only some ask the scheduler.
* The day tick sends first and marks afterwards, except for the pool; a send
  whose answer is lost, or a crash in between, separates the two.
* Threads meet the loop in a few files and tables: tools write the plan, the
  undo slot and the log folder while the loop reads them.
* Time comes in through TTLs, windows, midnight (local and UTC) and timeouts;
  faults through crashes, restarts and cancelled rows.

`PROJECT.json` lists the hazards one by one, at the line where each bites, with
the properties that would catch it going wrong.

## 2. Modules and the code

```
Sessions --> Scheduler --+
Hanging -----------------+--> Executor --> QueueRunner --+
TaskQueue ---------------+        +------> Controller ---+--> AgentCore --> MCAgentCore
                                                            ^     |
WorkQueue ................................... by INSTANCE --+     |
                     AgentCore_proofs --> Owners_proofs --> Claims_proofs

LLMAccess --> Turn --> MCTurn
               +-----> Turn_proofs

Notify --> Anchors ----+--> DayEngine --> MCDay
   +-----> PoolTable --+        +-------> DayEngine_proofs
Outbox ...................... by INSTANCE
   +-----> Outbox_proofs ........... by INSTANCE

Launcher --> MCLauncher --+
   |        Bus, Display -+
   |        DayPlan ------+--> MCHouse
   |        Undo, Audit --+
   |              +------> House_proofs (without Display)
   +-----> Launcher_proofs
```

An arrow points to the module that EXTENDS the other.

`Sessions`, `Scheduler`, `Hanging`, `TaskQueue`, `Notify`, `Anchors` and
`PoolTable` have no variables. Each table is a function and each database call
an operator from a table to a table, because a handler makes several of them
between two awaits and that whole piece is one atomic step. The other modules
have the variables.

### The core: `Executor`, `QueueRunner`, `Controller`, `AgentCore`

| variable | stands for |
|---|---|
| `sess` | `task_sessions`: status, origin, resource tags |
| `hang` | `hanging_questions`; a pending row is `fresh`, or `stale` once past its TTL |
| `queue` | `rubedo_queue`; row numbers stand for the order of the claim query |
| `frozen` | meta `autonomy_frozen`; the tick reads `queue_paused` in the same condition, so the flag stands for both there |
| `run` | the coroutines: `run[Tick]` and one per message. `pc` is the await it sits in, the other fields are the locals it will use afterwards |
| `bound` | sessions that have a `message_bindings` row, so a reply can be traced to them |
| `approved` | history: how often the tool of each approval was started |
| `up`, `clean` | the process is alive; `agent_state.clean_shutdown` |
| `faults` | how many of the bounded disturbances have happened |

* **Executor.** `pc = "llm"`, `"tool"`, `"final"` and `"publish"` are the awaits
  of `_run_inner`. `BeginRound` is the top of the `for` loop, with the
  displacement check and the stash. `Return` is what the caller does with the
  result before its own next await: `_execute` settles the row, a failed deep
  task goes to reflection, everyone else sends the reply. `RunFails` joins a
  detected loop, a failed last call and an exception that the caller turns
  into `sessions.fail`; they differ in wording only. Several tool calls in
  one answer are one `"tool"` await; `Turn` has them one by one.
* **QueueRunner.** One action per path through `run_queue_tick` up to its
  first await. Every tick that finds work to look at first sweeps expired
  stashes, as `hanging.pending` does. The tick loop is sequential, so while a
  queue run executes, `run[Tick]` is inside it.
* **Controller.** `Route` is everything from the arrival of a message to the
  first await that follows routing. `Routed` continues after the fast model
  chose among several questions, on the *old* snapshot. `Classified` and
  `Planned` are the two awaits before a deep task starts. Messages that touch
  nothing modelled (commands, clarifications, acknowledgements) end in
  `Classified`.
* **AgentCore** composes them and adds what comes from outside: rows added by
  the `queue_add` tool and the idle agenda, an hour that passes, the
  `queue_cancel` tool, death at any await (`Crash`), death between two writes
  (`Torn...`), an orderly stop, and `Restart` with `recover_after_crash`.
* **WorkQueue** is the abstract side of `rubedo_queue`: jobs, and a worker with
  at most one of them in hand. `Work` in `AgentCore` reads it from the model: the
  worker is the tick, `classify` is `picked`, the executor's loop is `work`, and
  the hand is `run[Tick].task`. `Cancel` takes the claim away and leaves the job
  in the hand, so what the run then writes goes over the cancellation: that is
  what `queue_cancel` does, and the abstract queue allows it for this job only.

### The tool loop call by call: `LLMAccess`, `Turn`

| variable | stands for |
|---|---|
| `sem` | `llm_semaphore`, a FIFO queue whose head holds it |
| `keyIdx` | `_key_idx` of each provider |
| `call` | each caller's last or current model call: tier, provider, model, start key, offset |
| `turn` | the coroutines: await, round, exact-duplicate counts, the tool under way, whether the request was trimmed, whether this is the reflective second run |
| `sess` | the turn's session with the last entry of its journal and the note of crash recovery |
| `stamp` | `tool_last_call:*` younger than the cooldown |
| `writing` | turns with tool threads that have yet to write a report |
| `up`, `crashes` | the process; crashes so far |
| `inFlight`, `blurred` | history: the executor's tool when the process died; whether anything was written into the journal after its `step_started` |

`Turn` asks what `Executor` leaves open: which calls of an answer start (zone,
duplicates, one effect per run, cooldown), what the journal says if the process
dies inside one, what the second run after a reflection repeats, and whether
the callers of one semaphore can block each other. The model's answers, rate
limits and missing models are left open.

A run leaves by a reply, a failure, a question (`AsksLin`, `AsksQuestion`) or,
at the top of a round, because a newer task of Lin's has paused its session
(`Opens`, `Displaced`, `Notices`). The journal has other writers than the loop:
`session_plan` and `session_report` write an entry of their own after
`step_started`, from a thread that may outlive its call, and a turn without a
session writes into a session that is active then (`ReportWrites`). `writing`
is a set, so a thread of it may write more often than a real one.

### The day: `Notify`, `Anchors`, `PoolTable`, `DayEngine`

| variable | stands for |
|---|---|
| `now`, `silence` | the local clock in slots of a date; whether Lin may have been silent long enough |
| `phase` | `day_phase_state` |
| `anchors`, `ask` | `day_state`'s negotiated times; the proposals that hang, oldest first |
| `flags` | the per-date marks (fired, proposed, briefed, wrapped, quiet) as the dates they are set for |
| `screen` | meta `display_alarm_active` |
| `rem`, `pool`, `agenda` | `reminders`, `pool_tasks`, the agenda's metas |
| `tick` | `run_day_tick`: its check, where it awaits, the date it began on, what it holds across the await |
| `arrived`, `up`, `words`, `events` | messages before the anchor intercept; the process; bounded inputs |
| `told`, `held`, `lost`, `asked`, `agreed`, `nudges` | history: what Lin got, what was bundled, marks that were lost, what she was asked and agreed to, nudges of the date |

One action per check of the tick, cut at its real awaits: the text is generated
(`gen`), the message is sent (`send`), Telegram has it (`sent`), the mark is
written. A death falls at an await, or between the two commits of an answer to
a proposal (`TornAnswer`, `agent/anchors.py:121-122`); other neighbouring
commits (fired and the screen, wrapped and the phase, a bundled message and its
mark, the marks of several pool rows) are one step, and no property speaks of
them. `UtcLag` is how far UTC is behind: the pool counts its day by UTC
midnight, everything else by local midnight. `Outbox` is the abstract side: a
pass picks what is due, tells it or holds it back, then marks it.

### The house: `Launcher`, `Bus`, `Display`, `DayPlan`, `Undo`, `Audit`

| module | variables |
|---|---|
| `Launcher` | `child` (poll()), `restarts`, `failed`, `pending` (update), `super` (the launcher's own position), `chat` (active chat sessions), `timers` (exits the agent's tools scheduled), `booted`, `clean`; `cut` is history; `faults` |
| `Bus` | `link`, `made` (connections), `inbox`, `outbox` (lines under way), `handler` (`_handle_client`), `subs` (`_subscribers`), `said`, `heard`, `deaths` |
| `Display` | `activity`, `version`, `ringing` (the tables), `flag` (flag files), `wire` (events), `running`, `state` (the dictionary of `_run_pygame`), `hearing` (the listener between two steps), `taking` (a request read but not yet unlinked), `lit` (the output), `news` |
| `DayPlan` | `rows` (`day_tasks`), `recurring`, `today`, `hydrating` (each thread's transaction); `beside` of a row is history: the rows other threads added during its transaction |
| `Undo` | `files`, `aged`, `slot` (meta `last_undo`), `shots` (snapshots), `writes`, `back` (the rollback's thread), `step` and `note` (journal and verdict), `taken`, `changes`; `last` is history |
| `Audit` | `normal` (the folder), `counter`, `check` (on the loop), `archive` (per thread), `written`, `crashed`; `fired` and `peak` are history |

`supervise_tick` is one step per child, because it sleeps before each restart
and the other children go on meanwhile: `LeavesAlone`, `Restarts`,
`SeesUpdate` and `Revives` are its branches, `PassEnds` its return. An update
is three steps of `main`, an orderly stop two, so that the agent can work, beat
or die in between. `MCHouse` puts the six machines in one run: they share no
state, so `part` chooses one of them for a whole behaviour.

Definitions marked *mutant* are not part of the specification. Each is one
definition of the model with a plausible slip, kept next to the original, and
each property of a passing run is violated when the original is replaced by
its slip.

### Bounds

| constant | bounds |
|---|---|
| `MaxSessions`, `MaxHanging`, `MaxTasks` | rows that can be created; a step that needs one more is not taken |
| `Messages` | coroutines, one each |
| `MaxIter`, `MaxRounds` | rounds of a tool loop; with 1 no run meets a second round, so displacement in mid-run is checked with 2 |
| `MaxRetries` | the rows' `max_retries` |
| `MaxFaults` | hours, crashes, stops and cancelled rows together; deaths, stops and failed checks of the launcher |
| `MaxConcurrent` | `config.MAX_CONCURRENT_SESSIONS`: 2 as configured, 1 where noted |
| `MaxCrashes`, `MaxAuditCrashes`, `MaxDeaths` | crashes in `Turn`, `Audit`; processes that end in `Bus` |
| `FirstSlot`, `LastSlot`, `MaxWords`, `MaxEvents`, `MaxArrived` | the day's clock, Lin's messages, tool calls and faults |
| `MaxLinks`, `MaxLines`, `MaxNews`, `MaxWire`, `MaxVersions`, `PlanDays`, `MaxRows`, `MaxRecurring`, `MaxSnapshots`, `MaxChanges`, `MaxLogs` | what can happen in a machine of the house |

Switches name an environment: `QueueAsks` (an autonomous run asks Lin or hits
a yellow or red tool), `BusStalls` (a publish blocks), `PatientOwner` (a message
arrives only when no earlier one waits in routing), `Crashes`, `Shutdowns`,
`Torn`, `Cancels`, `ShortDrains` (a client connects again only while no
broadcast is under way: stricter than saying that no drain outlasts
`RECONNECT_DELAY`). A run shows
its properties for the environment it sets; section 6 says what each one
breaks.

## 3. Runs

Deadlock is not checked: messages, sessions, slots and events are bounded and
run out, and the launcher may stay stopped. Symmetry among messages is used in
safety runs only.

| run | instance | shows |
|---|---|---|
| `core_owner` | 3 messages routed one at a time, 1 row, 1 round, no faults | `NoDoubleRun`: no session has two coroutines at work. `DoneRowDone`: a row is done only if its session is. `EndedStays`: what is done or declined is never written again, by no late answer, retry or expiry |
| `core_asks` | 3 messages, 2 sessions, up to 3 questions, one row the agent adds itself, 2 rounds, `QueueAsks`, no faults | `LinsTasksHold`: a chat session waits exactly if one question will wake it, is active only if somebody works on it, and never has two at work. `LinsEndedStay`: Lin's ended tasks stay ended. `TickRespectsLin`: none of the tick's ways to activate a session takes Lin's resources or a slot that is not there |
| `core_crash` | 2 messages, a row the agent adds beside a scheduled one, 2 rounds, one retry, one fault: a crash at any await, or an hour | `ActiveDriven`: an active session is being worked on. `NoOrphan`: an unfinished autonomous session is the one a claimed row points to; `ClaimCanSettle`: the session of a claimed row can still make the row settle. `QuestionHasWaiter`: a pending question's session still waits; `WaitingHasQuestion`: with exactly one question. `OneStash`: at most one stashed history, of a session still displaced |
| `core_live` | one slot, 2 messages, 2 rounds, one retry, one hour, fairness | `PausedHasStash`: an autonomous session paused for want of a slot has the stash that wakes it, or a live run about to write it. `ClaimSettles`: a row does not stay claimed for ever, unless autonomy is frozen again and again |
| `core_faults` | 2 messages that may choose from one list, 2 rows, one retry, 1 round, every switch on, two faults | `TypeOK`. `YesIsSpent`: a yes that was used is used again only by a message that had listed it before. `QueueKeepsPromise`: the queue is a `WorkQueue`, so one job is claimed at a time, a failed attempt is counted, a crash is not, and settled rows stay settled |
| `turn` | a deep turn with a session beside a simple one; openrouter with 1 key and 2 models, groq with 2 keys and 1 model; a side effect with a cooldown, a red call and `ask_user` for the deep turn, reports for the simple one, limit 3, two crashes, fairness | `EffectOnce`: a side effect starts at most once in a run. `CutStepsReported`: a step that was cut is reported as what it was, unless something was written into its journal meanwhile. `SessionSettled`: a turn that is over left its session settled, or paused by a newer task. `ExhaustedMeansTried`: a call is refused as exhausted only after every key and model of its walk. `TurnEnds`: no order of failures and waiting callers blocks a turn |
| `day` | three slots a date, slots 4 to 6 (two dates and the midnight between), 1 reminder, 2 pool rows of priority 3 or 5 and one nudge a day, 2 messages, 2 events | `OncePromise`: the day engine is an `Outbox`. `RoutineOnce`: briefing, wrap-up and the agenda's question once a date, but for lost answers and marks. `AgreedStands`: agreed times stand, for a date whose times were open to an answer once. `PoolBudget`: no more nudges a day than the limit and the rows that left the count |
| `house` | 2 children, 2 restarts, 3 faults; 2 clients, 2 connections each, 1 death; 3 taps, 4 pieces of news; 2 dates, 2 recurring tasks, 2 tool threads; 3 paths, 2 snapshots, 1 other change; milestones 2 and 3, 5 logs, 1 crash; fairness | `GivenUpAtLimit`, `GivesUpOnDeaths`: what is given up died `MAX_RESTARTS` times, never by an intentional exit. `UpdateHoldsAgent`: an update that was seen keeps the agent down until it is applied. `OnlyStopsHide`: after a start a session is active only if an orderly stop left it so. `AgentReturns`. `HeardInOrder`: events of a connection in order, once. `ScreenCatchesUp`: a quiet agent's screen comes to show the tables. `RecurringOnce`: a recurring task once in a date's plan, but for rows of overlapping hydrations. `RollbackExact`: a rollback restores the last recorded write and nothing else. `MilestonesHonest`: a milestone is marked once between two resets and not before it is reached |
| `find_lanes`, `find_stuck_claim`, `find_freeze` | 2 or 3 messages | section 4 |
| `find_update` | the launcher as in `house` | section 4 |

`TypeOK` is an invariant of `core_faults`, `turn` and `day`, and `AllTypesOK`, the
six machines' types, of `house`.

Why these sizes. The core's properties relate one autonomous session, one or
two chat sessions and at most two questions: two messages are enough to
displace a run and answer it, the third is needed to have one that asks, one at
work and one that answers, and for a displaced queue run that had asked. Two
messages can also share the router's await and its list. Two rows are needed for
a second claim, and a fault during the recovery from another needs two. The launcher's `MaxRestarts` is 2
(5 in the code) with three faults, so that a child can reach the limit and have
one fault left, and two chat sessions tell the one that asks for the update
from the other. Slots 4 to 6 of three a date are noon, evening and the night
after, so a mark can be written on the date after the one it is for. Two
crashes let the second one hit the run that was resumed after the first. With
two pool rows the second one is due when the first has used up the day's limit.
In `turn` the deep turn makes no reports of its own, which would make the run
eight times as large; the proof has them. Undo's run has one text and snapshots
with distinct names (the code's names have a resolution of a second), so it
would not show one text restored for another. Two connections of a client are what a stale line needs to meet a new one. The
theorems of section 5 are about every size.

**Fairness.** Nothing is assumed about arrivals, hours, faults, or which way a
model answers; only about code that runs by itself.
* `AgentCore`: the tick takes a step whenever it can (`_tick_loop` runs for
  ever, catching what it raises) and a message's coroutine goes on once started
  (asyncio is fair; tools and model clients have timeouts). `core_live` has no
  crashes: section 6 says what they do to it.
* `Turn`: each turn goes on (`Works(p)`), for the same reason; restarts are not
  assumed.
* `Launcher`: `main` polls every two seconds and each of its waits has a
  timeout, except `git pull` and `pip`, which are taken to end. Nothing is
  assumed about its children.
* `Display`: the draw loop runs 30 times a second, the listener goes on, an
  error flash ages, each panel is loaded at its interval, and a window that
  ended is started again (by the launcher, within its limit).

## 4. Where the code disagrees with its own words

1. **Two conversations at once** (`find_lanes`). `agent/scheduler.py:7-17` says
   a new chat task always pauses the running one and that there is never more
   than one active chat session. Resuming an answered session goes past the
   scheduler (`agent/controller.py:353`, `:256`, `:301`). Lin starts a task
   that asks her something, starts another, then answers: both are active.
2. **A claim that is never given back** (`find_stuck_claim`).
   `agent/queue_runner.py:130-145` settles a row whose session failed out of
   band, since "without this the row would sit at 'running' forever". A queue
   session that asked Lin is *finished* or *cancelled* by the controller, which
   settles no row, and the reconciliation looks for `failed` only. The queue is
   blocked from then on.
3. **The stop-phrase comes too late** (`find_freeze`). "No new task starts
   while either is set" (`agent/queue_runner.py:29-31`), but the flags are read
   before the classifier is awaited (line 100), and the row is claimed and run
   after it (lines 157-164).

4. **The update that waits for nobody** (`find_update`). `launcher.py:11-15`:
   the update waits for Lin's active session and is "checked every supervisor
   tick until it's clear". The agent that asked has exited by then and is not
   restarted while the update is pending, so a session that was active when it
   exited stays active: no update, and no agent, until the launcher is stopped.

Divergences without a run of their own:

* `agent/crash_recovery.py:9-14` takes a last entry `step_started` as "exactly how
  a restart tells" that a step was in flight. `session_plan` and
  `session_report` write an entry of their own during the step
  (`agent/tools/sessions.py:25-42`), also when their call has timed out long ago,
  and in a turn without a session they write into another's journal
  (`agent/sessions.py:245-256`): the step that is cut after that is taken for
  finished. `CutStepsReported` allows this case and no other.
* `bus.sync_publisher` is set up in the display alone (`display/window.py:330`),
  so what tools, commands and tables publish in the agent goes nowhere; a flag
  file or the next poll has to carry it. `Display` models it so.
* Nobody writes `.pre_alarm_wake` or publishes `PreAlarmWake`
  (`bus/events.py:181-184`): an alarm while the display sleeps is drawn on a
  dark screen. `cancel_alarm` and `skip_alarm` write files nobody reads. Lin's
  message confirms that she is awake and leaves `display_alarm_active` set;
  only three taps clear it. A window restarted while asleep leaves the output
  off.
* `hydrate_recurring` is called by `recurring_add` only, although
  `agent/tools/__init__.py:153-154` says the task appears at the next morning
  briefing.
* Any message in the night phase after the alarm counts as waking up
  (`controller.py:199`); summaries skip messages saved
  during their model call (`controller.py:145`); `git checkout -B` of the PR
  flow leaves the tree on the proposal's branch.
* No caller: `queue_get_next_scheduled`, `queue_depends_broken`,
  `queue_recurring_*`, `queue_get_stale_scheduled`,
  `set_day_off`, `on_goodnight`, `mark_nudge_fired`, `increment_nudge`,
  `mark_morning_batch_nudged`, `list_pending_bundle`, `cleanup_if_stale`.
  `handle_verification_response` waits for a meta nobody sets
  (`controller.py:417`). Nothing flushes the notification bundle.

## 5. Proofs

Every invariant and action property of the passing runs has a theorem, for
every value of the constants the modules' assumptions allow. The runs check what
follows from the inductive invariants on a small instance; the invariants were
tried with TLC before they were proved. `PROJECT.json` lists the theorems; the argument of each module:

**`AgentCore_proofs`: types and the claim.** Every fault may be on.
`TypeCorrect` goes action by action: each table operator returns a table, and
each `CHOOSE` of a least free row or newest question has a value (least-element
principle). `OneClaim` (at most one row runs; `queue_get_running` reads
`LIMIT 1` in no order) needs `ClaimInv`: the tick looks for a running row, picks
a pending one, and awaits the classifier before it claims. So no row runs while
it sits in that await either. All steps but `TickPicks` and `TickClaims` are
*harmless*: they add no running row and do not put the tick into that await.
`QueueIsWorkQueue` shows that every step is a step of `WorkQueue` or leaves it
alone. Besides `ClaimInv` this needs `HandInv`: the tick is idle, at the
classifier with a row or in a run for a row, it is idle while the process is
down, and no message's run settles rows. Then a crash is `LetGo`, and recovery
gives back at most one row, the claimed one. Two theorems follow from the
abstract queue alone: `OneJobTriesCounted` (a row is given up after exactly
`MaxRetries + 1` counted failures, and nothing is claimed beside the job in
hand) and `RowsSettleOnce` (a done or failed row stays so, and no count falls).

**`Owners_proofs`: who holds a session.** Hypotheses
`Mild == PatientOwner /\ ~BusStalls /\ ~Torn` and `Calm == Mild /\ ~QueueAsks`.
* `YesIsSpent` has no hypotheses. It rests on `SpentInv`: a question whose tool
  was started is closed, no call of the table opens a closed row again, and a
  message lists only open ones.
* `SnapInv` (the questions a routed message has read are still pending) needs
  `PatientOwner` and is used for what follows. The code does not give it: what
  the theorems under `Mild` say holds as long as no two messages are in the
  router's await at once.
* `OwnersInv` is proved under `Mild`; under `Calm` it gives `NoDoubleRun`,
  `QuestionHasWaiter` and `WaitingHasQuestion`. A chat session has *one* holder: a message's run
  (`RunsHold`), a pending question (`AsksHold`), a `crash_resume` row
  (`CrashRowsHold`) or a message's list of crashed sessions (`ListsHold`);
  stashes belong to autonomous ones (`StashesHold`). None of the three
  properties is inductive by itself: what hands a session from one holder to
  the next is in the others, and in `FrameInv`, which says where each coroutine
  can be and that all rest while the process is down. Where queue runs ask Lin,
  an autonomous session may be *lent* to the message that answers (`Loaned`):
  about these `OwnersInv` promises nothing, and what it proves is that lending
  them never draws a chat session in.

**`Claims_proofs`: autonomous work, and Lin's.** `Calm` and `~Cancels` where nothing
else is said.
* `QueueInv` gives `NoOrphan`, `ClaimCanSettle`, `DoneRowDone`
  and `OneStash`. It closes a circle: the tick's run has a claimed row
  (`RunHasClaim`), the row a session that can end (`ClaimsCanEnd`), an
  unfinished session its claim (`Claimants`), a stash a displaced session the
  tick is not driving (`StashesWait`), and the row being classified is still
  pending (`PickedWaits`). Uniqueness of the claim makes it a circle of one.
* `LinsInv` (under `Mild` and `~Shutdowns`: rows may be cancelled, queue runs may
  ask): every active chat session has a coroutine while the process is up, none
  is only being reflected on, and the mark of an orderly stop is never set, so
  no recovery is skipped. With `OwnersInv` it gives `LinsTasksHold`. The tick
  writes autonomous sessions only (`TickLeavesLins`), a crash leaves no
  coroutine but asks about what was active.
* `MannedInv == LinsInv /\ OwnManned` adds the autonomous sessions and gives
  `ActiveDriven`, also under `~Shutdowns`.
* `PausedKept` (also `~Shutdowns` and `~Crashes`) gives `PausedHasStash`.
* `TickGivesWay` (`TickRespectsLin`) has no hypotheses: each way the tick has to
  activate a session is one atomic step from a guard.
* `EndedForGood` (`EndedStays`): whoever writes a session's status holds it by
  `OwnersInv` or `QueueInv`, and what is held is neither done nor cancelled.
  `LinsEndedForGood` (`LinsEndedStay`) is the same for chat sessions under
  `Mild` alone: there the holders of `OwnersInv` are enough.

**`Turn_proofs`.** `LLMInv`: a walk's offset counts exactly the keys tried since
its start, whoever moved the shared index meanwhile, so `exhausted` means every
key (`ExhaustedMeansTried`; the rotation needs a lemma on `%`). `TurnInv` adds
that a run's side effects have started at most once and only if counted
(`EffectOnce`), which journal entry stands while a tool runs and nothing else
has been written (`CutStepsReported`), and which statuses go with which await,
a pause by another turn's start included (`SessionSettled`). `TurnImplementsLLM` is the refinement of `LLMAccess` by
`Turn`; `TurnExhausted` is the promise read through it.

**`DayEngine_proofs`, `Outbox_proofs`.** `DayInv` strengthens the types by what
the tick holds across an await.
* `AgreedStands` from `AskInv`: a row of `ask` means its date was asked about,
  two rows, or a row after an agreement, that its times were open twice (asked
  about twice, or still hanging after a death between the commits).
* `RoutineOnce` from `RoutineInv`: a date that is current or to come and not
  settled was told no oftener than marks were lost, unless its message is the
  one in flight.
* `PoolBudget` from `PoolInv`: what was sent today is covered by rows whose mark
  is today's and rows that left the count. Between the check of the limit and
  the mark there is an await; the invariant says that nothing picked is marked
  yet and that one more nudge is still within the budget, unless midnight came.
  `PoolConfig` is assumed, as `config.py` ships it: the pool's window ends
  before midnight and starts after UTC midnight, and no cadence of priorities 1
  to 3 is zero days. Each clause is needed.
* `DayKeepsPromise`: the day engine implements `Outbox`, step by step. `Outbox`
  itself is proved to tell nothing twice without a lost mark, to mark nothing
  in silence, and to mark the alarm only when it was told; `DayOutbox` reads these three
  for the day engine.

**`Launcher_proofs`.** `LauncherInv` adds `AgentAlive`: timers belong to a
booted agent, a booted agent runs, and only the agent exits with an update.
Without it a timer left from before the exit could overwrite the exit code that
holds the agent down. `CrashesShow` (`OnlyStopsHide`) needs `CutInv`, where the clean mark
may be believed: it is written first, and the agent works on after it.

**`House_proofs`**, one invariant per machine, and their types: `HouseTypes` gives
`AllTypesOK` from `HouseInv`, with `Launcher_proofs` for the launcher's part.
* `AuditInv`: what a check has counted and not yet saved is still above the
  counter and below the peak, which keeps what a check had counted when a thread
  resets the counter under it.
* `UndoInv`: the slot, and the rollback's copy of it, tells of the last recorded
  write: its path, its kind, and its text if the snapshot is still there.
* `PlanInv`: what a hydration still has to insert is not in the plan of its
  date, or beside its transaction. For any number of threads.
* `BusInv`: along inbox, walk, outbox and what was heard, the numbers of one
  connection grow, and a subscriber already served in a walk has heard its
  line. Under `ShortDrains`.

The hypotheses are environments, each inhabited by a passing run (`core_owner`,
`core_asks`, `core_crash`, `core_live`, `house`), and for each there is a property that fails
without it: section 6 has the counterexamples.

## 6. What is not shown

*Model-checked only.* The liveness properties `ClaimSettles`, `AgentReturns`,
`ScreenCatchesUp` and `TurnEnds`: fairness and `ENABLED` are out of the prover's
reach. Of `Display` the types are proved and nothing else. That `ActiveDriven`
survives `QueueAsks` for autonomous sessions too is neither proved nor checked
by a run; no counterexample was met in the instance of `core_asks`.

*Properties that fail in a wider environment.* These are behaviours of the
code, seen with TLC while the runs were chosen, and each is a hazard in
`PROJECT.json`:

| environment | fails | because |
|---|---|---|
| `QueueAsks` | `NoDoubleRun`, `QuestionHasWaiter`, `WaitingHasQuestion`, `EndedStays`, `DoneRowDone`, `NoOrphan`, `ClaimCanSettle`; with two rows `OneStash` | the answered run belongs to a message, is displaced without a stash or ended without its row, and the tick starts it afresh. Lin's own tasks are untouched: `LinsTasksHold`, `LinsEndedStay` |
| `BusStalls` | `NoDoubleRun`, `QuestionHasWaiter`, `WaitingHasQuestion` | a yes overtakes `wait_user`, which then waits with no question |
| `Torn` | `QuestionHasWaiter`, `ActiveDriven`, `WaitingHasQuestion`, `NoOrphan`, `ClaimCanSettle` | half a handler is committed |
| `Cancels` | `ActiveDriven`, `NoOrphan` | a cancelled row's displaced session is resumed and nobody runs it |
| `Shutdowns` | `ActiveDriven`, `LinsTasksHold` | a clean stop hides active sessions from recovery |
| `PatientOwner = FALSE`, 4 messages | `NoDoubleRun`; and one yes may start its tool twice | two messages in routing's await share a snapshot of the questions |
| `MaxConcurrent = 1` with `Crashes` | `PausedHasStash` | a paused run without its stash is not active, so recovery passes it by |
| `ShortDrains = FALSE` | `HeardInOrder` | a reconnected publisher overtakes its earlier lines |
| a pool window at midnight or before UTC midnight, or a cadence of 0 | `PoolBudget` | the limit is counted by another day, or a row is due again on the same one |

*Abstractions.* Text is reduced to yes, no, or anything else. Whether Lin
replies to a particular message is a choice among the sessions bound so far. A
run whose context gets no tools is a run in which the model calls none. What
follows a settled row in `_execute`, `run_queue_tick` and `handle_message`
(reflection on an exhausted row, notifications, post-processing) changes none of
the variables and takes no step of its own. `HourPasses` does not happen during
an await that is bounded by seconds. In `AgentCore` the launcher restarts
the agent every time; its limit is in `Launcher`, where sessions have no inner
life. A second SIGTERM during a stop is left out, and so is a SIGTERM between a
child's start and its entry in `procs`. `DependsOn` chains are in the model and
empty in the runs. Which tools are side effects, gated, cooled or read-only is
a constant of `Turn`. Texts of briefing, wrap-up, nudges and logs are left out,
and so are the answers to a wrap-up.

*Not modelled.* The components marked so in `PROJECT.json`, with the reason for
each.

## 7. Plan

Done: the modules of section 2, their runs, and the theorems of section 5. Open:

1. An abstract *session life cycle* (which status may follow which, and who may
   write it), with `AgentCore` shown to implement it as it does `WorkQueue`.
   `QueueInv`, `LinsInv` and `EndedForGood` are most of what the step simulation
   needs.
2. What a draw of `Display` may show, as theorems.
3. `ActiveDriven` for autonomous sessions where queue runs ask Lin: which
   coroutine holds a session that was lent, beside the tick.
