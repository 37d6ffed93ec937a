----------------------------- MODULE DayEngine -----------------------------
(***************************************************************************)
(* day/tick.py and what it drives: the phase automaton (day/phase.py), the *)
(* wake alarm, briefing, wrap-up, evening proposal, reminders, pool nudges *)
(* and the idle agenda, beside Lin's messages, her taps on the display and *)
(* the tools that write the same tables.  The event loop is one thread:    *)
(* between two awaits that really suspend (pc "gen", "send", "sent")       *)
(* a tick runs alone.  The process may end at each of them, and between    *)
(* the two commits of an answer to a proposal (TornAnswer).  Other commits *)
(* made without an await between them are one step: fired and the screen,  *)
(* wrapped and the phase, a bundled message and its mark, the marks of the *)
(* pool's rows.  Torn apart they leave a screen dark, a day that does not  *)
(* turn to evening, a message both bundled and told; no property below     *)
(* speaks of these.                                                        *)
(***************************************************************************)
EXTENDS Anchors, PoolTable

CONSTANTS
  Reminders,     \* bound: reminders that may be set
  Corrections,   \* the anchors an answer may name: functions on subsets of AnchorKeys
  MaxArrived,    \* bound: messages handled at a time
  FirstSlot,     \* when the process is first started
  LastSlot,      \* bound: the slot the clock stops in
  MaxWords,      \* bound: Lin's messages in one behaviour
  MaxEvents,     \* bound: tool calls, taps, errors, crashes, alerts and ideas
  MaxInputs      \* bound: messages and events together

ASSUME DayAssumption ==
  /\ Reminders \subseteq Nat
  /\ Corrections \subseteq UNION {[ks -> 0..Slots-1] : ks \in SUBSET AnchorKeys}
  /\ {FirstSlot, LastSlot} \subseteq Nat /\ UtcLag <= FirstSlot /\ FirstSlot <= LastSlot
  /\ \A n \in FirstSlot..LastSlot : DateOf(n) \in Days
  /\ MaxArrived \in Nat /\ MaxWords \in Nat /\ MaxEvents \in Nat /\ MaxInputs \in Nat

VARIABLES
  now,           \* the local clock, in slots
  silence,       \* fresh; waning when it may have lasted SILENCE_HOURS
  up,            \* is the process running?
  phase,         \* day_phase_state
  anchors,       \* day_state: the negotiated times
  ask,           \* hanging_questions: proposals, oldest first
  flags,         \* meta keys and day_state columns, as the dates they are set for
  screen,        \* meta display_alarm_active
  rem,           \* reminders
  pool,          \* pool_tasks
  agenda,        \* meta: last run and last question of day/agenda.py
  tick,          \* run_day_tick: where it is, what it holds across an await
  arrived,       \* messages before the anchor intercept
  words,
  told, held, lost,  \* history: as in Outbox
  asked,         \* history: how often a date's times were open to an answer
  agreed,        \* history: the times Lin first agreed to or last named for a date
  nudges,        \* history: [sent, freed] on the current date
  events

tables  == <<anchors, ask, flags, screen, rem, pool, agenda>>
clock   == <<now, silence, words, events>>
history == <<told, held, lost, asked, agreed, nudges>>
vars == <<clock, up, phase, tables, tick, arrived, history>>

Today == DateOf(now)
Slot  == SlotOf(now)

Order == <<"resolve", "silence", "wake", "briefing", "wrapup", "evening",
           "health", "reminders", "pool", "agenda">>
Checks == {Order[i] : i \in DOMAIN Order}
Pos(c) == CHOOSE i \in DOMAIN Order : Order[i] = c

Idle == [pc |-> "idle", at |-> 1, began |-> 0, on |-> 0, due |-> {}, pick |-> {}]

\* a message with an identity: the check that sends it, and its date or reminder
Key == {"wake", "evening", "briefing", "wrapup", "agenda"} \X Days
       \cup {"reminders"} \X Reminders

Init ==
  /\ now = FirstSlot /\ silence = "fresh" /\ words = 0 /\ events = 0
  /\ up = TRUE /\ phase = "night"
  /\ anchors = NoAnchors /\ ask = <<>>
  /\ flags = [fired |-> {}, proposed |-> {}, briefed |-> {}, wrapped |-> {}, quiet |-> {}]
  /\ screen = FALSE
  /\ rem = [r \in Reminders |-> "none"]
  /\ pool \in [PoolTasks -> {NewRow(p, UtcLag) : p \in Priorities \cap 1..3}]
  /\ agenda = [ran |-> 0, asked |-> 0]
  /\ tick = Idle /\ arrived = 0
  /\ told = [k \in Key |-> 0] /\ lost = [k \in Key |-> 0] /\ held = {}
  /\ asked = [d \in Dates |-> 0] /\ agreed = NoAnchors
  /\ nudges = [sent |-> 0, freed |-> 0]

Event == events < MaxEvents /\ words + events < MaxInputs /\ events' = events + 1

\* may another coroutine run?
LoopFree == up /\ tick.pc \in {"idle", "gen", "send", "sent"}

-----------------------------------------------------------------------------
(* The checks of a tick, in order.  A check that has nothing to do is      *)
(* passed over; MayRun(c): c is next, what stands before it has nothing to *)
(* do.  silence, health and agenda depend on the world outside.             *)

Reached(k) == anchors[Today][k] <= Slot
Overdue == {r \in Reminders : rem[r] = "due"}

Wants(c) ==
  CASE c = "resolve"   -> EnsureResolved(anchors, Today) # anchors
    [] c = "wake"      -> phase = "night" /\ Reached("wake") /\ Today \notin flags.fired
    [] c = "briefing"  -> phase \in {"morning", "day"} /\ Reached("briefing")
                          /\ Today \notin flags.briefed
    [] c = "wrapup"    -> phase = "day" /\ Reached("wrapup") /\ Today \notin flags.wrapped
    [] c = "evening"   -> phase = "evening" /\ Today \notin flags.proposed
    [] c = "reminders" -> tick.due # {} \/ Overdue # {}
    [] c = "pool"      -> BudgetLeft(pool, now) /\ Candidates(pool, now) # {}
    [] OTHER           -> FALSE

MayRun(c) ==
  /\ up /\ tick.pc \in {"idle", "run"} /\ tick.at <= Pos(c)
  /\ \A i \in tick.at..Pos(c)-1 : ~Wants(Order[i])

Runs(c) == MayRun(c) /\ Wants(c)

\* a tick begins with the first check that has something to do
Began == IF tick.pc = "idle" THEN now ELSE tick.began

\* on to the check after c; the reminder loop goes on until it is through
After(c, due) ==
  [Idle EXCEPT !.pc = "run", !.began = Began, !.due = due,
               !.at = IF due = {} THEN Pos(c) + 1 ELSE Pos(c)]

EndTick ==
  /\ up /\ tick.pc = "run"
  /\ \A i \in tick.at..Len(Order) : ~Wants(Order[i])
  /\ tick' = Idle
  /\ UNCHANGED <<clock, up, phase, tables, arrived, history>>

EnsureAnchors ==
  /\ Runs("resolve")
  /\ anchors' = EnsureResolved(anchors, Today)
  /\ tick' = After("resolve", {})
  /\ UNCHANGED <<clock, up, phase, ask, flags, screen, rem, pool, agenda, arrived, history>>

CheckSilence ==
  /\ MayRun("silence") /\ phase = "evening" /\ silence = "waning"
  /\ phase' = "night"
  /\ tick' = After("silence", {})
  /\ UNCHANGED <<clock, up, tables, arrived, history>>

-----------------------------------------------------------------------------
(* notify.deliver: the message is on its way, or bundled for good; then    *)
(* the check writes its mark.                                              *)

Allowed(sev, window) == ShouldDeliver(sev, phase, Today \in flags.quiet, now, window)

Submit(c, x, due) ==
  tick' = [pc |-> "send", at |-> Pos(c), began |-> Began, on |-> x, due |-> due, pick |-> {}]

\* mutant: the briefing is taken to be over with the morning
MarkButBriefing(c, x) ==
  /\ flags' = CASE c = "wake"     -> [flags EXCEPT !.fired = @ \cup {x}]
                [] c = "evening"  -> [flags EXCEPT !.proposed = @ \cup {x}]
                [] c = "wrapup"   -> [flags EXCEPT !.wrapped = @ \cup {Today}]
                [] OTHER          -> flags
  /\ phase' = IF c = "wrapup" /\ phase = "day" THEN "evening" ELSE phase
  /\ screen' = (screen \/ c = "wake")
  /\ rem' = IF c = "reminders" /\ rem[x] = "due" THEN [rem EXCEPT ![x] = "done"] ELSE rem
  /\ agenda' = IF c = "agenda" THEN [agenda EXCEPT !.asked = now] ELSE agenda

\* what each check writes once deliver has returned; the alarm and the
\* proposal under the date they began on, briefing and wrap-up under today's.
\* Nothing of the day waits for verification, so the wrap-up ends it.
MarkDelivered(c, x) ==
  /\ flags' = CASE c = "wake"     -> [flags EXCEPT !.fired = @ \cup {x}]
                [] c = "evening"  -> [flags EXCEPT !.proposed = @ \cup {x}]
                [] c = "briefing" -> [flags EXCEPT !.briefed = @ \cup {Today}]
                [] c = "wrapup"   -> [flags EXCEPT !.wrapped = @ \cup {Today}]
                [] OTHER          -> flags
  /\ phase' = IF c = "wrapup" /\ phase = "day" THEN "evening" ELSE phase
  /\ screen' = (screen \/ c = "wake")
  /\ rem' = IF c = "reminders" /\ rem[x] = "due" THEN [rem EXCEPT ![x] = "done"] ELSE rem
  /\ agenda' = IF c = "agenda" THEN [agenda EXCEPT !.asked = now] ELSE agenda

Deliver(c, x, due, sev, window) ==
  \/ /\ Allowed(sev, window)
     /\ Submit(c, x, due)
     /\ UNCHANGED <<phase, flags, screen, rem, agenda, held>>
  \/ /\ ~Allowed(sev, window)
     /\ held' = IF <<c, x>> \in Key THEN held \cup {<<c, x>>} ELSE held
     /\ MarkDelivered(c, x)
     /\ tick' = After(c, due \ {x})

WakeAlarm ==
  /\ Runs("wake")
  /\ Deliver("wake", Today, {}, "critical", DayWindow)
  /\ UNCHANGED <<clock, up, anchors, ask, pool, arrived, told, lost, asked, agreed, nudges>>

\* the question exists before anybody has seen it
EveningNegotiation ==
  /\ Runs("evening")
  /\ ask' = Propose(ask, anchors, Today + 1)
  /\ asked' = [asked EXCEPT ![Today + 1] = @ + 1]
  /\ Deliver("evening", Today, {}, "normal", AnyTime)
  /\ UNCHANGED <<clock, up, anchors, pool, arrived, told, lost, agreed, nudges>>

\* gather and generate: the text is today's
Generate(c) ==
  /\ Runs(c)
  /\ tick' = [tick EXCEPT !.pc = "gen", !.at = Pos(c), !.began = Began, !.on = Today]
  /\ UNCHANGED <<clock, up, phase, tables, arrived, history>>

Generated(c) ==
  /\ up /\ tick.pc = "gen" /\ tick.at = Pos(c)
  /\ Deliver(c, tick.on, {}, "normal", AnyTime)
  /\ UNCHANGED <<clock, up, anchors, ask, pool, arrived, told, lost, asked, agreed, nudges>>

HealthSweep ==
  /\ MayRun("health") /\ Event
  /\ \E sev \in {"critical", "normal"} : Deliver("health", 0, {}, sev, DayWindow)
  /\ UNCHANGED <<now, silence, words, up, anchors, ask, pool, arrived, told, lost, asked, agreed, nudges>>

\* the list is read once, oldest first
FetchReminders ==
  /\ Runs("reminders") /\ tick.due = {}
  /\ tick' = [tick EXCEPT !.pc = "run", !.at = Pos("reminders"), !.began = Began, !.due = Overdue]
  /\ UNCHANGED <<clock, up, phase, tables, arrived, history>>

Remind ==
  /\ Runs("reminders") /\ tick.due # {}
  /\ \E r \in tick.due :
       /\ \A s \in tick.due : r <= s
       /\ Deliver("reminders", r, tick.due, "normal", DayWindow)
  /\ UNCHANGED <<clock, up, anchors, ask, pool, arrived, told, lost, asked, agreed, nudges>>

-----------------------------------------------------------------------------
(* The pool: the limit is looked at before the text is generated, the      *)
(* marks are written after it and before the message is sent.              *)

PickNudge ==
  /\ Runs("pool")
  /\ tick' = [tick EXCEPT !.pc = "gen", !.at = Pos("pool"), !.began = Began,
                          !.pick = Primary(pool, now) \cup Piggyback(pool, now)]
  /\ UNCHANGED <<clock, up, phase, tables, arrived, history>>

Nudge ==
  /\ up /\ tick.pc = "gen" /\ tick.at = Pos("pool")
  /\ pool' = MarkNudged(pool, tick.pick, now)
  /\ tick' = IF Allowed("low", PoolWindow) THEN [tick EXCEPT !.pc = "send"] ELSE After("pool", {})
  /\ UNCHANGED <<clock, up, phase, anchors, ask, flags, screen, rem, agenda, arrived, history>>

-----------------------------------------------------------------------------
(* day/agenda.py, when no session is active and the queue is empty.  Six   *)
(* hours may lie between two slots; a day is Slots of them.                *)

AgendaOpen == MayRun("agenda") /\ phase # "night" /\ now > agenda.ran /\ Event

\* an idea was found: it goes to the queue, or the question was asked today
AgendaIdea ==
  /\ AgendaOpen
  /\ agenda' = [agenda EXCEPT !.ran = now]
  /\ tick' = Idle
  /\ UNCHANGED <<now, silence, words, up, phase, anchors, ask, flags, screen, rem, pool, arrived, history>>

\* the run is marked before the question is sent, the question after
AskHaveTasks ==
  /\ AgendaOpen /\ now >= agenda.asked + Slots
  /\ LET open == Allowed("normal", DayWindow)
     IN  /\ tick' = IF open THEN [Idle EXCEPT !.pc = "send", !.at = Pos("agenda"),
                                               !.began = Began, !.on = Today]
                    ELSE Idle
         /\ held' = IF open THEN held ELSE held \cup {<<"agenda", Today>>}
         /\ agenda' = IF open THEN [agenda EXCEPT !.ran = now] ELSE [ran |-> now, asked |-> now]
  /\ UNCHANGED <<now, silence, words, up, phase, anchors, ask, flags, screen, rem, pool, arrived,
                 told, lost, asked, agreed, nudges>>

-----------------------------------------------------------------------------
(* send_fn: Telegram gets the message, later the call returns; either half *)
(* may fail.                                                               *)

Sending == <<Order[tick.at], tick.on>>

Accepted ==
  /\ up /\ tick.pc = "send"
  /\ tick' = [tick EXCEPT !.pc = "sent"]
  /\ told' = IF Sending \in Key THEN [told EXCEPT ![Sending] = @ + 1] ELSE told
  /\ nudges' = IF Order[tick.at] = "pool" THEN [nudges EXCEPT !.sent = @ + 1] ELSE nudges
  /\ UNCHANGED <<clock, up, phase, tables, arrived, held, lost, asked, agreed>>

Returned ==
  /\ up /\ tick.pc = "sent"
  /\ MarkDelivered(Order[tick.at], tick.on)
  /\ tick' = After(Order[tick.at], tick.due \ {tick.on})
  /\ UNCHANGED <<clock, up, anchors, ask, pool, arrived, history>>

LoseMark ==
  lost' = IF tick.pc = "sent" /\ Sending \in Key THEN [lost EXCEPT ![Sending] = @ + 1] ELSE lost

\* mutant: an error is logged and the check counts as done
SendSwallows ==
  /\ up /\ tick.pc \in {"send", "sent"} /\ Event
  /\ MarkDelivered(Order[tick.at], tick.on)
  /\ tick' = After(Order[tick.at], tick.due \ {tick.on})
  /\ UNCHANGED <<now, silence, words, up, anchors, ask, pool, arrived, history>>

\* run_tick of the pool catches what send raises, no other check does
SendRaises ==
  /\ up /\ tick.pc \in {"send", "sent"} /\ Event
  /\ LoseMark
  /\ tick' = IF Order[tick.at] = "pool" THEN After("pool", {}) ELSE Idle
  /\ UNCHANGED <<now, silence, words, up, phase, tables, arrived, told, held, asked, agreed, nudges>>

-----------------------------------------------------------------------------
(* Lin, her tools, the display, the clock                                  *)

\* the start of handle_message; an alarm of today that rang is confirmed
Arrive ==
  /\ LoopFree /\ arrived < MaxArrived /\ arrived' = arrived + 1
  /\ words < MaxWords /\ words + events < MaxInputs /\ words' = words + 1
  /\ phase' = IF phase = "night" /\ Today \in flags.fired THEN "morning" ELSE phase
  /\ UNCHANGED <<now, silence, events, up, tables, tick, history>>

\* resolve_reply: whatever she says is the answer to the newest proposal
SetTimes(correction) ==
  /\ ask # <<>>
  /\ LET row   == AskedLast(ask)
         times == Corrected(row.times, correction)
     IN  /\ anchors' = [anchors EXCEPT ![row.date] = times]
         /\ agreed' = IF DOMAIN correction = {} /\ agreed[row.date] \in Times THEN agreed
                      ELSE [agreed EXCEPT ![row.date] = times]

AnswerProposal(correction) ==
  /\ SetTimes(correction)
  /\ ask' = Answered(ask)
  /\ UNCHANGED phase

\* the first message of the day that asks for something
FirstActivity ==
  /\ ask = <<>> /\ phase = "morning" /\ phase' = "day"
  /\ UNCHANGED <<anchors, ask, agreed>>

\* an ack, a stop phrase, the answer to another question
NoActivity == UNCHANGED <<phase, anchors, ask, agreed>>

Read ==
  /\ LoopFree /\ arrived > 0
  /\ arrived' = arrived - 1 /\ silence' = "fresh"
  /\ FirstActivity \/ NoActivity \/ \E correction \in Corrections : AnswerProposal(correction)
  /\ UNCHANGED <<now, words, events, up, flags, screen, rem, pool, agenda, tick, told, held, lost, asked, nudges>>

\* the display is a process of its own; AlarmDismissed may not get through
Tap ==
  /\ screen /\ screen' = FALSE /\ Event
  /\ phase' \in {phase, IF LoopFree /\ phase = "night" /\ Today \in flags.fired
                          THEN "morning" ELSE phase}
  /\ UNCHANGED <<now, silence, words, up, anchors, ask, flags, rem, pool, agenda, tick, arrived, history>>

\* work_mode_set
SetMode ==
  /\ LoopFree /\ Event
  /\ flags' = [flags EXCEPT !.quiet = IF Today \in @ THEN @ \ {Today} ELSE @ \cup {Today}]
  /\ UNCHANGED <<now, silence, words, up, phase, anchors, ask, screen, rem, pool, agenda, tick, arrived, history>>

ReminderTool ==
  /\ LoopFree /\ Event
  /\ \E r \in Reminders :
       \/ rem[r] = "none" /\ \E st \in {"set", "due"} : rem' = [rem EXCEPT ![r] = st]
       \/ rem[r] \in {"set", "due", "done"} /\ rem' = [rem EXCEPT ![r] = "gone"]
  /\ UNCHANGED <<now, silence, words, up, phase, anchors, ask, flags, screen, pool, agenda, tick, arrived, history>>

PoolTool(t) ==
  \/ pool[t].st = "none" /\ \E p \in Priorities : pool' = [pool EXCEPT ![t] = NewRow(p, now)]
  \/ /\ pool[t].st = "active"
     /\ \/ pool' = [pool EXCEPT ![t].st = "done"]
        \/ pool' = [pool EXCEPT ![t].until = now + Slots]
        \/ \E p \in Priorities \ {pool[t].prio} : pool' = [pool EXCEPT ![t].prio = p]
  \/ pool[t].st # "none" /\ pool' = [pool EXCEPT ![t] = NoRow]

\* a row that is deleted or raised to 5 is not counted any more
UsePool ==
  /\ LoopFree /\ Event
  /\ \E t \in PoolTasks :
       /\ PoolTool(t)
       /\ nudges' = IF pool'[t].st = "none" \/ (pool'[t].prio = 5 /\ pool[t].prio < 5)
                      THEN [nudges EXCEPT !.freed = @ + 1] ELSE nudges
  /\ UNCHANGED <<now, silence, words, up, phase, anchors, ask, flags, screen, rem, agenda, tick, arrived,
                 told, held, lost, asked, agreed>>

\* no tick lasts as long as a slot
Advance ==
  /\ now < LastSlot
  /\ tick.pc = "idle" \/ (tick.pc # "run" /\ tick.began = now)
  /\ now' = now + 1
  /\ silence' = IF silence = "fresh" THEN "waning" ELSE silence
  /\ rem' = [r \in Reminders |-> IF rem[r] = "set" THEN "due" ELSE rem[r]]
  /\ nudges' = IF DateOf(now + 1) # Today THEN [sent |-> 0, freed |-> 0] ELSE nudges
  /\ UNCHANGED <<words, events, up, phase, anchors, ask, flags, screen, pool, agenda, tick, arrived,
                 told, held, lost, asked, agreed>>

\* an hour without an answer
ProposalsExpire ==
  /\ tick.pc = "idle"
  /\ \E i \in DOMAIN ask : ask' = Swept(ask, i)
  /\ UNCHANGED <<clock, up, phase, anchors, flags, screen, rem, pool, agenda, tick, arrived, history>>

-----------------------------------------------------------------------------
Crash ==
  /\ up /\ Event /\ up' = FALSE
  /\ LoseMark
  /\ tick' = Idle /\ arrived' = 0
  /\ UNCHANGED <<now, silence, words, phase, tables, told, held, asked, agreed, nudges>>

\* the end between set_anchor_times and hanging.resolve: the times are written,
\* the row is still there, and the date is open to an answer once more
TornAnswer ==
  /\ LoopFree /\ arrived > 0 /\ Event
  /\ \E correction \in Corrections : SetTimes(correction)
  /\ asked' = [asked EXCEPT ![AskedLast(ask).date] = @ + 1]
  /\ up' = FALSE /\ silence' = "fresh"
  /\ LoseMark
  /\ tick' = Idle /\ arrived' = 0
  /\ UNCHANGED <<now, words, phase, ask, flags, screen, rem, pool, agenda, told, held, nudges>>

Restart ==
  /\ ~up /\ up' = TRUE
  /\ UNCHANGED <<clock, phase, tables, tick, arrived, history>>

Check ==
  \/ EnsureAnchors \/ CheckSilence \/ WakeAlarm \/ EveningNegotiation
  \/ \E c \in {"briefing", "wrapup"} : Generate(c) \/ Generated(c)
  \/ FetchReminders \/ Remind \/ PickNudge \/ Nudge
  \/ Accepted \/ Returned \/ EndTick

Next ==
  \/ Check \/ HealthSweep \/ AgendaIdea \/ AskHaveTasks \/ SendRaises
  \/ Arrive \/ Read \/ Tap \/ SetMode \/ ReminderTool \/ UsePool
  \/ Advance \/ ProposalsExpire
  \/ Crash \/ TornAnswer \/ Restart

Spec == Init /\ [][Next]_vars

-----------------------------------------------------------------------------
TypeOK ==
  /\ now \in Nat /\ silence \in {"fresh", "waning"} /\ words \in 0..MaxWords /\ events \in 0..MaxEvents
  /\ up \in BOOLEAN /\ phase \in Phases
  /\ anchors \in AnchorTable /\ ask \in Seq(Proposal)
  /\ flags \in [{"fired", "proposed", "briefed", "wrapped", "quiet"} -> SUBSET Dates]
  /\ screen \in BOOLEAN
  /\ rem \in [Reminders -> {"none", "set", "due", "done", "gone"}]
  /\ pool \in [PoolTasks -> PoolRow]
  /\ agenda \in [ran : Nat, asked : Nat]
  /\ tick \in [pc : {"idle", "run", "gen", "send", "sent"}, at : 1..Len(Order)+1, began : Nat,
               on : Nat, due : SUBSET Reminders, pick : SUBSET PoolTasks]
  /\ arrived \in 0..MaxArrived
  /\ told \in [Key -> Nat] /\ lost \in [Key -> Nat] /\ held \subseteq Key
  /\ asked \in [Dates -> Nat] /\ agreed \in AnchorTable
  /\ nudges \in [sent : Nat, freed : Nat]

\* The alarm, the evening proposal and the reminders keep the promise of
\* Outbox: each is told once unless its mark was lost, none is marked that was
\* neither told nor bundled, and the alarm is never bundled.
Once == {"wake", "evening"} \X Days \cup {"reminders"} \X Reminders
Promise == INSTANCE Outbox WITH
  Keys     <- Once,
  Critical <- {"wake"} \X Days,
  told     <- [k \in Once |-> told[k]],
  lost     <- [k \in Once |-> lost[k]],
  held     <- held \cap Once,
  marked   <- ({"wake"} \X flags.fired) \cup ({"evening"} \X flags.proposed)
              \cup ({"reminders"} \X {r \in Reminders : rem[r] = "done"}),
  gone     <- {"reminders"} \X {r \in Reminders : rem[r] = "gone"},
  picked   <- ({"reminders"} \X tick.due)
              \cup (IF tick.pc \in {"send", "sent"} THEN {Sending} \cap Once ELSE {}),
  told_now <- IF tick.pc = "sent" THEN {Sending} \cap Once ELSE {}
OncePromise == Promise!Spec

\* Briefing, wrap-up and the agenda's question reach Lin once a date unless an
\* answer of Telegram's or the mark was lost.
RoutineOnce ==
  \A c \in {"briefing", "wrapup", "agenda"}, d \in Days : told[<<c, d>>] <= 1 + lost[<<c, d>>]

\* What Lin agreed to for a date is what the checks go by on it, as long as the
\* date was open to an answer once.  (It is open again when a proposal whose
\* sending failed is made anew, and when the process ended between the two commits
\* of an answer: after that her next remark can undo her correction.)
AgreedStands ==
  \A d \in Dates : agreed[d] \in Times /\ asked[d] <= 1 => anchors[d] = agreed[d]

\* Lin gets no more pool nudges a day than the limit, however many rows are due,
\* but for the rows that left the count: mark_nudged comes before the message,
\* whatever becomes of it.
PoolBudget == nudges.sent <= MaxNudges + nudges.freed
=============================================================================
