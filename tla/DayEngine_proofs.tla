-------------------------- MODULE DayEngine_proofs --------------------------
(***************************************************************************)
(* Theorems about DayEngine.  DayInv is the type invariant with what a     *)
(* tick holds between two steps.  On it rest four results: what Lin agreed *)
(* to stands (AskInv), alarm, proposal and reminder keep Outbox's promise  *)
(* (a refinement, step by step), briefing, wrap-up and the agenda's        *)
(* question are told once a date (RoutineInv), and the nudges of the pool  *)
(* stay within their budget (PoolInv).                                     *)
(***************************************************************************)
EXTENDS DayEngine, FiniteSetTheorems, WellFoundedInduction, TLAPS

-----------------------------------------------------------------------------
(* The order of the checks, the bounds and the clock                       *)

\* The ten checks of run_day_tick, in order.
LEMMA OrderValues ==
  /\ DOMAIN Order = 1..10 /\ Len(Order) = 10
  /\ Order[1] = "resolve" /\ Order[2] = "silence" /\ Order[3] = "wake" /\ Order[4] = "briefing"
  /\ Order[5] = "wrapup" /\ Order[6] = "evening" /\ Order[7] = "health" /\ Order[8] = "reminders"
  /\ Order[9] = "pool" /\ Order[10] = "agenda"
  BY DEF Order

\* No check stands twice in the order.
LEMMA OrderDiffers == \A i, j \in 1..10 : Order[i] = Order[j] => i = j
<1> TAKE i, j \in 1..10
<1>1. i \in {1,2,3,4,5,6,7,8,9,10} /\ j \in {1,2,3,4,5,6,7,8,9,10}
  OBVIOUS
<1> QED BY <1>1, OrderValues

\* Pos is the place of a check in the order.
LEMMA Positions == \A i \in 1..10 : Pos(Order[i]) = i
<1> TAKE i \in 1..10
<1>1. \E j \in DOMAIN Order : Order[j] = Order[i]
  BY OrderValues
<1>2. Pos(Order[i]) \in DOMAIN Order /\ Order[Pos(Order[i])] = Order[i]
  BY <1>1 DEF Pos
<1> QED BY <1>2, OrderDiffers, OrderValues

\* The checks Outbox speaks of, by their places.
LEMMA Names ==
  \A i \in 1..10 :
    /\ Order[i] = "wake" <=> i = 3
    /\ Order[i] = "evening" <=> i = 6
    /\ Order[i] = "reminders" <=> i = 8
    /\ Order[i] = "pool" <=> i = 9
<1> TAKE i \in 1..10
<1>1. i \in {1,2,3,4,5,6,7,8,9,10}
  OBVIOUS
<1> QED BY <1>1, OrderValues

\* The place of each check by its name.
LEMMA PositionOf ==
  /\ Pos("resolve") = 1 /\ Pos("silence") = 2 /\ Pos("wake") = 3 /\ Pos("briefing") = 4
  /\ Pos("wrapup") = 5 /\ Pos("evening") = 6 /\ Pos("health") = 7 /\ Pos("reminders") = 8
  /\ Pos("pool") = 9 /\ Pos("agenda") = 10
  BY Positions, OrderValues

\* What the assumptions say of the bounds, and no more.
LEMMA Bounds ==
  /\ MaxWords \in Nat /\ MaxArrived \in Nat /\ MaxEvents \in Nat
  /\ FirstSlot \in Nat /\ LastSlot \in Nat /\ UtcLag \in Nat /\ FirstSlot <= LastSlot /\ UtcLag <= FirstSlot
  /\ 0 \in 0..MaxWords /\ 0 \in 0..MaxArrived /\ 0 \in 0..MaxEvents
<1>1. /\ MaxWords \in Nat /\ MaxArrived \in Nat /\ MaxEvents \in Nat
      /\ FirstSlot \in Nat /\ LastSlot \in Nat /\ FirstSlot <= LastSlot /\ UtcLag <= FirstSlot
  BY DayAssumption DEF DayAssumption
<1>2. UtcLag \in Nat
  BY PoolAssumption, NotifyAssumption DEF PoolAssumption, NotifyAssumption
<1> QED BY <1>1, <1>2

\* A clock within the bounds is on a date the tables have, tomorrow included.
LEMMA Clock ==
  ASSUME now \in FirstSlot..LastSlot
  PROVE  /\ now \in Nat /\ UtcLag <= now /\ now - UtcLag \in Nat
         /\ Today \in Days /\ Today \in Nat /\ Today \in Dates /\ Today + 1 \in Dates
         /\ UtcLag \in Nat /\ Slots \in Nat \ {0}
<1>1. Today \in Days
  BY DayAssumption DEF DayAssumption, Today
<1>2. UtcLag \in Nat /\ Slots \in Nat \ {0}
  BY PoolAssumption, NotifyAssumption DEF PoolAssumption, NotifyAssumption
<1> QED BY <1>1, <1>2, DayAssumption, AnchorsAssumption DEF DayAssumption, AnchorsAssumption, Days, Dates

-----------------------------------------------------------------------------
(* What a tick holds; the types of what a check writes                     *)

\* a tick between two steps
TickType ==
  [pc : {"idle", "run", "gen", "send", "sent"}, at : 1..11, began : Nat,
   on : Nat, due : SUBSET Reminders, pick : SUBSET PoolTasks]

\* what holds of it: which checks wait for text, which have picked reminders or
\* dates, and that nothing is held between two ticks
TickGood(t) ==
  /\ t \in TickType
  /\ t.pc \in {"gen", "send", "sent"} => t.at \in 1..10
  /\ t.pc \in {"idle", "gen"} => t.due = {}
  /\ t.due # {} => t.at = 8
  /\ t.pc \in {"send", "sent"} =>
       /\ t.at \in {3, 6} => t.on \in Days
       /\ t.at = 8 => t.on \in t.due

\* TypeOK, strong enough to be kept by itself
DayInv == TypeOK /\ now \in FirstSlot..LastSlot /\ TickGood(tick)

\* A check that goes on with a tick keeps the record's type.
LEMMA TickFields ==
  ASSUME NEW t \in TickType, NEW pc \in {"idle", "run", "gen", "send", "sent"},
         NEW i \in 1..11, NEW began \in Nat
  PROVE  /\ \A on \in Nat :
              [t EXCEPT !.pc = pc, !.at = i, !.began = began, !.on = on] \in TickType
         /\ \A due \in SUBSET Reminders :
              [t EXCEPT !.pc = pc, !.at = i, !.began = began, !.due = due] \in TickType
         /\ \A pick \in SUBSET PoolTasks :
              [t EXCEPT !.pc = pc, !.at = i, !.began = began, !.pick = pick] \in TickType
  BY DEF TickType

\* The slot a tick began in is a slot.
LEMMA Beginning == ASSUME DayInv PROVE Began \in Nat
  BY DEF DayInv, TypeOK, TickGood, TickType, Began

\* The record of a tick that goes on to the next check is a good one.
LEMMA AfterGood ==
  ASSUME DayInv, NEW i \in 1..10, NEW due \in SUBSET Reminders, due # {} => i = 8
  PROVE  TickGood(After(Order[i], due))
<1>1. Pos(Order[i]) = i
  BY Positions
<1>2. i + 1 \in 1..11 /\ i \in 1..11
  OBVIOUS
<1> QED BY <1>1, <1>2, Beginning DEF TickGood, TickType, After, Idle

\* So is that of a tick whose message is on its way.
LEMMA SubmitGood ==
  ASSUME DayInv, NEW i \in 1..10, NEW due \in SUBSET Reminders, NEW x \in Nat,
         due # {} => i = 8, i \in {3, 6} => x \in Days, i = 8 => x \in due,
         Submit(Order[i], x, due)
  PROVE  TickGood(tick')
<1>1. Pos(Order[i]) = i
  BY Positions
<1> QED BY <1>1, Beginning DEF Submit, TickGood, TickType

\* And that between two ticks.
LEMMA IdleGood == TickGood(Idle)
  BY DEF TickGood, TickType, Idle

\* What the checks write once deliver has returned has the tables' types.
LEMMA MarkTypes ==
  ASSUME DayInv, NEW i \in 1..10, NEW x \in Nat, i \in {3, 6} => x \in Days,
         MarkDelivered(Order[i], x)
  PROVE  /\ flags' \in [{"fired", "proposed", "briefed", "wrapped", "quiet"} -> SUBSET Dates]
         /\ phase' \in Phases /\ screen' \in BOOLEAN
         /\ rem' \in [Reminders -> {"none", "set", "due", "done", "gone"}]
         /\ agenda' \in [ran : Nat, asked : Nat]
<1>1. now \in Nat /\ Today \in Dates
  BY Clock DEF DayInv
<1>2. Order[i] \in {"wake", "evening"} => x \in Dates
  BY Names, AnchorsAssumption DEF AnchorsAssumption, Days, Dates
<1>3. flags' \in [{"fired", "proposed", "briefed", "wrapped", "quiet"} -> SUBSET Dates]
  BY <1>1, <1>2 DEF MarkDelivered, DayInv, TypeOK
<1>4. rem' \in [Reminders -> {"none", "set", "due", "done", "gone"}]
  BY DEF MarkDelivered, DayInv, TypeOK
<1>5. agenda' \in [ran : Nat, asked : Nat]
  BY <1>1 DEF MarkDelivered, DayInv, TypeOK
<1>6. phase' \in Phases /\ screen' \in BOOLEAN
  BY DEF MarkDelivered, DayInv, TypeOK, Phases
<1> QED BY <1>3, <1>4, <1>5, <1>6


\* the types of what a delivery writes
DeliverTypes ==
  /\ TickGood(tick') /\ held' \subseteq Key
  /\ flags' \in [{"fired", "proposed", "briefed", "wrapped", "quiet"} -> SUBSET Dates]
  /\ phase' \in Phases /\ screen' \in BOOLEAN
  /\ rem' \in [Reminders -> {"none", "set", "due", "done", "gone"}]
  /\ agenda' \in [ran : Nat, asked : Nat]

\* A delivery, bundled or on its way, keeps the types of all it writes.
LEMMA DeliverKeeps ==
  ASSUME DayInv, NEW i \in 1..10, NEW due \in SUBSET Reminders, NEW x \in Nat,
         due # {} => i = 8, i \in {3, 6} => x \in Days, i = 8 => x \in due,
         NEW sev, NEW window, Deliver(Order[i], x, due, sev, window)
  PROVE  DeliverTypes
<1>1. CASE Allowed(sev, window)
  <2>1. Submit(Order[i], x, due) /\ UNCHANGED <<phase, flags, screen, rem, agenda, held>>
    BY <1>1 DEF Deliver
  <2>2. TickGood(tick')
    BY <2>1, SubmitGood
  <2> QED BY <2>1, <2>2 DEF DayInv, TypeOK, DeliverTypes
<1>2. CASE ~Allowed(sev, window)
  <2>1. /\ MarkDelivered(Order[i], x) /\ tick' = After(Order[i], due \ {x})
        /\ held' = IF <<Order[i], x>> \in Key THEN held \cup {<<Order[i], x>>} ELSE held
    BY <1>2 DEF Deliver
  <2>2. TickGood(tick')
    BY <2>1, AfterGood
  <2>3. held' \subseteq Key
    BY <2>1 DEF DayInv, TypeOK
  <2> QED BY <2>1, <2>2, <2>3, MarkTypes DEF DeliverTypes
<1> QED BY <1>1, <1>2

-----------------------------------------------------------------------------
(* Anchors, proposals, and the start of a check                            *)

\* resolve_anchors fills what is open and leaves what is set.
LEMMA TimesAreSet ==
  ASSUME NEW times \in [AnchorKeys -> 0..NotSet], NEW others \in Times
  PROVE  Filled(times, others) \in Times /\ (times \in Times => Filled(times, others) = times)
<1>1. Slots \in Nat \ {0}
  BY NotifyAssumption DEF NotifyAssumption
<1> QED BY <1>1 DEF Filled, Times, NotSet

\* Yesterday's times, or the defaults, are times.
LEMMA Fallback ==
  ASSUME NEW table \in AnchorTable, NEW d \in Dates
  PROVE  YesterdayOrDefault(table, d) \in Times
<1>1. Defaults \in Times
  BY AnchorsAssumption DEF AnchorsAssumption
<1> QED BY <1>1, TimesAreSet DEF YesterdayOrDefault, AnchorTable

\* Times that are set are among those that may be open.
LEMMA TimesFit == Times \subseteq [AnchorKeys -> 0..NotSet]
<1>1. Slots \in Nat \ {0}
  BY NotifyAssumption DEF NotifyAssumption
<1> QED BY <1>1 DEF Times, NotSet

\* ensure_anchors writes only the date it is called for, and there only what is open.
LEMMA ResolvedTable ==
  ASSUME NEW table \in AnchorTable, NEW d \in Dates
  PROVE  /\ EnsureResolved(table, d) \in AnchorTable
         /\ \A e \in Dates \ {d} : EnsureResolved(table, d)[e] = table[e]
         /\ table[d] \in Times => EnsureResolved(table, d)[d] = table[d]
<1>1. Filled(table[d], YesterdayOrDefault(table, d)) \in Times
      /\ (table[d] \in Times => Filled(table[d], YesterdayOrDefault(table, d)) = table[d])
  BY Fallback, TimesAreSet DEF AnchorTable
<1> QED BY <1>1, TimesFit DEF EnsureResolved, AnchorTable

\* Times corrected by an answer are times.
LEMMA CorrectedTimes ==
  ASSUME NEW times \in Times, NEW correction \in Corrections
  PROVE  Corrected(times, correction) \in Times
<1>1. PICK ks \in SUBSET AnchorKeys : correction \in [ks -> 0..Slots-1]
  BY DayAssumption DEF DayAssumption
<1> QED BY <1>1 DEF Corrected, Times

\* A new proposal goes to the end of the list.
LEMMA Proposed ==
  ASSUME NEW s \in Seq(Proposal), NEW p \in Proposal
  PROVE  /\ Append(s, p) \in Seq(Proposal) /\ DOMAIN Append(s, p) = 1..Len(s)+1
         /\ \A i \in 1..Len(s) : Append(s, p)[i] = s[i]
         /\ Append(s, p)[Len(s)+1] = p
  OBVIOUS

\* The rows of the list are proposals for dates of the tables.
LEMMA ProposalRows ==
  ASSUME NEW s \in Seq(Proposal)
  PROVE  DOMAIN s = 1..Len(s) /\ Len(s) \in Nat /\ \A i \in DOMAIN s : s[i].date \in Dates
<1>1. \A i \in DOMAIN s : s[i] \in Proposal
  OBVIOUS
<1> QED BY <1>1 DEF Proposal

\* An answer takes the newest proposal away and leaves the rest.
LEMMA LastAnswered ==
  ASSUME NEW s \in Seq(Proposal), s # <<>>
  PROVE  /\ AskedLast(s) \in Proposal /\ AskedLast(s) = s[Len(s)] /\ Len(s) \in DOMAIN s
         /\ Answered(s) \in Seq(Proposal) /\ DOMAIN Answered(s) = 1..Len(s)-1
         /\ \A i \in 1..Len(s)-1 : i \in DOMAIN s /\ Answered(s)[i] = s[i]
  BY DEF AskedLast, Answered

\* The sweep takes the oldest proposals away and leaves the rest.
LEMMA OldestSwept ==
  ASSUME NEW s \in Seq(Proposal), NEW n \in DOMAIN s
  PROVE  /\ Swept(s, n) \in Seq(Proposal) /\ DOMAIN Swept(s, n) = 1..Len(s)-n
         /\ \A i \in 1..Len(s)-n : i + n \in DOMAIN s /\ Swept(s, n)[i] = s[i+n]
  BY DEF Swept

\* Reminders are under way only at the reminders' check.
LEMMA NoneDue ==
  ASSUME DayInv, NEW i \in 1..10, MayRun(Order[i]), i # 8
  PROVE  tick.due = {} /\ tick.pc \in {"idle", "run"} /\ tick.at <= i /\ up
<1>1. Pos(Order[i]) = i /\ Order[8] = "reminders"
  BY Positions, OrderValues
<1>2. tick.at \in 1..11 /\ (tick.due # {} => tick.at = 8)
  BY DEF DayInv, TickGood, TickType
<1>3. ASSUME tick.due # {} PROVE FALSE
  <2>1. 8 \in tick.at..Pos(Order[i])-1
    BY <1>1, <1>2, <1>3 DEF MayRun
  <2>2. ~Wants("reminders")
    BY <1>1, <2>1 DEF MayRun
  <2> QED BY <1>3, <2>2 DEF Wants
<1> QED BY <1>1, <1>3 DEF MayRun

-----------------------------------------------------------------------------
(* The invariant                                                           *)

\* DayInv holds at the first start.
LEMMA DayStarts == Init => DayInv
<1> SUFFICES ASSUME Init PROVE DayInv
  OBVIOUS
<1>1. now \in FirstSlot..LastSlot /\ now \in Nat
  BY Bounds DEF Init
<1>2. anchors \in AnchorTable /\ agreed \in AnchorTable
  BY NotifyAssumption DEF Init, NoAnchors, Unset, AnchorTable, NotSet, NotifyAssumption
<1>3. pool \in [PoolTasks -> PoolRow]
  <2>1. UtcLag - UtcLag \in Nat
    BY Bounds
  <2>2. \A p \in Priorities \cap 1..3 : NewRow(p, UtcLag) \in PoolRow
    BY <2>1 DEF NewRow, PoolRow, Never
  <2> QED BY <2>2 DEF Init
<1>4. TickGood(tick)
  BY IdleGood DEF Init
<1>5. ask \in Seq(Proposal)
  BY DEF Init
<1>6. tick \in [pc : {"idle", "run", "gen", "send", "sent"}, at : 1..Len(Order)+1, began : Nat,
                on : Nat, due : SUBSET Reminders, pick : SUBSET PoolTasks]
  BY <1>4, OrderValues DEF TickGood, TickType
<1>7. told \in [Key -> Nat] /\ lost \in [Key -> Nat] /\ asked \in [Dates -> Nat] /\ held \subseteq Key
  BY DEF Init
<1>8. flags \in [{"fired", "proposed", "briefed", "wrapped", "quiet"} -> SUBSET Dates]
  BY DEF Init
<1>9. /\ silence \in {"fresh", "waning"} /\ words \in 0..MaxWords /\ events \in 0..MaxEvents
      /\ up \in BOOLEAN /\ phase \in Phases /\ screen \in BOOLEAN
      /\ rem \in [Reminders -> {"none", "set", "due", "done", "gone"}]
      /\ agenda \in [ran : Nat, asked : Nat] /\ arrived \in 0..MaxArrived
      /\ nudges \in [sent : Nat, freed : Nat]
  <2>1. /\ silence = "fresh" /\ words = 0 /\ events = 0 /\ up = TRUE /\ phase = "night" /\ arrived = 0
        /\ screen = FALSE /\ rem = [r \in Reminders |-> "none"] /\ agenda = [ran |-> 0, asked |-> 0]
        /\ nudges = [sent |-> 0, freed |-> 0]
    BY DEF Init
  <2> QED BY <2>1, Bounds DEF Phases
<1> QED BY <1>1, <1>2, <1>3, <1>4, <1>5, <1>6, <1>7, <1>8, <1>9 DEF DayInv, TypeOK

\* The times an answer writes are times of the proposal's date.
LEMMA TimesTyped ==
  ASSUME DayInv, NEW correction \in Corrections, SetTimes(correction)
  PROVE  /\ anchors' \in AnchorTable /\ agreed' \in AnchorTable
         /\ ask # <<>> /\ AskedLast(ask).date \in Dates
<1>1. ask # <<>> /\ AskedLast(ask) \in Proposal
  BY LastAnswered DEF SetTimes, DayInv, TypeOK
<1>2. Corrected(AskedLast(ask).times, correction) \in [AnchorKeys -> 0..NotSet]
  BY <1>1, CorrectedTimes, TimesFit DEF Proposal, DayInv, TypeOK
<1> QED BY <1>1, <1>2 DEF SetTimes, AnchorTable, Proposal, DayInv, TypeOK

\* Every step of the day keeps DayInv: one case per action.
LEMMA DayStep == DayInv /\ [Next]_vars => DayInv'
<1> SUFFICES ASSUME DayInv, [Next]_vars PROVE DayInv'
  OBVIOUS
<1>0. Len(Order) = 10
  BY OrderValues DEF DayInv, TypeOK
<1>a. /\ now \in Nat /\ UtcLag <= now /\ now - UtcLag \in Nat /\ Slots \in Nat \ {0}
      /\ Today \in Days /\ Today \in Nat /\ Today \in Dates /\ Today + 1 \in Dates
  BY Clock DEF DayInv
<1>e. Began \in Nat /\ TickGood(tick)
  BY Beginning DEF DayInv
<1>f. /\ MaxWords \in Nat /\ MaxArrived \in Nat /\ MaxEvents \in Nat
      /\ FirstSlot \in Nat /\ LastSlot \in Nat
  BY Bounds
<1>b. \A t : TickGood(t) => t \in [pc : {"idle", "run", "gen", "send", "sent"}, at : 1..Len(Order)+1,
                 began : Nat, on : Nat, due : SUBSET Reminders, pick : SUBSET PoolTasks]
  BY <1>0 DEF TickGood, TickType, DayInv, TypeOK
<1>c. events \in 0..MaxEvents /\ Event => events' \in 0..MaxEvents
  BY DayAssumption DEF Event, DayAssumption, DayInv, TypeOK
<1>1. CASE EnsureAnchors
  <2>1. TickGood(tick')
    BY <1>1, AfterGood, OrderValues DEF EnsureAnchors
  <2>2. anchors' \in AnchorTable
    BY <1>1, <1>a, ResolvedTable DEF EnsureAnchors, DayInv, TypeOK
  <2> QED BY <1>1, <1>b, <2>1, <2>2 DEF EnsureAnchors, clock, history, DayInv, TypeOK
<1>2. CASE CheckSilence
  <2>1. TickGood(tick')
    BY <1>2, AfterGood, OrderValues DEF CheckSilence
  <2> QED BY <1>2, <1>b, <2>1 DEF CheckSilence, clock, history, tables, Phases, DayInv, TypeOK
<1>3. CASE WakeAlarm
  <2>1. Deliver(Order[3], Today, {}, "critical", DayWindow)
    BY <1>3, OrderValues DEF WakeAlarm, DayInv, TypeOK
  <2>2. DeliverTypes
    BY <1>a, <2>1, DeliverKeeps
  <2> QED BY <1>3, <1>b, <2>2 DEF WakeAlarm, clock, DayInv, TypeOK, DeliverTypes
<1>4. CASE EveningNegotiation
  <2>1. Deliver(Order[6], Today, {}, "normal", AnyTime)
    BY <1>4, OrderValues DEF EveningNegotiation, DayInv, TypeOK
  <2>2. YesterdayOrDefault(anchors, Today + 1) \in Times
    BY <1>a, Fallback DEF DayInv, TypeOK
  <2>3. ask' \in Seq(Proposal)
    BY <1>4, <1>a, <2>2 DEF EveningNegotiation, Propose, Proposal, DayInv, TypeOK
  <2>4. asked' \in [Dates -> Nat]
    <3>1. asked \in [Dates -> Nat]
      BY DEF DayInv, TypeOK
    <3> QED BY <1>4, <1>a, <3>1 DEF EveningNegotiation
  <2>5. DeliverTypes
    BY <1>a, <2>1, DeliverKeeps
  <2> QED BY <1>4, <1>b, <2>3, <2>4, <2>5 DEF EveningNegotiation, clock, DayInv, TypeOK, DeliverTypes
<1>5. ASSUME NEW c \in {"briefing", "wrapup"}, Generate(c) PROVE DayInv'
  <2> DEFINE i == IF c = "briefing" THEN 4 ELSE 5
  <2>1. c = Order[i] /\ i \in {4, 5} /\ i \in 1..10 /\ Pos(c) = i
    BY PositionOf, OrderValues
  <2> HIDE DEF i
  <2>2. tick.due = {}
    BY <1>5, <2>1, NoneDue DEF Generate, Runs
  <2>3. TickGood(tick')
    <3>1. tick' \in TickType
      <4>1. tick \in TickType /\ i \in 1..11
        BY <1>e, <2>1 DEF TickGood
      <4>2. tick' = [tick EXCEPT !.pc = "gen", !.at = i, !.began = Began, !.on = Today]
        BY <1>5, <2>1 DEF Generate
      <4> QED BY <1>a, <1>e, <4>1, <4>2, TickFields
    <3>2. tick'.pc = "gen" /\ tick'.at = i /\ tick'.due = {}
      BY <1>5, <1>e, <2>1, <2>2 DEF Generate, TickGood, TickType
    <3> QED BY <2>1, <3>1, <3>2 DEF TickGood
  <2> QED BY <1>5, <1>b, <2>3 DEF Generate, clock, tables, history, DayInv, TypeOK
<1>6. ASSUME NEW c \in {"briefing", "wrapup"}, Generated(c) PROVE DayInv'
  <2> DEFINE i == IF c = "briefing" THEN 4 ELSE 5
  <2>1. c = Order[i] /\ i \in {4, 5} /\ i \in 1..10
    BY OrderValues
  <2> HIDE DEF i
  <2>2. Deliver(Order[i], tick.on, {}, "normal", AnyTime) /\ tick.on \in Nat
    BY <1>6, <2>1 DEF Generated, DayInv, TypeOK
  <2>3. DeliverTypes
    BY <2>1, <2>2, DeliverKeeps
  <2> QED BY <1>6, <1>b, <2>3 DEF Generated, clock, DayInv, TypeOK, DeliverTypes
<1>7. CASE HealthSweep
  <2>1. PICK sev \in {"critical", "normal"} : Deliver(Order[7], 0, {}, sev, DayWindow)
    BY <1>7, OrderValues DEF HealthSweep, DayInv, TypeOK
  <2>2. DeliverTypes
    BY <2>1, DeliverKeeps
  <2> QED BY <1>7, <1>b, <1>c, <2>2 DEF HealthSweep, DayInv, TypeOK, DeliverTypes
<1>8. CASE FetchReminders
  <2>1. TickGood(tick')
    <3>1. tick' \in TickType
      <4>1. tick \in TickType /\ 8 \in 1..11 /\ Overdue \subseteq Reminders
        BY <1>e DEF TickGood, Overdue
      <4>2. tick' = [tick EXCEPT !.pc = "run", !.at = 8, !.began = Began, !.due = Overdue]
        BY <1>8, PositionOf DEF FetchReminders
      <4> QED BY <1>e, <4>1, <4>2, TickFields
    <3>2. tick'.pc = "run" /\ tick'.at = 8
      BY <1>8, <1>e, PositionOf DEF FetchReminders, TickGood, TickType
    <3> QED BY <3>1, <3>2 DEF TickGood
  <2> QED BY <1>8, <1>b, <2>1 DEF FetchReminders, clock, tables, history, DayInv, TypeOK
<1>9. CASE Remind
  <2>1. PICK r \in tick.due : Deliver(Order[8], r, tick.due, "normal", DayWindow)
    BY <1>9, OrderValues DEF Remind, DayInv, TypeOK
  <2>2. tick.due \subseteq Reminders /\ r \in Nat
    BY <2>1, DayAssumption DEF TickGood, TickType, DayAssumption, DayInv, TypeOK
  <2>3. DeliverTypes
    BY <2>1, <2>2, DeliverKeeps
  <2> QED BY <1>9, <1>b, <2>3 DEF Remind, clock, DayInv, TypeOK, DeliverTypes
<1>10. CASE PickNudge
  <2>1. tick.due = {}
    BY <1>10, NoneDue, OrderValues DEF PickNudge, Runs
  <2>2. Primary(pool, now) \cup Piggyback(pool, now) \subseteq PoolTasks
    BY DEF Primary, Piggyback, Candidates, DueTasks, Active, DayInv, TypeOK
  <2>3. TickGood(tick')
    <3>1. tick' \in TickType
      <4>1. tick \in TickType /\ 9 \in 1..11
        BY <1>e DEF TickGood
      <4>2. tick' = [tick EXCEPT !.pc = "gen", !.at = 9, !.began = Began,
                                 !.pick = Primary(pool, now) \cup Piggyback(pool, now)]
        BY <1>10, PositionOf DEF PickNudge
      <4> QED BY <1>e, <2>2, <4>1, <4>2, TickFields
    <3>2. tick'.pc = "gen" /\ tick'.at = 9 /\ tick'.due = {}
      BY <1>10, <1>e, <2>1, PositionOf DEF PickNudge, TickGood, TickType
    <3> QED BY <3>1, <3>2 DEF TickGood
  <2> QED BY <1>10, <1>b, <2>3 DEF PickNudge, clock, tables, history, DayInv, TypeOK
<1>11. CASE Nudge
  <2>1. TickGood(After("pool", {}))
    BY AfterGood, OrderValues
  <2>2. TickGood(tick')
    BY <1>11, <1>e, <2>1, PositionOf DEF Nudge, TickGood, TickType
  <2>3. pool' \in [PoolTasks -> PoolRow]
    <3>1. \A t \in PoolTasks : pool[t] \in PoolRow /\ [pool[t] EXCEPT !.nudged = now - UtcLag] \in PoolRow
      <4>1. pool \in [PoolTasks -> PoolRow]
        BY DEF DayInv, TypeOK
      <4> QED BY <1>a, <4>1 DEF PoolRow
    <3> QED BY <1>11, <3>1 DEF Nudge, MarkNudged
  <2> QED BY <1>11, <1>b, <2>2, <2>3 DEF Nudge, clock, history, DayInv, TypeOK
<1>12. CASE AgendaIdea
  <2>1. TickGood(tick')
    BY <1>12, IdleGood DEF AgendaIdea, DayInv, TypeOK
  <2>2. agenda' \in [ran : Nat, asked : Nat]
    BY <1>12, <1>a DEF AgendaIdea, DayInv, TypeOK
  <2> QED BY <1>12, <1>b, <1>c, <2>1, <2>2 DEF AgendaIdea, AgendaOpen, history, DayInv, TypeOK
<1>13. CASE AskHaveTasks
  <2> DEFINE t == [Idle EXCEPT !.pc = "send", !.at = Pos("agenda"), !.began = Began, !.on = Today]
  <2>1. TickGood(t)
    <3>1. t.pc = "send" /\ t.at = 10 /\ t.due = {}
      BY PositionOf DEF Idle
    <3>2. Idle \in TickType /\ 10 \in 1..11
      BY DEF Idle, TickType
    <3>3. t \in TickType
      BY <1>a, <1>e, <3>2, TickFields, PositionOf
    <3> QED BY <3>1, <3>3 DEF TickGood
  <2>2. TickGood(tick')
    BY <1>13, <2>1, IdleGood DEF AskHaveTasks, DayInv, TypeOK
  <2>3. agenda' \in [ran : Nat, asked : Nat]
    BY <1>13, <1>a DEF AskHaveTasks, DayInv, TypeOK
  <2>4. <<"agenda", Today>> \in Key
    BY <1>a DEF Key, DayInv, TypeOK
  <2>5. held' \subseteq Key
    BY <1>13, <2>4 DEF AskHaveTasks, DayInv, TypeOK
  <2> QED BY <1>13, <1>b, <1>c, <2>2, <2>3, <2>5 DEF AskHaveTasks, AgendaOpen, DayInv, TypeOK
<1>14. CASE Accepted
  <2>1. TickGood(tick')
    BY <1>14 DEF Accepted, TickGood, TickType, DayInv, TypeOK
  <2>2. told' \in [Key -> Nat] /\ nudges' \in [sent : Nat, freed : Nat]
    <3>1. told \in [Key -> Nat] /\ nudges \in [sent : Nat, freed : Nat]
      BY DEF DayInv, TypeOK
    <3> QED BY <1>14, <3>1 DEF Accepted
  <2> QED BY <1>14, <1>b, <2>1, <2>2 DEF Accepted, clock, tables, DayInv, TypeOK
<1>15. CASE Returned
  <2>1. tick.at \in 1..10 /\ tick.on \in Nat /\ (tick.at \in {3, 6} => tick.on \in Days)
        /\ tick.due \in SUBSET Reminders /\ (tick.due # {} => tick.at = 8)
    BY <1>15 DEF Returned, TickGood, TickType, DayInv, TypeOK
  <2>2. tick.due \ {tick.on} \in SUBSET Reminders /\ (tick.due \ {tick.on} # {} => tick.at = 8)
    BY <2>1 DEF DayInv, TypeOK
  <2>3. TickGood(tick')
    BY <1>15, <2>1, <2>2, AfterGood DEF Returned
  <2>4. MarkDelivered(Order[tick.at], tick.on)
    BY <1>15 DEF Returned, DayInv, TypeOK
  <2>5. /\ flags' \in [{"fired", "proposed", "briefed", "wrapped", "quiet"} -> SUBSET Dates]
        /\ phase' \in Phases /\ screen' \in BOOLEAN
        /\ rem' \in [Reminders -> {"none", "set", "due", "done", "gone"}]
        /\ agenda' \in [ran : Nat, asked : Nat]
    BY <2>1, <2>4, MarkTypes
  <2> QED BY <1>15, <1>b, <2>3, <2>5 DEF Returned, clock, history, DayInv, TypeOK
<1>16. CASE EndTick
  BY <1>16, <1>b, IdleGood DEF EndTick, clock, tables, history, DayInv, TypeOK
<1>d. LoseMark => lost' \in [Key -> Nat]
  BY DEF LoseMark, DayInv, TypeOK
<1>17. CASE SendRaises
  <2>1. TickGood(tick')
    BY <1>17, IdleGood, AfterGood, OrderValues DEF SendRaises
  <2> QED BY <1>17, <1>b, <1>c, <1>d, <2>1 DEF SendRaises, tables, DayInv, TypeOK
<1>18. CASE Arrive
  BY <1>18, <1>b, <1>f DEF Arrive, tables, history, Phases, DayInv, TypeOK
<1>19. CASE Read
  <2>1. ASSUME NEW correction \in Corrections, AnswerProposal(correction)
        PROVE  anchors' \in AnchorTable /\ agreed' \in AnchorTable /\ ask' \in Seq(Proposal) /\ phase' = phase
    <3>1. SetTimes(correction) /\ ask' = Answered(ask) /\ phase' = phase
      BY <2>1 DEF AnswerProposal
    <3>2. Answered(ask) \in Seq(Proposal)
      BY <3>1, LastAnswered DEF SetTimes, DayInv, TypeOK
    <3> QED BY <3>1, <3>2, TimesTyped
  <2>2. anchors' \in AnchorTable /\ agreed' \in AnchorTable /\ ask' \in Seq(Proposal) /\ phase' \in Phases
    BY <1>19, <2>1 DEF Read, FirstActivity, NoActivity, Phases, DayInv, TypeOK
  <2> QED BY <1>19, <1>b, <1>f, <2>2 DEF Read, DayInv, TypeOK
<1>20. CASE Tap
  BY <1>20, <1>b, <1>c DEF Tap, history, Phases, DayInv, TypeOK
<1>21. CASE SetMode
  <2>1. flags' \in [{"fired", "proposed", "briefed", "wrapped", "quiet"} -> SUBSET Dates]
    BY <1>21, <1>a DEF SetMode, DayInv, TypeOK
  <2> QED BY <1>21, <1>b, <1>c, <2>1 DEF SetMode, history, DayInv, TypeOK
<1>22. CASE ReminderTool
  <2>1. rem' \in [Reminders -> {"none", "set", "due", "done", "gone"}]
    BY <1>22 DEF ReminderTool, DayInv, TypeOK
  <2> QED BY <1>22, <1>b, <1>c, <2>1 DEF ReminderTool, history, DayInv, TypeOK
<1>23. CASE UsePool
  <2>1. PICK t \in PoolTasks : PoolTool(t)
    BY <1>23 DEF UsePool, DayInv, TypeOK
  <2>2. \A p \in Priorities : NewRow(p, now) \in PoolRow
    BY <1>a, PoolAssumption DEF NewRow, PoolRow, Never, PoolAssumption, DayInv, TypeOK
  <2>3. NoRow \in PoolRow /\ now + Slots \in Nat
    BY <1>a DEF NoRow, PoolRow, Never, DayInv, TypeOK
  <2>4. pool' \in [PoolTasks -> PoolRow]
    <3>1. pool \in [PoolTasks -> PoolRow]
      BY DEF DayInv, TypeOK
    <3>2. \A n \in Nat : [pool[t] EXCEPT !.until = n] \in PoolRow
      BY <3>1 DEF PoolRow
    <3>3. [pool[t] EXCEPT !.st = "done"] \in PoolRow
      BY <3>1 DEF PoolRow
    <3>4. \A p \in Priorities : [pool[t] EXCEPT !.prio = p] \in PoolRow
      BY <3>1 DEF PoolRow
    <3>5. \E row \in PoolRow : pool' = [pool EXCEPT ![t] = row]
      BY <2>1, <2>2, <2>3, <3>1, <3>2, <3>3, <3>4 DEF PoolTool
    <3> QED BY <3>1, <3>5
  <2>5. nudges' \in [sent : Nat, freed : Nat]
    <3>1. nudges \in [sent : Nat, freed : Nat]
      BY DEF DayInv, TypeOK
    <3> QED BY <1>23, <3>1 DEF UsePool
  <2> QED BY <1>23, <1>b, <1>c, <2>4, <2>5 DEF UsePool, DayInv, TypeOK
<1>24. CASE Advance
  <2>1. now' \in FirstSlot..LastSlot /\ now' \in Nat
    BY <1>24, <1>a, <1>f DEF Advance, DayInv
  <2>2. rem' \in [Reminders -> {"none", "set", "due", "done", "gone"}]
    BY <1>24 DEF Advance, DayInv, TypeOK
  <2> QED BY <1>24, <1>b, <2>1, <2>2 DEF Advance, DayInv, TypeOK
<1>25. CASE ProposalsExpire
  <2>1. ask' \in Seq(Proposal)
    BY <1>25, OldestSwept DEF ProposalsExpire, DayInv, TypeOK
  <2> QED BY <1>25, <1>b, <2>1 DEF ProposalsExpire, clock, history, DayInv, TypeOK
<1>26. CASE Crash
  <2>1. TickGood(tick') /\ arrived' \in 0..MaxArrived /\ up' \in BOOLEAN
    <3>1. tick' = Idle /\ arrived' = 0 /\ up' = FALSE
      BY <1>26 DEF Crash
    <3>2. TickGood(tick')
      BY <3>1, IdleGood
    <3>3. 0 \in 0..MaxArrived
      BY <1>f
    <3> QED BY <3>1, <3>2, <3>3
  <2> QED BY <1>26, <1>b, <1>c, <1>d, <2>1 DEF Crash, tables, DayInv, TypeOK
<1>29. CASE TornAnswer
  <2>1. PICK correction \in Corrections : SetTimes(correction)
    BY <1>29 DEF TornAnswer
  <2>2. anchors' \in AnchorTable /\ agreed' \in AnchorTable /\ AskedLast(ask).date \in Dates
    BY <2>1, TimesTyped
  <2>3. asked' \in [Dates -> Nat]
    <3>1. asked \in [Dates -> Nat]
      BY DEF DayInv, TypeOK
    <3> QED BY <1>29, <2>2, <3>1 DEF TornAnswer
  <2>4. TickGood(tick') /\ arrived' \in 0..MaxArrived /\ up' \in BOOLEAN
    <3>1. tick' = Idle /\ arrived' = 0 /\ up' = FALSE
      BY <1>29 DEF TornAnswer
    <3>2. 0 \in 0..MaxArrived
      BY <1>f
    <3> QED BY <3>1, <3>2, IdleGood
  <2> QED BY <1>29, <1>b, <1>c, <1>d, <2>2, <2>3, <2>4 DEF TornAnswer, DayInv, TypeOK
<1>27. CASE Restart
  BY <1>27, <1>b DEF Restart, clock, tables, history, DayInv, TypeOK
<1>28. CASE UNCHANGED vars
  BY <1>28, <1>b DEF vars, clock, tables, history, DayInv, TypeOK
<1> QED
  BY <1>1, <1>2, <1>3, <1>4, <1>5, <1>6, <1>7, <1>8, <1>9, <1>10, <1>11, <1>12, <1>13, <1>14,
     <1>15, <1>16, <1>17, <1>18, <1>19, <1>20, <1>21, <1>22, <1>23, <1>24, <1>25, <1>26, <1>27,
     <1>28, <1>29 DEF Next, Check

\* So it holds at all times.
LEMMA DayInvariant == Spec => []DayInv
  BY DayStarts, DayStep, PTL DEF Spec

\* Every table, mark and message of the day keeps its type.
THEOREM DayTypes == Spec => []TypeOK
<1>1. DayInv => TypeOK
  BY DEF DayInv
<1> QED BY <1>1, DayInvariant, PTL

-----------------------------------------------------------------------------
(* What Lin agreed to                                                      *)

\* What AgreedStands rests on: a row of ask means its date was asked about, two rows or
\* a row after an agreement that it was asked about twice; nothing is agreed unasked.
AskInv ==
  /\ \A i \in DOMAIN ask :
       /\ asked[ask[i].date] >= 1
       /\ agreed[ask[i].date] \in Times => asked[ask[i].date] >= 2
  /\ \A i, j \in DOMAIN ask : i < j /\ ask[i].date = ask[j].date => asked[ask[i].date] >= 2
  /\ \A d \in Dates : agreed[d] \in Times => asked[d] >= 1
  /\ AgreedStands

\* Nothing has been asked at the first start.
LEMMA AskStarts == Init => AskInv
<1> SUFFICES ASSUME Init PROVE AskInv
  OBVIOUS
<1>1. \A d \in Dates : agreed[d] \notin Times
  <2>1. Slots \notin 0..Slots-1
    BY NotifyAssumption DEF NotifyAssumption
  <2> QED BY <2>1 DEF Init, NoAnchors, Unset, NotSet, Times, AnchorKeys
<1> QED BY <1>1 DEF Init, AskInv, AgreedStands

\* steps that leave proposals, times and their history alone
LEMMA AskUntouched ==
  ASSUME AskInv, UNCHANGED <<ask, anchors, asked, agreed>>
  PROVE  AskInv'
  BY DEF AskInv, AgreedStands

\* The evening's proposal is one more question about tomorrow, made before anybody has
\* agreed to a time for it, or counted as the second.
LEMMA AskProposes ==
  ASSUME DayInv, AskInv, EveningNegotiation
  PROVE  AskInv'
<1> DEFINE d == Today + 1
<1>1. d \in Dates /\ asked \in [Dates -> Nat] /\ ask \in Seq(Proposal) /\ anchors \in AnchorTable
  BY Clock DEF DayInv, TypeOK
<1>2. PICK times \in Times : ask' = Append(ask, [date |-> d, times |-> times])
  BY <1>1, Fallback DEF EveningNegotiation, Propose
<1>3. /\ asked' = [asked EXCEPT ![d] = @ + 1]
      /\ UNCHANGED <<anchors, agreed>>
  BY DEF EveningNegotiation
<1> HIDE DEF d
<1>4. [date |-> d, times |-> times] \in Proposal
  BY <1>1, <1>2 DEF Proposal
<1>5. /\ DOMAIN ask' = 1..Len(ask)+1 /\ DOMAIN ask = 1..Len(ask) /\ Len(ask) \in Nat
      /\ \A i \in DOMAIN ask : ask'[i] = ask[i] /\ ask[i].date \in Dates
      /\ ask'[Len(ask)+1].date = d
  <2>1. DOMAIN ask = 1..Len(ask) /\ Len(ask) \in Nat /\ \A i \in DOMAIN ask : ask[i].date \in Dates
    BY <1>1, ProposalRows
  <2>2. /\ DOMAIN ask' = 1..Len(ask)+1 /\ \A i \in 1..Len(ask) : ask'[i] = ask[i]
        /\ ask'[Len(ask)+1] = [date |-> d, times |-> times]
    BY <1>1, <1>2, <1>4, Proposed
  <2> QED BY <2>1, <2>2
<1>6. \A e \in Dates : asked[e] \in Nat /\ asked'[e] \in Nat /\ asked'[e] >= asked[e] /\ (e = d => asked'[e] = asked[e] + 1)
  BY <1>1, <1>3
<1>7. \A i \in DOMAIN ask' : i = Len(ask) + 1 \/ i \in DOMAIN ask
  BY <1>5
<1>8. \A i \in DOMAIN ask' : /\ asked'[ask'[i].date] >= 1
                             /\ agreed'[ask'[i].date] \in Times => asked'[ask'[i].date] >= 2
  BY <1>1, <1>3, <1>5, <1>6, <1>7 DEF AskInv
<1>9. \A i, j \in DOMAIN ask' : i < j /\ ask'[i].date = ask'[j].date => asked'[ask'[i].date] >= 2
  <2> SUFFICES ASSUME NEW i \in DOMAIN ask', NEW j \in DOMAIN ask', i < j, ask'[i].date = ask'[j].date
               PROVE  asked'[ask'[i].date] >= 2
    OBVIOUS
  <2>1. i \in DOMAIN ask
    BY <1>5, <1>7
  <2>2. CASE j \in DOMAIN ask
    <3>1. ask[i].date = ask[j].date /\ ask[i].date \in Dates /\ ask'[i] = ask[i]
      BY <1>5, <2>1, <2>2
    <3>2. asked[ask[i].date] >= 2
      BY <2>1, <2>2, <3>1 DEF AskInv
    <3> QED BY <1>6, <3>1, <3>2
  <2>3. CASE j = Len(ask) + 1
    BY <1>1, <1>5, <1>6, <2>1, <2>3 DEF AskInv
  <2> QED BY <1>7, <2>2, <2>3
<1>10. \A e \in Dates : agreed'[e] \in Times => asked'[e] >= 1
  BY <1>3, <1>6 DEF AskInv
<1>11. AgreedStands'
  BY <1>1, <1>3, <1>6 DEF AskInv, AgreedStands
<1> QED BY <1>8, <1>9, <1>10, <1>11 DEF AskInv

\* Lin's answer settles the date of the newest proposal; a second row of that date
\* is there only if it was asked about twice.
LEMMA AskAnswered ==
  ASSUME DayInv, AskInv, NEW correction \in Corrections, AnswerProposal(correction), asked' = asked
  PROVE  AskInv'
<1> DEFINE n == Len(ask)
           d == AskedLast(ask).date
           times == Corrected(AskedLast(ask).times, correction)
<1>1. /\ ask \in Seq(Proposal) /\ anchors \in AnchorTable /\ agreed \in AnchorTable
      /\ asked \in [Dates -> Nat]
  BY DEF DayInv, TypeOK
<1>2. /\ AskedLast(ask) \in Proposal /\ AskedLast(ask) = ask[n] /\ n \in DOMAIN ask
      /\ DOMAIN Answered(ask) = 1..n-1
      /\ \A i \in 1..n-1 : i \in DOMAIN ask /\ Answered(ask)[i] = ask[i]
  BY <1>1, LastAnswered DEF AnswerProposal, SetTimes
<1>3. d \in Dates /\ times \in Times /\ n \in Nat /\ d = ask[n].date
  BY <1>1, <1>2, CorrectedTimes DEF Proposal
<1>4. /\ ask' = Answered(ask)
      /\ anchors' = [anchors EXCEPT ![d] = times]
      /\ agreed' = IF DOMAIN correction = {} /\ agreed[d] \in Times THEN agreed
                   ELSE [agreed EXCEPT ![d] = times]
  BY DEF AnswerProposal, SetTimes
<1> HIDE DEF n, d, times
<1>5. \A i \in DOMAIN ask' : i \in DOMAIN ask /\ i < n /\ ask'[i] = ask[i] /\ ask[i].date \in Dates
  <2>1. DOMAIN ask' = 1..n-1 /\ \A i \in 1..n-1 : i \in DOMAIN ask /\ i < n /\ ask'[i] = ask[i]
    BY <1>2, <1>3, <1>4
  <2>2. \A i \in DOMAIN ask : ask[i].date \in Dates
    BY <1>1, ProposalRows
  <2> QED BY <2>1, <2>2
<1>6. asked[d] >= 1 /\ (agreed[d] \in Times => asked[d] >= 2) /\ \A e \in Dates : asked[e] \in Nat
  BY <1>1, <1>2, <1>3 DEF AskInv
<1>7. \A i \in DOMAIN ask' : ask[i].date = d => asked[d] >= 2
  BY <1>2, <1>3, <1>5 DEF AskInv
<1>8. \A e \in Dates \ {d} : agreed'[e] = agreed[e] /\ anchors'[e] = anchors[e]
  BY <1>1, <1>4 DEF AnchorTable
<1>9. \A i \in DOMAIN ask' : /\ asked[ask'[i].date] >= 1
                             /\ agreed'[ask'[i].date] \in Times => asked[ask'[i].date] >= 2
  BY <1>5, <1>7, <1>8 DEF AskInv
<1>10. \A i, j \in DOMAIN ask' : i < j /\ ask'[i].date = ask'[j].date => asked[ask'[i].date] >= 2
  BY <1>5 DEF AskInv
<1>11. \A e \in Dates : agreed'[e] \in Times => asked[e] >= 1
  BY <1>6, <1>8 DEF AskInv
<1>12. asked[d] <= 1 => anchors'[d] = times /\ agreed'[d] = times
  BY <1>1, <1>3, <1>4, <1>6 DEF AnchorTable
<1>13. AgreedStands'
  BY <1>8, <1>12 DEF AskInv, AgreedStands
<1> QED BY <1>9, <1>10, <1>11, <1>13 DEF AskInv

\* An answer torn between its two commits leaves its row behind: the date is open to an
\* answer once more.
LEMMA AskTorn ==
  ASSUME DayInv, AskInv, TornAnswer, NEW correction \in Corrections, SetTimes(correction)
  PROVE  AskInv'
<1> DEFINE n == Len(ask)
           d == AskedLast(ask).date
           times == Corrected(AskedLast(ask).times, correction)
<1>1. /\ ask \in Seq(Proposal) /\ anchors \in AnchorTable /\ agreed \in AnchorTable
      /\ asked \in [Dates -> Nat]
  BY DEF DayInv, TypeOK
<1>2. AskedLast(ask) \in Proposal /\ AskedLast(ask) = ask[n] /\ n \in DOMAIN ask
  BY <1>1, LastAnswered DEF SetTimes
<1>3. d \in Dates /\ d = ask[n].date
  BY <1>2 DEF Proposal
<1>4. /\ ask' = ask /\ asked' = [asked EXCEPT ![d] = @ + 1]
      /\ anchors' = [anchors EXCEPT ![d] = times]
      /\ agreed' = IF DOMAIN correction = {} /\ agreed[d] \in Times THEN agreed
                   ELSE [agreed EXCEPT ![d] = times]
  BY DEF TornAnswer, SetTimes
<1> HIDE DEF n, d, times
<1>5. /\ asked'[d] >= 2 /\ \A e \in Dates : asked[e] \in Nat
      /\ \A e \in Dates \ {d} : asked'[e] = asked[e]
  <2>1. asked[d] >= 1 /\ asked[d] \in Nat
    BY <1>1, <1>2, <1>3 DEF AskInv
  <2> QED BY <1>1, <1>3, <1>4, <2>1
<1>6. \A e \in Dates \ {d} : agreed'[e] = agreed[e] /\ anchors'[e] = anchors[e]
  BY <1>1, <1>4 DEF AnchorTable
<1>7. \A i \in DOMAIN ask : ask[i].date \in Dates
  BY <1>1, ProposalRows
<1>8. \A i \in DOMAIN ask' : /\ asked'[ask'[i].date] >= 1
                             /\ agreed'[ask'[i].date] \in Times => asked'[ask'[i].date] >= 2
  <2> SUFFICES ASSUME NEW i \in DOMAIN ask
               PROVE  /\ asked'[ask[i].date] >= 1
                      /\ agreed'[ask[i].date] \in Times => asked'[ask[i].date] >= 2
    BY <1>4
  <2>1. CASE ask[i].date = d
    BY <1>1, <1>3, <1>4, <1>5, <2>1
  <2>2. CASE ask[i].date # d
    BY <1>5, <1>6, <1>7, <2>2 DEF AskInv
  <2> QED BY <2>1, <2>2
<1>9. \A i, j \in DOMAIN ask' : i < j /\ ask'[i].date = ask'[j].date => asked'[ask'[i].date] >= 2
  BY <1>4, <1>5, <1>7 DEF AskInv
<1>10. \A e \in Dates : agreed'[e] \in Times => asked'[e] >= 1
  BY <1>1, <1>3, <1>4, <1>5, <1>6 DEF AskInv
<1>11. AgreedStands'
  <2> SUFFICES ASSUME NEW e \in Dates, agreed'[e] \in Times, asked'[e] <= 1
               PROVE  anchors'[e] = agreed'[e]
    BY DEF AgreedStands
  <2>1. e # d
    BY <1>1, <1>3, <1>4, <1>5
  <2> QED BY <1>5, <1>6, <2>1 DEF AskInv, AgreedStands
<1> QED BY <1>8, <1>9, <1>10, <1>11 DEF AskInv

\* A proposal that is swept takes nothing with it that was agreed.
LEMMA AskExpires ==
  ASSUME DayInv, AskInv, ProposalsExpire
  PROVE  AskInv'
<1>1. ask \in Seq(Proposal)
  BY DEF DayInv, TypeOK
<1>2. PICK n \in DOMAIN ask : ask' = Swept(ask, n)
  BY DEF ProposalsExpire
<1>3. UNCHANGED <<anchors, asked, agreed>>
  BY DEF ProposalsExpire, history
<1>4. /\ DOMAIN ask' = 1..Len(ask)-n
      /\ \A i \in 1..Len(ask)-n : i + n \in DOMAIN ask /\ ask'[i] = ask[i+n]
  BY <1>1, <1>2, OldestSwept
<1>5. n \in Nat /\ \A i, j \in 1..Len(ask)-n : i < j => i + n < j + n
  BY <1>1
<1> QED BY <1>3, <1>4, <1>5 DEF AskInv, AgreedStands

\* ensure_anchors fills in what is open and leaves what Lin agreed to.
LEMMA AskResolves ==
  ASSUME DayInv, AskInv, EnsureAnchors
  PROVE  AskInv'
<1>1. /\ anchors' = EnsureResolved(anchors, Today) /\ UNCHANGED <<ask, asked, agreed>>
      /\ anchors \in AnchorTable /\ Today \in Dates
  BY Clock DEF EnsureAnchors, history, DayInv, TypeOK
<1>2. /\ \A e \in Dates \ {Today} : anchors'[e] = anchors[e]
      /\ anchors[Today] \in Times => anchors'[Today] = anchors[Today]
  BY <1>1, ResolvedTable
<1>3. AgreedStands'
  BY <1>1, <1>2 DEF AskInv, AgreedStands
<1> QED BY <1>1, <1>3 DEF AskInv

\* Every step keeps AskInv.
LEMMA AskStep == DayInv /\ AskInv /\ [Next]_vars => AskInv'
<1> SUFFICES ASSUME DayInv, AskInv, [Next]_vars PROVE AskInv'
  OBVIOUS
<1>1. CASE EnsureAnchors
  BY <1>1, AskResolves
<1>2. CASE EveningNegotiation
  BY <1>2, AskProposes
<1>3. CASE Read
  <2>1. asked' = asked
    BY <1>3 DEF Read
  <2>2. CASE FirstActivity \/ NoActivity
    BY <1>3, <2>2, AskUntouched DEF Read, FirstActivity, NoActivity
  <2>3. ASSUME NEW correction \in Corrections, AnswerProposal(correction) PROVE AskInv'
    BY <2>1, <2>3, AskAnswered
  <2> QED BY <1>3, <2>2, <2>3 DEF Read
<1>4. CASE ProposalsExpire
  BY <1>4, AskExpires
<1>10. CASE TornAnswer
  <2>1. PICK correction \in Corrections : SetTimes(correction)
    BY <1>10 DEF TornAnswer
  <2> QED BY <1>10, <2>1, AskTorn
<1>5. ASSUME UNCHANGED <<ask, anchors, asked, agreed>> PROVE AskInv'
  BY <1>5, AskUntouched
<1>6. CASE \/ CheckSilence \/ WakeAlarm \/ \E c \in {"briefing", "wrapup"} : Generate(c) \/ Generated(c)
  BY <1>5, <1>6 DEF CheckSilence, WakeAlarm, Generate, Generated, tables, history
<1>7. CASE FetchReminders \/ Remind \/ PickNudge \/ Nudge \/ Accepted \/ Returned \/ EndTick
  BY <1>5, <1>7
  DEF FetchReminders, Remind, PickNudge, Nudge, Accepted, Returned, EndTick, tables, history
<1>8. CASE HealthSweep \/ AgendaIdea \/ AskHaveTasks \/ SendRaises \/ Arrive \/ Tap \/ SetMode
  BY <1>5, <1>8
  DEF HealthSweep, AgendaIdea, AskHaveTasks, SendRaises, Arrive, Tap, SetMode, tables, history
<1>9. CASE ReminderTool \/ UsePool \/ Advance \/ Crash \/ Restart \/ UNCHANGED vars
  BY <1>5, <1>9 DEF ReminderTool, UsePool, Advance, Crash, Restart, vars, tables, history
<1> QED BY <1>1, <1>2, <1>3, <1>4, <1>6, <1>7, <1>8, <1>9, <1>10 DEF Next, Check

\* What Lin agreed to stands as long as its date was open to an answer once.
THEOREM AgreementStands == Spec => []AgreedStands
<1>1. Init => DayInv /\ AskInv
  BY DayStarts, AskStarts
<1>2. DayInv /\ AskInv /\ [Next]_vars => (DayInv /\ AskInv)'
  BY DayStep, AskStep
<1>3. DayInv /\ AskInv => AgreedStands
  BY DEF AskInv
<1> QED BY <1>1, <1>2, <1>3, PTL DEF Spec

-----------------------------------------------------------------------------
(* The promise of Outbox                                                   *)

\* The mapped variables of Outbox as functions of the day's.
PickedOf(t) ==
  ({"reminders"} \X t.due)
  \cup (IF t.pc \in {"send", "sent"} THEN {<<Order[t.at], t.on>>} \cap Once ELSE {})
ToldNowOf(t) == IF t.pc = "sent" THEN {<<Order[t.at], t.on>>} \cap Once ELSE {}
MarkedOf(f, r) ==
  ({"wake"} \X f.fired) \cup ({"evening"} \X f.proposed)
  \cup ({"reminders"} \X {x \in Reminders : r[x] = "done"})
GoneOf(r) == {"reminders"} \X {x \in Reminders : r[x] = "gone"}
OnceOf(f) == [k \in Once |-> f[k]]

\* The keys of the promise by their checks.
LEMMA OnceKeys ==
  /\ \A d \in Days : <<"wake", d>> \in Once /\ <<"evening", d>> \in Once
  /\ \A r \in Reminders : <<"reminders", r>> \in Once
  /\ \A c, x : <<c, x>> \in Once => c \in {"wake", "evening", "reminders"}
<1>1. \A c \in {"wake", "evening"}, d \in Days : <<c, d>> \in {"wake", "evening"} \X Days
  OBVIOUS
<1>2. \A r \in Reminders : <<"reminders", r>> \in {"reminders"} \X Reminders
  OBVIOUS
<1>3. \A c, x : <<c, x>> \in {"wake", "evening"} \X Days => c \in {"wake", "evening"}
  OBVIOUS
<1>4. \A c, x : <<c, x>> \in {"reminders"} \X Reminders => c = "reminders"
  OBVIOUS
<1>5. \A k : k \in Once <=> k \in {"wake", "evening"} \X Days \/ k \in {"reminders"} \X Reminders
  BY DEF Once
<1>6. \A d \in Days : <<"wake", d>> \in Once /\ <<"evening", d>> \in Once
  BY <1>1, <1>5
<1>7. \A r \in Reminders : <<"reminders", r>> \in Once
  BY <1>2, <1>5
<1>8. \A c, x : <<c, x>> \in Once => c \in {"wake", "evening", "reminders"}
  BY <1>3, <1>4, <1>5
<1> QED BY <1>6, <1>7, <1>8

\* A tick that sends nothing has picked the reminders it fetched, nothing else.
LEMMA PickedResting ==
  ASSUME NEW t, TickGood(t), t.pc \notin {"send", "sent"}
  PROVE  PickedOf(t) = {"reminders"} \X t.due /\ ToldNowOf(t) = {}
  BY DEF PickedOf, ToldNowOf

\* A briefing, wrap-up, alert, nudge or question under way is none of the promise's messages.
LEMMA PickedOther ==
  ASSUME NEW t, TickGood(t), t.pc \in {"send", "sent"}, t.at \notin {3, 6, 8}
  PROVE  PickedOf(t) = {} /\ ToldNowOf(t) = {} /\ <<Order[t.at], t.on>> \notin Once /\ t.due = {}
<1>1. t.at \in 1..10 /\ t.due = {}
  BY DEF TickGood
<1>2. Order[t.at] \notin {"wake", "evening", "reminders"}
  BY <1>1, Names
<1>3. <<Order[t.at], t.on>> \notin Once
  BY <1>2, OnceKeys
<1> QED BY <1>1, <1>3 DEF PickedOf, ToldNowOf

\* The alarm and the proposal are picked alone.
LEMMA PickedLone ==
  ASSUME NEW t, TickGood(t), t.pc \in {"send", "sent"}, t.at \in {3, 6}
  PROVE  /\ <<Order[t.at], t.on>> \in Once /\ t.due = {}
         /\ PickedOf(t) = {<<Order[t.at], t.on>>}
         /\ ToldNowOf(t) = IF t.pc = "sent" THEN {<<Order[t.at], t.on>>} ELSE {}
<1>1. t.due = {} /\ t.on \in Days /\ Order[t.at] \in {"wake", "evening"}
  BY OrderValues DEF TickGood
<1>2. <<Order[t.at], t.on>> \in Once
  BY <1>1, OnceKeys
<1> QED BY <1>1, <1>2 DEF PickedOf, ToldNowOf

\* The reminder under way is one of those the tick fetched.
LEMMA PickedReminders ==
  ASSUME NEW t, TickGood(t), t.pc \in {"send", "sent"}, t.at = 8
  PROVE  /\ <<Order[t.at], t.on>> \in Once /\ Order[t.at] = "reminders" /\ t.on \in t.due
         /\ PickedOf(t) = {"reminders"} \X t.due
         /\ ToldNowOf(t) = IF t.pc = "sent" THEN {<<Order[t.at], t.on>>} ELSE {}
<1>1. t.on \in t.due /\ t.due \subseteq Reminders /\ Order[t.at] = "reminders"
  BY OrderValues DEF TickGood, TickType
<1>2. <<Order[t.at], t.on>> \in Once /\ <<Order[t.at], t.on>> \in {"reminders"} \X t.due
  BY <1>1, OnceKeys
<1> QED BY <1>1, <1>2 DEF PickedOf, ToldNowOf

\* The mapped variables, by what they are made of.
LEMMA Unmoved ==
  ASSUME OnceOf(told') = OnceOf(told), OnceOf(lost') = OnceOf(lost), held' \cap Once = held \cap Once,
         MarkedOf(flags', rem') = MarkedOf(flags, rem), GoneOf(rem') = GoneOf(rem),
         PickedOf(tick') = PickedOf(tick), ToldNowOf(tick') = ToldNowOf(tick)
  PROVE  UNCHANGED Promise!vars
  BY DEF Promise!vars, OnceOf, MarkedOf, GoneOf, PickedOf, ToldNowOf, Sending

\* A step that takes messages up and writes no mark is a Pick.
LEMMA Picks ==
  ASSUME UNCHANGED <<told, lost, held, flags, rem>>,
         PickedOf(tick) = {}, ToldNowOf(tick) = {}, PickedOf(tick') # {}, ToldNowOf(tick') = {},
         PickedOf(tick') \subseteq Once \ (MarkedOf(flags, rem) \cup GoneOf(rem))
  PROVE  Promise!Next
<1>1. Promise!Pick
  BY DEF Promise!Pick, MarkedOf, GoneOf, PickedOf, ToldNowOf, Sending
<1> QED BY <1>1 DEF Promise!Next

\* A step that counts one message more is a Tell.
LEMMA Tells ==
  ASSUME NEW k \in Once, k \in PickedOf(tick), ToldNowOf(tick) = {}, ToldNowOf(tick') = {k},
         OnceOf(told') = [OnceOf(told) EXCEPT ![k] = @ + 1],
         PickedOf(tick') = PickedOf(tick), UNCHANGED <<lost, held, flags, rem>>
  PROVE  Promise!Next
<1>1. Promise!Tell(k)
  BY DEF Promise!Tell, OnceOf, MarkedOf, GoneOf, PickedOf, ToldNowOf, Sending
<1> QED BY <1>1 DEF Promise!Next

\* the mark of k is written, unless it was withdrawn
MarkIn(k) == MarkedOf(flags', rem') =
               IF k \in GoneOf(rem) THEN MarkedOf(flags, rem) ELSE MarkedOf(flags, rem) \cup {k}

\* A step that writes the mark of the message just told is a Mark.
LEMMA Marks ==
  ASSUME NEW k \in Once, k \in ToldNowOf(tick), MarkIn(k), GoneOf(rem') = GoneOf(rem),
         ToldNowOf(tick') = {}, PickedOf(tick') = PickedOf(tick) \ {k}, UNCHANGED <<told, lost, held>>
  PROVE  Promise!Next
<1>1. Promise!Mark(k)
  BY DEF Promise!Mark, Promise!MarkOf, MarkIn, MarkedOf, GoneOf, PickedOf, ToldNowOf, Sending
<1> QED BY <1>1 DEF Promise!Next

\* A step that bundles a message that is not critical and marks it is a HoldBack.
LEMMA Holds ==
  ASSUME NEW k \in Once, k \notin {"wake"} \X Days, k \notin MarkedOf(flags, rem), ToldNowOf(tick) = {},
         k \in PickedOf(tick) \/ (PickedOf(tick) = {} /\ k \notin GoneOf(rem)),
         held' \cap Once = (held \cap Once) \cup {k}, MarkIn(k), GoneOf(rem') = GoneOf(rem),
         PickedOf(tick') = PickedOf(tick) \ {k}, ToldNowOf(tick') = {}, UNCHANGED <<told, lost>>
  PROVE  Promise!Next
<1>1. Promise!HoldBack(k)
  BY DEF Promise!HoldBack, Promise!MarkOf, MarkIn, MarkedOf, GoneOf, PickedOf, ToldNowOf, Sending
<1> QED BY <1>1 DEF Promise!Next

\* A step that drops what is under way, its mark lost if it was told, is a BreakOff.
LEMMA Breaks ==
  ASSUME PickedOf(tick) # {}, PickedOf(tick') = {}, ToldNowOf(tick') = {},
         \A k \in Once : lost'[k] = IF k \in ToldNowOf(tick) THEN lost[k] + 1 ELSE lost[k],
         UNCHANGED <<told, held, flags, rem>>
  PROVE  Promise!Next
<1>1. Promise!BreakOff
  BY DEF Promise!BreakOff, MarkedOf, GoneOf, PickedOf, ToldNowOf, Sending
<1> QED BY <1>1 DEF Promise!Next

\* A step that cancels a reminder is a Withdraw.
LEMMA Withdraws ==
  ASSUME NEW k \in Once, k \notin GoneOf(rem), GoneOf(rem') = GoneOf(rem) \cup {k},
         MarkedOf(flags', rem') = MarkedOf(flags, rem) \ {k}, UNCHANGED <<told, lost, held, tick>>
  PROVE  Promise!Next
<1>1. Promise!Withdraw(k)
  BY DEF Promise!Withdraw, MarkedOf, GoneOf, Sending
<1> QED BY <1>1 DEF Promise!Next

-----------------------------------------------------------------------------
(* Its steps, and the refinement                                           *)

\* A reminder the tick has fetched waits, or was cancelled since.
ReminderInv == \A r \in tick.due : rem[r] \in {"due", "gone"}

\* The marks and withdrawals of the promise, read off the tables.
LEMMA Members ==
  /\ \A f, r, d : <<"wake", d>> \in MarkedOf(f, r) <=> d \in f.fired
  /\ \A f, r, d : <<"evening", d>> \in MarkedOf(f, r) <=> d \in f.proposed
  /\ \A f, r : \A x \in Reminders : <<"reminders", x>> \in MarkedOf(f, r) <=> r[x] = "done"
  /\ \A r : \A x \in Reminders : <<"reminders", x>> \in GoneOf(r) <=> r[x] = "gone"
  /\ \A r, d : <<"wake", d>> \notin GoneOf(r) /\ <<"evening", d>> \notin GoneOf(r)
<1>3. \A S, d : <<"wake", d>> \notin {"reminders"} \X S /\ <<"evening", d>> \notin {"reminders"} \X S
  OBVIOUS
<1>4. \A f, r, d : <<"wake", d>> \in MarkedOf(f, r) <=> d \in f.fired
  <2> TAKE f, r, d
  <2> DEFINE F == f.fired
             P == f.proposed
             D == {x \in Reminders : r[x] = "done"}
  <2>1. MarkedOf(f, r) = ({"wake"} \X F) \cup ({"evening"} \X P) \cup ({"reminders"} \X D)
    BY DEF MarkedOf
  <2> HIDE DEF F, P, D
  <2>2. <<"wake", d>> \in MarkedOf(f, r) <=> d \in F
    BY <2>1
  <2> QED BY <2>2 DEF F
<1>5. \A f, r, d : <<"evening", d>> \in MarkedOf(f, r) <=> d \in f.proposed
  <2> TAKE f, r, d
  <2> DEFINE F == f.fired
             P == f.proposed
             D == {x \in Reminders : r[x] = "done"}
  <2>1. MarkedOf(f, r) = ({"wake"} \X F) \cup ({"evening"} \X P) \cup ({"reminders"} \X D)
    BY DEF MarkedOf
  <2> HIDE DEF F, P, D
  <2>2. <<"evening", d>> \in MarkedOf(f, r) <=> d \in P
    BY <2>1
  <2> QED BY <2>2 DEF P
<1>6. \A f, r : \A x \in Reminders : <<"reminders", x>> \in MarkedOf(f, r) <=> r[x] = "done"
  <2> TAKE f, r
  <2> DEFINE F == f.fired
             P == f.proposed
             D == {x \in Reminders : r[x] = "done"}
  <2>1. MarkedOf(f, r) = ({"wake"} \X F) \cup ({"evening"} \X P) \cup ({"reminders"} \X D)
    BY DEF MarkedOf
  <2>3. \A x \in Reminders : x \in D <=> r[x] = "done"
    OBVIOUS
  <2> HIDE DEF F, P, D
  <2>2. \A x : <<"reminders", x>> \in MarkedOf(f, r) <=> x \in D
    BY <2>1
  <2> QED BY <2>2, <2>3
<1>7. \A r : \A x \in Reminders : <<"reminders", x>> \in GoneOf(r) <=> r[x] = "gone"
  BY DEF GoneOf
<1>8. \A r, d : <<"wake", d>> \notin GoneOf(r) /\ <<"evening", d>> \notin GoneOf(r)
  BY <1>3 DEF GoneOf
<1> QED BY <1>4, <1>5, <1>6, <1>7, <1>8

\* What MarkDelivered writes is the mark of the message it is called for.
LEMMA Marking ==
  ASSUME DayInv, ReminderInv, NEW i \in 1..10, NEW x \in Nat, MarkDelivered(Order[i], x)
  PROVE  /\ GoneOf(rem') = GoneOf(rem)
         /\ i \in {3, 6} => MarkIn(<<Order[i], x>>)
         /\ i = 8 /\ x \in tick.due => MarkIn(<<Order[i], x>>)
         /\ i \notin {3, 6, 8} => MarkedOf(flags', rem') = MarkedOf(flags, rem)
<1>0. /\ flags \in [{"fired", "proposed", "briefed", "wrapped", "quiet"} -> SUBSET Dates]
      /\ rem \in [Reminders -> {"none", "set", "due", "done", "gone"}] /\ tick.due \subseteq Reminders
  BY DEF DayInv, TypeOK, TickGood, TickType
<1>1. CASE i = 3
  <2>1. Order[i] = "wake" /\ flags' = [flags EXCEPT !.fired = @ \cup {x}] /\ rem' = rem
    BY <1>1, OrderValues DEF MarkDelivered
  <2>2. MarkedOf(flags', rem) = MarkedOf(flags, rem) \cup {<<"wake", x>>}
    BY <1>0, <2>1 DEF MarkedOf
  <2> QED BY <1>1, <2>1, <2>2, Members DEF MarkIn
<1>2. CASE i = 6
  <2>1. Order[i] = "evening" /\ flags' = [flags EXCEPT !.proposed = @ \cup {x}] /\ rem' = rem
    BY <1>2, OrderValues DEF MarkDelivered
  <2>2. MarkedOf(flags', rem) = MarkedOf(flags, rem) \cup {<<"evening", x>>}
    BY <1>0, <2>1 DEF MarkedOf
  <2> QED BY <1>2, <2>1, <2>2, Members DEF MarkIn
<1>3. CASE i = 8
  <2>1. /\ Order[i] = "reminders" /\ flags' = flags
        /\ rem' = IF rem[x] = "due" THEN [rem EXCEPT ![x] = "done"] ELSE rem
    BY <1>3, OrderValues DEF MarkDelivered
  <2>2. CASE x \in Reminders /\ rem[x] = "due"
    <3>1. rem' = [rem EXCEPT ![x] = "done"] /\ \A y \in Reminders : rem'[y] = IF y = x THEN "done" ELSE rem[y]
      BY <1>0, <2>1, <2>2
    <3>2. GoneOf(rem') = GoneOf(rem)
      <4>1. {y \in Reminders : rem'[y] = "gone"} = {y \in Reminders : rem[y] = "gone"}
        BY <2>2, <3>1
      <4> QED BY <4>1 DEF GoneOf
    <3>3. {y \in Reminders : rem'[y] = "done"} = {y \in Reminders : rem[y] = "done"} \cup {x}
      BY <2>2, <3>1
    <3>4. MarkedOf(flags, rem') = MarkedOf(flags, rem) \cup {<<"reminders", x>>}
      BY <3>3 DEF MarkedOf
    <3>5. <<"reminders", x>> \notin GoneOf(rem)
      BY <2>2, Members
    <3> QED BY <1>3, <2>1, <3>2, <3>4, <3>5 DEF MarkIn
  <2>3. CASE x \in Reminders /\ rem[x] # "due"
    <3>1. rem' = rem /\ (x \in tick.due => <<"reminders", x>> \in GoneOf(rem))
      BY <2>1, <2>3, Members DEF ReminderInv
    <3> QED BY <1>3, <2>1, <3>1 DEF MarkIn
  <2>4. CASE x \notin Reminders
    <3>1. rem' = rem
      BY <1>0, <2>1, <2>4
    <3> QED BY <1>0, <1>3, <2>4, <3>1
  <2> QED BY <2>2, <2>3, <2>4
<1>4. CASE i \notin {3, 6, 8}
  <2>1. Order[i] \notin {"wake", "evening", "reminders"}
    BY <1>4, Names
  <2>2. flags'.fired = flags.fired /\ flags'.proposed = flags.proposed /\ rem' = rem
    BY <1>0, <2>1 DEF MarkDelivered
  <2> QED BY <1>4, <2>2 DEF MarkedOf
<1> QED BY <1>1, <1>2, <1>3, <1>4

\* the record After makes, field by field
AfterIs == \A i \in 1..10, due \in SUBSET Reminders :
  After(Order[i], due).pc = "run" /\ After(Order[i], due).due = due

\* The fields of After's record.
LEMMA AfterFields == AfterIs
<1> SUFFICES ASSUME NEW i \in 1..10, NEW due \in SUBSET Reminders
             PROVE  After(Order[i], due).pc = "run" /\ After(Order[i], due).due = due
  BY DEF AfterIs
<1> QED BY DEF After, Idle

\* An attempt to deliver.
LEMMA DeliverImplements ==
  ASSUME DayInv, ReminderInv, tick.pc \notin {"send", "sent"},
         NEW i \in 1..10, NEW x \in Nat, NEW sev, NEW window, NEW due \in SUBSET Reminders,
         due = tick.due, Deliver(Order[i], x, due, sev, window),
         UNCHANGED <<told, lost>>,
         due # {} => i = 8, i = 8 => x \in due,
         i \in {3, 6} => x \in Days,
         i = 3 => sev = "critical" /\ x \notin flags.fired,
         i = 6 => x \notin flags.proposed
  PROVE  Promise!Next \/ UNCHANGED Promise!vars
<1> DEFINE k == <<Order[i], x>>
<1>0. TickGood(tick) /\ TickGood(tick')
  BY DeliverKeeps DEF DayInv, DeliverTypes
<1>1. PickedOf(tick) = {"reminders"} \X due /\ ToldNowOf(tick) = {}
  BY <1>0, PickedResting
<1>2. CASE Allowed(sev, window)
  <2>1. /\ tick' = [pc |-> "send", at |-> i, began |-> Began, on |-> x, due |-> due, pick |-> {}]
        /\ UNCHANGED <<flags, rem, held>>
    <3>1. Pos(Order[i]) = i
      BY Positions
    <3> QED BY <1>2, <3>1 DEF Deliver, Submit
  <2>2. tick'.pc = "send" /\ tick'.at = i /\ tick'.on = x /\ tick'.due = due
    BY <2>1
  <2>3. CASE i \in {3, 6}
    <3>1. PickedOf(tick') = {k} /\ ToldNowOf(tick') = {} /\ k \in Once /\ due = {}
      BY <1>0, <2>2, <2>3, PickedLone
    <3>2. k \notin MarkedOf(flags, rem) /\ k \notin GoneOf(rem)
      <4>1. CASE i = 3
        BY <4>1, Members, OrderValues
      <4>2. CASE i = 6
        BY <4>2, Members, OrderValues
      <4> QED BY <2>3, <4>1, <4>2
    <3>3. PickedOf(tick) = {}
      BY <1>1, <3>1
    <3> HIDE DEF k
    <3> QED BY <1>1, <2>1, <3>1, <3>2, <3>3, Picks
  <2>4. CASE i = 8
    <3>1. PickedOf(tick') = {"reminders"} \X due /\ ToldNowOf(tick') = {}
      BY <1>0, <2>2, <2>4, PickedReminders
    <3> QED BY <1>1, <2>1, <3>1, Unmoved
  <2>5. CASE i \notin {3, 6, 8}
    <3>1. PickedOf(tick') = {} /\ ToldNowOf(tick') = {} /\ due = {}
      BY <1>0, <2>2, <2>5, PickedOther
    <3> QED BY <1>1, <2>1, <3>1, Unmoved
  <2> QED BY <2>3, <2>4, <2>5
<1>3. CASE ~Allowed(sev, window)
  <2>1. /\ MarkDelivered(Order[i], x) /\ tick' = After(Order[i], due \ {x})
        /\ held' = IF k \in Key THEN held \cup {k} ELSE held
    BY <1>3 DEF Deliver
  <2>2. tick'.pc = "run" /\ tick'.due = due \ {x}
    BY <2>1, AfterFields DEF AfterIs
  <2>3. PickedOf(tick') = {"reminders"} \X (due \ {x}) /\ ToldNowOf(tick') = {}
    BY <1>0, <2>2, PickedResting
  <2>4. Once \subseteq Key
    BY DEF Once, Key
  <2>5. GoneOf(rem') = GoneOf(rem)
    BY <2>1, Marking
  <2>6. CASE i = 6
    <3>1. k \in Once /\ k \notin {"wake"} \X Days /\ k \notin MarkedOf(flags, rem) /\ k \notin GoneOf(rem)
      BY <2>6, OnceKeys, Members, OrderValues
    <3>2. MarkIn(k)
      BY <2>1, <2>6, Marking
    <3>3. due = {} /\ PickedOf(tick) = {} /\ PickedOf(tick') = {}
      BY <1>1, <2>3, <2>6
    <3>4. held' \cap Once = (held \cap Once) \cup {k}
      BY <2>1, <2>4, <3>1
    <3> HIDE DEF k
    <3>5. PickedOf(tick') = PickedOf(tick) \ {k}
      BY <3>3
    <3> QED BY <1>1, <2>3, <2>5, <3>1, <3>2, <3>3, <3>4, <3>5, Holds
  <2>7. CASE i = 8
    <3>1. x \in Reminders /\ Order[i] = "reminders" /\ x \in tick.due
      BY <2>7, OrderValues
    <3>2. k \in Once /\ k \notin {"wake"} \X Days /\ k \notin MarkedOf(flags, rem) /\ k \in PickedOf(tick)
      <4>1. rem[x] # "done"
        BY <3>1 DEF ReminderInv
      <4> QED BY <1>1, <3>1, <4>1, OnceKeys, Members
    <3>3. MarkIn(k)
      BY <2>1, <2>7, <3>1, Marking
    <3>4. held' \cap Once = (held \cap Once) \cup {k}
      BY <2>1, <2>4, <3>2
    <3>5. PickedOf(tick') = PickedOf(tick) \ {k}
      BY <1>1, <2>3, <3>1
    <3> HIDE DEF k
    <3> QED BY <1>1, <2>3, <2>5, <3>2, <3>3, <3>4, <3>5, Holds
  <2>8. CASE i \notin {3, 6, 8}
    <3>1. Order[i] \notin {"wake", "evening", "reminders"}
      BY <2>8, Names
    <3>2. k \notin Once
      BY <3>1, OnceKeys
    <3>3. held' \cap Once = held \cap Once
      BY <2>1, <3>2
    <3>4. MarkedOf(flags', rem') = MarkedOf(flags, rem)
      BY <2>1, <2>8, Marking
    <3>5. PickedOf(tick') = PickedOf(tick) /\ ToldNowOf(tick') = ToldNowOf(tick)
      BY <1>1, <2>3, <2>8
    <3> QED BY <2>5, <3>3, <3>4, <3>5, Unmoved
  <2>9. i # 3
    BY <1>3 DEF Allowed, ShouldDeliver
  <2> QED BY <2>6, <2>7, <2>8, <2>9
<1> QED BY <1>2, <1>3

\* No reminder is under way at the first start.
LEMMA ReminderStarts == Init => ReminderInv
  BY DEF Init, ReminderInv, Idle

\* What a step that is no check leaves of the outbox.
LEMMA TickOnly ==
  ASSUME DayInv, DayInv', UNCHANGED <<told, lost, held, flags, rem>>,
         tick.pc \notin {"send", "sent"}, tick'.pc \notin {"send", "sent"}, tick'.due = tick.due
  PROVE  UNCHANGED Promise!vars
<1>1. TickGood(tick) /\ TickGood(tick')
  BY DEF DayInv
<1>2. PickedOf(tick') = PickedOf(tick) /\ ToldNowOf(tick') = ToldNowOf(tick)
  BY <1>1, PickedResting
<1> QED BY <1>2, Unmoved

\* The list of overdue reminders is a Pick of them.
LEMMA FetchImplements ==
  ASSUME DayInv, DayInv', FetchReminders PROVE Promise!Next
<1>1. /\ tick.pc \in {"idle", "run"} /\ tick.due = {} /\ Overdue # {}
      /\ tick'.pc = "run" /\ tick'.due = Overdue /\ UNCHANGED <<told, lost, held, flags, rem>>
  <2>1. tick \in TickType
    BY DEF DayInv, TickGood
  <2> QED BY <2>1 DEF FetchReminders, Runs, MayRun, Wants, history, tables, TickType
<1>2. TickGood(tick) /\ TickGood(tick')
  BY DEF DayInv
<1>3. PickedOf(tick) = {} /\ ToldNowOf(tick) = {}
  BY <1>1, <1>2, PickedResting
<1>4. PickedOf(tick') = {"reminders"} \X Overdue /\ ToldNowOf(tick') = {}
  BY <1>1, <1>2, PickedResting
<1>5. \A r \in Overdue : /\ <<"reminders", r>> \in Once
                         /\ <<"reminders", r>> \notin MarkedOf(flags, rem) \cup GoneOf(rem)
  <2>1. \A r \in Overdue : r \in Reminders /\ rem[r] = "due"
    BY DEF Overdue
  <2> QED BY <2>1, OnceKeys, Members
<1>6. {"reminders"} \X Overdue # {} /\ {"reminders"} \X Overdue \subseteq Once \ (MarkedOf(flags, rem) \cup GoneOf(rem))
  <2>1. PICK r \in Overdue : TRUE
    BY <1>1
  <2>2. <<"reminders", r>> \in {"reminders"} \X Overdue
    OBVIOUS
  <2>3. \A k \in {"reminders"} \X Overdue : \E q \in Overdue : k = <<"reminders", q>>
    OBVIOUS
  <2>4. \A k \in {"reminders"} \X Overdue : k \in Once \ (MarkedOf(flags, rem) \cup GoneOf(rem))
    BY <1>5, <2>3
  <2> QED BY <2>2, <2>4
<1> QED BY <1>1, <1>3, <1>4, <1>6, Picks

\* A message Telegram takes is a Tell.
LEMMA AcceptedImplements ==
  ASSUME DayInv, DayInv', Accepted PROVE Promise!Next \/ UNCHANGED Promise!vars
<1> DEFINE k == <<Order[tick.at], tick.on>>
<1>1. /\ tick.pc = "send" /\ tick'.pc = "sent" /\ tick'.at = tick.at /\ tick'.on = tick.on /\ tick'.due = tick.due
      /\ UNCHANGED <<lost, held, flags, rem>>
      /\ told' = IF k \in Key THEN [told EXCEPT ![k] = @ + 1] ELSE told
  <2>1. tick \in TickType
    BY DEF DayInv, TickGood
  <2> QED BY <2>1 DEF Accepted, tables, TickType, Sending
<1>2. TickGood(tick) /\ TickGood(tick') /\ told \in [Key -> Nat]
  BY DEF DayInv, TypeOK
<1>3. Once \subseteq Key
  BY DEF Once, Key
<1>4. CASE tick.at \in {3, 6}
  <2>1. /\ k \in Once /\ PickedOf(tick) = {k} /\ ToldNowOf(tick) = {}
        /\ PickedOf(tick') = {k} /\ ToldNowOf(tick') = {k}
    BY <1>1, <1>2, <1>4, PickedLone
  <2> HIDE DEF k
  <2>2. OnceOf(told') = [OnceOf(told) EXCEPT ![k] = @ + 1]
    BY <1>1, <1>2, <1>3, <2>1 DEF OnceOf
  <2> QED BY <1>1, <2>1, <2>2, Tells
<1>5. CASE tick.at = 8
  <2>1. /\ k \in Once /\ k \in PickedOf(tick) /\ ToldNowOf(tick) = {}
        /\ PickedOf(tick') = PickedOf(tick) /\ ToldNowOf(tick') = {k}
    <3>1. PickedOf(tick) = {"reminders"} \X tick.due /\ PickedOf(tick') = {"reminders"} \X tick'.due
      BY <1>1, <1>2, <1>5, PickedReminders
    <3>2. k \in Once /\ Order[tick.at] = "reminders" /\ tick.on \in tick.due
      BY <1>1, <1>2, <1>5, PickedReminders
    <3>3. ToldNowOf(tick) = {} /\ ToldNowOf(tick') = {k}
      BY <1>1, <1>2, <1>5, PickedReminders
    <3> QED BY <1>1, <3>1, <3>2, <3>3
  <2> HIDE DEF k
  <2>2. OnceOf(told') = [OnceOf(told) EXCEPT ![k] = @ + 1]
    BY <1>1, <1>2, <1>3, <2>1 DEF OnceOf
  <2> QED BY <1>1, <2>1, <2>2, Tells
<1>6. CASE tick.at \notin {3, 6, 8}
  <2>1. /\ PickedOf(tick) = {} /\ ToldNowOf(tick) = {} /\ k \notin Once
        /\ PickedOf(tick') = {} /\ ToldNowOf(tick') = {}
    BY <1>1, <1>2, <1>6, PickedOther
  <2> HIDE DEF k
  <2>2. OnceOf(told') = OnceOf(told)
    BY <1>1, <1>2, <1>3, <2>1 DEF OnceOf
  <2> QED BY <1>1, <2>1, <2>2, Unmoved
<1> QED BY <1>4, <1>5, <1>6

\* A call that returns is a Mark.
LEMMA ReturnedImplements ==
  ASSUME DayInv, DayInv', ReminderInv, Returned PROVE Promise!Next \/ UNCHANGED Promise!vars
<1> DEFINE k == <<Order[tick.at], tick.on>>
<1>1. /\ tick.pc = "sent" /\ tick' = After(Order[tick.at], tick.due \ {tick.on})
      /\ MarkDelivered(Order[tick.at], tick.on)
      /\ UNCHANGED <<told, lost, held>>
  BY DEF Returned, history
<1>2. TickGood(tick) /\ TickGood(tick') /\ tick.at \in 1..10 /\ tick.on \in Nat /\ tick.due \in SUBSET Reminders
  BY <1>1 DEF DayInv, TickGood, TickType
<1>3. tick'.pc = "run" /\ tick'.due = tick.due \ {tick.on}
  BY <1>1, <1>2, AfterFields DEF AfterIs
<1>4. PickedOf(tick') = {"reminders"} \X (tick.due \ {tick.on}) /\ ToldNowOf(tick') = {}
  BY <1>2, <1>3, PickedResting
<1>5. GoneOf(rem') = GoneOf(rem)
  BY <1>1, <1>2, Marking
<1>6. CASE tick.at \in {3, 6}
  <2>1. k \in Once /\ PickedOf(tick) = {k} /\ ToldNowOf(tick) = {k} /\ tick.due = {}
    BY <1>1, <1>2, <1>6, PickedLone
  <2>2. MarkIn(k)
    BY <1>1, <1>2, <1>6, Marking
  <2> HIDE DEF k
  <2>3. PickedOf(tick') = PickedOf(tick) \ {k}
    BY <1>4, <2>1
  <2> QED BY <1>1, <1>4, <1>5, <2>1, <2>2, <2>3, Marks
<1>7. CASE tick.at = 8
  <2>1. /\ k \in Once /\ Order[tick.at] = "reminders" /\ tick.on \in tick.due
        /\ PickedOf(tick) = {"reminders"} \X tick.due /\ ToldNowOf(tick) = {k}
    BY <1>1, <1>2, <1>7, PickedReminders
  <2>2. MarkIn(k)
    BY <1>1, <1>2, <1>7, <2>1, Marking
  <2>3. PickedOf(tick') = PickedOf(tick) \ {k}
    BY <1>4, <2>1
  <2> HIDE DEF k
  <2> QED BY <1>1, <1>4, <1>5, <2>1, <2>2, <2>3, Marks
<1>8. CASE tick.at \notin {3, 6, 8}
  <2>1. PickedOf(tick) = {} /\ ToldNowOf(tick) = {} /\ tick.due = {}
    BY <1>1, <1>2, <1>8, PickedOther
  <2>2. MarkedOf(flags', rem') = MarkedOf(flags, rem)
    BY <1>1, <1>2, <1>8, Marking
  <2>3. PickedOf(tick') = {}
    BY <1>4, <2>1
  <2> QED BY <1>1, <1>4, <1>5, <2>1, <2>2, <2>3, Unmoved
<1> QED BY <1>6, <1>7, <1>8

\* An error, or the end of the process, at any point of a tick.
LEMMA BrokenOff ==
  ASSUME DayInv, DayInv', LoseMark, tick'.pc \notin {"send", "sent"}, tick'.due = {},
         UNCHANGED <<told, held, flags, rem>>
  PROVE  Promise!Next \/ UNCHANGED Promise!vars
<1> DEFINE k == <<Order[tick.at], tick.on>>
<1>1. /\ TickGood(tick) /\ TickGood(tick') /\ lost \in [Key -> Nat] /\ Once \subseteq Key
  BY DEF DayInv, TypeOK, Once, Key
<1>2. PickedOf(tick') = {} /\ ToldNowOf(tick') = {}
  BY <1>1, PickedResting
<1>3. lost' = IF tick.pc = "sent" /\ k \in Key THEN [lost EXCEPT ![k] = @ + 1] ELSE lost
  BY DEF LoseMark, Sending
<1>4. ToldNowOf(tick) = IF tick.pc = "sent" THEN {k} \cap Once ELSE {}
  BY DEF ToldNowOf
<1> HIDE DEF k
<1>5. \A j \in Once : lost'[j] = IF j \in ToldNowOf(tick) THEN lost[j] + 1 ELSE lost[j]
  BY <1>1, <1>3, <1>4
<1>6. CASE PickedOf(tick) # {}
  BY <1>2, <1>5, <1>6, Breaks
<1>7. CASE PickedOf(tick) = {}
  <2>1. ToldNowOf(tick) = {}
    <3>1. ToldNowOf(tick) \subseteq PickedOf(tick)
      BY DEF ToldNowOf, PickedOf
    <3> QED BY <1>7, <3>1
  <2>2. OnceOf(lost') = OnceOf(lost)
    BY <1>5, <2>1 DEF OnceOf
  <2> QED BY <1>2, <1>7, <2>1, <2>2, Unmoved
<1> QED BY <1>6, <1>7

\* A call that raises breaks the tick off.
LEMMA RaisesImplements ==
  ASSUME DayInv, DayInv', SendRaises PROVE Promise!Next \/ UNCHANGED Promise!vars
<1>1. LoseMark /\ UNCHANGED <<told, held, flags, rem>>
  BY DEF SendRaises, tables
<1>2. tick'.pc \notin {"send", "sent"} /\ tick'.due = {}
  <2>1. After("pool", {}).pc = "run" /\ After("pool", {}).due = {}
    BY DEF After, Idle
  <2>2. Idle.pc = "idle" /\ Idle.due = {}
    BY DEF Idle
  <2>3. tick' = After("pool", {}) \/ tick' = Idle
    BY DEF SendRaises
  <2> QED BY <2>1, <2>2, <2>3
<1> QED BY <1>1, <1>2, BrokenOff

\* So does the end of the process.
LEMMA CrashImplements ==
  ASSUME DayInv, DayInv', Crash \/ TornAnswer PROVE Promise!Next \/ UNCHANGED Promise!vars
<1>1. LoseMark /\ tick' = Idle /\ UNCHANGED <<told, held, flags, rem>>
  BY DEF Crash, TornAnswer, tables
<1>2. tick'.pc \notin {"send", "sent"} /\ tick'.due = {}
  BY <1>1 DEF Idle
<1> QED BY <1>1, <1>2, BrokenOff

\* A reminder cancelled by a tool is withdrawn; one set by a tool is no step of the promise.
LEMMA ToolImplements ==
  ASSUME DayInv, ReminderTool PROVE Promise!Next \/ UNCHANGED Promise!vars
<1>1. UNCHANGED <<told, lost, held, flags, tick>> /\ rem \in [Reminders -> {"none", "set", "due", "done", "gone"}]
  BY DEF ReminderTool, history, DayInv, TypeOK
<1>2. PICK r \in Reminders :
        \/ rem[r] = "none" /\ \E st \in {"set", "due"} : rem' = [rem EXCEPT ![r] = st]
        \/ rem[r] \in {"set", "due", "done"} /\ rem' = [rem EXCEPT ![r] = "gone"]
  BY DEF ReminderTool
<1>3. CASE rem[r] = "none" /\ \E st \in {"set", "due"} : rem' = [rem EXCEPT ![r] = st]
  <2>1. \A x \in Reminders : (rem'[x] = "done" <=> rem[x] = "done") /\ (rem'[x] = "gone" <=> rem[x] = "gone")
    BY <1>1, <1>3
  <2>2. /\ {x \in Reminders : rem'[x] = "done"} = {x \in Reminders : rem[x] = "done"}
        /\ {x \in Reminders : rem'[x] = "gone"} = {x \in Reminders : rem[x] = "gone"}
    BY <2>1
  <2>3. MarkedOf(flags', rem') = MarkedOf(flags, rem) /\ GoneOf(rem') = GoneOf(rem)
    BY <1>1, <2>2 DEF MarkedOf, GoneOf
  <2> QED BY <1>1, <2>3, Unmoved
<1>4. CASE rem[r] \in {"set", "due", "done"} /\ rem' = [rem EXCEPT ![r] = "gone"]
  <2> DEFINE k == <<"reminders", r>>
  <2>1. k \in Once /\ k \notin GoneOf(rem)
    BY <1>4, OnceKeys, Members
  <2>2. \A x \in Reminders : rem'[x] = IF x = r THEN "gone" ELSE rem[x]
    BY <1>1, <1>4
  <2>3. {x \in Reminders : rem'[x] = "gone"} = {x \in Reminders : rem[x] = "gone"} \cup {r}
    BY <2>2
  <2>4. GoneOf(rem') = GoneOf(rem) \cup {k}
    BY <2>3 DEF GoneOf
  <2>5. {x \in Reminders : rem'[x] = "done"} = {x \in Reminders : rem[x] = "done"} \ {r}
    BY <2>2
  <2>6. MarkedOf(flags', rem') = MarkedOf(flags, rem) \ {k}
    <3> DEFINE D == {x \in Reminders : rem[x] = "done"}
               W == ({"wake"} \X flags.fired) \cup ({"evening"} \X flags.proposed)
    <3>1. MarkedOf(flags, rem) = W \cup ({"reminders"} \X D)
      BY DEF MarkedOf
    <3>2. MarkedOf(flags', rem') = W \cup ({"reminders"} \X (D \ {r}))
      BY <1>1, <2>5 DEF MarkedOf
    <3>3. k \notin W
      OBVIOUS
    <3> HIDE DEF D, W
    <3>4. {"reminders"} \X (D \ {r}) = ({"reminders"} \X D) \ {k}
      OBVIOUS
    <3> QED BY <3>1, <3>2, <3>3, <3>4
  <2> HIDE DEF k
  <2> QED BY <1>1, <2>1, <2>4, <2>6, Withdraws
<1> QED BY <1>2, <1>3, <1>4

\* A reminder that falls due changes nothing the promise speaks of.
LEMMA AdvanceImplements ==
  ASSUME DayInv, Advance PROVE UNCHANGED Promise!vars
<1>1. /\ rem \in [Reminders -> {"none", "set", "due", "done", "gone"}]
      /\ rem' = [r \in Reminders |-> IF rem[r] = "set" THEN "due" ELSE rem[r]]
      /\ UNCHANGED <<told, lost, held, flags, tick>>
  BY DEF Advance, DayInv, TypeOK
<1>2. \A x \in Reminders : (rem'[x] = "done" <=> rem[x] = "done") /\ (rem'[x] = "gone" <=> rem[x] = "gone")
  BY <1>1
<1>3. /\ {x \in Reminders : rem'[x] = "done"} = {x \in Reminders : rem[x] = "done"}
      /\ {x \in Reminders : rem'[x] = "gone"} = {x \in Reminders : rem[x] = "gone"}
  BY <1>2
<1>4. MarkedOf(flags', rem') = MarkedOf(flags, rem) /\ GoneOf(rem') = GoneOf(rem)
  BY <1>1, <1>3 DEF MarkedOf, GoneOf
<1> QED BY <1>1, <1>4, Unmoved

\* A check that sends, up to the end of deliver.
LEMMA ChecksImplement ==
  ASSUME DayInv, ReminderInv,
         \/ WakeAlarm \/ EveningNegotiation \/ HealthSweep \/ Remind
         \/ \E c \in {"briefing", "wrapup"} : Generated(c)
  PROVE  Promise!Next \/ UNCHANGED Promise!vars
<1>0. /\ Today \in Days /\ Today \in Nat /\ tick.on \in Nat /\ {} \in SUBSET Reminders
      /\ tick.due \in SUBSET Reminders /\ TickGood(tick)
  BY Clock DEF DayInv, TickGood, TickType
<1>1. CASE WakeAlarm
  <2>1. Deliver(Order[3], Today, {}, "critical", DayWindow) /\ UNCHANGED <<told, lost>> /\ Runs(Order[3])
    BY <1>1, OrderValues DEF WakeAlarm
  <2>2. tick.due = {} /\ tick.pc \in {"idle", "run"}
    BY <2>1, NoneDue DEF Runs
  <2>3. Today \notin flags.fired
    BY <2>1, OrderValues DEF Runs, Wants
  <2> QED BY <1>0, <2>1, <2>2, <2>3, DeliverImplements
<1>2. CASE EveningNegotiation
  <2>1. Deliver(Order[6], Today, {}, "normal", AnyTime) /\ UNCHANGED <<told, lost>> /\ Runs(Order[6])
    BY <1>2, OrderValues DEF EveningNegotiation
  <2>2. tick.due = {} /\ tick.pc \in {"idle", "run"}
    BY <2>1, NoneDue DEF Runs
  <2>3. Today \notin flags.proposed
    BY <2>1, OrderValues DEF Runs, Wants
  <2> QED BY <1>0, <2>1, <2>2, <2>3, DeliverImplements
<1>3. CASE HealthSweep
  <2>1. PICK sev : Deliver(Order[7], 0, {}, sev, DayWindow)
    BY <1>3, OrderValues DEF HealthSweep
  <2>2. UNCHANGED <<told, lost>> /\ MayRun(Order[7])
    BY <1>3, OrderValues DEF HealthSweep
  <2>3. tick.due = {} /\ tick.pc \in {"idle", "run"}
    BY <2>2, NoneDue
  <2> QED BY <1>0, <2>1, <2>2, <2>3, DeliverImplements
<1>4. CASE Remind
  <2>1. PICK r \in tick.due : Deliver(Order[8], r, tick.due, "normal", DayWindow)
    BY <1>4, OrderValues DEF Remind
  <2>2. UNCHANGED <<told, lost>> /\ tick.pc \in {"idle", "run"} /\ r \in Nat
    BY <1>0, <1>4, DayAssumption DEF Remind, Runs, MayRun, DayAssumption
  <2> QED BY <1>0, <2>1, <2>2, DeliverImplements
<1>5. ASSUME NEW c \in {"briefing", "wrapup"}, Generated(c)
      PROVE  Promise!Next \/ UNCHANGED Promise!vars
  <2> DEFINE i == IF c = "briefing" THEN 4 ELSE 5
  <2>1. c = Order[i] /\ i \in 1..10 /\ i \notin {3, 6, 8}
    BY OrderValues
  <2> HIDE DEF i
  <2>2. Deliver(Order[i], tick.on, {}, "normal", AnyTime) /\ UNCHANGED <<told, lost>> /\ tick.pc = "gen"
    BY <1>5, <2>1 DEF Generated
  <2>3. tick.due = {}
    BY <1>0, <2>2 DEF TickGood
  <2> QED BY <1>0, <2>1, <2>2, <2>3, DeliverImplements
<1> QED BY <1>1, <1>2, <1>3, <1>4, <1>5

\* A check that only moves on, or has its text generated.
LEMMA PassesImplement ==
  ASSUME DayInv, DayInv',
         \/ EnsureAnchors \/ CheckSilence \/ PickNudge \/ AgendaIdea \/ EndTick
         \/ \E c \in {"briefing", "wrapup"} : Generate(c)
  PROVE  UNCHANGED Promise!vars
<1>0. tick \in TickType
  BY DEF DayInv, TickGood
<1>1. CASE EnsureAnchors
  <2>1. tick.due = {} /\ tick.pc \in {"idle", "run"}
    BY <1>1, NoneDue, OrderValues DEF EnsureAnchors, Runs
  <2>2. tick'.due = {} /\ tick'.pc = "run"
    BY <1>1 DEF EnsureAnchors, After, Idle
  <2> QED BY <1>1, <2>1, <2>2, TickOnly DEF EnsureAnchors, history
<1>2. CASE CheckSilence
  <2>1. tick.due = {} /\ tick.pc \in {"idle", "run"}
    BY <1>2, NoneDue, OrderValues DEF CheckSilence
  <2>2. tick'.due = {} /\ tick'.pc = "run"
    BY <1>2 DEF CheckSilence, After, Idle
  <2> QED BY <1>2, <2>1, <2>2, TickOnly DEF CheckSilence, history, tables
<1>3. CASE PickNudge
  <2>1. tick.pc \in {"idle", "run"} /\ tick'.due = tick.due /\ tick'.pc = "gen"
    BY <1>0, <1>3 DEF PickNudge, Runs, MayRun, TickType
  <2> QED BY <1>3, <2>1, TickOnly DEF PickNudge, history, tables
<1>4. CASE AgendaIdea
  <2>1. tick.due = {} /\ tick.pc \in {"idle", "run"}
    BY <1>4, NoneDue, OrderValues DEF AgendaIdea, AgendaOpen
  <2>2. tick'.due = {} /\ tick'.pc = "idle"
    BY <1>4 DEF AgendaIdea, Idle
  <2> QED BY <1>4, <2>1, <2>2, TickOnly DEF AgendaIdea, history
<1>5. CASE EndTick
  <2>1. tick.pc = "run" /\ tick.due = {}
    <3>1. tick.pc = "run" /\ \A i \in tick.at..10 : ~Wants(Order[i])
      BY <1>5, OrderValues DEF EndTick
    <3>2. ASSUME tick.due # {} PROVE FALSE
      <4>1. tick.at = 8
        BY <3>2 DEF DayInv, TickGood
      <4>2. ~Wants("reminders")
        BY <3>1, <4>1, OrderValues
      <4> QED BY <3>2, <4>2 DEF Wants
    <3> QED BY <3>1, <3>2
  <2>2. tick'.due = {} /\ tick'.pc = "idle"
    BY <1>5 DEF EndTick, Idle
  <2> QED BY <1>5, <2>1, <2>2, TickOnly DEF EndTick, history, tables
<1>6. ASSUME NEW c \in {"briefing", "wrapup"}, Generate(c) PROVE UNCHANGED Promise!vars
  <2>1. tick.pc \in {"idle", "run"} /\ tick'.due = tick.due /\ tick'.pc = "gen"
    BY <1>0, <1>6 DEF Generate, Runs, MayRun, TickType
  <2> QED BY <1>6, <2>1, TickOnly DEF Generate, history, tables
<1> QED BY <1>1, <1>2, <1>3, <1>4, <1>5, <1>6

\* A nudge of the pool is no message of the promise.
LEMMA NudgeImplements == ASSUME DayInv, DayInv', Nudge PROVE UNCHANGED Promise!vars
<1>1. /\ tick \in TickType /\ TickGood(tick) /\ TickGood(tick')
      /\ tick.pc = "gen" /\ tick.at = 9 /\ UNCHANGED <<told, lost, held, flags, rem>>
  BY PositionOf DEF DayInv, TickGood, Nudge, history
<1>2. tick.due = {} /\ PickedOf(tick) = {} /\ ToldNowOf(tick) = {}
  <2>1. tick.due = {}
    BY <1>1 DEF TickGood
  <2> QED BY <1>1, <2>1, PickedResting
<1>3. CASE tick' = [tick EXCEPT !.pc = "send"]
  <2>1. tick'.pc \in {"send", "sent"} /\ tick'.at = 9 /\ tick'.at \notin {3, 6, 8}
    BY <1>1, <1>3 DEF TickType
  <2>2. PickedOf(tick') = {} /\ ToldNowOf(tick') = {}
    BY <1>1, <2>1, PickedOther
  <2> QED BY <1>1, <1>2, <2>2, Unmoved
<1>4. CASE tick' = After("pool", {})
  <2>1. tick'.pc = "run" /\ tick'.due = {}
    BY <1>4 DEF After, Idle
  <2> QED BY <1>1, <1>2, <2>1, TickOnly
<1> QED BY <1>3, <1>4 DEF Nudge

\* The agenda's question is no message of the promise.
LEMMA AskImplements == ASSUME DayInv, DayInv', AskHaveTasks PROVE UNCHANGED Promise!vars
<1>1. UNCHANGED <<told, lost, flags, rem>> /\ TickGood(tick) /\ TickGood(tick')
  BY DEF AskHaveTasks, DayInv
<1>2. tick.due = {} /\ tick.pc \in {"idle", "run"}
  BY NoneDue, OrderValues DEF AskHaveTasks, AgendaOpen
<1>3. PickedOf(tick) = {} /\ ToldNowOf(tick) = {}
  BY <1>1, <1>2, PickedResting
<1>4. PickedOf(tick') = {} /\ ToldNowOf(tick') = {}
  <2>1. CASE tick' = Idle
    <3>1. tick'.pc = "idle" /\ tick'.due = {}
      BY <2>1 DEF Idle
    <3> QED BY <1>1, <3>1, PickedResting
  <2>2. CASE tick' = [Idle EXCEPT !.pc = "send", !.at = Pos("agenda"), !.began = Began, !.on = Today]
    <3>1. tick'.pc \in {"send", "sent"} /\ tick'.at = 10 /\ tick'.at \notin {3, 6, 8}
      BY <2>2, PositionOf DEF Idle
    <3> QED BY <1>1, <3>1, PickedOther
  <2> QED BY <2>1, <2>2 DEF AskHaveTasks
<1>5. held' \cap Once = held \cap Once
  <2>1. <<"agenda", Today>> \notin Once
    BY OnceKeys
  <2>2. held' = held \/ held' = held \cup {<<"agenda", Today>>}
    BY DEF AskHaveTasks
  <2> QED BY <2>1, <2>2
<1> QED BY <1>1, <1>3, <1>4, <1>5, Unmoved

\* What happens beside the ticks.
LEMMA OthersImplement ==
  ASSUME DayInv,
         \/ Arrive \/ Read \/ Tap \/ SetMode \/ UsePool \/ ProposalsExpire \/ Restart \/ UNCHANGED vars
  PROVE  UNCHANGED Promise!vars
<1>1. UNCHANGED <<told, lost, held, rem, tick>>
  BY DEF Arrive, Read, Tap, SetMode, UsePool, ProposalsExpire, Restart, vars, tables, history
<1>2. flags'.fired = flags.fired /\ flags'.proposed = flags.proposed
  <2>1. CASE SetMode
    BY <2>1 DEF SetMode, DayInv, TypeOK
  <2>2. CASE ~SetMode
    BY <2>2 DEF Arrive, Read, Tap, UsePool, ProposalsExpire, Restart, vars, tables
  <2> QED BY <2>1, <2>2
<1>3. MarkedOf(flags', rem') = MarkedOf(flags, rem)
  BY <1>1, <1>2 DEF MarkedOf
<1> QED BY <1>1, <1>3, Unmoved

\* Every step of the day is a step of the promise, or none.
LEMMA OutboxStep ==
  DayInv /\ DayInv' /\ ReminderInv /\ [Next]_vars => Promise!Next \/ UNCHANGED Promise!vars
  BY FetchImplements, AcceptedImplements, ReturnedImplements, RaisesImplements, CrashImplements,
     ToolImplements, AdvanceImplements, ChecksImplement, PassesImplement, NudgeImplements,
     AskImplements, OthersImplement
  DEF Next, Check

\* A step that takes up no reminder and sets none to waiting again keeps ReminderInv.
LEMMA DueKept ==
  ASSUME ReminderInv, \A r \in tick'.due : r \in tick.due /\ rem'[r] \in {rem[r], "gone"}
  PROVE  ReminderInv'
  BY DEF ReminderInv

\* A delivery keeps ReminderInv.
LEMMA DeliverReminds ==
  ASSUME DayInv, ReminderInv, NEW i \in 1..10, NEW x, NEW due \in SUBSET tick.due, NEW sev, NEW window,
         Deliver(Order[i], x, due, sev, window)
  PROVE  ReminderInv'
<1>0. tick.due \subseteq Reminders /\ rem \in [Reminders -> {"none", "set", "due", "done", "gone"}]
  BY DEF DayInv, TypeOK, TickGood, TickType
<1>1. CASE Allowed(sev, window)
  <2>1. tick'.due = due /\ rem' = rem
    BY <1>1 DEF Deliver, Submit
  <2> QED BY <2>1, DueKept
<1>2. CASE ~Allowed(sev, window)
  <2>1. MarkDelivered(Order[i], x) /\ tick' = After(Order[i], due \ {x})
    BY <1>2 DEF Deliver
  <2>2. tick'.due = due \ {x}
    BY <2>1, <1>0, AfterFields DEF AfterIs
  <2>3. \A y \in Reminders \ {x} : rem'[y] = rem[y]
    BY <1>0, <2>1 DEF MarkDelivered
  <2> QED BY <1>0, <2>2, <2>3, DueKept
<1> QED BY <1>1, <1>2

\* Every step keeps ReminderInv.
LEMMA ReminderStep == DayInv /\ DayInv' /\ ReminderInv /\ [Next]_vars => ReminderInv'
<1> SUFFICES ASSUME DayInv, DayInv', ReminderInv, [Next]_vars PROVE ReminderInv'
  OBVIOUS
<1>0. /\ tick \in TickType /\ TickGood(tick) /\ TickGood(tick')
      /\ rem \in [Reminders -> {"none", "set", "due", "done", "gone"}] /\ {} \in SUBSET tick.due
      /\ tick.due \in SUBSET tick.due /\ tick.due \subseteq Reminders
  BY DEF DayInv, TickGood, TypeOK, TickType
<1>1. ASSUME tick'.due = {} PROVE ReminderInv'
  BY <1>1 DEF ReminderInv
<1>2. CASE \/ EnsureAnchors \/ CheckSilence \/ AgendaIdea \/ AskHaveTasks \/ EndTick \/ SendRaises
           \/ Crash \/ TornAnswer
  <2>1. Idle.due = {}
    BY DEF Idle
  <2>2. CASE EnsureAnchors \/ CheckSilence
    BY <1>1, <2>2 DEF EnsureAnchors, CheckSilence, After, Idle
  <2>3. CASE AgendaIdea \/ EndTick \/ Crash \/ TornAnswer
    BY <1>1, <2>1, <2>3 DEF AgendaIdea, EndTick, Crash, TornAnswer
  <2>4. CASE AskHaveTasks
    BY <1>1, <2>4 DEF AskHaveTasks, Idle
  <2>5. CASE SendRaises
    <3>1. After("pool", {}).due = {}
      BY DEF After, Idle
    <3> QED BY <1>1, <2>1, <2>5, <3>1 DEF SendRaises
  <2> QED BY <1>2, <2>2, <2>3, <2>4, <2>5
<1>3. CASE WakeAlarm
  BY <1>0, <1>3, DeliverReminds, OrderValues DEF WakeAlarm
<1>4. CASE EveningNegotiation
  BY <1>0, <1>4, DeliverReminds, OrderValues DEF EveningNegotiation
<1>5. CASE HealthSweep
  BY <1>0, <1>5, DeliverReminds, OrderValues DEF HealthSweep
<1>6. CASE Remind
  BY <1>0, <1>6, DeliverReminds, OrderValues DEF Remind
<1>7. ASSUME NEW c \in {"briefing", "wrapup"}, Generated(c) PROVE ReminderInv'
  <2>1. PICK i \in 1..10 : c = Order[i]
    <3>1. 4 \in 1..10 /\ 5 \in 1..10
      OBVIOUS
    <3> QED BY <3>1, OrderValues
  <2> QED BY <1>0, <1>7, <2>1, DeliverReminds DEF Generated
<1>8. ASSUME NEW c \in {"briefing", "wrapup"}, Generate(c) PROVE ReminderInv'
  <2>1. tick'.due = tick.due /\ rem' = rem
    BY <1>0, <1>8 DEF Generate, tables, TickType
  <2> QED BY <2>1, DueKept
<1>9. CASE FetchReminders
  <2>1. tick'.due = Overdue /\ rem' = rem
    BY <1>0, <1>9 DEF FetchReminders, tables, TickType
  <2> QED BY <2>1 DEF Overdue, ReminderInv
<1>10. CASE PickNudge \/ Accepted
  <2>1. tick'.due = tick.due /\ rem' = rem
    BY <1>0, <1>10 DEF PickNudge, Accepted, tables, TickType
  <2> QED BY <2>1, DueKept
<1>11. CASE Nudge
  <2>1. (tick'.due = tick.due \/ tick'.due = {}) /\ rem' = rem
    BY <1>0, <1>11 DEF Nudge, After, Idle, TickType
  <2> QED BY <1>1, <2>1, DueKept
<1>12. CASE Returned
  <2>1. MarkDelivered(Order[tick.at], tick.on) /\ tick' = After(Order[tick.at], tick.due \ {tick.on})
    BY <1>12 DEF Returned
  <2>2. tick.at \in 1..10
    BY <1>0, <1>12 DEF Returned, TickGood
  <2>3. tick'.due = tick.due \ {tick.on}
    BY <1>0, <2>1, <2>2, AfterFields DEF AfterIs
  <2>4. \A y \in Reminders \ {tick.on} : rem'[y] = rem[y]
    BY <1>0, <2>1 DEF MarkDelivered
  <2> QED BY <1>0, <2>3, <2>4, DueKept
<1>13. CASE ReminderTool
  <2>1. tick' = tick
    BY <1>13 DEF ReminderTool
  <2>2. PICK q \in Reminders :
        \/ rem[q] = "none" /\ \E st \in {"set", "due"} : rem' = [rem EXCEPT ![q] = st]
        \/ rem[q] \in {"set", "due", "done"} /\ rem' = [rem EXCEPT ![q] = "gone"]
    BY <1>13 DEF ReminderTool
  <2>3. \A y \in tick.due : rem'[y] \in {rem[y], "gone"}
    BY <1>0, <2>2 DEF ReminderInv
  <2> QED BY <2>1, <2>3, DueKept
<1>14. CASE Advance
  <2>1. tick' = tick /\ rem' = [x \in Reminders |-> IF rem[x] = "set" THEN "due" ELSE rem[x]]
    BY <1>14 DEF Advance
  <2>2. \A y \in tick.due : rem'[y] = rem[y]
    BY <1>0, <2>1 DEF ReminderInv
  <2> QED BY <2>1, <2>2, DueKept
<1>15. CASE \/ Arrive \/ Read \/ Tap \/ SetMode \/ UsePool \/ ProposalsExpire \/ Restart \/ UNCHANGED vars
  <2>1. tick' = tick /\ rem' = rem
    BY <1>15 DEF Arrive, Read, Tap, SetMode, UsePool, ProposalsExpire, Restart, vars, tables
  <2> QED BY <2>1, DueKept
<1> QED
  BY <1>2, <1>3, <1>4, <1>5, <1>6, <1>7, <1>8, <1>9, <1>10, <1>11, <1>12, <1>13, <1>14, <1>15
  DEF Next, Check

\* The day begins where the promise begins.
LEMMA OutboxStarts == Init => Promise!Init
<1> SUFFICES ASSUME Init PROVE Promise!Init
  OBVIOUS
<1>1. /\ told = [k \in Key |-> 0] /\ lost = [k \in Key |-> 0] /\ held = {} /\ tick = Idle
      /\ flags.fired = {} /\ flags.proposed = {} /\ rem = [x \in Reminders |-> "none"]
  BY DEF Init
<1>2. Once \subseteq Key
  BY DEF Once, Key
<1>3. [k \in Once |-> told[k]] = [k \in Once |-> 0] /\ [k \in Once |-> lost[k]] = [k \in Once |-> 0]
  BY <1>1, <1>2
<1>4. tick.due = {} /\ tick.pc = "idle"
  BY <1>1 DEF Idle
<1>5. {x \in Reminders : rem[x] = "done"} = {} /\ {x \in Reminders : rem[x] = "gone"} = {}
  BY <1>1
<1> QED BY <1>1, <1>3, <1>4, <1>5 DEF Promise!Init

\* The day engine keeps the promise of the outbox.
THEOREM DayKeepsPromise == Spec => OncePromise
<1>1. Init => DayInv /\ ReminderInv /\ Promise!Init
  BY DayStarts, ReminderStarts, OutboxStarts
<1>2. DayInv /\ ReminderInv /\ [Next]_vars => (DayInv /\ ReminderInv)'
  BY DayStep, ReminderStep
<1>3. DayInv /\ DayInv' /\ ReminderInv /\ [Next]_vars => [Promise!Next]_(Promise!vars)
  BY OutboxStep
<1> QED BY <1>1, <1>2, <1>3, PTL DEF Spec, OncePromise, Promise!Spec

\* Outbox's theorems for the mapped variables
Kept == INSTANCE Outbox_proofs WITH
  Keys     <- Once,
  Critical <- {"wake"} \X Days,
  told     <- OnceOf(told),
  lost     <- OnceOf(lost),
  held     <- held \cap Once,
  marked   <- MarkedOf(flags, rem),
  gone     <- GoneOf(rem),
  picked   <- PickedOf(tick),
  told_now <- ToldNowOf(tick)

\* what they say of the day's own variables
OnceSafe ==
  /\ \A k \in Once : told[k] <= 1 + lost[k]
  /\ \A d \in flags.fired \cap Days : told[<<"wake", d>>] > 0
  /\ \A r \in Reminders : rem[r] = "done" => told[<<"reminders", r>>] > 0 \/ <<"reminders", r>> \in held

\* Read off the promise by Outbox's own theorems: alarm, proposal and reminder are told
\* at most once more than their marks were lost; an alarm that counts as fired was told;
\* a reminder that is done was told or bundled.
THEOREM DayOutbox == Spec => []OnceSafe
<1> USE DEF OnceOf, MarkedOf, GoneOf, PickedOf, ToldNowOf, Sending
<1>1. Promise!Init => Kept!Init
  BY DEF Kept!Init, Promise!Init
<1>2. [Promise!Next]_(Promise!vars) => [Kept!Next]_(Kept!vars)
  BY DEF Kept!Next, Promise!Next, Kept!vars, Promise!vars, Kept!Pick, Promise!Pick,
         Kept!Tell, Promise!Tell, Kept!Mark, Promise!Mark, Kept!MarkOf, Promise!MarkOf,
         Kept!HoldBack, Promise!HoldBack, Kept!Withdraw, Promise!Withdraw,
         Kept!BreakOff, Promise!BreakOff
<1>3. Promise!Spec => Kept!Spec
  BY <1>1, <1>2, PTL DEF Promise!Spec, Kept!Spec
<1> HIDE DEF OnceOf, MarkedOf, GoneOf, PickedOf, ToldNowOf
<1>4. Kept!ToldOnce /\ Kept!NothingSkipped /\ Kept!CriticalTold => OnceSafe
  <2> SUFFICES ASSUME Kept!ToldOnce, Kept!NothingSkipped, Kept!CriticalTold PROVE OnceSafe
    OBVIOUS
  <2>1. /\ \A k \in Once : OnceOf(told)[k] <= 1 + OnceOf(lost)[k]
        /\ \A k \in MarkedOf(flags, rem) : OnceOf(told)[k] > 0 \/ k \in held \cap Once
        /\ \A k \in ({"wake"} \X Days) \cap MarkedOf(flags, rem) : OnceOf(told)[k] > 0
    BY DEF Kept!ToldOnce, Kept!NothingSkipped, Kept!CriticalTold
  <2>2. \A k \in Once : OnceOf(told)[k] = told[k] /\ OnceOf(lost)[k] = lost[k]
    BY DEF OnceOf
  <2>3. \A d \in flags.fired \cap Days : told[<<"wake", d>>] > 0
    <3> TAKE d \in flags.fired \cap Days
    <3>1. /\ <<"wake", d>> \in MarkedOf(flags, rem) /\ <<"wake", d>> \in Once
          /\ <<"wake", d>> \in {"wake"} \X Days
      BY Members, OnceKeys
    <3> QED BY <2>1, <2>2, <3>1
  <2>4. \A r \in Reminders : rem[r] = "done" => told[<<"reminders", r>>] > 0 \/ <<"reminders", r>> \in held
    <3> SUFFICES ASSUME NEW r \in Reminders, rem[r] = "done"
                 PROVE  told[<<"reminders", r>>] > 0 \/ <<"reminders", r>> \in held
      OBVIOUS
    <3>1. <<"reminders", r>> \in MarkedOf(flags, rem) /\ <<"reminders", r>> \in Once
      BY Members, OnceKeys
    <3> QED BY <2>1, <2>2, <3>1
  <2> QED BY <2>1, <2>2, <2>3, <2>4 DEF OnceSafe
<1>5. Kept!Spec => [](Kept!ToldOnce /\ Kept!NothingSkipped /\ Kept!CriticalTold)
  BY Kept!NeverToldTwice, Kept!NothingIsSkipped, Kept!CriticalIsTold, PTL
<1> QED BY <1>3, <1>4, <1>5, DayKeepsPromise, PTL DEF OncePromise

-----------------------------------------------------------------------------
(* Briefing, wrap-up and the agenda's question                             *)

\* Briefing, wrap-up and the agenda's question: what they send is marked only after
\* the message is out, and under a date that may not be the message's own.
Routine == {"briefing", "wrapup", "agenda"}

\* the mark that keeps check c from sending for date d or an earlier one
Settled(c, d) ==
  CASE c = "briefing" -> d \in flags.briefed
    [] c = "wrapup"   -> d \in flags.wrapped
    [] OTHER          -> DateOf(agenda.asked) >= d

\* Telegram has k, its call has not returned
InFlight(k) == tick.pc = "sent" /\ Sending = k

\* The inductive invariant: besides RoutineOnce, a date that is still to come or
\* current and not settled was told no oftener than marks were lost, unless its message is
\* the one in flight; and what is generated or on its way is of that kind.
RoutineInv ==
  /\ agenda.asked <= now
  /\ \A c \in Routine, d \in Days :
       /\ told[<<c, d>>] <= 1 + lost[<<c, d>>]
       /\ d >= Today /\ ~Settled(c, d) /\ ~InFlight(<<c, d>>) => told[<<c, d>>] <= lost[<<c, d>>]
  /\ tick.pc \in {"gen", "send", "sent"} /\ Order[tick.at] \in Routine =>
       /\ tick.on \in Days /\ tick.on <= Today
       /\ tick.pc # "sent" => told[Sending] <= lost[Sending]

\* The dates of the slots.
LEMMA Calendar ==
  /\ \A n \in Nat : DateOf(n) \in Nat /\ DateOf(n) <= DateOf(n + 1)
  /\ \A n, m \in Nat : n <= m => DateOf(n) <= DateOf(m)
  /\ \A n, m \in Nat : n + Slots <= m => DateOf(n) + 1 <= DateOf(m)
<1>1. Slots \in Nat \ {0}
  BY NotifyAssumption DEF NotifyAssumption
<1>2. \A n \in Nat : DateOf(n) \in Nat
  BY <1>1 DEF DateOf
<1>3. \A n, m \in Nat : n <= m => DateOf(n) <= DateOf(m)
  BY <1>1 DEF DateOf
<1>4. \A n, m \in Nat : n + Slots <= m => DateOf(n) + 1 <= DateOf(m)
  BY <1>1 DEF DateOf
<1>5. \A n \in Nat : n + 1 \in Nat /\ n <= n + 1
  OBVIOUS
<1> QED BY <1>2, <1>3, <1>4, <1>5

\* Briefing, wrap-up and the agenda's question by their places.
LEMMA RoutineNames ==
  \A i \in 1..10 : Order[i] \in Routine <=> i \in {4, 5, 10}
<1> TAKE i \in 1..10
<1>1. i \in {1,2,3,4,5,6,7,8,9,10}
  OBVIOUS
<1> QED BY <1>1, OrderValues DEF Routine

\* Their messages are among those counted.
LEMMA RoutineKeys == \A c \in Routine, d \in Days : <<c, d>> \in Key
<1> TAKE c \in Routine, d \in Days
<1>1. <<c, d>> \in {"wake", "evening", "briefing", "wrapup", "agenda"} \X Days
  BY DEF Routine
<1> QED BY <1>1 DEF Key

\* Nothing has been told at the first start.
LEMMA RoutineStarts == Init => RoutineInv
<1> SUFFICES ASSUME Init PROVE RoutineInv
  OBVIOUS
<1>1. /\ agenda.asked = 0 /\ now = FirstSlot /\ tick.pc = "idle"
      /\ told = [k \in Key |-> 0] /\ lost = [k \in Key |-> 0]
  BY DEF Init, Idle
<1> QED BY <1>1, RoutineKeys, Bounds DEF RoutineInv

\* A step that tells nothing and loses nothing.
LEMMA RoutineKept ==
  ASSUME DayInv, DayInv', RoutineInv, told' = told, lost' = lost,
         now' >= now, agenda'.asked <= now',
         \A c \in Routine, d \in Days : Settled(c, d) => Settled(c, d)',
         \A c \in Routine, d \in Days : InFlight(<<c, d>>) => InFlight(<<c, d>>)' \/ d < Today' \/ Settled(c, d)',
         tick'.pc \in {"gen", "send", "sent"} /\ Order[tick'.at] \in Routine =>
           /\ tick'.on \in Days /\ tick'.on <= Today'
           /\ tick'.pc # "sent" => told[<<Order[tick'.at], tick'.on>>] <= lost[<<Order[tick'.at], tick'.on>>]
  PROVE  RoutineInv'
<1>1. Today \in Nat /\ Today' \in Nat /\ Today <= Today' /\ now \in Nat /\ now' \in Nat
  BY Calendar DEF DayInv, TypeOK, Today
<1>2. Days \subseteq Nat
  BY AnchorsAssumption DEF AnchorsAssumption, Days
<1>3. ASSUME NEW c \in Routine, NEW d \in Days, d >= Today', ~Settled(c, d)', ~InFlight(<<c, d>>)'
      PROVE  told'[<<c, d>>] <= lost'[<<c, d>>]
  <2>1. d >= Today /\ ~Settled(c, d) /\ ~InFlight(<<c, d>>)
    BY <1>1, <1>2, <1>3
  <2> QED BY <2>1 DEF RoutineInv
<1>4. Sending' = <<Order[tick'.at], tick'.on>>
  BY DEF Sending
<1> QED BY <1>3, <1>4 DEF RoutineInv

\* A mark settles its check for today and unsettles nothing.
LEMMA SettledLater ==
  ASSUME DayInv, RoutineInv, NEW i \in 1..10, NEW x, MarkDelivered(Order[i], x)
  PROVE  /\ agenda'.asked <= now
         /\ \A c \in Routine, d \in Days : Settled(c, d) => Settled(c, d)'
         /\ \A d \in Days : d <= Today /\ Order[i] \in Routine => d < Today \/ Settled(Order[i], d)'
<1>1. /\ now \in Nat /\ agenda \in [ran : Nat, asked : Nat] /\ agenda.asked <= now
      /\ flags \in [{"fired", "proposed", "briefed", "wrapped", "quiet"} -> SUBSET Dates]
      /\ Today \in Nat /\ Days \subseteq Nat
  <2>1. /\ now \in Nat /\ agenda \in [ran : Nat, asked : Nat] /\ agenda.asked <= now
        /\ flags \in [{"fired", "proposed", "briefed", "wrapped", "quiet"} -> SUBSET Dates]
    BY DEF DayInv, TypeOK, RoutineInv
  <2>2. Today \in Nat
    BY <2>1, Calendar DEF Today
  <2>3. Days \subseteq Nat
    BY AnchorsAssumption DEF AnchorsAssumption, Days
  <2> QED BY <2>1, <2>2, <2>3
<1>2. /\ flags.briefed \subseteq flags'.briefed /\ flags.wrapped \subseteq flags'.wrapped
      /\ Order[i] = "briefing" => Today \in flags'.briefed
      /\ Order[i] = "wrapup" => Today \in flags'.wrapped
  BY <1>1 DEF MarkDelivered
<1>3. /\ agenda'.asked \in {agenda.asked, now}
      /\ Order[i] = "agenda" => agenda'.asked = now
  BY <1>1 DEF MarkDelivered
<1>4. DateOf(agenda.asked) <= DateOf(agenda'.asked) /\ DateOf(agenda.asked) \in Nat /\ DateOf(agenda'.asked) \in Nat
  <2>1. agenda.asked \in Nat /\ agenda'.asked \in Nat /\ agenda.asked <= agenda'.asked
    BY <1>1, <1>3
  <2> QED BY <2>1, Calendar
<1>5. \A c \in Routine, d \in Days : Settled(c, d) => Settled(c, d)'
  BY <1>1, <1>2, <1>4 DEF Settled, Routine
<1>6. ASSUME NEW d \in Days, d <= Today, Order[i] \in Routine, ~(d < Today) PROVE Settled(Order[i], d)'
  <2>1. d = Today
    BY <1>1, <1>6
  <2>2. CASE Order[i] = "briefing"
    BY <1>2, <2>1, <2>2 DEF Settled
  <2>3. CASE Order[i] = "wrapup"
    BY <1>2, <2>1, <2>3 DEF Settled
  <2>4. CASE Order[i] = "agenda"
    <3>1. DateOf(agenda'.asked) >= Today
      BY <1>1, <1>3, <2>4 DEF Today
    <3> QED BY <2>1, <2>4, <3>1 DEF Settled
  <2> QED BY <1>6, <2>2, <2>3, <2>4 DEF Routine
<1> QED BY <1>1, <1>3, <1>5, <1>6


\* A step that has nothing to do with the routine: it tells nothing, marks none of the
\* three, and takes no message of theirs up.
LEMMA RoutineAside ==
  ASSUME DayInv, DayInv', RoutineInv, UNCHANGED <<told, lost>>, agenda'.asked = agenda.asked,
         flags'.briefed = flags.briefed, flags'.wrapped = flags.wrapped,
         now' >= now, tick' = tick \/ (tick'.pc \in {"idle", "run"} /\ tick.pc # "sent")
  PROVE  RoutineInv'
<1>1. /\ now \in Nat /\ now' \in Nat /\ agenda.asked \in Nat /\ Today \in Nat /\ Today' \in Nat
      /\ Today <= Today' /\ agenda'.asked <= now'
  <2>1. now \in Nat /\ now' \in Nat /\ agenda.asked \in Nat /\ agenda.asked <= now
    BY DEF DayInv, TypeOK, RoutineInv
  <2> QED BY <2>1, Calendar DEF Today
<1>2. \A c \in Routine, d \in Days : Settled(c, d) => Settled(c, d)'
  BY DEF Settled
<1>3. \A c \in Routine, d \in Days : InFlight(<<c, d>>) => InFlight(<<c, d>>)'
  BY DEF InFlight, Sending
<1>4. ASSUME tick'.pc \in {"gen", "send", "sent"}, Order[tick'.at] \in Routine
      PROVE  /\ tick'.on \in Days /\ tick'.on <= Today'
             /\ tick'.pc # "sent" => told[<<Order[tick'.at], tick'.on>>] <= lost[<<Order[tick'.at], tick'.on>>]
  <2>1. tick' = tick
    BY <1>4
  <2>2. tick.on \in Days /\ tick.on <= Today
        /\ (tick.pc # "sent" => told[<<Order[tick.at], tick.on>>] <= lost[<<Order[tick.at], tick.on>>])
    BY <1>4, <2>1 DEF RoutineInv, Sending
  <2>3. tick.on \in Nat
    BY <2>2, AnchorsAssumption DEF AnchorsAssumption, Days
  <2> QED BY <1>1, <2>1, <2>2, <2>3
<1> QED BY <1>1, <1>2, <1>3, <1>4, RoutineKept

\* An attempt to deliver: bundled and marked, or on its way.
LEMMA RoutineDelivered ==
  ASSUME DayInv, DayInv', RoutineInv, NEW i \in 1..10, NEW x \in Nat, NEW due \in SUBSET Reminders,
         NEW sev, NEW window, Deliver(Order[i], x, due, sev, window),
         UNCHANGED <<told, lost, now>>, tick.pc \in {"idle", "run", "gen"},
         Order[i] \in Routine => /\ x \in Days /\ x <= Today
                                 /\ told[<<Order[i], x>>] <= lost[<<Order[i], x>>]
  PROVE  RoutineInv'
<1>1. \A c \in Routine, d \in Days : ~InFlight(<<c, d>>)
  BY DEF InFlight
<1>2. Today' = Today /\ now \in Nat
  BY DEF Today, DayInv, TypeOK
<1>3. CASE Allowed(sev, window)
  <2>1. /\ tick'.pc = "send" /\ tick'.at = i /\ tick'.on = x /\ UNCHANGED <<flags, agenda>>
    BY <1>3, Positions DEF Deliver, Submit
  <2>2. \A c \in Routine, d \in Days : Settled(c, d) => Settled(c, d)'
    BY <2>1 DEF Settled
  <2>3. agenda'.asked <= now'
    BY <2>1 DEF RoutineInv
  <2> QED BY <1>1, <1>2, <2>1, <2>2, <2>3, RoutineKept
<1>4. CASE ~Allowed(sev, window)
  <2>1. MarkDelivered(Order[i], x) /\ tick' = After(Order[i], due \ {x})
    BY <1>4 DEF Deliver
  <2>2. tick'.pc = "run"
    BY <2>1, AfterFields DEF AfterIs
  <2>3. agenda'.asked <= now /\ \A c \in Routine, d \in Days : Settled(c, d) => Settled(c, d)'
    BY <2>1, SettledLater
  <2> QED BY <1>1, <1>2, <2>2, <2>3, RoutineKept
<1> QED BY <1>3, <1>4

\* An answer or a mark that is lost.
LEMMA RoutineLost ==
  ASSUME DayInv, DayInv', RoutineInv, LoseMark, told' = told, tick'.pc \in {"idle", "run"},
         UNCHANGED <<now, flags, agenda>>
  PROVE  RoutineInv'
<1>1. told \in [Key -> Nat] /\ lost \in [Key -> Nat]
  BY DEF DayInv, TypeOK
<1>2. \A k \in Key : lost'[k] = IF InFlight(k) THEN lost[k] + 1 ELSE lost[k]
  BY <1>1 DEF LoseMark, InFlight
<1>3. \A c \in Routine, d \in Days : Settled(c, d)' = Settled(c, d)
  BY DEF Settled
<1>4. ASSUME NEW c \in Routine, NEW d \in Days
      PROVE  /\ told[<<c, d>>] <= 1 + lost'[<<c, d>>]
             /\ d >= Today /\ ~Settled(c, d) => told[<<c, d>>] <= lost'[<<c, d>>]
  <2>1. <<c, d>> \in Key /\ told[<<c, d>>] \in Nat /\ lost[<<c, d>>] \in Nat
    BY <1>1, RoutineKeys
  <2>2. told[<<c, d>>] <= 1 + lost[<<c, d>>]
    BY DEF RoutineInv
  <2>3. d >= Today /\ ~Settled(c, d) /\ ~InFlight(<<c, d>>) => told[<<c, d>>] <= lost[<<c, d>>]
    BY DEF RoutineInv
  <2> QED BY <1>2, <2>1, <2>2, <2>3
<1>5. Today' = Today
  BY DEF Today
<1> QED BY <1>3, <1>4, <1>5 DEF RoutineInv

\* Telegram takes a message: it was told no oftener than lost while it was on its way.
LEMMA RoutineAccepted ==
  ASSUME DayInv, DayInv', RoutineInv, Accepted PROVE RoutineInv'
<1>1. /\ tick.pc = "send" /\ tick'.pc = "sent" /\ tick'.at = tick.at /\ tick'.on = tick.on
      /\ UNCHANGED <<lost, now, flags, agenda>> /\ Sending' = Sending
      /\ told' = IF Sending \in Key THEN [told EXCEPT ![Sending] = @ + 1] ELSE told
      /\ told \in [Key -> Nat] /\ lost \in [Key -> Nat]
  <2>1. tick \in TickType
    BY DEF DayInv, TickGood
  <2> QED BY <2>1 DEF Accepted, tables, clock, TickType, Sending, DayInv, TypeOK
<1>2. Today' = Today
  BY <1>1 DEF Today
<1>3. \A c \in Routine, d \in Days : Settled(c, d)' = Settled(c, d)
  BY <1>1 DEF Settled
<1>4. \A k \in Key : ~InFlight(k) /\ (InFlight(k)' <=> k = Sending)
  BY <1>1 DEF InFlight
<1>5. ASSUME NEW c \in Routine, NEW d \in Days
      PROVE  /\ told'[<<c, d>>] <= 1 + lost[<<c, d>>]
             /\ d >= Today /\ ~Settled(c, d) /\ ~InFlight(<<c, d>>)' => told'[<<c, d>>] <= lost[<<c, d>>]
  <2>1. <<c, d>> \in Key /\ told[<<c, d>>] \in Nat /\ lost[<<c, d>>] \in Nat
    BY <1>1, RoutineKeys
  <2>2. CASE <<c, d>> = Sending
    <3>1. Order[tick.at] = c
      BY <2>2 DEF Sending
    <3>2. told[Sending] <= lost[Sending]
      BY <1>1, <3>1 DEF RoutineInv
    <3> QED BY <1>1, <1>4, <2>1, <2>2, <3>2
  <2>3. CASE <<c, d>> # Sending
    <3>1. told'[<<c, d>>] = told[<<c, d>>] /\ ~InFlight(<<c, d>>)
      BY <1>1, <1>4, <2>1, <2>3
    <3> QED BY <3>1 DEF RoutineInv
  <2> QED BY <2>2, <2>3
<1>6. agenda'.asked <= now'
  BY <1>1 DEF RoutineInv
<1>7. Order[tick'.at] \in Routine => tick'.on \in Days /\ tick'.on <= Today'
  BY <1>1, <1>2 DEF RoutineInv
<1> QED BY <1>1, <1>2, <1>3, <1>5, <1>6, <1>7 DEF RoutineInv

\* The call returns: the check is settled for the day the message was about, or that day
\* is over.
LEMMA RoutineReturned ==
  ASSUME DayInv, DayInv', RoutineInv, Returned PROVE RoutineInv'
<1>1. /\ tick.pc = "sent" /\ MarkDelivered(Order[tick.at], tick.on)
      /\ tick' = After(Order[tick.at], tick.due \ {tick.on}) /\ UNCHANGED <<told, lost, now>>
  BY DEF Returned, clock, history
<1>2. tick.at \in 1..10 /\ tick.due \subseteq Reminders
  BY <1>1 DEF DayInv, TickGood, TickType
<1> PICK i \in 1..10 : i = tick.at
  BY <1>2
<1>3. tick'.pc = "run"
  BY <1>1, <1>2, AfterFields DEF AfterIs
<1>4. /\ agenda'.asked <= now /\ Today' = Today /\ now \in Nat
      /\ \A c \in Routine, d \in Days : Settled(c, d) => Settled(c, d)'
      /\ \A d \in Days : d <= Today /\ Order[i] \in Routine => d < Today \/ Settled(Order[i], d)'
  <2>1. Today' = Today
    BY <1>1 DEF Today
  <2>2. now \in Nat
    BY DEF DayInv, TypeOK
  <2> QED BY <1>1, <2>1, <2>2, SettledLater
<1>5. ASSUME NEW c \in Routine, NEW d \in Days, InFlight(<<c, d>>) PROVE d < Today' \/ Settled(c, d)'
  <2>1. Order[i] = c /\ tick.on = d
    BY <1>5 DEF InFlight, Sending
  <2>2. d <= Today
    BY <1>1, <2>1 DEF RoutineInv
  <2>3. d < Today \/ Settled(Order[i], d)'
    BY <1>4, <2>1, <2>2
  <2> QED BY <1>4, <2>1, <2>3
<1>6. \A c \in Routine, d \in Days : InFlight(<<c, d>>) => InFlight(<<c, d>>)' \/ d < Today' \/ Settled(c, d)'
  BY <1>5
<1> QED BY <1>1, <1>3, <1>4, <1>6, RoutineKept

-----------------------------------------------------------------------------
(* Its steps                                                               *)

\* A briefing or wrap-up is generated only on a date it is not settled for.
LEMMA RoutineGenerates ==
  ASSUME DayInv, DayInv', RoutineInv, NEW c \in {"briefing", "wrapup"}, Generate(c)
  PROVE  RoutineInv'
<1>1. PICK i \in {4, 5} : c = Order[i]
  BY OrderValues
<1>2. i \in 1..10 /\ Pos(c) = i /\ tick \in TickType
  BY <1>1, Positions DEF DayInv, TickGood
<1>3. /\ tick'.pc = "gen" /\ tick'.at = i /\ tick'.on = Today
      /\ UNCHANGED <<told, lost, now, flags, agenda>> /\ tick.pc \in {"idle", "run"}
  BY <1>2 DEF Generate, Runs, MayRun, TickType, tables, clock, history
<1>4. ~Settled(c, Today) /\ c \in Routine
  BY DEF Generate, Runs, Wants, Settled, Routine
<1>5. Today \in Days /\ Today \in Nat /\ Today' = Today /\ now \in Nat
  BY <1>3, Clock DEF DayInv, Today
<1>6. told[<<c, Today>>] <= lost[<<c, Today>>]
  BY <1>3, <1>4, <1>5 DEF RoutineInv, InFlight
<1>7. \A e \in Routine, d \in Days : ~InFlight(<<e, d>>)
  BY <1>3 DEF InFlight
<1>8. \A e \in Routine, d \in Days : Settled(e, d) => Settled(e, d)'
  BY <1>3 DEF Settled
<1>9. agenda'.asked <= now'
  BY <1>3 DEF RoutineInv
<1> QED BY <1>1, <1>3, <1>5, <1>6, <1>7, <1>8, <1>9, RoutineKept

\* The agenda asks again a day after its last question, which is on a later date.
LEMMA RoutineAsks ==
  ASSUME DayInv, DayInv', RoutineInv, AskHaveTasks PROVE RoutineInv'
<1>1. /\ tick.pc \in {"idle", "run"} /\ UNCHANGED <<told, lost, now, flags>>
      /\ now >= agenda.asked + Slots
  BY DEF AskHaveTasks, AgendaOpen, MayRun
<1>2. Today \in Days /\ Today \in Nat /\ Today' = Today /\ now \in Nat /\ agenda.asked \in Nat
  BY <1>1, Clock DEF DayInv, Today, TypeOK
<1>3. agenda'.asked \in {agenda.asked, now} /\ agenda.asked <= now
  BY DEF AskHaveTasks, RoutineInv
<1>4. DateOf(agenda.asked) + 1 <= Today /\ DateOf(agenda.asked) \in Nat
  BY <1>1, <1>2, Calendar DEF Today
<1>5. ~Settled("agenda", Today) /\ "agenda" \in Routine
  BY <1>2, <1>4 DEF Settled, Routine
<1>6. told[<<"agenda", Today>>] <= lost[<<"agenda", Today>>]
  BY <1>1, <1>2, <1>5 DEF RoutineInv, InFlight
<1>7. \A e \in Routine, d \in Days : ~InFlight(<<e, d>>)
  BY <1>1 DEF InFlight
<1>8. \A e \in Routine, d \in Days : Settled(e, d) => Settled(e, d)'
  <2>1. DateOf(agenda.asked) <= DateOf(agenda'.asked) /\ DateOf(agenda'.asked) \in Nat
    <3>1. agenda'.asked \in Nat /\ agenda.asked <= agenda'.asked
      BY <1>2, <1>3
    <3> QED BY <1>2, <3>1, Calendar
  <2>2. Days \subseteq Nat
    BY AnchorsAssumption DEF AnchorsAssumption, Days
  <2> QED BY <1>1, <1>4, <2>1, <2>2 DEF Settled
<1>9. agenda'.asked <= now'
  BY <1>1, <1>2, <1>3
<1>10. tick'.pc = "idle" \/ (tick'.pc = "send" /\ tick'.at = 10 /\ tick'.on = Today)
  BY PositionOf DEF AskHaveTasks, Idle
<1>11. Order[10] = "agenda"
  BY OrderValues
<1> QED BY <1>1, <1>2, <1>6, <1>7, <1>8, <1>9, <1>10, <1>11, RoutineKept

\* A nudge of the pool is no message of the routine.
LEMMA RoutineNudges ==
  ASSUME DayInv, DayInv', RoutineInv, PickNudge \/ Nudge PROVE RoutineInv'
<1>1. /\ tick.pc \in {"idle", "run", "gen"} /\ UNCHANGED <<told, lost, now, flags, agenda>>
  BY DEF PickNudge, Nudge, Runs, MayRun, clock, tables, history
<1>2. tick'.pc \in {"gen", "send"} => tick'.at = 9
  <2>1. tick \in TickType
    BY DEF DayInv, TickGood
  <2>2. tick'.pc \in {"gen", "send"} => tick'.at = 9
    BY <2>1, PositionOf DEF PickNudge, Nudge, TickType, After, Idle
  <2> QED BY <2>2
<1>3. tick'.pc # "sent"
  <2>1. tick \in TickType
    BY DEF DayInv, TickGood
  <2> QED BY <2>1 DEF PickNudge, Nudge, After, Idle, TickType
<1>4. Order[9] = "pool" /\ "pool" \notin Routine
  BY OrderValues DEF Routine
<1>5. Today \in Nat /\ Today' = Today /\ now \in Nat
  BY <1>1, Clock DEF DayInv, Today
<1>6. \A e \in Routine, d \in Days : ~InFlight(<<e, d>>)
  BY <1>1 DEF InFlight
<1>7. \A e \in Routine, d \in Days : Settled(e, d) => Settled(e, d)'
  BY <1>1 DEF Settled
<1>8. agenda'.asked <= now'
  BY <1>1 DEF RoutineInv
<1> QED BY <1>1, <1>2, <1>3, <1>4, <1>5, <1>6, <1>7, <1>8, RoutineKept

\* The checks that deliver.
LEMMA RoutineChecks ==
  ASSUME DayInv, DayInv', RoutineInv,
         WakeAlarm \/ EveningNegotiation \/ HealthSweep \/ Remind \/ Generated("briefing") \/ Generated("wrapup")
  PROVE  RoutineInv'
<1>1. UNCHANGED <<told, lost, now>> /\ Today \in Days /\ Today \in Nat
  BY Clock DEF WakeAlarm, EveningNegotiation, HealthSweep, Remind, Generated, clock, DayInv
<1>2. "wake" \notin Routine /\ "evening" \notin Routine /\ "health" \notin Routine /\ "reminders" \notin Routine
  BY DEF Routine
<1>3. tick.due \subseteq Reminders /\ Reminders \subseteq Nat /\ tick \in TickType
  BY DayAssumption DEF DayAssumption, DayInv, TickGood, TickType
<1>4. CASE WakeAlarm
  <2>1. Deliver(Order[3], Today, {}, "critical", DayWindow) /\ tick.pc \in {"idle", "run"}
        /\ Order[3] \notin Routine /\ 3 \in 1..10 /\ {} \in SUBSET Reminders
    BY <1>2, <1>4, OrderValues DEF WakeAlarm, Runs, MayRun
  <2> QED BY <1>1, <1>2, <2>1, RoutineDelivered
<1>5. CASE EveningNegotiation
  <2>1. Deliver(Order[6], Today, {}, "normal", AnyTime) /\ tick.pc \in {"idle", "run"}
        /\ Order[6] \notin Routine /\ 6 \in 1..10 /\ {} \in SUBSET Reminders
    BY <1>2, <1>5, OrderValues DEF EveningNegotiation, Runs, MayRun
  <2> QED BY <1>1, <1>2, <2>1, RoutineDelivered
<1>6. CASE HealthSweep
  <2>1. PICK sev \in {"critical", "normal"} : Deliver(Order[7], 0, {}, sev, DayWindow)
    BY <1>6, OrderValues DEF HealthSweep
  <2>2. tick.pc \in {"idle", "run"}
        /\ Order[7] \notin Routine /\ 7 \in 1..10 /\ {} \in SUBSET Reminders
    BY <1>2, <1>6, OrderValues DEF HealthSweep, MayRun
  <2> QED BY <1>1, <1>2, <2>1, <2>2, RoutineDelivered
<1>7. CASE Remind
  <2>1. PICK r \in tick.due : Deliver(Order[8], r, tick.due, "normal", DayWindow)
    BY <1>7, OrderValues DEF Remind
  <2>2. tick.pc \in {"idle", "run"} /\ Order[8] \notin Routine
    BY <1>2, <1>7, OrderValues DEF Remind, Runs, MayRun
  <2>3. r \in Nat /\ tick.due \in SUBSET Reminders /\ 8 \in 1..10
    <3>1. tick.due \subseteq Reminders /\ Reminders \subseteq Nat
      BY <1>3
    <3>2. r \in Nat
      BY <3>1
    <3>3. tick.due \in SUBSET Reminders
      BY <3>1
    <3> QED BY <3>2, <3>3
  <2> QED BY <1>1, <1>2, <2>1, <2>2, <2>3, RoutineDelivered
<1>8. ASSUME NEW c \in {"briefing", "wrapup"}, Generated(c) PROVE RoutineInv'
  <2>1. PICK i \in {4, 5} : c = Order[i]
    BY OrderValues
  <2>2. i \in 1..10 /\ Pos(c) = i /\ c \in Routine
    BY <2>1, Positions DEF Routine
  <2>3. Deliver(Order[i], tick.on, {}, "normal", AnyTime) /\ tick.pc = "gen" /\ tick.at = i
    BY <1>8, <2>1, <2>2 DEF Generated
  <2>4. tick.on \in Days /\ tick.on <= Today /\ told[<<c, tick.on>>] <= lost[<<c, tick.on>>]
    BY <2>1, <2>2, <2>3 DEF RoutineInv, Sending
  <2>5. tick.on \in Nat
    BY <1>3 DEF TickType
  <2> QED BY <1>1, <2>1, <2>2, <2>3, <2>4, <2>5, RoutineDelivered
<1> QED BY <1>4, <1>5, <1>6, <1>7, <1>8

\* Every step of the day keeps RoutineInv: one case per kind of action.
LEMMA RoutineStep == DayInv /\ RoutineInv /\ [Next]_vars => RoutineInv'
<1> SUFFICES ASSUME DayInv, RoutineInv, [Next]_vars PROVE RoutineInv'
  OBVIOUS
<1>1. DayInv'
  BY DayStep
<1>2. now \in Nat /\ now <= now + 1 /\ agenda \in [ran : Nat, asked : Nat]
      /\ flags \in [{"fired", "proposed", "briefed", "wrapped", "quiet"} -> SUBSET Dates]
  BY DEF DayInv, TypeOK
<1>3. \A c, due : After(c, due).pc = "run"
  BY DEF After, Idle
<1>4. \A c : MayRun(c) => tick.pc \in {"idle", "run"}
  BY DEF MayRun
<1>5. CASE EnsureAnchors \/ CheckSilence \/ EndTick \/ Restart \/ Arrive \/ Read \/ Tap \/ ReminderTool
           \/ UsePool \/ Advance \/ ProposalsExpire \/ UNCHANGED vars
  <2>1. UNCHANGED <<told, lost, flags, agenda>> /\ now' >= now
    BY <1>2, <1>5 DEF EnsureAnchors, CheckSilence, EndTick, Restart, Arrive, Read, Tap, ReminderTool,
       UsePool, Advance, ProposalsExpire, vars, clock, tables, history
  <2>2. tick' = tick \/ (tick'.pc \in {"idle", "run"} /\ tick.pc # "sent")
    BY <1>3, <1>4, <1>5 DEF EnsureAnchors, CheckSilence, EndTick, Restart, Arrive, Read, Tap, ReminderTool,
       UsePool, Advance, ProposalsExpire, vars, Runs, Idle
  <2> QED BY <1>1, <2>1, <2>2, RoutineAside
<1>6. CASE SetMode
  <2>1. UNCHANGED <<told, lost, agenda, tick, now>> /\ flags'.briefed = flags.briefed /\ flags'.wrapped = flags.wrapped
    BY <1>2, <1>6 DEF SetMode, history
  <2>2. now' >= now
    BY <1>2, <2>1
  <2> QED BY <1>1, <2>1, <2>2, RoutineAside
<1>7. CASE FetchReminders
  <2>1. UNCHANGED <<told, lost, agenda, flags, now>> /\ tick'.pc = "run" /\ tick.pc \in {"idle", "run"}
    <3>1. tick \in TickType
      BY DEF DayInv, TickGood
    <3> QED BY <1>4, <1>7, <3>1 DEF FetchReminders, Runs, tables, clock, history, TickType
  <2>2. now' >= now
    BY <1>2, <2>1
  <2> QED BY <1>1, <2>1, <2>2, RoutineAside
<1>8. CASE AgendaIdea
  <2>1. UNCHANGED <<told, lost, flags, now>> /\ agenda'.asked = agenda.asked
        /\ tick'.pc = "idle" /\ tick.pc \in {"idle", "run"}
    BY <1>2, <1>4, <1>8 DEF AgendaIdea, AgendaOpen, history, Idle
  <2>2. now' >= now
    BY <1>2, <2>1
  <2> QED BY <1>1, <2>1, <2>2, RoutineAside
<1>9. CASE SendRaises \/ Crash \/ TornAnswer
  <2>1. LoseMark /\ told' = told /\ UNCHANGED <<now, flags, agenda>> /\ tick'.pc \in {"idle", "run"}
    BY <1>3, <1>9 DEF SendRaises, Crash, TornAnswer, tables, Idle
  <2> QED BY <1>1, <2>1, RoutineLost
<1>10. CASE Check
  BY <1>1, <1>5, <1>7, <1>10, RoutineChecks, RoutineGenerates, RoutineNudges, RoutineAccepted, RoutineReturned
     DEF Check
<1>11. CASE HealthSweep
  BY <1>1, <1>11, RoutineChecks
<1>12. CASE AskHaveTasks
  BY <1>1, <1>12, RoutineAsks
<1> QED BY <1>5, <1>6, <1>8, <1>9, <1>10, <1>11, <1>12 DEF Next

\* Briefing, wrap-up and the agenda's question reach Lin once a date, but for answers or
\* marks that were lost (RoutineOnce), for every number of dates, slots, messages and crashes.
THEOREM RoutineToldOnce == Spec => []RoutineOnce
<1>1. Init => DayInv /\ RoutineInv
  BY DayStarts, RoutineStarts
<1>2. DayInv /\ RoutineInv /\ [Next]_vars => (DayInv /\ RoutineInv)'
  BY DayStep, RoutineStep
<1>3. RoutineInv => RoutineOnce
  BY DEF RoutineInv, RoutineOnce, Routine
<1> QED BY <1>1, <1>2, <1>3, PTL DEF Spec

-----------------------------------------------------------------------------
(* The nudges of a date.  PoolInv: what was sent is covered twice, by the  *)
(* limit and by the rows that count against it; a nudge that is generated  *)
(* is within the limit and will raise the count, one that is on its way    *)
(* already has.  The rows it picked do not count yet: that is where the    *)
(* cadences come in.  The check of the limit is on the local date and the  *)
(* stamp in UTC: that is where the hours of the pool come in.              *)

\* a row _today_nudge_count counts
CountedRow(t) ==
  /\ pool[t].st # "none" /\ pool[t].prio < 5
  /\ pool[t].nudged # Never /\ DateOf(pool[t].nudged) = Today

\* a row that was not marked on the current date
Unnudged(t) == pool[t].nudged = Never \/ DateOf(pool[t].nudged) < Today

\* what the budget rests on
PoolInv ==
  /\ \A t \in PoolTasks :
       /\ pool[t].nudged <= now
       /\ pool[t].st # "none" => pool[t].prio \in Priorities
  /\ nudges.sent <= MaxNudges + nudges.freed
  /\ nudges.sent <= NudgeCount(pool, now) + nudges.freed
  /\ tick.pc = "gen" /\ tick.at = 9 =>
       /\ \A t \in tick.pick : Unnudged(t)
       /\ Slot # 0 \/ tick.began = now =>
            /\ nudges.sent + 1 <= MaxNudges + nudges.freed
            /\ \/ nudges.sent + 1 <= NudgeCount(pool, now) + nudges.freed
               \/ \E t \in tick.pick : pool[t].st # "none" /\ pool[t].prio < 5
  /\ tick.pc = "send" /\ tick.at = 9 =>
       /\ nudges.sent + 1 <= MaxNudges + nudges.freed
       /\ nudges.sent + 1 <= NudgeCount(pool, now) + nudges.freed
       /\ tick.began = now => Slot + 1 < Slots

\* A set of numbers that is not empty has a least element.
LEMMA Least == ASSUME NEW S, S \subseteq Nat, S # {} PROVE \E n \in S : \A m \in S : n <= m
<1> DEFINE R == OpToRel(<, Nat)
<1>1. IsWellFoundedOn(R, Nat)
  BY NatLessThanWellFounded
<1>2. \A x, y \in Nat : x < y => <<x, y>> \in R
  BY DEF OpToRel
<1> HIDE DEF R
<1>3. \E x \in S : \A y \in S : ~ (<<y, x>> \in R)
  BY <1>1, WFMin
<1>4. PICK x \in S : \A y \in S : ~ (<<y, x>> \in R)
  BY <1>3
<1>5. ASSUME NEW y \in S PROVE x <= y
  <2>1. x \in Nat /\ y \in Nat /\ ~(y < x)
    BY <1>2, <1>4
  <2> QED BY <2>1
<1> QED BY <1>5

\* A number is divided by its quotient and remainder, and no others.
LEMMA Division ==
  ASSUME NEW s \in Nat \ {0}, NEW q \in Nat, NEW r \in 0..s-1
  PROVE  (s * q + r) \div s = q /\ (s * q + r) % s = r
<1> DEFINE x == s * q + r
           p == x \div s
           m == x % s
<1>1. x \in Nat
  OBVIOUS
<1>2. p \in Nat /\ m \in 0..s-1 /\ x = s * p + m
  BY <1>1
<1> HIDE DEF p, m
<1>3. \A a, b \in Nat : a + 1 <= b => s * a + s <= s * b
  <2> TAKE a, b \in Nat
  <2> HAVE a + 1 <= b
  <2>1. PICK k \in Nat : b = a + 1 + k
    <3>1. b - a - 1 \in Nat
      OBVIOUS
    <3> QED BY <3>1
  <2>2. s * b = s * a + s + s * k /\ s * k \in Nat /\ s * a \in Nat
    BY <2>1
  <2> QED BY <2>2
<1>4. s * p \in Nat /\ s * q \in Nat
  BY <1>2
<1>5. ~(p + 1 <= q)
  <2> SUFFICES ASSUME p + 1 <= q PROVE FALSE
    OBVIOUS
  <2>1. s * p + s <= s * q
    BY <1>2, <1>3
  <2> QED BY <1>2, <1>4, <2>1
<1>6. ~(q + 1 <= p)
  <2> SUFFICES ASSUME q + 1 <= p PROVE FALSE
    OBVIOUS
  <2>1. s * q + s <= s * p
    BY <1>2, <1>3
  <2> QED BY <1>2, <1>4, <2>1
<1>7. p = q
  BY <1>2, <1>5, <1>6
<1>8. m = r
  BY <1>2, <1>4, <1>7
<1> QED BY <1>7, <1>8 DEF p, m

\* Date and slot of a moment: the slots before it on its date, and the next one.
LEMMA Slices ==
  ASSUME NEW n \in Nat
  PROVE  /\ DateOf(n) \in Nat /\ SlotOf(n) \in 0..Slots-1 /\ n = Slots * DateOf(n) + SlotOf(n)
         /\ \A m \in Nat : m <= SlotOf(n) => DateOf(n - m) = DateOf(n)
         /\ SlotOf(n) + 1 < Slots => DateOf(n + 1) = DateOf(n)
         /\ SlotOf(n) + 1 = Slots => SlotOf(n + 1) = 0 /\ DateOf(n + 1) = DateOf(n) + 1
         /\ DateOf(n) >= 1 => Slots <= n
<1>0. Slots \in Nat \ {0}
  BY NotifyAssumption DEF NotifyAssumption
<1>1. DateOf(n) \in Nat /\ SlotOf(n) \in 0..Slots-1 /\ n = Slots * DateOf(n) + SlotOf(n)
  BY <1>0 DEF DateOf, SlotOf
<1> DEFINE d == DateOf(n)
           r == SlotOf(n)
<1> HIDE DEF d, r
<1>a. d \in Nat /\ r \in 0..Slots-1 /\ n = Slots * d + r /\ Slots * d \in Nat
  BY <1>0, <1>1 DEF d, r
<1>2. ASSUME NEW m \in Nat, m <= SlotOf(n) PROVE DateOf(n - m) = DateOf(n)
  <2>1. r - m \in 0..Slots-1 /\ n - m = Slots * d + (r - m)
    <3>1. m <= r
      BY <1>2 DEF r
    <3>2. \A x \in Nat : x + r - m = x + (r - m)
      BY <1>a
    <3>3. n - m = Slots * d + (r - m)
      BY <1>a, <3>2
    <3> QED BY <1>0, <1>a, <3>1, <3>3
  <2>2. (Slots * d + (r - m)) \div Slots = d
    BY <1>0, <1>a, <2>1, Division
  <2> QED BY <2>1, <2>2 DEF DateOf, d
<1>3. ASSUME SlotOf(n) + 1 < Slots PROVE DateOf(n + 1) = DateOf(n)
  <2>1. r + 1 \in 0..Slots-1 /\ n + 1 = Slots * d + (r + 1)
    BY <1>0, <1>3, <1>a DEF r
  <2>2. (Slots * d + (r + 1)) \div Slots = d
    BY <1>0, <1>a, <2>1, Division
  <2> QED BY <2>1, <2>2 DEF DateOf, d
<1>4. ASSUME SlotOf(n) + 1 = Slots PROVE SlotOf(n + 1) = 0 /\ DateOf(n + 1) = DateOf(n) + 1
  <2>1. d + 1 \in Nat /\ 0 \in 0..Slots-1 /\ n + 1 = Slots * (d + 1) + 0
    BY <1>0, <1>4, <1>a DEF r
  <2>2. (Slots * (d + 1) + 0) % Slots = 0 /\ (Slots * (d + 1) + 0) \div Slots = d + 1
    BY <1>0, <2>1, Division
  <2> QED BY <2>1, <2>2 DEF SlotOf, DateOf, d
<1>5. DateOf(n) >= 1 => Slots <= n
  BY <1>0, <1>1
<1> QED BY <1>1, <1>2, <1>3, <1>4, <1>5

\* If there is a candidate at all, one is the first: highest priority, oldest, lowest id.
LEMMA FirstCandidate ==
  ASSUME DayInv, Candidates(pool, now) # {}
  PROVE  Primary(pool, now) # {}
<1> DEFINE C == Candidates(pool, now)
           P == {5 - pool[t].prio : t \in C}
<1>1. \A t \in C : /\ t \in PoolTasks /\ t \in Nat /\ pool[t].prio \in 0..5
                   /\ pool[t].created \in Nat
  <2>1. PoolTasks \subseteq Nat /\ Priorities \cup {0} \subseteq 0..5
    BY PoolAssumption DEF PoolAssumption
  <2>2. pool \in [PoolTasks -> PoolRow]
    BY DEF DayInv, TypeOK
  <2>3. \A row \in PoolRow : row.prio \in 0..5 /\ row.created \in Nat
    BY <2>1 DEF PoolRow
  <2>4. C \subseteq PoolTasks
    BY DEF Candidates, DueTasks, Active
  <2> QED BY <2>1, <2>2, <2>3, <2>4
<1> HIDE DEF C
<1>2. PICK i \in P : \A j \in P : i <= j
  <2>1. P \subseteq Nat /\ P # {}
    BY <1>1 DEF C
  <2> QED BY <2>1, Least
<1> DEFINE D == {t \in C : 5 - pool[t].prio = i}
           M == {pool[t].created : t \in D}
<1>3. PICK c \in M : \A d \in M : c <= d
  <2>1. M \subseteq Nat /\ M # {}
    BY <1>1, <1>2
  <2> QED BY <2>1, Least
<1> DEFINE E == {t \in D : pool[t].created = c}
<1>4. PICK t \in E : \A u \in E : t <= u
  <2>1. E \subseteq Nat /\ E # {}
    BY <1>1, <1>3
  <2> QED BY <2>1, Least
<1>5. ASSUME NEW u \in C PROVE Before(pool, t, u)
  <2>1. pool[t].prio >= pool[u].prio
    <3>1. 5 - pool[u].prio \in P /\ 5 - pool[t].prio = i
      BY <1>4
    <3>2. i <= 5 - pool[u].prio
      BY <1>2, <3>1
    <3>3. pool[t].prio \in 0..5 /\ pool[u].prio \in 0..5
      BY <1>1, <1>4
    <3> QED BY <3>1, <3>2, <3>3
  <2>2. pool[t].prio = pool[u].prio => pool[t].created <= pool[u].created
    BY <1>1, <1>3, <1>4
  <2>3. pool[t].prio = pool[u].prio /\ pool[t].created = pool[u].created => t <= u
    BY <1>4
  <2> QED BY <1>1, <1>4, <2>1, <2>2, <2>3 DEF Before
<1> QED BY <1>4, <1>5 DEF Primary, C

\* The rows that count against the limit, by the clock of the moment.
CountedRows == {t \in PoolTasks : CountedRow(t)}

\* The count is a number of rows.
LEMMA CountIs ==
  /\ NudgeCount(pool, now) = Cardinality(CountedRows)
  /\ IsFiniteSet(CountedRows) /\ NudgeCount(pool, now) \in Nat
<1>1. NudgeCount(pool, now) = Cardinality(CountedRows)
  BY DEF NudgeCount, CountedRows, CountedRow, Today
<1>2. IsFiniteSet(CountedRows)
  BY PoolAssumption, FS_Subset DEF PoolAssumption, CountedRows
<1> QED BY <1>1, <1>2, FS_CardinalityType

\* So it is after a step.
LEMMA CountNext ==
  /\ NudgeCount(pool, now)' = Cardinality(CountedRows')
  /\ IsFiniteSet(CountedRows') /\ NudgeCount(pool, now)' \in Nat
<1>1. NudgeCount(pool, now)' = Cardinality(CountedRows')
  BY DEF NudgeCount, CountedRows, CountedRow, Today
<1>2. IsFiniteSet(CountedRows')
  BY PoolAssumption, FS_Subset DEF PoolAssumption, CountedRows
<1> QED BY <1>1, <1>2, FS_CardinalityType

\* A count that loses at most one row, or gets one.
LEMMA OneRow ==
  ASSUME NEW S, NEW T, IsFiniteSet(S), IsFiniteSet(T)
  PROVE  /\ \A t : S \ {t} \subseteq T => Cardinality(S) <= Cardinality(T) + 1
         /\ S \subseteq T => Cardinality(S) <= Cardinality(T)
         /\ \A t : S \subseteq T /\ t \in T /\ t \notin S => Cardinality(S) + 1 <= Cardinality(T)
         /\ Cardinality(S) \in Nat /\ Cardinality(T) \in Nat
<1>0. Cardinality(S) \in Nat /\ Cardinality(T) \in Nat
  BY FS_CardinalityType
<1>1. S \subseteq T => Cardinality(S) <= Cardinality(T)
  BY FS_Subset
<1>2. ASSUME NEW t, S \ {t} \subseteq T PROVE Cardinality(S) <= Cardinality(T) + 1
  <2> DEFINE U == S \ {t}
  <2>1. IsFiniteSet(U) /\ Cardinality(U) = IF t \in S THEN Cardinality(S) - 1 ELSE Cardinality(S)
    BY FS_RemoveElement
  <2>2. Cardinality(U) <= Cardinality(T)
    BY <1>2, FS_Subset
  <2> HIDE DEF U
  <2> QED BY <1>0, <2>1, <2>2
<1>3. ASSUME NEW t, S \subseteq T, t \in T, t \notin S PROVE Cardinality(S) + 1 <= Cardinality(T)
  <2> DEFINE U == S \cup {t}
  <2>1. IsFiniteSet(U) /\ Cardinality(U) = IF t \in S THEN Cardinality(S) ELSE Cardinality(S) + 1
    BY FS_AddElement
  <2>2. Cardinality(U) <= Cardinality(T)
    BY <1>3, FS_Subset
  <2> HIDE DEF U
  <2> QED BY <1>0, <1>3, <2>1, <2>2
<1> QED BY <1>0, <1>1, <1>2, <1>3

\* What the type invariant says of the pool.
LEMMA PoolTypes ==
  ASSUME DayInv
  PROVE  /\ pool \in [PoolTasks -> PoolRow] /\ nudges \in [sent : Nat, freed : Nat]
         /\ nudges.sent \in Nat /\ nudges.freed \in Nat /\ MaxNudges \in Nat /\ now \in Nat
         /\ \A t \in PoolTasks : /\ pool[t].st \in {"none", "active", "done"} /\ pool[t].nudged \in Nat
                                 /\ pool[t].prio \in 0..5 /\ pool[t].created \in Nat
         /\ tick \in TickType /\ tick.pick \subseteq PoolTasks
<1>1. Priorities \cup {0} \subseteq 0..5 /\ MaxNudges \in Nat
  BY PoolAssumption DEF PoolAssumption
<1>2. pool \in [PoolTasks -> PoolRow] /\ nudges \in [sent : Nat, freed : Nat] /\ now \in Nat
      /\ tick \in TickType
  BY DEF DayInv, TypeOK, TickGood
<1>3. \A row \in PoolRow : /\ row.st \in {"none", "active", "done"} /\ row.nudged \in Nat
                           /\ row.prio \in 0..5 /\ row.created \in Nat
  BY <1>1 DEF PoolRow
<1> QED BY <1>1, <1>2, <1>3 DEF TickType

\* PoolInv holds when the process is first started.
LEMMA PoolStarts == Init => PoolInv
<1> SUFFICES ASSUME Init PROVE PoolInv
  OBVIOUS
<1>1. /\ nudges.sent = 0 /\ nudges.freed = 0 /\ tick.pc = "idle" /\ now = FirstSlot
      /\ MaxNudges \in Nat /\ FirstSlot \in Nat
  BY PoolAssumption, Bounds DEF PoolAssumption, Init, Idle
<1>2. \A t \in PoolTasks : pool[t].nudged = 0
  BY DEF Init, NewRow, Never
<1>3. \A t \in PoolTasks : pool[t].prio \in Priorities
  BY DEF Init, NewRow
<1> QED BY <1>1, <1>2, <1>3, CountIs DEF PoolInv

\* A step that neither touches the table nor puts a nudge on its way.
LEMMA PoolAside ==
  ASSUME PoolInv, UNCHANGED <<pool, nudges, now>>,
         tick' = tick \/ ~(tick'.pc \in {"gen", "send"} /\ tick'.at = 9)
  PROVE  PoolInv'
<1>1. NudgeCount(pool, now)' = NudgeCount(pool, now)
  BY DEF NudgeCount
<1>2. Slot' = Slot /\ Today' = Today
  BY DEF Slot, Today
<1> QED BY <1>1, <1>2 DEF PoolInv, Unnudged

\* A nudge is picked: there is room, and none of its rows counts yet.
LEMMA PickPool ==
  ASSUME DayInv, PoolInv, PickNudge
  PROVE  PoolInv'
<1>0. /\ UNCHANGED <<pool, nudges, now>> /\ tick'.pc = "gen" /\ tick'.at = 9
      /\ tick'.pick = Primary(pool, now) \cup Piggyback(pool, now)
      /\ NudgeCount(pool, now) < MaxNudges /\ Candidates(pool, now) # {}
  BY PositionOf, PoolTypes DEF PickNudge, tables, history, clock, Runs, Wants, BudgetLeft, TickType
<1>1. NudgeCount(pool, now)' = NudgeCount(pool, now) /\ Slot' = Slot /\ Today' = Today
  BY <1>0 DEF NudgeCount, Slot, Today
<1>2. ASSUME NEW t \in DueTasks(pool, now), pool[t].prio <= 3 \/ pool[t].prio = 5
      PROVE  Unnudged(t) /\ t \in PoolTasks
  <2>1. t \in PoolTasks /\ pool[t].st = "active" /\ IsDue(pool[t], now)
    BY DEF DueTasks, Active
  <2>2. pool[t].prio \in Priorities /\ pool[t].nudged <= now /\ pool[t].nudged \in Nat /\ now \in Nat
        /\ pool[t].prio \in 1..5
    BY <2>1, PoolTypes, PoolAssumption DEF PoolInv, PoolAssumption
  <2>3. CASE pool[t].prio = 5
    BY <2>1, <2>3 DEF IsDue, Unnudged, Today
  <2>4. CASE pool[t].prio <= 3 /\ pool[t].nudged # Never
    <3>1. CadenceDays[pool[t].prio] \in Nat /\ CadenceDays[pool[t].prio] >= 1
      BY <2>2, <2>4, PoolAssumption, PoolConfig DEF PoolConfig, PoolAssumption
    <3>2. now - pool[t].nudged >= CadenceDays[pool[t].prio] * Slots
      BY <2>1, <2>2, <2>4 DEF IsDue
    <3>3. Slots \in Nat \ {0}
      BY NotifyAssumption DEF NotifyAssumption
    <3>4. CadenceDays[pool[t].prio] * Slots >= Slots
      <4>1. PICK k \in Nat : CadenceDays[pool[t].prio] = k + 1
        <5>1. CadenceDays[pool[t].prio] - 1 \in Nat
          BY <3>1
        <5> QED BY <3>1, <5>1
      <4>2. (k + 1) * Slots = k * Slots + Slots /\ k * Slots \in Nat
        BY <3>3
      <4> QED BY <3>3, <4>1, <4>2
    <3>5. pool[t].nudged + Slots <= now
      <4> DEFINE x == CadenceDays[pool[t].prio] * Slots
                 y == pool[t].nudged
      <4>1. x \in Nat
        BY <3>1, <3>3
      <4> HIDE DEF x
      <4> QED BY <2>2, <3>2, <3>3, <3>4, <4>1 DEF x
    <3>6. DateOf(pool[t].nudged) + 1 <= DateOf(now) /\ DateOf(pool[t].nudged) \in Nat /\ DateOf(now) \in Nat
      BY <2>2, <3>5, Calendar
    <3> QED BY <2>1, <3>6 DEF Unnudged, Today
  <2>5. CASE pool[t].nudged = Never
    BY <2>1, <2>5 DEF Unnudged
  <2> QED BY <1>2, <2>3, <2>4, <2>5
<1>3. \A t \in tick'.pick : Unnudged(t) /\ t \in PoolTasks
  <2>1. \A t \in tick'.pick : t \in DueTasks(pool, now) /\ (pool[t].prio <= 3 \/ pool[t].prio = 5)
    BY <1>0 DEF Primary, Piggyback, Candidates
  <2> QED BY <1>2, <2>1
<1>4. PICK p \in Primary(pool, now) : TRUE
  BY <1>0, FirstCandidate
<1>5. p \in tick'.pick /\ pool[p].st # "none" /\ pool[p].prio < 5
  <2>1. p \in PoolTasks /\ pool[p].st = "active" /\ pool[p].prio <= 3
    BY DEF Primary, Candidates, DueTasks, Active
  <2>2. pool[p].prio \in 0..5
    BY <2>1, PoolTypes
  <2> QED BY <1>0, <2>1, <2>2
<1>6. nudges.sent + 1 <= MaxNudges + nudges.freed
  <2>1. nudges.sent <= NudgeCount(pool, now) + nudges.freed
    BY DEF PoolInv
  <2> QED BY <1>0, <2>1, CountIs, PoolTypes
<1>7. \A t \in PoolTasks : Unnudged(t)' <=> Unnudged(t)
  BY <1>0, <1>1 DEF Unnudged
<1> QED BY <1>0, <1>1, <1>3, <1>5, <1>6, <1>7 DEF PoolInv

\* The marks: no count goes down, and within the window a row that still
\* counts is counted from now on.
LEMMA MarkPool ==
  ASSUME DayInv, PoolInv, Nudge
  PROVE  PoolInv'
<1>0. /\ UNCHANGED <<nudges, now>> /\ tick.pc = "gen" /\ tick.at = 9
      /\ pool' = MarkNudged(pool, tick.pick, now)
      /\ \/ Allowed("low", PoolWindow) /\ tick' = [tick EXCEPT !.pc = "send"]
         \/ tick'.pc = "run"
  BY PositionOf DEF Nudge, history, clock, After, Idle
<1>1. now \in Nat /\ UtcLag \in Nat /\ now - UtcLag \in Nat /\ Slots \in Nat \ {0} /\ Today' = Today
      /\ Slot' = Slot /\ UtcLag <= now
  BY <1>0, Clock DEF DayInv, Today, Slot
<1>2. \A t \in PoolTasks :
        pool'[t] = IF t \in tick.pick /\ pool[t].st # "none"
                     THEN [pool[t] EXCEPT !.nudged = now - UtcLag] ELSE pool[t]
  BY <1>0 DEF MarkNudged
<1>3. \A t \in PoolTasks : /\ pool'[t].st = pool[t].st /\ pool'[t].prio = pool[t].prio
                           /\ pool'[t].nudged = IF t \in tick.pick /\ pool[t].st # "none"
                                                  THEN now - UtcLag ELSE pool[t].nudged
  <2> SUFFICES ASSUME NEW t \in PoolTasks
               PROVE  /\ pool'[t].st = pool[t].st /\ pool'[t].prio = pool[t].prio
                      /\ pool'[t].nudged = IF t \in tick.pick /\ pool[t].st # "none"
                                             THEN now - UtcLag ELSE pool[t].nudged
    OBVIOUS
  <2>1. pool[t] \in PoolRow
    BY PoolTypes
  <2> QED BY <1>1, <1>2, <2>1 DEF PoolRow
<1>4. CountedRows \subseteq CountedRows'
  <2> SUFFICES ASSUME NEW t \in PoolTasks, CountedRow(t) PROVE CountedRow(t)'
    BY DEF CountedRows
  <2>1. t \notin tick.pick
    <3>1. ~Unnudged(t)
      <4>1. pool[t].nudged # Never /\ DateOf(pool[t].nudged) = Today /\ Today \in Nat
        BY <1>1, Calendar DEF CountedRow, Today
      <4> QED BY <4>1 DEF Unnudged
    <3> QED BY <1>0, <3>1 DEF PoolInv
  <2> QED BY <1>1, <1>3, <2>1 DEF CountedRow
<1>5. \A t \in PoolTasks : pool'[t].nudged <= now' /\ (pool'[t].st # "none" => pool'[t].prio \in Priorities)
  <2>1. \A t \in PoolTasks : pool[t].nudged <= now /\ (pool[t].st # "none" => pool[t].prio \in Priorities)
    BY DEF PoolInv
  <2>2. now - UtcLag <= now
    BY <1>1
  <2> QED BY <1>0, <1>3, <2>1, <2>2
<1>6. NudgeCount(pool, now) <= NudgeCount(pool, now)' /\ NudgeCount(pool, now)' \in Nat
      /\ NudgeCount(pool, now) \in Nat /\ IsFiniteSet(CountedRows) /\ IsFiniteSet(CountedRows)'
      /\ NudgeCount(pool, now) = Cardinality(CountedRows)
      /\ NudgeCount(pool, now)' = Cardinality(CountedRows')
  <2>1. /\ NudgeCount(pool, now)' = Cardinality(CountedRows') /\ IsFiniteSet(CountedRows')
        /\ NudgeCount(pool, now)' \in Nat
    BY CountNext
  <2> QED BY <1>4, <2>1, CountIs, OneRow
<1>7. nudges.sent <= MaxNudges + nudges.freed /\ nudges.sent <= NudgeCount(pool, now)' + nudges.freed
  <2>1. nudges.sent <= MaxNudges + nudges.freed /\ nudges.sent <= NudgeCount(pool, now) + nudges.freed
    BY DEF PoolInv
  <2> QED BY <1>6, <2>1, PoolTypes
<1>8. ASSUME Allowed("low", PoolWindow)
      PROVE  /\ nudges.sent + 1 <= MaxNudges + nudges.freed
             /\ nudges.sent + 1 <= NudgeCount(pool, now)' + nudges.freed
             /\ Slot + 1 < Slots
  <2>1. Slot \in PoolWindow
    BY <1>8 DEF Allowed, ShouldDeliver, Slot
  <2>2. Slot \in 1..Slots-2 /\ UtcLag <= Slot
    BY <2>1, PoolConfig DEF PoolConfig
  <2>3. Slot # 0 /\ Slot + 1 < Slots
    BY <1>1, <2>2
  <2>4. DateOf(now - UtcLag) = Today /\ now - UtcLag # Never
    <3>1. DateOf(now - UtcLag) = Today
      BY <1>1, <2>2, Slices DEF Slot, Today
    <3>2. Slots <= now
      <4>1. DateOf(now) >= 1
        BY Clock DEF DayInv, Days, Today
      <4> QED BY <1>1, <4>1, Slices
    <3>3. UtcLag < Slots
      BY PoolAssumption, <1>1 DEF PoolAssumption
    <3> QED BY <1>1, <3>1, <3>2, <3>3 DEF Never
  <2>5. /\ nudges.sent + 1 <= MaxNudges + nudges.freed
        /\ \/ nudges.sent + 1 <= NudgeCount(pool, now) + nudges.freed
           \/ \E t \in tick.pick : pool[t].st # "none" /\ pool[t].prio < 5
    BY <1>0, <2>3 DEF PoolInv
  <2>6. CASE nudges.sent + 1 <= NudgeCount(pool, now) + nudges.freed
    BY <1>6, <2>3, <2>5, <2>6, PoolTypes
  <2>7. ASSUME NEW t \in tick.pick, pool[t].st # "none", pool[t].prio < 5
        PROVE  nudges.sent + 1 <= NudgeCount(pool, now)' + nudges.freed
    <3>1. t \in PoolTasks
      BY PoolTypes
    <3>2. t \in CountedRows' /\ t \notin CountedRows
      <4>1. CountedRow(t)'
        BY <1>1, <1>3, <2>4, <2>7, <3>1 DEF CountedRow
      <4>2. ~CountedRow(t)
        <5>1. Unnudged(t) /\ Today \in Nat
          BY <1>0, <1>1, Calendar DEF PoolInv, Today
        <5> QED BY <5>1, <1>1, Calendar DEF Unnudged, CountedRow
      <4> QED BY <3>1, <4>1, <4>2 DEF CountedRows
    <3>3. Cardinality(CountedRows) + 1 <= Cardinality(CountedRows')
      BY <1>4, <1>6, <3>2, OneRow
    <3>4. nudges.sent <= NudgeCount(pool, now) + nudges.freed
      BY DEF PoolInv
    <3> QED BY <1>6, <3>3, <3>4, PoolTypes
  <2> QED BY <2>3, <2>5, <2>6, <2>7
<1>9. CASE tick'.pc = "run"
  BY <1>0, <1>5, <1>7, <1>9 DEF PoolInv
<1>10. CASE Allowed("low", PoolWindow) /\ tick' = [tick EXCEPT !.pc = "send"]
  <2>1. tick'.pc = "send" /\ tick'.began = tick.began
    BY <1>10, PoolTypes DEF TickType
  <2> QED BY <1>0, <1>1, <1>5, <1>7, <1>8, <1>10, <2>1 DEF PoolInv
<1> QED BY <1>0, <1>9, <1>10

\* Her tools: a row that leaves the count is one that was freed.
LEMMA UsedPool ==
  ASSUME DayInv, PoolInv, UsePool
  PROVE  PoolInv'
<1> PICK t \in PoolTasks :
      /\ PoolTool(t)
      /\ nudges' = IF pool'[t].st = "none" \/ (pool'[t].prio = 5 /\ pool[t].prio < 5)
                     THEN [nudges EXCEPT !.freed = @ + 1] ELSE nudges
  BY DEF UsePool
<1>0. UNCHANGED <<tick, now>> /\ Today' = Today /\ Slot' = Slot /\ Today \in Nat /\ now \in Nat
  BY PoolTypes, Calendar DEF UsePool, Today, Slot
<1>1. \A u \in PoolTasks \ {t} : pool'[u] = pool[u]
  BY PoolTypes DEF PoolTool
<1>2. /\ pool'[t].nudged = Never \/ pool'[t].nudged = pool[t].nudged
      /\ pool'[t].st # "none" => pool'[t].prio \in Priorities
      /\ pool'[t].st # "none" /\ pool'[t].prio # 5 =>
           pool[t].st = "none" \/ (pool'[t].nudged = pool[t].nudged) \/ pool[t].prio = 5
      /\ pool[t].st # "none" /\ pool'[t].st # "none" => pool'[t].nudged = pool[t].nudged
  <2>1. pool[t] \in PoolRow /\ (pool[t].st # "none" => pool[t].prio \in Priorities)
    BY PoolTypes DEF PoolInv
  <2>2. CASE pool[t].st = "none" /\ \E p \in Priorities : pool' = [pool EXCEPT ![t] = NewRow(p, now)]
    BY <2>2, PoolTypes DEF NewRow
  <2>3. CASE pool[t].st = "active" /\ pool' = [pool EXCEPT ![t].st = "done"]
    <3>1. pool'[t] = [pool[t] EXCEPT !.st = "done"]
      BY <2>3, PoolTypes
    <3> QED BY <2>1, <2>3, <3>1 DEF PoolRow
  <2>6. CASE pool[t].st = "active" /\ pool' = [pool EXCEPT ![t].until = now + Slots]
    <3>1. pool'[t] = [pool[t] EXCEPT !.until = now + Slots]
      BY <2>6, PoolTypes
    <3> QED BY <2>1, <2>6, <3>1 DEF PoolRow
  <2>4. CASE \E p \in Priorities : pool' = [pool EXCEPT ![t].prio = p]
    BY <2>1, <2>4, PoolTypes DEF PoolRow
  <2>5. CASE pool' = [pool EXCEPT ![t] = NoRow]
    BY <2>5, PoolTypes DEF NoRow
  <2> QED BY <2>2, <2>3, <2>4, <2>5, <2>6 DEF PoolTool
<1>3. /\ nudges'.sent = nudges.sent /\ nudges'.sent \in Nat /\ nudges'.freed \in Nat /\ nudges.freed \in Nat
      /\ nudges'.freed = IF pool'[t].st = "none" \/ (pool'[t].prio = 5 /\ pool[t].prio < 5)
                           THEN nudges.freed + 1 ELSE nudges.freed
  BY PoolTypes
<1>4. pool[t].prio \in 0..5 /\ (pool'[t].st # "none" => pool'[t].prio \in 1..5)
  BY <1>2, PoolTypes, PoolAssumption DEF PoolAssumption
<1>5. NudgeCount(pool, now) + nudges.freed <= NudgeCount(pool, now)' + nudges'.freed
      /\ NudgeCount(pool, now) \in Nat /\ NudgeCount(pool, now)' \in Nat
  <2>1. CountedRows \ {t} \subseteq CountedRows'
    BY <1>0, <1>1 DEF CountedRows, CountedRow
  <2>2. CASE nudges'.freed = nudges.freed + 1
    <3>1. Cardinality(CountedRows) <= Cardinality(CountedRows') + 1
      BY <2>1, CountIs, CountNext, OneRow
    <3> QED BY <1>3, <2>2, <3>1, CountIs, CountNext
  <2>3. CASE nudges'.freed = nudges.freed
    <3>1. pool'[t].st # "none" /\ ~(pool'[t].prio = 5 /\ pool[t].prio < 5)
      BY <1>3, <2>3
    <3>2. CountedRow(t) => CountedRow(t)'
      BY <1>0, <1>2, <1>4, <3>1 DEF CountedRow
    <3>3. CountedRows \subseteq CountedRows'
      BY <2>1, <3>2 DEF CountedRows
    <3>4. Cardinality(CountedRows) <= Cardinality(CountedRows')
      BY <3>3, CountIs, CountNext, OneRow
    <3> QED BY <1>3, <2>3, <3>4, CountIs, CountNext
  <2> QED BY <1>3, <2>2, <2>3
<1>6. nudges.freed <= nudges'.freed /\ MaxNudges \in Nat
  BY <1>3, PoolTypes
<1>7. \A u \in PoolTasks : pool'[u].nudged <= now' /\ (pool'[u].st # "none" => pool'[u].prio \in Priorities)
  <2>1. \A u \in PoolTasks : pool[u].nudged <= now /\ (pool[u].st # "none" => pool[u].prio \in Priorities)
    BY DEF PoolInv
  <2>2. pool'[t].nudged <= now'
    BY <1>0, <1>2, <2>1 DEF Never
  <2> QED BY <1>0, <1>1, <1>2, <2>1, <2>2
<1>8. nudges'.sent <= MaxNudges + nudges'.freed /\ nudges'.sent <= NudgeCount(pool, now)' + nudges'.freed
  <2>1. nudges.sent <= MaxNudges + nudges.freed /\ nudges.sent <= NudgeCount(pool, now) + nudges.freed
    BY DEF PoolInv
  <2> QED BY <1>3, <1>5, <1>6, <2>1
<1>9. ASSUME tick.pc = "gen", tick.at = 9
      PROVE  /\ \A u \in tick.pick : Unnudged(u)'
             /\ Slot # 0 \/ tick.began = now =>
                  /\ nudges'.sent + 1 <= MaxNudges + nudges'.freed
                  /\ \/ nudges'.sent + 1 <= NudgeCount(pool, now)' + nudges'.freed
                     \/ \E u \in tick.pick : pool'[u].st # "none" /\ pool'[u].prio < 5
  <2>1. ASSUME NEW u \in tick.pick PROVE Unnudged(u)'
    <3>1. Unnudged(u) /\ u \in PoolTasks
      BY <1>9, PoolTypes DEF PoolInv
    <3> QED BY <1>0, <1>1, <1>2, <3>1 DEF Unnudged
  <2>2. ASSUME Slot # 0 \/ tick.began = now
        PROVE  /\ nudges'.sent + 1 <= MaxNudges + nudges'.freed
               /\ \/ nudges'.sent + 1 <= NudgeCount(pool, now)' + nudges'.freed
                  \/ \E u \in tick.pick : pool'[u].st # "none" /\ pool'[u].prio < 5
    <3>1. /\ nudges.sent + 1 <= MaxNudges + nudges.freed
          /\ \/ nudges.sent + 1 <= NudgeCount(pool, now) + nudges.freed
             \/ \E u \in tick.pick : pool[u].st # "none" /\ pool[u].prio < 5
      BY <1>9, <2>2 DEF PoolInv
    <3>2. nudges'.sent + 1 <= MaxNudges + nudges'.freed
      BY <1>3, <1>6, <3>1
    <3>3. CASE nudges.sent + 1 <= NudgeCount(pool, now) + nudges.freed
      BY <1>3, <1>5, <3>2, <3>3
    <3>4. ASSUME NEW u \in tick.pick, pool[u].st # "none", pool[u].prio < 5
          PROVE  \/ nudges'.sent + 1 <= NudgeCount(pool, now)' + nudges'.freed
                 \/ pool'[u].st # "none" /\ pool'[u].prio < 5
      <4>1. CASE u # t
        BY <1>1, <3>4, <4>1, PoolTypes
      <4>2. CASE u = t /\ pool'[t].st # "none" /\ pool'[t].prio # 5
        BY <1>4, <4>2
      <4>3. CASE u = t /\ (pool'[t].st = "none" \/ pool'[t].prio = 5)
        \* the row is freed, and was not counted
        <5>1. nudges'.freed = nudges.freed + 1
          BY <1>3, <3>4, <4>3
        <5>2. t \notin CountedRows
          <6>1. Unnudged(t)
            BY <1>9, <3>4, <4>3 DEF PoolInv
          <6> QED BY <6>1, <1>0, PoolTypes, Calendar DEF CountedRows, CountedRow, Unnudged
        <5>3. CountedRows \subseteq CountedRows'
          BY <1>0, <1>1, <5>2 DEF CountedRows, CountedRow
        <5>4. Cardinality(CountedRows) <= Cardinality(CountedRows')
          BY <5>3, CountIs, CountNext, OneRow
        <5>5. nudges.sent <= NudgeCount(pool, now) + nudges.freed
          BY DEF PoolInv
        <5> QED BY <1>3, <5>1, <5>4, <5>5, CountIs, CountNext
      <4> QED BY <4>1, <4>2, <4>3
    <3> QED BY <3>1, <3>2, <3>3, <3>4
  <2> QED BY <2>1, <2>2
<1>10. ASSUME tick.pc = "send", tick.at = 9
       PROVE  /\ nudges'.sent + 1 <= MaxNudges + nudges'.freed
              /\ nudges'.sent + 1 <= NudgeCount(pool, now)' + nudges'.freed
              /\ tick.began = now => Slot + 1 < Slots
  <2>1. /\ nudges.sent + 1 <= MaxNudges + nudges.freed
        /\ nudges.sent + 1 <= NudgeCount(pool, now) + nudges.freed
        /\ tick.began = now => Slot + 1 < Slots
    BY <1>10 DEF PoolInv
  <2> QED BY <1>3, <1>5, <1>6, <2>1
<1> QED BY <1>0, <1>7, <1>8, <1>9, <1>10 DEF PoolInv

\* The clock: within a date nothing changes; with the date everything starts
\* over, and no message of the pool is on its way then.
LEMMA PoolAdvances ==
  ASSUME DayInv, PoolInv, Advance
  PROVE  PoolInv'
<1>0. /\ UNCHANGED <<pool, tick>> /\ now' = now + 1 /\ now \in Nat
      /\ tick.pc = "idle" \/ (tick.pc # "run" /\ tick.began = now)
      /\ nudges' = IF DateOf(now + 1) # Today THEN [sent |-> 0, freed |-> 0] ELSE nudges
      /\ Slots \in Nat \ {0} /\ Today' = DateOf(now + 1) /\ Slot' = SlotOf(now + 1)
      /\ Slot \in 0..Slots-1
  BY PoolTypes, Slices, NotifyAssumption DEF NotifyAssumption, Advance, Today, Slot
<1>1. \A t \in PoolTasks : pool'[t].nudged <= now' /\ (pool'[t].st # "none" => pool'[t].prio \in Priorities)
  <2>1. \A t \in PoolTasks : pool[t].nudged <= now /\ pool[t].nudged \in Nat
                             /\ (pool[t].st # "none" => pool[t].prio \in Priorities)
    BY PoolTypes DEF PoolInv
  <2> QED BY <1>0, <2>1
<1>2. Today \in Nat /\ Today' \in Nat /\ Today <= Today'
  BY <1>0, Calendar DEF Today
<1>3. tick.began # now'
  \/ tick.pc = "idle"
  BY <1>0
<1>4. \A t \in PoolTasks : Unnudged(t) => Unnudged(t)'
  <2> SUFFICES ASSUME NEW t \in PoolTasks, Unnudged(t) PROVE Unnudged(t)'
    OBVIOUS
  <2>1. DateOf(pool[t].nudged) \in Nat
    BY PoolTypes, Calendar
  <2>2. pool'[t].nudged = pool[t].nudged
    BY <1>0
  <2> QED BY <1>2, <2>1, <2>2 DEF Unnudged
<1>5. CASE Slot + 1 < Slots
  <2>1. Today' = Today /\ nudges' = nudges
    BY <1>0, <1>5, Slices DEF Today, Slot
  <2>2. NudgeCount(pool, now)' = NudgeCount(pool, now)
    BY <1>0, <2>1 DEF NudgeCount, Today
  <2>3. \A t \in tick.pick : t \in PoolTasks
    BY PoolTypes
  <2> QED BY <1>0, <1>1, <1>3, <1>4, <2>1, <2>2, <2>3 DEF PoolInv
<1>6. CASE Slot + 1 = Slots
  <2>1. Slot' = 0
    BY <1>0, <1>6, Slices DEF Slot
  <2>2. nudges'.sent <= MaxNudges + nudges'.freed /\ nudges'.sent <= NudgeCount(pool, now)' + nudges'.freed
    <3>1. CASE nudges' = nudges
      <4>1. DateOf(now + 1) # Today
        BY <1>0, <1>2, <1>6, Slices DEF Slot, Today
      <4>2. nudges' = [sent |-> 0, freed |-> 0]
        BY <1>0, <4>1
      <4> QED BY <4>2, CountNext, PoolTypes
    <3>2. CASE nudges' = [sent |-> 0, freed |-> 0]
      BY <3>2, CountNext, PoolTypes
    <3> QED BY <1>0, <3>1, <3>2
  <2>3. ~(tick.pc = "send" /\ tick.at = 9)
    BY <1>0, <1>6 DEF PoolInv
  <2>4. \A t \in tick.pick : t \in PoolTasks
    BY PoolTypes
  <2> QED BY <1>0, <1>1, <1>3, <1>4, <2>1, <2>2, <2>3, <2>4 DEF PoolInv
<1> QED BY <1>0, <1>5, <1>6

\* Telegram takes a nudge: the count was raised before it was sent.
LEMMA PoolAccepted == ASSUME DayInv, PoolInv, Accepted PROVE PoolInv'
<1>0. /\ UNCHANGED <<pool, now>> /\ tick.pc = "send" /\ tick'.pc = "sent"
      /\ nudges' = IF Order[tick.at] = "pool" THEN [nudges EXCEPT !.sent = @ + 1] ELSE nudges
      /\ tick.at \in 1..10
  BY PoolTypes DEF Accepted, clock, tables, TickType, DayInv, TickGood
<1>1. Order[tick.at] = "pool" <=> tick.at = 9
  BY <1>0, Names
<1>2. NudgeCount(pool, now)' = NudgeCount(pool, now)
  BY <1>0 DEF NudgeCount
<1>3. /\ nudges'.freed = nudges.freed
      /\ nudges'.sent = IF tick.at = 9 THEN nudges.sent + 1 ELSE nudges.sent
  BY <1>0, <1>1, PoolTypes
<1> QED BY <1>0, <1>2, <1>3 DEF PoolInv

\* A check that delivers is not that of the pool.
LEMMA PoolDelivers ==
  ASSUME PoolInv, NEW i \in 1..10 \ {9}, NEW x, NEW due, NEW sev, NEW window,
         Deliver(Order[i], x, due, sev, window), UNCHANGED <<pool, nudges, now>>
  PROVE  PoolInv'
<1>1. CASE Allowed(sev, window)
  <2>1. tick'.at = i
    BY <1>1, Positions DEF Deliver, Submit
  <2> QED BY <2>1, PoolAside
<1>2. CASE ~Allowed(sev, window)
  <2>1. tick'.pc = "run"
    BY <1>2 DEF Deliver, After, Idle
  <2> QED BY <2>1, PoolAside
<1> QED BY <1>1, <1>2

\* The checks that deliver, one by one.
LEMMA PoolChecks ==
  ASSUME PoolInv,
         WakeAlarm \/ EveningNegotiation \/ HealthSweep \/ Remind
           \/ \E c \in {"briefing", "wrapup"} : Generated(c)
  PROVE  PoolInv'
<1>1. UNCHANGED <<pool, nudges, now>>
  BY DEF WakeAlarm, EveningNegotiation, HealthSweep, Remind, Generated, clock
<1>2. PICK i \in 1..10 \ {9} : \E x, due, sev, window : Deliver(Order[i], x, due, sev, window)
  <2>1. CASE WakeAlarm
    <3>1. Deliver(Order[3], Today, {}, "critical", DayWindow) /\ 3 \in 1..10 \ {9}
      BY <2>1, OrderValues DEF WakeAlarm
    <3> QED BY <3>1
  <2>2. CASE EveningNegotiation
    <3>1. Deliver(Order[6], Today, {}, "normal", AnyTime) /\ 6 \in 1..10 \ {9}
      BY <2>2, OrderValues DEF EveningNegotiation
    <3> QED BY <3>1
  <2>3. CASE HealthSweep
    <3>1. PICK sev \in {"critical", "normal"} : Deliver(Order[7], 0, {}, sev, DayWindow)
      BY <2>3, OrderValues DEF HealthSweep
    <3>2. 7 \in 1..10 \ {9}
      OBVIOUS
    <3> QED BY <3>1, <3>2
  <2>4. CASE Remind
    <3>1. PICK r \in tick.due : Deliver(Order[8], r, tick.due, "normal", DayWindow)
      BY <2>4, OrderValues DEF Remind
    <3>2. 8 \in 1..10 \ {9}
      OBVIOUS
    <3> QED BY <3>1, <3>2
  <2>5. ASSUME NEW c \in {"briefing", "wrapup"}, Generated(c)
        PROVE  \E i \in 1..10 \ {9} : \E x, due, sev, window : Deliver(Order[i], x, due, sev, window)
    <3>1. PICK i \in {4, 5} : c = Order[i]
      BY OrderValues
    <3>2. Deliver(Order[i], tick.on, {}, "normal", AnyTime) /\ i \in 1..10 \ {9}
      BY <2>5, <3>1 DEF Generated
    <3> QED BY <3>2
  <2> QED BY <2>1, <2>2, <2>3, <2>4, <2>5
<1> QED BY <1>1, <1>2, PoolDelivers

\* Every step of the day keeps PoolInv: one case per kind of action.
LEMMA PoolStep == DayInv /\ PoolInv /\ [Next]_vars => PoolInv'
<1> SUFFICES ASSUME DayInv, PoolInv, [Next]_vars PROVE PoolInv'
  OBVIOUS
<1>1. \A c, due : After(c, due).pc = "run"
  BY DEF After, Idle
<1>2. tick \in TickType
  BY PoolTypes
<1>3. CASE EnsureAnchors \/ CheckSilence \/ EndTick \/ FetchReminders \/ AgendaIdea \/ AskHaveTasks
           \/ Returned \/ SendRaises \/ Crash \/ TornAnswer
  <2>1. UNCHANGED <<pool, nudges, now>>
    BY <1>3 DEF EnsureAnchors, CheckSilence, EndTick, FetchReminders, AgendaIdea, AskHaveTasks,
       Returned, SendRaises, Crash, TornAnswer, clock, tables, history
  <2>2. ~(tick'.pc \in {"gen", "send"} /\ tick'.at = 9)
    <3>1. CASE FetchReminders
      BY <1>2, <3>1 DEF FetchReminders, TickType
    <3>2. CASE AskHaveTasks
      BY <3>2, PositionOf DEF AskHaveTasks, Idle
    <3>3. CASE EnsureAnchors \/ CheckSilence \/ Returned \/ SendRaises \/ Crash \/ TornAnswer \/ EndTick \/ AgendaIdea
      BY <1>1, <3>3 DEF EnsureAnchors, CheckSilence, Returned, SendRaises, Crash, TornAnswer, EndTick, AgendaIdea, Idle
    <3> QED BY <1>3, <3>1, <3>2, <3>3
  <2> QED BY <2>1, <2>2, PoolAside
<1>4. CASE Restart \/ Arrive \/ Read \/ Tap \/ SetMode \/ ReminderTool \/ ProposalsExpire \/ UNCHANGED vars
  <2>1. UNCHANGED <<pool, nudges, now, tick>>
    BY <1>4 DEF Restart, Arrive, Read, Tap, SetMode, ReminderTool, ProposalsExpire, vars, clock, tables, history
  <2> QED BY <2>1, PoolAside
<1>5. ASSUME NEW c \in {"briefing", "wrapup"}, Generate(c) PROVE PoolInv'
  <2>1. UNCHANGED <<pool, nudges, now>>
    BY <1>5 DEF Generate, clock, tables, history
  <2>2. tick'.at # 9
    BY <1>2, <1>5, PositionOf DEF Generate, TickType
  <2> QED BY <2>1, <2>2, PoolAside
<1>6. CASE Check
  BY <1>3, <1>5, <1>6, PoolChecks, PickPool, MarkPool, PoolAccepted DEF Check
<1> QED BY <1>3, <1>4, <1>6, PoolChecks, UsedPool, PoolAdvances DEF Next

\* Lin gets no more pool nudges a day than the limit, but for rows that left the
\* count (PoolBudget), whatever is sent, lost or done to the table meanwhile.
THEOREM PoolWithinBudget == Spec => []PoolBudget
<1>1. Init => DayInv /\ PoolInv
  BY DayStarts, PoolStarts
<1>2. DayInv /\ PoolInv /\ [Next]_vars => (DayInv /\ PoolInv)'
  BY DayStep, PoolStep
<1>3. PoolInv => PoolBudget
  BY DEF PoolInv, PoolBudget
<1> QED BY <1>1, <1>2, <1>3, PTL DEF Spec
=============================================================================
