------------------------------ MODULE Launcher ------------------------------
(***************************************************************************)
(* launcher.py and what it supervises.  The launcher looks at its children *)
(* one after another (it sleeps before each restart), so they go on dying  *)
(* and working in the middle of a pass.  Of the agent only its chat        *)
(* sessions and its two exit timers matter here; AgentCore has the rest.   *)
(***************************************************************************)
EXTENDS Naturals, Sequences, FiniteSets

CONSTANTS
  Agent,         \* the telegram process
  Processes,     \* PROCESSES, in order
  Chats,         \* chat-origin sessions
  MaxRestarts,   \* MAX_RESTARTS
  MaxFaults      \* bound: unexpected deaths, SIGTERMs and failed checks

Children == {Processes[i] : i \in DOMAIN Processes}

ASSUME LauncherAssumption ==
  /\ Processes \in Seq(Children) /\ Agent \in Children
  /\ MaxRestarts \in Nat \ {0} /\ MaxFaults \in Nat

VARIABLES
  child,         \* poll(): running, or how it ended
  restarts,      \* unexpected deaths since the last reset
  failed,        \* given up
  pending,       \* pending_update
  super,         \* the launcher: pc, position in a pass, update seen in it
  chat,          \* chat sessions that are 'active' in the database
  timers,        \* exits the agent's tools have scheduled
  booted,        \* has the agent been through recover_after_crash?
  clean,         \* agent_state.clean_shutdown
  cut,           \* history: sessions active when the last orderly stop began or ended
  faults

vars == <<child, restarts, failed, pending, super, chat, timers, booted, clean, cut, faults>>
agentVars  == <<chat, timers, booted, clean>>
countVars  == <<restarts, failed, pending>>

Exits  == {"restart", "update"}             \* exit codes 42 and 43
Asleep == [pc |-> "sleep", at |-> 1, found |-> FALSE]

Fault == faults < MaxFaults /\ faults' = faults + 1

Init ==
  /\ child = [p \in Children |-> "up"]
  /\ restarts = [p \in Children |-> 0]
  /\ failed = {} /\ pending = FALSE
  /\ super = Asleep
  /\ chat = {} /\ timers = {} /\ booted = FALSE
  /\ clean = FALSE /\ cut = {} /\ faults = 0

-----------------------------------------------------------------------------
(* The agent and the display                                               *)

\* mutant: the recovery leaves the mark of the last orderly stop
BootKeepsMark ==
  /\ child[Agent] = "up" /\ ~booted /\ booted' = TRUE
  /\ chat' = IF clean THEN chat ELSE {}
  /\ UNCHANGED <<child, countVars, super, timers, clean, cut, faults>>

\* recover_after_crash: unless the last end was clean, active chat sessions
\* are paused; the heartbeat it starts with takes the mark back
Boot ==
  /\ child[Agent] = "up" /\ ~booted /\ booted' = TRUE
  /\ chat' = IF clean THEN chat ELSE {}
  /\ clean' = FALSE
  /\ UNCHANGED <<child, countVars, super, timers, cut, faults>>

\* a session starts or is resumed, or it ends, waits or is displaced
Works(s) ==
  /\ booted
  /\ chat' = IF s \in chat THEN chat \ {s} ELSE chat \cup {s}
  /\ UNCHANGED <<child, countVars, super, timers, booted, clean, cut, faults>>

Heartbeat ==
  /\ booted /\ clean /\ clean' = FALSE
  /\ UNCHANGED <<child, countVars, super, chat, timers, booted, cut, faults>>

\* agent_restart and agent_update answer first and exit a second later
Schedules(code) ==
  /\ booted /\ code \notin timers
  /\ timers' = timers \cup {code}
  /\ UNCHANGED <<child, countVars, super, chat, booted, clean, cut, faults>>

AgentExits(code) ==
  /\ code \in timers
  /\ child' = [child EXCEPT ![Agent] = code]
  /\ timers' = {} /\ booted' = FALSE
  /\ UNCHANGED <<countVars, super, chat, clean, cut, faults>>

\* the display asks for its own restart
OtherExits(p) ==
  /\ p # Agent /\ child[p] = "up"
  /\ child' = [child EXCEPT ![p] = "restart"]
  /\ UNCHANGED <<countVars, super, agentVars, cut, faults>>

Dies(p) ==
  /\ Fault /\ child[p] = "up"
  /\ child' = [child EXCEPT ![p] = "dead"]
  /\ IF p = Agent THEN timers' = {} /\ booted' = FALSE ELSE UNCHANGED <<timers, booted>>
  /\ UNCHANGED <<countVars, super, chat, clean, cut>>

-----------------------------------------------------------------------------
(* supervise_tick                                                          *)

InPass == super.pc = "pass" /\ super.at <= Len(Processes)
This   == Processes[super.at]
NextOne(found) == super' = [super EXCEPT !.at = @ + 1, !.found = found]

PassBegins ==
  /\ super.pc = "sleep" /\ ~pending
  /\ super' = [Asleep EXCEPT !.pc = "pass"]
  /\ UNCHANGED <<child, countVars, agentVars, cut, faults>>

LeavesAlone ==
  /\ InPass /\ (This \in failed \/ child[This] = "up")
  /\ NextOne(super.found)
  /\ UNCHANGED <<child, countVars, agentVars, cut, faults>>

\* mutant: an intentional exit is counted as well
RestartsCounting ==
  /\ InPass /\ This \notin failed /\ child[This] = "restart"
  /\ restarts' = [restarts EXCEPT ![This] = @ + 1]
  /\ IF restarts'[This] >= MaxRestarts
       THEN failed' = failed \cup {This} /\ UNCHANGED child
       ELSE child' = [child EXCEPT ![This] = "up"] /\ UNCHANGED failed
  /\ NextOne(super.found)
  /\ UNCHANGED <<pending, agentVars, cut, faults>>

Restarts ==
  /\ InPass /\ This \notin failed /\ child[This] = "restart"
  /\ restarts' = [restarts EXCEPT ![This] = 0]
  /\ child' = [child EXCEPT ![This] = "up"]
  /\ NextOne(super.found)
  /\ UNCHANGED <<failed, pending, agentVars, cut, faults>>

\* mutant: the child is started again while the update waits
SeesUpdateAndStarts ==
  /\ InPass /\ This \notin failed /\ child[This] = "update"
  /\ child' = [child EXCEPT ![This] = "up"]
  /\ NextOne(TRUE)
  /\ UNCHANGED <<countVars, agentVars, cut, faults>>

\* an update is left to main(), the child stays down until then
SeesUpdate ==
  /\ InPass /\ This \notin failed /\ child[This] = "update"
  /\ NextOne(TRUE)
  /\ UNCHANGED <<child, countVars, agentVars, cut, faults>>

\* mutant: given up one death too late
RevivesOnceMore ==
  /\ InPass /\ This \notin failed /\ child[This] = "dead"
  /\ restarts' = [restarts EXCEPT ![This] = @ + 1]
  /\ IF restarts'[This] > MaxRestarts
       THEN failed' = failed \cup {This} /\ UNCHANGED child
       ELSE child' = [child EXCEPT ![This] = "up"] /\ UNCHANGED failed
  /\ NextOne(super.found)
  /\ UNCHANGED <<pending, agentVars, cut, faults>>

\* any other end is counted
Revives ==
  /\ InPass /\ This \notin failed /\ child[This] = "dead"
  /\ restarts' = [restarts EXCEPT ![This] = @ + 1]
  /\ IF restarts'[This] >= MaxRestarts
       THEN failed' = failed \cup {This} /\ UNCHANGED child
       ELSE child' = [child EXCEPT ![This] = "up"] /\ UNCHANGED failed
  /\ NextOne(super.found)
  /\ UNCHANGED <<pending, agentVars, cut, faults>>

\* mutant: what the pass returns is not kept
PassForgets ==
  /\ super.pc = "pass" /\ super.at > Len(Processes)
  /\ super' = Asleep
  /\ UNCHANGED <<child, countVars, agentVars, cut, faults>>

PassEnds ==
  /\ super.pc = "pass" /\ super.at > Len(Processes)
  /\ pending' = (pending \/ super.found)
  /\ super' = Asleep
  /\ UNCHANGED <<child, restarts, failed, agentVars, cut, faults>>

-----------------------------------------------------------------------------
(* main(): the deferred update and the orderly stop                        *)

\* as long as a chat session is active the loop only sleeps again
AllowsUpdate ==
  /\ super.pc = "sleep" /\ pending /\ chat = {}
  /\ super' = [super EXCEPT !.pc = "update"]
  /\ UNCHANGED <<child, countVars, agentVars, cut, faults>>

\* a check that raises (no database) counts as no session
CheckFails ==
  /\ super.pc = "sleep" /\ pending /\ Fault
  /\ super' = [super EXCEPT !.pc = "update"]
  /\ UNCHANGED <<child, countVars, agentVars, cut>>

EndAll ==
  /\ child' = [p \in Children |-> IF child[p] = "up" THEN "dead" ELSE child[p]]
  /\ timers' = {} /\ booted' = FALSE

UpdateStopsAll ==
  /\ super.pc = "update" /\ super' = [super EXCEPT !.pc = "pull"]
  /\ EndAll
  /\ UNCHANGED <<countVars, chat, clean, cut, faults>>

\* mutant: the children are started, what was given up stays given up
UpdateKeepsFailed ==
  /\ super.pc = "pull" /\ super' = Asleep
  /\ pending' = FALSE
  /\ child' = [p \in Children |-> "up"]
  /\ restarts' = [p \in Children |-> 0]
  /\ UNCHANGED <<failed, agentVars, cut, faults>>

UpdateStartsAll ==
  /\ super.pc = "pull" /\ super' = Asleep
  /\ pending' = FALSE
  /\ child' = [p \in Children |-> "up"]
  /\ restarts' = [p \in Children |-> 0]
  /\ failed' = {}
  /\ UNCHANGED <<agentVars, cut, faults>>

\* SIGTERM may come at any point of the loop; the mark is written first (if
\* the database takes it), the children work until they end after it
SigTerm ==
  /\ super.pc \notin {"stopping", "gone"} /\ Fault
  /\ super' = [super EXCEPT !.pc = "stopping"]
  /\ clean' \in {TRUE, clean} /\ cut' = chat
  /\ UNCHANGED <<child, countVars, chat, timers, booted>>

StopsAll ==
  /\ super.pc = "stopping" /\ super' = [super EXCEPT !.pc = "gone"]
  /\ EndAll
  /\ cut' = cut \cup chat
  /\ UNCHANGED <<countVars, chat, clean, faults>>

\* started again from outside
Started ==
  /\ super.pc = "gone" /\ super' = Asleep
  /\ child' = [p \in Children |-> "up"]
  /\ restarts' = [p \in Children |-> 0]
  /\ failed' = {} /\ pending' = FALSE
  /\ UNCHANGED <<agentVars, cut, faults>>

-----------------------------------------------------------------------------
Supervises ==
  \/ PassBegins \/ LeavesAlone \/ Restarts \/ SeesUpdate \/ Revives \/ PassEnds
  \/ AllowsUpdate \/ UpdateStopsAll \/ UpdateStartsAll \/ StopsAll

Runs ==
  \/ Boot \/ Heartbeat
  \/ \E s \in Chats : Works(s)
  \/ \E code \in Exits : Schedules(code) \/ AgentExits(code)
  \/ \E p \in Children : OtherExits(p) \/ Dies(p)

Next == Supervises \/ Runs \/ CheckFails \/ SigTerm \/ Started

Spec == Init /\ [][Next]_vars
FairSpec == Spec /\ WF_vars(Supervises)

-----------------------------------------------------------------------------
\* Types of the variables; a count of deaths never passes MAX_RESTARTS.
TypeOK ==
  /\ child \in [Children -> {"up", "dead"} \cup Exits]
  /\ restarts \in [Children -> 0..MaxRestarts]
  /\ failed \subseteq Children /\ pending \in BOOLEAN
  /\ super \in [pc : {"sleep", "pass", "update", "pull", "stopping", "gone"},
                at : 1..Len(Processes) + 1, found : BOOLEAN]
  /\ chat \subseteq Chats /\ timers \subseteq Exits
  /\ booted \in BOOLEAN /\ clean \in BOOLEAN
  /\ cut \subseteq Chats /\ faults \in 0..MaxFaults

\* What has been given up is exactly what died MAX_RESTARTS times, through
\* intentional restarts and the update that starts everything over.
GivenUpAtLimit == \A p \in Children : p \in failed <=> restarts[p] = MaxRestarts

\* An update that was seen keeps the agent that asked for it down, so nothing
\* runs in it until the update is applied.
UpdateHoldsAgent ==
  /\ pending \/ super.found => child[Agent] = "update" /\ ~booted /\ timers = {}
  /\ super.pc \in {"update", "pull"} => pending

\* Only unexpected deaths make the launcher give a child up, however often it
\* was restarted on purpose in between.
GivesUpOnDeaths ==
  [][\A p \in failed' \ failed : child[p] = "dead"]_vars

\* After a start a session is active only if an orderly stop left it so; every
\* other end of the agent is recognised as a crash and its sessions are paused.
OnlyStopsHide ==
  [][~booted /\ booted' => chat' \subseteq cut]_vars

\* The agent comes back, unless it is given up, the launcher is stopped, or an
\* update waits for a task of Lin's.
AgentReturns ==
  child[Agent] # "up" ~>
    \/ child[Agent] = "up" \/ Agent \in failed
    \/ super.pc = "gone" \/ (pending /\ chat # {})

\* A requested update is applied in the end, as soon as Lin's tasks are over.
UpdateApplied == pending ~> ~pending \/ super.pc = "gone"
=============================================================================
