--------------------------- MODULE Launcher_proofs ---------------------------
(***************************************************************************)
(* The launcher's counts and its deferred update, for any children, any    *)
(* limit and any number of faults.                                         *)
(***************************************************************************)
EXTENDS Launcher, TLAPS

(***************************************************************************)
(* UpdateHoldsAgent is not inductive: the pass in which the update is seen *)
(* says nothing about timers that are still to fire.  They die with the    *)
(* agent, only the agent exits with an update, and only a running agent    *)
(* has booted.                                                             *)
(***************************************************************************)
AgentAlive ==
  /\ booted => child[Agent] = "up"
  /\ timers # {} => booted
  /\ \A p \in Children : child[p] = "update" => p = Agent

LauncherInv == TypeOK /\ GivenUpAtLimit /\ AgentAlive /\ UpdateHoldsAgent

\* The position of a pass that has not ended names a child.
LEMMA ThisIsChild ==
  ASSUME TypeOK, InPass
  PROVE  This \in Children /\ super.at \in Nat /\ super.at + 1 \in 1..Len(Processes) + 1
<1>1. super.at \in 1..Len(Processes) + 1 /\ super.at <= Len(Processes)
  BY DEF TypeOK, InPass
<1>2. Len(Processes) \in Nat /\ DOMAIN Processes = 1..Len(Processes)
  BY LauncherAssumption DEF LauncherAssumption
<1>3. super.at \in DOMAIN Processes
  BY <1>1, <1>2
<1> QED BY <1>1, <1>2, <1>3 DEF This, Children

\* A pass starts at the first child, or at once past the last of none.
LEMMA FirstPosition == Len(Processes) \in Nat /\ 1 \in 1..Len(Processes) + 1
<1>1. Len(Processes) \in Nat
  BY LauncherAssumption DEF LauncherAssumption
<1>2. \A n \in Nat : 1 \in 1..n + 1
  OBVIOUS
<1> QED BY <1>1, <1>2

\* The counters start at zero and go up by one below their limits.
LEMMA Counting ==
  /\ 0 \in 0..MaxRestarts /\ 0 \in 0..MaxFaults
  /\ 0 # MaxRestarts
  /\ \A n \in 0..MaxRestarts : n # MaxRestarts => n + 1 \in 0..MaxRestarts
  /\ \A n \in 0..MaxFaults : n < MaxFaults => n + 1 \in 0..MaxFaults
  BY LauncherAssumption DEF LauncherAssumption

\* All children run at the start and nothing is counted.
LEMMA InvInit == Init => LauncherInv
<1> SUFFICES ASSUME Init PROVE LauncherInv
  OBVIOUS
<1>2. TypeOK
  BY FirstPosition, Counting DEF Init, TypeOK, Asleep, Exits
<1> QED
  BY <1>2, LauncherAssumption
  DEF LauncherAssumption, Init, LauncherInv, GivenUpAtLimit, AgentAlive, UpdateHoldsAgent, Asleep

\* What the agent and the display do by themselves.
LEMMA RunsKeepInv == LauncherInv /\ Runs => LauncherInv'
<1> SUFFICES ASSUME LauncherInv, Runs PROVE LauncherInv'
  OBVIOUS
<1> USE LauncherAssumption
    DEF LauncherAssumption, LauncherInv, TypeOK, GivenUpAtLimit, AgentAlive, UpdateHoldsAgent,
        agentVars, countVars, Exits
<1>1. CASE Boot
  BY <1>1 DEF Boot
<1>2. CASE Heartbeat
  BY <1>2 DEF Heartbeat
<1>3. ASSUME NEW s \in Chats, Works(s) PROVE LauncherInv'
  BY <1>3 DEF Works
<1>4. ASSUME NEW code \in Exits, Schedules(code) PROVE LauncherInv'
  BY <1>4 DEF Schedules
<1>5. ASSUME NEW code \in Exits, AgentExits(code) PROVE LauncherInv'
  BY <1>5 DEF AgentExits
<1>6. ASSUME NEW p \in Children, OtherExits(p) PROVE LauncherInv'
  BY <1>6 DEF OtherExits
<1>7. ASSUME NEW p \in Children, Dies(p) PROVE LauncherInv'
  <2>1. TypeOK'
    BY <1>7, Counting DEF Dies, Fault
  <2>2. GivenUpAtLimit'
    BY <1>7 DEF Dies, Fault
  <2>3. AgentAlive'
    BY <1>7 DEF Dies, Fault
  <2>4. UpdateHoldsAgent'
    BY <1>7 DEF Dies, Fault
  <2> QED BY <2>1, <2>2, <2>3, <2>4
<1> QED BY <1>1, <1>2, <1>3, <1>4, <1>5, <1>6, <1>7 DEF Runs

\* One pass over the children.
LEMMA PassKeepsInv ==
  ASSUME LauncherInv,
         PassBegins \/ LeavesAlone \/ Restarts \/ SeesUpdate \/ Revives \/ PassEnds
  PROVE  LauncherInv'
<1> USE LauncherAssumption
    DEF LauncherAssumption, LauncherInv, TypeOK, GivenUpAtLimit, AgentAlive, UpdateHoldsAgent,
        agentVars, countVars, Exits
<1>1. CASE PassBegins
  BY <1>1, FirstPosition DEF PassBegins, Asleep
<1>2. CASE LeavesAlone
  <2>1. TypeOK'
    BY <1>2, ThisIsChild DEF LeavesAlone, NextOne, InPass
  <2>2. GivenUpAtLimit'
    BY <1>2, ThisIsChild DEF LeavesAlone, NextOne, InPass
  <2>3. AgentAlive'
    BY <1>2, ThisIsChild DEF LeavesAlone, NextOne, InPass
  <2>4. UpdateHoldsAgent'
    BY <1>2, ThisIsChild DEF LeavesAlone, NextOne, InPass
  <2> QED BY <2>1, <2>2, <2>3, <2>4
<1>3. CASE Restarts
  <2>1. TypeOK'
    BY <1>3, ThisIsChild, Counting DEF Restarts, NextOne, InPass
  <2>2. GivenUpAtLimit'
    BY <1>3, ThisIsChild DEF Restarts, NextOne, InPass
  <2>3. AgentAlive'
    BY <1>3, ThisIsChild DEF Restarts, NextOne, InPass
  <2>4. UpdateHoldsAgent'
    BY <1>3, ThisIsChild DEF Restarts, NextOne, InPass
  <2> QED BY <2>1, <2>2, <2>3, <2>4
<1>4. CASE SeesUpdate
  <2>1. TypeOK'
    BY <1>4, ThisIsChild DEF SeesUpdate, NextOne, InPass
  <2>2. GivenUpAtLimit'
    BY <1>4, ThisIsChild DEF SeesUpdate, NextOne, InPass
  <2>3. AgentAlive'
    BY <1>4, ThisIsChild DEF SeesUpdate, NextOne, InPass
  <2>4. UpdateHoldsAgent'
    BY <1>4, ThisIsChild DEF SeesUpdate, NextOne, InPass
  <2> QED BY <2>1, <2>2, <2>3, <2>4
<1>5. CASE Revives
  <2>1. TypeOK'
    BY <1>5, ThisIsChild, Counting DEF Revives, NextOne, InPass
  <2>2. GivenUpAtLimit'
    BY <1>5, ThisIsChild DEF Revives, NextOne, InPass
  <2>3. AgentAlive'
    BY <1>5, ThisIsChild DEF Revives, NextOne, InPass
  <2>4. UpdateHoldsAgent'
    BY <1>5, ThisIsChild DEF Revives, NextOne, InPass
  <2> QED BY <2>1, <2>2, <2>3, <2>4
<1>6. CASE PassEnds
  <2>1. TypeOK'
    BY <1>6, FirstPosition DEF PassEnds, Asleep
  <2>2. GivenUpAtLimit'
    BY <1>6, FirstPosition DEF PassEnds, Asleep
  <2>3. AgentAlive'
    BY <1>6, FirstPosition DEF PassEnds, Asleep
  <2>4. UpdateHoldsAgent'
    BY <1>6, FirstPosition DEF PassEnds, Asleep
  <2> QED BY <2>1, <2>2, <2>3, <2>4
<1> QED BY <1>1, <1>2, <1>3, <1>4, <1>5, <1>6

\* The update, the orderly stop and the start after it.
LEMMA MainKeepsInv ==
  ASSUME LauncherInv,
         \/ AllowsUpdate \/ CheckFails \/ UpdateStopsAll \/ UpdateStartsAll
         \/ StopsAll \/ SigTerm \/ Started
  PROVE  LauncherInv'
<1> USE LauncherAssumption
    DEF LauncherAssumption, LauncherInv, TypeOK, GivenUpAtLimit, AgentAlive, UpdateHoldsAgent,
        agentVars, countVars, Exits
<1>1. CASE AllowsUpdate
  BY <1>1 DEF AllowsUpdate
<1>2. CASE UpdateStopsAll
  <2>1. TypeOK'
    BY <1>2 DEF UpdateStopsAll, EndAll
  <2>2. GivenUpAtLimit'
    BY <1>2 DEF UpdateStopsAll, EndAll
  <2>3. AgentAlive'
    BY <1>2 DEF UpdateStopsAll, EndAll
  <2>4. UpdateHoldsAgent'
    BY <1>2 DEF UpdateStopsAll, EndAll
  <2> QED BY <2>1, <2>2, <2>3, <2>4
<1>3. CASE UpdateStartsAll
  <2>1. TypeOK'
    BY <1>3, FirstPosition, Counting DEF UpdateStartsAll, Asleep
  <2>2. GivenUpAtLimit'
    BY <1>3, FirstPosition DEF UpdateStartsAll, Asleep
  <2>3. AgentAlive'
    BY <1>3, FirstPosition DEF UpdateStartsAll, Asleep
  <2>4. UpdateHoldsAgent'
    BY <1>3, FirstPosition DEF UpdateStartsAll, Asleep
  <2> QED BY <2>1, <2>2, <2>3, <2>4
<1>4. CASE StopsAll
  BY <1>4 DEF StopsAll, EndAll
<1>5. CASE SigTerm
  <2>1. TypeOK'
    BY <1>5, Counting DEF SigTerm, Fault
  <2>2. GivenUpAtLimit'
    BY <1>5 DEF SigTerm, Fault
  <2>3. AgentAlive'
    BY <1>5 DEF SigTerm, Fault
  <2>4. UpdateHoldsAgent'
    BY <1>5 DEF SigTerm, Fault
  <2> QED BY <2>1, <2>2, <2>3, <2>4
<1>6. CASE Started
  <2>1. TypeOK'
    BY <1>6, FirstPosition, Counting DEF Started, Asleep
  <2>2. GivenUpAtLimit'
    BY <1>6, FirstPosition DEF Started, Asleep
  <2>3. AgentAlive'
    BY <1>6, FirstPosition DEF Started, Asleep
  <2>4. UpdateHoldsAgent'
    BY <1>6, FirstPosition DEF Started, Asleep
  <2> QED BY <2>1, <2>2, <2>3, <2>4
<1>7. CASE CheckFails
  BY <1>7, Counting DEF CheckFails, Fault
<1> QED BY <1>1, <1>2, <1>3, <1>4, <1>5, <1>6, <1>7

\* Every step of the launcher, the agent and the display keeps it.
LEMMA StepKeepsInv == LauncherInv /\ [Next]_vars => LauncherInv'
<1> SUFFICES ASSUME LauncherInv, [Next]_vars PROVE LauncherInv'
  OBVIOUS
<1>1. CASE UNCHANGED vars
  BY <1>1 DEF vars, LauncherInv, TypeOK, GivenUpAtLimit, AgentAlive, UpdateHoldsAgent
<1>2. CASE Next
  BY <1>2, RunsKeepInv, PassKeepsInv, MainKeepsInv DEF Next, Supervises
<1> QED BY <1>1, <1>2

\* So it always holds.
LEMMA InvHolds == Spec => []LauncherInv
  BY InvInit, StepKeepsInv, PTL DEF Spec

\* Every variable keeps its type and no count passes MAX_RESTARTS.
THEOREM LauncherTypes == Spec => []TypeOK
<1>1. LauncherInv => TypeOK
  BY DEF LauncherInv
<1> QED BY <1>1, InvHolds, PTL

\* failed and restarts agree, whatever the limit: supervise_tick gives up at
\* MAX_RESTARTS and main() resets both.
THEOREM LimitRespected == Spec => []GivenUpAtLimit
<1>1. LauncherInv => GivenUpAtLimit
  BY DEF LauncherInv
<1> QED BY <1>1, InvHolds, PTL

\* From the update being seen until it is applied the agent is down.
THEOREM UpdateHolds == Spec => []UpdateHoldsAgent
<1>1. LauncherInv => UpdateHoldsAgent
  BY DEF LauncherInv
<1> QED BY <1>1, InvHolds, PTL

-----------------------------------------------------------------------------
(* Steps.                                                                  *)

\* Deaths make the launcher give up, intentional exits never do: a restart
\* resets the count, an update is not counted, and only Revives gives up.
THEOREM OnlyDeathsCount == Spec => GivesUpOnDeaths
<1>1. [Next]_vars => (\A p \in failed' \ failed : child[p] = "dead")
  <2> SUFFICES ASSUME [Next]_vars, NEW p \in failed' \ failed PROVE child[p] = "dead"
    OBVIOUS
  <2>1. CASE Revives
    BY <2>1 DEF Revives
  <2>2. CASE failed' = failed \/ failed' = {}
    BY <2>2
  <2> QED
    BY <2>1, <2>2
    DEF Next, vars, countVars, Supervises, Runs, PassBegins, LeavesAlone, Restarts, SeesUpdate,
        PassEnds, AllowsUpdate, UpdateStopsAll, UpdateStartsAll, StopsAll, Boot, Heartbeat, Works,
        Schedules, AgentExits, OtherExits, Dies, CheckFails, SigTerm, Started
<1> QED BY <1>1, PTL DEF Spec, GivesUpOnDeaths

(***************************************************************************)
(* OnlyStopsHide needs to know where the mark of an orderly stop may be    *)
(* believed.  It is written first, and a running agent works on after it:  *)
(* until StopsAll has put what it started into cut, the mark says too much *)
(* - but then the agent is up and past its recovery, or down for good.     *)
(***************************************************************************)
CutInv ==
  /\ clean /\ booted => super.pc = "stopping"
  /\ clean /\ ~booted => chat \subseteq cut \/ (super.pc = "stopping" /\ child[Agent] # "up")
  /\ super.pc = "gone" => child[Agent] # "up"

\* What the agent and the display do.
LEMMA RunsKeepCut == LauncherInv /\ CutInv /\ Runs => CutInv'
<1> SUFFICES ASSUME LauncherInv, CutInv, Runs PROVE CutInv'
  OBVIOUS
<1>0. Agent \in Children /\ child \in [Children -> {"up", "dead"} \cup Exits] /\ AgentAlive
  BY LauncherAssumption DEF LauncherAssumption, LauncherInv, TypeOK
<1>1. CASE Boot
  BY <1>1 DEF Boot, CutInv
<1>2. CASE Heartbeat
  BY <1>2 DEF Heartbeat, CutInv
<1>3. ASSUME NEW s \in Chats, Works(s) PROVE CutInv'
  BY <1>0, <1>3 DEF Works, CutInv
<1>4. ASSUME NEW code \in Exits, Schedules(code) PROVE CutInv'
  BY <1>4 DEF Schedules, CutInv
<1>5. ASSUME NEW code \in Exits, AgentExits(code) PROVE CutInv'
  BY <1>0, <1>5 DEF AgentExits, CutInv, AgentAlive, Exits, countVars
<1>6. ASSUME NEW p \in Children, OtherExits(p) PROVE CutInv'
  BY <1>0, <1>6 DEF OtherExits, CutInv, agentVars
<1>7. ASSUME NEW p \in Children, Dies(p) PROVE CutInv'
  <2>1. CASE p = Agent
    BY <1>0, <1>7, <2>1 DEF Dies, CutInv
  <2>2. CASE p # Agent
    BY <1>0, <1>7, <2>2 DEF Dies, CutInv
  <2> QED BY <2>1, <2>2
<1> QED BY <1>1, <1>2, <1>3, <1>4, <1>5, <1>6, <1>7 DEF Runs

\* What the launcher does.
LEMMA LauncherKeepsCut ==
  ASSUME LauncherInv, CutInv, Supervises \/ CheckFails \/ SigTerm \/ Started
  PROVE  CutInv'
<1>0. Agent \in Children /\ child \in [Children -> {"up", "dead"} \cup Exits] /\ AgentAlive
      /\ super \in [pc : {"sleep", "pass", "update", "pull", "stopping", "gone"},
                     at : 1..Len(Processes) + 1, found : BOOLEAN]
  BY LauncherAssumption DEF LauncherAssumption, LauncherInv, TypeOK
<1>1. CASE super.pc \notin {"stopping", "gone"} /\ super'.pc \notin {"stopping", "gone"}
           /\ UNCHANGED <<chat, clean, cut>> /\ (booted' => booted)
  BY <1>1 DEF CutInv
<1>2. CASE SigTerm
  BY <1>2 DEF SigTerm, CutInv
<1>3. CASE StopsAll
  BY <1>0, <1>3 DEF StopsAll, EndAll, CutInv
<1>4. CASE Started
  BY <1>0, <1>4 DEF Started, CutInv, Asleep, agentVars, AgentAlive
<1>5. CASE PassBegins \/ PassEnds \/ AllowsUpdate \/ CheckFails
  BY <1>0, <1>1, <1>5
  DEF PassBegins, PassEnds, AllowsUpdate, CheckFails, agentVars, Asleep
<1>6. CASE LeavesAlone \/ Restarts \/ SeesUpdate \/ Revives
  BY <1>0, <1>1, <1>6
  DEF LeavesAlone, Restarts, SeesUpdate, Revives, NextOne, InPass, agentVars
<1>7. CASE UpdateStopsAll \/ UpdateStartsAll
  BY <1>0, <1>1, <1>7 DEF UpdateStopsAll, UpdateStartsAll, EndAll, agentVars, Asleep
<1> QED BY <1>2, <1>3, <1>4, <1>5, <1>6, <1>7 DEF Supervises

\* After a start only what an orderly stop left active is active: every other
\* end of the agent is recognised, and its chat sessions are paused.
THEOREM CrashesShow == Spec => OnlyStopsHide
<1>1. Init => CutInv
  BY DEF Init, CutInv, Asleep
<1>2. LauncherInv /\ CutInv /\ [Next]_vars => CutInv'
  <2>1. CutInv /\ UNCHANGED vars => CutInv'
    BY DEF vars, CutInv
  <2> QED BY <2>1, RunsKeepCut, LauncherKeepsCut DEF Next
<1>3. LauncherInv /\ CutInv /\ [Next]_vars => (~booted /\ booted' => chat' \subseteq cut)
  <2> SUFFICES ASSUME LauncherInv, CutInv, [Next]_vars, ~booted, booted'
               PROVE  chat' \subseteq cut
    OBVIOUS
  <2>1. Boot
    BY DEF Next, vars, Supervises, Runs, agentVars, PassBegins, LeavesAlone, Restarts, SeesUpdate,
        Revives, PassEnds, AllowsUpdate, UpdateStopsAll, UpdateStartsAll, StopsAll, EndAll,
        Heartbeat, Works, Schedules, AgentExits, OtherExits, Dies, CheckFails, SigTerm, Started
  <2> QED BY <2>1 DEF Boot, CutInv
<1> QED BY <1>1, <1>2, <1>3, InvHolds, PTL DEF Spec, OnlyStopsHide
=============================================================================
