------------------------------ MODULE MCHouse ------------------------------
(***************************************************************************)
(* The launcher, the bus, the window, the plan of the day, the undo slot   *)
(* and the audit folder for TLC.  The first three meet in a process that   *)
(* ends and is started again, which each has as a step of its own;         *)
(* otherwise they share no state, and each behaviour is one of one part.   *)
(***************************************************************************)
EXTENDS MCLauncher, Bus, Display, DayPlan, Undo, Audit

VARIABLE part

parts == <<vars, busVars, displayVars, planVars, undoVars, auditVars>>

AgentTalks == [c \in Clients |-> IF c = Host THEN 2 ELSE 1]

Habits     == {{1}}
Named      == {<<"notes", "etc">>}

HouseInit ==
  /\ part \in {"launcher", "bus", "window", "plan", "undo", "audit"}
  /\ Init /\ BusInit /\ DisplayInit /\ PlanInit /\ UndoInit /\ AuditInit
  /\ part # "undo" => aged = {} /\ \A p \in Paths : files[p] = Missing

HouseNext ==
  /\ UNCHANGED part
  /\ \/ part = "launcher" /\ Next /\ UNCHANGED <<busVars, displayVars, planVars, undoVars, auditVars>>
     \/ part = "bus" /\ BusNext /\ UNCHANGED <<vars, displayVars, planVars, undoVars, auditVars>>
     \/ part = "window" /\ DisplayNext /\ UNCHANGED <<vars, busVars, planVars, undoVars, auditVars>>
     \/ part = "plan" /\ PlanNext /\ UNCHANGED <<vars, busVars, displayVars, undoVars, auditVars>>
     \/ part = "undo" /\ UndoNext /\ UNCHANGED <<vars, busVars, displayVars, planVars, auditVars>>
     \/ part = "audit" /\ AuditNext /\ UNCHANGED <<vars, busVars, displayVars, planVars, undoVars>>

HouseFairness ==
  /\ WF_vars(part = "launcher" /\ Supervises)
  /\ WF_displayVars(part = "window" /\ Listens)
  /\ WF_displayVars(part = "window" /\ Draws)
  /\ WF_displayVars(part = "window" /\ ErrorAges)
  /\ WF_displayVars(part = "window" /\ WindowStarts)
  /\ \A p \in Panels : WF_displayVars(part = "window" /\ Load(p))

HouseSpec == HouseInit /\ [][HouseNext]_<<part, parts>> /\ HouseFairness

AllTypesOK ==
  TypeOK /\ BusTypeOK /\ DisplayTypeOK /\ PlanTypeOK /\ UndoTypeOK /\ AuditTypeOK
=============================================================================
