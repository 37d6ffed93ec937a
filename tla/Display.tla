------------------------------ MODULE Display ------------------------------
(***************************************************************************)
(* display/window.py: what the screen of the mini-PC shows of the tables   *)
(* and of the agent's events, and the requests that reach it.  The draw    *)
(* loop polls tables and flag files; the bus listener is a second thread   *)
(* on the same dictionary.  Of the events only those the controller and    *)
(* the executor publish themselves arrive: sync_publisher is set up in     *)
(* this process alone, so what a tool, a command or the day's tables       *)
(* publish in the agent goes nowhere, and its flag file or the next poll   *)
(* has to carry it.                                                        *)
(***************************************************************************)
EXTENDS Integers, Sequences

CONSTANTS
  Panels,       \* what is loaded anew from time to time: plan, queue, background
  AlarmTaps,    \* _ALARM_TAPS_REQUIRED
  MaxVersions,  \* bound: changes of a panel's table
  MaxNews,      \* bound: changes of sessions, alarm and flags, events, taps, deaths
  MaxWire       \* bound: events under way

ASSUME DisplayAssumption ==
  /\ AlarmTaps \in Nat \ {0}
  /\ MaxVersions \in Nat /\ MaxNews \in Nat /\ MaxWire \in Nat

VARIABLES
  activity,  \* task_sessions: working, waiting for Lin, or neither
  version,   \* the tables behind the panels
  ringing,   \* meta display_alarm_active
  flag,      \* data/.restart_display and data/.sleep_request
  wire,      \* agent events on their way to the listener
  running,   \* is the window's process running?
  state,     \* the dictionary of _run_pygame
  hearing,   \* AgentError: the listener between its two steps
  taking,    \* the sleep request that was read and whose file is still there
  lit,       \* is the output on? xrandr outlives the process
  news

displayVars ==
  <<activity, version, ringing, flag, wire, running, state, hearing, taking, lit, news>>
world == <<activity, version, ringing>>

Activities == {"idle", "thinking", "waiting"}
Requests   == {"on", "off"}
AgentEvents == {"AgentStarted", "AgentError"}

NoFlag == [restart |-> FALSE, sleep |-> "none"]

\* a window that has just started has loaded everything
Fresh ==
  [palette |-> "idle", error |-> "none", alarm |-> FALSE, taps |-> 0,
   asleep |-> FALSE, panels |-> version]

DisplayInit ==
  /\ activity = "idle" /\ version = [p \in Panels |-> 0] /\ ringing = FALSE
  /\ flag = NoFlag /\ wire = <<>> /\ running = TRUE /\ state = Fresh
  /\ hearing = FALSE /\ taking = "none" /\ lit = TRUE /\ news = 0

News == news < MaxNews /\ news' = news + 1

-----------------------------------------------------------------------------
(* the agent *)

SessionsChange ==
  /\ News /\ activity' \in Activities \ {activity}
  /\ UNCHANGED <<version, ringing, flag, wire, running, state, hearing, taking, lit>>

TableChanges(p) ==
  /\ version[p] < MaxVersions /\ version' = [version EXCEPT ![p] = @ + 1]
  /\ UNCHANGED <<activity, ringing, flag, wire, running, state, hearing, taking, lit, news>>

\* day/tick.py
AlarmRings ==
  /\ News /\ ~ringing /\ ringing' = TRUE
  /\ UNCHANGED <<activity, version, flag, wire, running, state, hearing, taking, lit>>

\* an event may be lost on the way
AgentSays(e) ==
  /\ News /\ \/ Len(wire) < MaxWire /\ wire' = Append(wire, e)
             \/ UNCHANGED wire
  /\ UNCHANGED <<world, flag, running, state, hearing, taking, lit>>

\* restart_display
AskRestart ==
  /\ News /\ flag' = [flag EXCEPT !.restart = TRUE]
  /\ UNCHANGED <<world, wire, running, state, hearing, taking, lit>>

\* /sleep_on, /sleep_off: the file holds the last request
AskSleep(request) ==
  /\ News /\ flag' = [flag EXCEPT !.sleep = request]
  /\ UNCHANGED <<world, wire, running, state, hearing, taking, lit>>

-----------------------------------------------------------------------------
(* the listener thread *)

HearStarted ==
  /\ running /\ ~hearing /\ wire # <<>> /\ Head(wire) = "AgentStarted"
  /\ state' = [state EXCEPT !.error = "none"] /\ wire' = Tail(wire)
  /\ UNCHANGED <<world, flag, running, hearing, taking, lit, news>>

\* error_active is set before error_ts: until then the flash is as old as the
\* one before it
HearError ==
  /\ running /\ ~hearing /\ wire # <<>> /\ Head(wire) = "AgentError"
  /\ \E age \in {"new", "old"} : state' = [state EXCEPT !.error = age]
  /\ wire' = Tail(wire) /\ hearing' = TRUE
  /\ UNCHANGED <<world, flag, running, taking, lit, news>>

ErrorHeard ==
  /\ running /\ hearing /\ hearing' = FALSE
  /\ state' = [state EXCEPT !.palette = "error",
                            !.error = IF @ = "none" THEN @ ELSE "new"]
  /\ UNCHANGED <<world, flag, wire, running, taking, lit, news>>

\* _ERROR_FLASH_MAX_SEC
ErrorAges ==
  /\ running /\ state.error = "new"
  /\ state' = [state EXCEPT !.error = "old"]
  /\ UNCHANGED <<world, flag, wire, running, hearing, taking, lit, news>>

-----------------------------------------------------------------------------
(* the draw loop *)

\* _load_plan, _load_queue, _load_bg, each at its own interval
Load(p) ==
  /\ running /\ taking = "none"
  /\ state' = [state EXCEPT !.panels[p] = version[p]]
  /\ UNCHANGED <<world, flag, wire, running, hearing, taking, lit, news>>

\* mutant: a flash stays until the next turn starts
Stays(error) == error

Expired(error) == IF error = "old" THEN "none" ELSE error

\* the palette by the error flash, then by _compute_session_state; then the
\* alarm, by the table and not by the signals of the bus
Polled(s) ==
  LET error == Expired(s.error)
  IN [s EXCEPT !.error = error,
               !.palette = IF error # "none" THEN "error" ELSE activity,
               !.alarm = ringing,
               !.taps = IF ringing /\ ~s.alarm THEN 0 ELSE @]

\* sys.exit(42); the launcher starts it again
RestartSeen ==
  /\ running /\ taking = "none" /\ flag.restart
  /\ flag' = [flag EXCEPT !.restart = FALSE] /\ running' = FALSE
  /\ UNCHANGED <<world, wire, state, hearing, taking, lit, news>>

\* the file is read, ...
SleepSeen ==
  /\ running /\ taking = "none" /\ ~flag.restart /\ flag.sleep # "none"
  /\ taking' = flag.sleep
  /\ UNCHANGED <<world, flag, wire, running, state, hearing, lit, news>>

\* ... and removed, with whatever was written to it meanwhile
SleepTaken ==
  /\ running /\ taking # "none"
  /\ flag' = [flag EXCEPT !.sleep = "none"] /\ taking' = "none"
  /\ state' = [Polled(state) EXCEPT !.asleep = (taking = "on")]
  /\ lit' = IF (taking = "on") = state.asleep THEN lit ELSE (taking = "off")
  /\ UNCHANGED <<world, wire, running, hearing, news>>

Poll ==
  /\ running /\ taking = "none" /\ flag = NoFlag
  /\ state' = Polled(state)
  /\ UNCHANGED <<world, flag, wire, running, hearing, taking, lit, news>>

\* A tap on the alarm.  The last one clears the table, if it can be written.
Tap ==
  /\ News /\ running /\ taking = "none" /\ state.alarm
  /\ IF state.taps + 1 < AlarmTaps
     THEN state' = [state EXCEPT !.taps = @ + 1] /\ UNCHANGED ringing
     ELSE /\ state' = [state EXCEPT !.alarm = FALSE, !.taps = 0]
          /\ ringing' \in {FALSE, ringing}
  /\ UNCHANGED <<activity, version, flag, wire, running, hearing, taking, lit>>

DoubleTap ==
  /\ News /\ running /\ taking = "none" /\ ~state.alarm
  /\ state' = [state EXCEPT !.asleep = ~@] /\ lit' = state.asleep
  /\ UNCHANGED <<world, flag, wire, running, hearing, taking>>

WindowDies ==
  /\ News /\ running /\ running' = FALSE
  /\ UNCHANGED <<world, flag, wire, state, hearing, taking, lit>>

\* launcher.py; a new window is awake, whatever the output is
WindowStarts ==
  /\ ~running /\ running' = TRUE
  /\ state' = Fresh /\ wire' = <<>> /\ hearing' = FALSE /\ taking' = "none"
  /\ UNCHANGED <<world, flag, lit, news>>

AgentActs ==
  \/ SessionsChange
  \/ \E p \in Panels : TableChanges(p)
  \/ AlarmRings
  \/ \E e \in AgentEvents : AgentSays(e)
  \/ AskRestart
  \/ \E request \in Requests : AskSleep(request)

Listens == HearStarted \/ HearError \/ ErrorHeard

Draws == RestartSeen \/ SleepSeen \/ SleepTaken \/ Poll

DisplayNext ==
  \/ AgentActs
  \/ Listens
  \/ Draws
  \/ ErrorAges
  \/ \E p \in Panels : Load(p)
  \/ Tap
  \/ DoubleTap
  \/ WindowDies
  \/ WindowStarts

\* The draw loop runs 30 times a second, the listener has a thread, the
\* intervals pass, and the launcher starts the window again.
DisplayFairness ==
  /\ WF_displayVars(Listens) /\ WF_displayVars(Draws)
  /\ WF_displayVars(ErrorAges) /\ WF_displayVars(WindowStarts)
  /\ \A p \in Panels : WF_displayVars(Load(p))

DisplaySpec == DisplayInit /\ [][DisplayNext]_displayVars /\ DisplayFairness

-----------------------------------------------------------------------------
DisplayTypeOK ==
  /\ activity \in Activities /\ version \in [Panels -> 0..MaxVersions]
  /\ ringing \in BOOLEAN /\ lit \in BOOLEAN /\ hearing \in BOOLEAN /\ running \in BOOLEAN
  /\ flag \in [restart : BOOLEAN, sleep : Requests \cup {"none"}]
  /\ wire \in Seq(AgentEvents) /\ Len(wire) <= MaxWire
  /\ state \in [palette : Activities \cup {"error"}, error : {"none", "new", "old"},
                alarm : BOOLEAN, taps : 0..AlarmTaps-1, asleep : BOOLEAN,
                panels : [Panels -> 0..MaxVersions]]
  /\ taking \in Requests \cup {"none"} /\ news \in 0..MaxNews

Current ==
  /\ running /\ flag = NoFlag
  /\ state.palette = activity /\ state.alarm = ringing /\ state.panels = version

\* Once the agent is quiet the screen comes to show what the tables hold, with
\* no request left over and no error left standing: although events are lost,
\* a flash is heard in two steps beside the draw loop that expires it, a tap
\* clears an alarm it cannot write back, and the window restarts and dies
\* (window.py:267-313, 915-1022).
ScreenCatchesUp == <>[]Current
=============================================================================
