-------------------------------- MODULE Audit --------------------------------
(***************************************************************************)
(* agent/audit.py: the folder of logs of successful runs, the milestones   *)
(* Lin is told of while it fills up, and the tool that archives and clears *)
(* it.  The threshold is checked on the event loop, the archive is made in *)
(* a tool thread.  What a log says, and the folder of failed runs, is left *)
(* out.                                                                    *)
(***************************************************************************)
EXTENDS Integers, FiniteSets

CONSTANTS
  Milestones,    \* _NOTIFY_MILESTONES
  Archivers,     \* tool threads
  MaxLogs,       \* bound: runs that end well
  MaxAuditCrashes

ASSUME AuditAssumption ==
  /\ Milestones \subseteq Nat \ {0} /\ IsFiniteSet(Milestones)
  /\ MaxLogs \in Nat /\ MaxAuditCrashes \in Nat

VARIABLES
  normal,   \* NORMAL_DIR
  counter,  \* meta audit_last_notified_count
  check,    \* check_normal_threshold, where the event loop is
  archive,  \* per thread: archive_and_clear_normal_logs
  written,  \* runs so far: log names differ
  crashed,  \* crashes so far
  fired,    \* history: how often each milestone was marked since the reset
  peak      \* history: the most logs there were since the reset, those a check
            \* had counted that was under way at the reset included

auditVars == <<normal, counter, check, archive, written, crashed, fired, peak>>

NoCheck   == [at |-> "idle", count |-> 0, mark |-> 0]
NoArchive == [at |-> "idle", files |-> {}]
NoneFired == [m \in Milestones |-> 0]

AuditInit ==
  /\ normal = {} /\ counter = 0 /\ check = NoCheck
  /\ archive = [a \in Archivers |-> NoArchive]
  /\ written = 0 /\ crashed = 0
  /\ fired = NoneFired /\ peak = 0

Higher(n) == IF n > peak THEN n ELSE peak

-----------------------------------------------------------------------------
(* the end of a run without an error *)

\* close: a log that cannot be written is only a warning
CloseLog ==
  /\ check.at = "idle" /\ written < MaxLogs
  /\ written' = written + 1
  /\ normal' \in {normal, normal \cup {written + 1}}
  /\ peak' = Higher(Cardinality(normal'))
  /\ check' = [NoCheck EXCEPT !.at = "count"]
  /\ UNCHANGED <<counter, archive, crashed, fired>>

CountLogs ==
  /\ check.at = "count"
  /\ check' = [check EXCEPT !.at = "load", !.count = Cardinality(normal)]
  /\ UNCHANGED <<normal, counter, archive, written, crashed, fired, peak>>

\* mutant: the milestone that was told last counts as crossed again
CrossedAgain(count) == {m \in Milestones : counter <= m /\ m <= count}

Crossed(count) == {m \in Milestones : counter < m /\ m <= count}

\* the lowest milestone beyond the counter is marked, then told
LoadCounter ==
  /\ check.at = "load"
  /\ \/ Crossed(check.count) = {} /\ check' = NoCheck
     \/ \E m \in Crossed(check.count) :
          /\ \A n \in Crossed(check.count) : m <= n
          /\ check' = [check EXCEPT !.at = "save", !.mark = m]
  /\ UNCHANGED <<normal, counter, archive, written, crashed, fired, peak>>

SaveCounter ==
  /\ check.at = "save"
  /\ counter' = check.mark
  /\ fired' = [fired EXCEPT ![check.mark] = @ + 1]
  /\ check' = NoCheck
  /\ UNCHANGED <<normal, archive, written, crashed, peak>>

\* a folder that cannot be read, or a failed query, which the controller logs
CheckRaises ==
  /\ check.at # "idle" /\ check' = NoCheck
  /\ UNCHANGED <<normal, counter, archive, written, crashed, fired, peak>>

-----------------------------------------------------------------------------
(* logs_archive *)

\* the folder is listed, once, and zipped; a zip that fails ends it
ListAndZip(a) ==
  /\ archive[a].at = "idle" /\ normal # {}
  /\ archive' = [archive EXCEPT ![a] = [at |-> "clearing", files |-> normal]]
  /\ UNCHANGED <<normal, counter, check, written, crashed, fired, peak>>

\* a file that cannot be deleted, or is gone, is only a warning
Unlink(a, f) ==
  /\ archive[a].at = "clearing"
  /\ archive' = [archive EXCEPT ![a].files = @ \ {f}]
  /\ normal' \in {normal, normal \ {f}}
  /\ UNCHANGED <<counter, check, written, crashed, fired, peak>>

ResetCounter(a) ==
  /\ archive[a].at = "clearing" /\ archive[a].files = {}
  /\ archive' = [archive EXCEPT ![a] = NoArchive]
  /\ \/ /\ counter' = 0 /\ fired' = NoneFired
        /\ LET n == Cardinality(normal) IN
             peak' = IF check.at \in {"load", "save"} /\ check.count > n THEN check.count ELSE n
     \/ UNCHANGED <<counter, fired, peak>>
  /\ UNCHANGED <<normal, check, written, crashed>>

\* the process dies; folder and counter stay
AuditCrash ==
  /\ crashed < MaxAuditCrashes /\ crashed' = crashed + 1
  /\ check' = NoCheck /\ archive' = [a \in Archivers |-> NoArchive]
  /\ UNCHANGED <<normal, counter, written, fired, peak>>

AuditNext ==
  \/ CloseLog \/ CountLogs \/ LoadCounter \/ SaveCounter \/ CheckRaises
  \/ \E a \in Archivers :
       \/ ListAndZip(a)
       \/ \E f \in archive[a].files : Unlink(a, f)
       \/ ResetCounter(a)
  \/ AuditCrash

AuditSpec == AuditInit /\ [][AuditNext]_auditVars

-----------------------------------------------------------------------------
AuditTypeOK ==
  /\ normal \subseteq 1..written /\ written \in 0..MaxLogs
  /\ counter \in Milestones \cup {0}
  /\ check \in [at : {"idle", "count", "load", "save"},
                count : 0..MaxLogs, mark : Milestones \cup {0}]
  /\ archive \in [Archivers -> [at : {"idle", "clearing"}, files : SUBSET (1..written)]]
  /\ crashed \in 0..MaxAuditCrashes
  /\ fired \in [Milestones -> Nat] /\ peak \in 0..MaxLogs

\* Between two resets of the counter each milestone is told at most once, and
\* none is marked that no check has counted: the folder held that many logs since
\* the reset, or the check was under way when a thread reset the counter and
\* marks its milestone after it (audit.py:11-13, 131-132; 158).
MilestonesHonest ==
  /\ \A m \in Milestones : fired[m] <= 1
  /\ counter <= peak
=============================================================================
