----------------------------- MODULE WorkQueue -----------------------------
(***************************************************************************)
(* What the queue of autonomous work promises, whatever sessions, messages *)
(* and crashes do around it: one worker takes one job at a time, none      *)
(* while another is claimed; an attempt that fails is counted, and the job *)
(* is given up after MaxTries counted retries; a crash is not counted.     *)
(* A cancellation takes the claim away, not the job out of the worker's    *)
(* hand.                                                                   *)
(***************************************************************************)
EXTENDS Naturals

CONSTANTS
  Jobs,          \* the rows there may be
  First,         \* those that are there from the start
  NoJob,         \* the empty hand
  MaxTries       \* how many failed attempts are followed by another one

VARIABLES
  status,        \* of every job
  tries,         \* failed attempts of every job
  stage,         \* the worker: free, about to claim, at work
  job            \* what it has in hand

vars == <<status, tries, stage, job>>

Claimed == {j \in Jobs : status[j] = "running"}

Init ==
  /\ status = [j \in Jobs |-> IF j \in First THEN "pending" ELSE "absent"]
  /\ tries = [j \in Jobs |-> 0]
  /\ stage = "free" /\ job = NoJob

InHand(s, j) == stage' = s /\ job' = j
EmptyHand    == InHand("free", NoJob)
Becomes(j, st) == status' = [status EXCEPT ![j] = st]

-----------------------------------------------------------------------------
(* Around the worker *)

Add(j) ==
  /\ status[j] = "absent" /\ Becomes(j, "pending")
  /\ UNCHANGED <<tries, stage, job>>

Cancel(j) ==
  /\ status[j] \in {"pending", "running"} /\ Becomes(j, "cancelled")
  /\ UNCHANGED <<tries, stage, job>>

\* after a crash, at no charge
GiveBack(j) ==
  /\ stage = "free" /\ status[j] = "running" /\ Becomes(j, "pending")
  /\ UNCHANGED <<tries, stage, job>>

-----------------------------------------------------------------------------
(* The worker *)

Pick(j) ==
  /\ stage = "free" /\ Claimed = {} /\ status[j] = "pending"
  /\ InHand("picked", j)
  /\ UNCHANGED <<status, tries>>

\* the claim, with the attempt or before it
Claim ==
  /\ stage = "picked" /\ Becomes(job, "running")
  /\ InHand("work", job) \/ EmptyHand
  /\ UNCHANGED tries

\* the claimed job was interrupted and goes on
GoOn(j) ==
  /\ stage = "free" /\ status[j] = "running"
  /\ InHand("work", j)
  /\ UNCHANGED <<status, tries>>

\* interrupted: displaced, waiting for an answer, dead
LetGo ==
  /\ stage # "free" /\ EmptyHand
  /\ UNCHANGED <<status, tries>>

Finish ==
  /\ stage = "work" /\ Becomes(job, "done") /\ EmptyHand
  /\ UNCHANGED tries

\* an attempt failed: in hand, or while the claimed job waited to go on
Fail(j) ==
  /\ \/ stage = "work" /\ j = job
     \/ stage = "free" /\ status[j] = "running"
  /\ tries' = [tries EXCEPT ![j] = @ + 1]
  /\ Becomes(j, IF tries[j] + 1 > MaxTries THEN "failed" ELSE "pending")
  /\ EmptyHand

Next ==
  \/ \E j \in Jobs : Add(j) \/ Cancel(j) \/ GiveBack(j) \/ Pick(j) \/ GoOn(j) \/ Fail(j)
  \/ Claim \/ LetGo \/ Finish

Spec == Init /\ [][Next]_vars

-----------------------------------------------------------------------------
(* What follows from it. *)

\* A job in hand is a job: the claimed one or one cancelled since; the picked one
\* is still unclaimed, and nothing is claimed beside it.
HandHolds ==
  /\ stage = "free" => job = NoJob
  /\ stage # "free" => job \in Jobs
  /\ stage = "picked" => Claimed = {} /\ status[job] \in {"pending", "cancelled"}
  /\ stage = "work" => status[job] \in {"running", "cancelled"}

\* Never two claims: what is claimed beside a job in hand is that job.
OneJob ==
  /\ \A j, k \in Claimed : j = k
  /\ stage # "free" => Claimed \subseteq {job}

\* A job is given up after MaxTries counted retries and one attempt more, not
\* sooner or later, and whatever is not given up has not used them up.
TriesCounted ==
  \A j \in Jobs : IF status[j] = "failed" THEN tries[j] = MaxTries + 1 ELSE tries[j] <= MaxTries

\* What is done or given up stays so, and its count with it; no step forgets
\* a failed attempt.
SettledStays ==
  [][\A j \in Jobs :
       /\ status[j] \in {"done", "failed"} => status'[j] = status[j]
       /\ tries'[j] >= tries[j]]_vars
=============================================================================
