----------------------------- MODULE Scheduler -----------------------------
(***************************************************************************)
(* agent/scheduler.py: which session may be active, and who makes room.    *)
(* Two lanes, chat (Lin) and queue (autonomous); all functions are         *)
(* synchronous, so each is one store-to-store operator.                    *)
(***************************************************************************)
EXTENDS Sessions

CONSTANT MaxConcurrent                \* config.MAX_CONCURRENT_SESSIONS

ASSUME SchedulerAssumption == MaxConcurrent \in Nat \ {0}

ChatActives(ss)  == {s \in Active(ss) : ss[s].origin = "chat"}
QueueActives(ss) == {s \in Active(ss) : ss[s].origin = "queue"}

Conflicts(ss, tags, others) == {s \in others : tags \cap ss[s].tags # {}}
SlotsFull(ss) == Cardinality(Active(ss)) >= MaxConcurrent

\* Lin's task always starts: older chat work is paused, queue work on the
\* same resources is blocked, and if no slot is left the rest is paused too
StartChat(ss, tags) ==
  LET blocked   == Conflicts(ss, tags, QueueActives(ss))
      remaining == QueueActives(ss) \ blocked
      evicted   == IF 1 + Cardinality(remaining) > MaxConcurrent THEN remaining ELSE {}
      settled   == [s \in SessionIds |->
                      IF s \in ChatActives(ss) \cup evicted
                        THEN [ss[s] EXCEPT !.st = "paused"]
                      ELSE IF s \in blocked
                        THEN [ss[s] EXCEPT !.st = "waiting_dependency"]
                      ELSE ss[s]]
  IN  Create(settled, "active", "chat", tags)

QueueBlocked(ss, tags) ==
  \/ QueueActives(ss) # {}
  \/ SlotsFull(ss)
  \/ Conflicts(ss, tags, ChatActives(ss)) # {}

StartQueue(ss, tags) ==
  Create(ss, IF QueueBlocked(ss, tags) THEN "waiting_dependency" ELSE "active",
         "queue", tags)

\* resume_waiting() loops over the waiting queue sessions by id, skipping the
\* stashed one; its first activation blocks every later candidate, so a call
\* activates the oldest eligible session or none
Unblockable(ss, stashed) ==
  {s \in SessionIds :
     /\ ss[s].st = "waiting_dependency"
     /\ ss[s].origin = "queue"
     /\ s # stashed
     /\ ~QueueBlocked(ss, ss[s].tags)}

ResumeWaiting(ss, stashed) ==
  CHOOSE s \in Unblockable(ss, stashed) : \A r \in Unblockable(ss, stashed) : s <= r

\* mutant: a stashed run comes back as soon as there is a slot
StashIgnoresTags(ss, s) == SlotsFull(ss)

\* resume_displaced() checks tags and slots, but not the queue lane itself
StashBlocked(ss, s) ==
  \/ Conflicts(ss, ss[s].tags, ChatActives(ss)) # {}
  \/ SlotsFull(ss)
=============================================================================
