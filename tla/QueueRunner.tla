---------------------------- MODULE QueueRunner ----------------------------
(***************************************************************************)
(* agent/queue_runner.py: run_queue_tick, the autonomous half of the day   *)
(* tick.  The tick loop is sequential: while a queue run is executing, the *)
(* tick is inside it.  Each action is one path through run_queue_tick up   *)
(* to its first await.                                                     *)
(***************************************************************************)
EXTENDS Executor

Stash == {"session_displaced"}

TickReady == up /\ run[Tick].pc = "idle" /\ ~frozen

\* both scheduler calls read the stash through hanging.pending, which expires
\* stale stashes and fails their sessions
SweptSess == SweepSessions(sess, hang, Stash)
SweptHang == SweepRows(hang, Stash)

\* resume_displaced() drops the newest stash if its session moved on
StashRow  == Newest(SweptHang, "session_displaced")
StashSid  == SweptHang[StashRow].sid
StashDead == StashRow # NoHanging /\ ~IsDisplaced(SweptSess, StashSid)
CanResumeStash ==
  StashRow # NoHanging /\ ~StashDead /\ ~StashBlocked(SweptSess, StashSid)

\* the hanging table as resume_waiting() finds it
LeftHang == IF StashDead THEN ResolveRow(SweptHang, StashRow) ELSE SweptHang
LeftSid  == LET h == Newest(LeftHang, "session_displaced")
            IN  IF h = NoHanging THEN NoSession ELSE LeftHang[h].sid
Waiting  == Unblockable(SweptSess, LeftSid)

\* the claimed row t, if its session is the one just woken, goes on running
Continue(t, s, ss, hh) ==
  \/ /\ t # NoTask /\ queue[t].sid = s
     /\ BeginRound(Tick, Calling("queue", s, t, FALSE), ss, hh, queue)
  \/ /\ ~(t # NoTask /\ queue[t].sid = s)
     /\ sess' = ss /\ hang' = hh
     /\ UNCHANGED <<queue, run>>

\* mutant: the stash is not resolved when its run comes back
ResumesKeepingStash ==
  /\ TickReady /\ CanResumeStash
  /\ \E t \in Claimed(queue) :
       Continue(t, StashSid, Resume(SweptSess, StashSid), SweptHang)
  /\ Quiet

TickResumesDisplaced ==
  /\ TickReady /\ CanResumeStash
  /\ \E t \in Claimed(queue) :
       Continue(t, StashSid, Resume(SweptSess, StashSid), ResolveRow(SweptHang, StashRow))
  /\ Quiet

TickUnblocksWaiting ==
  /\ TickReady /\ ~CanResumeStash /\ Waiting # {}
  /\ LET s == ResumeWaiting(SweptSess, LeftSid) IN
     \E t \in Claimed(queue) : Continue(t, s, ActivateWaiting(SweptSess, s), LeftHang)
  /\ Quiet

NothingToWake == TickReady /\ ~CanResumeStash /\ Waiting = {}

\* mutant: a claimed row is always left alone
ReconcilesNothing ==
  /\ NothingToWake /\ RowsIn(queue, "running") # {}
  /\ sess' = SweptSess /\ hang' = LeftHang
  /\ UNCHANGED <<queue, run>> /\ Quiet

\* a claimed row whose session failed out of band is settled; any other claim
\* is left alone
TickReconciles ==
  /\ NothingToWake
  /\ \E t \in RowsIn(queue, "running") :
       queue' = IF queue[t].sid # NoSession /\ SweptSess[queue[t].sid].st = "failed"
                  THEN MarkFailed(queue, t) ELSE queue
  /\ sess' = SweptSess /\ hang' = LeftHang
  /\ UNCHANGED run /\ Quiet

\* mutant: the next row is read without a look at the claimed one
PicksBesideClaim ==
  LET t == NextIdle(queue) IN
  /\ NothingToWake
  /\ sess' = SweptSess /\ hang' = LeftHang
  /\ IF t # NoTask /\ DependsSatisfied(queue, t)
       THEN Put(Tick, [Idle EXCEPT !.pc = "classify", !.task = t])
       ELSE UNCHANGED run
  /\ UNCHANGED queue /\ Quiet

\* the next row is read here, and claimed only after the classifier answered
TickPicks ==
  LET t == NextIdle(queue) IN
  /\ NothingToWake /\ RowsIn(queue, "running") = {}
  /\ sess' = SweptSess /\ hang' = LeftHang
  /\ IF t # NoTask /\ DependsSatisfied(queue, t)
       THEN Put(Tick, [Idle EXCEPT !.pc = "classify", !.task = t])
       ELSE UNCHANGED run
  /\ UNCHANGED queue /\ Quiet

TickClaims ==
  LET t == run[Tick].task
      s == NextSession(sess)
  IN
  /\ run[Tick].pc = "classify" /\ CanCreate(sess)
  /\ \E tags \in SUBSET Tags :
       LET ss == StartQueue(sess, tags)
           qq == MarkRunning(queue, t, s)
       IN  \/ /\ ss[s].st = "active"
              /\ BeginRound(Tick, Calling("queue", s, t, FALSE), ss, hang, qq)
           \/ /\ ss[s].st # "active"
              /\ sess' = ss /\ queue' = qq
              /\ Put(Tick, Idle)
              /\ UNCHANGED hang
  /\ Quiet

TickStep ==
  \/ TickResumesDisplaced \/ TickUnblocksWaiting \/ TickReconciles
  \/ TickPicks \/ TickClaims \/ ExecutorStep(Tick)
=============================================================================
