----------------------------- MODULE Controller -----------------------------
(***************************************************************************)
(* agent/controller.py handle_message and agent/routing.py: what one owner *)
(* message does, from its arrival to the reply, as one coroutine.  Replies *)
(* that touch no session (commands, clarifications, acks) end at once.     *)
(***************************************************************************)
EXTENDS Executor

CONSTANT PatientOwner \* does Lin wait while her last message is being routed?

ASSUME ControllerAssumption == PatientOwner \in BOOLEAN

End(m) == Put(m, Ended)

Arrives(m) ==
  /\ up /\ run[m].pc = "new"
  /\ PatientOwner => \A n \in Messages : run[n].pc # "routing"

\* agent/stopword.py sets a flag and answers, nothing else
StopPhrase(m) ==
  /\ Arrives(m) /\ ~frozen /\ frozen' = TRUE
  /\ End(m)
  /\ UNCHANGED <<sess, hang, queue, bound, approved, hostVars>>

ResumePhrase(m) ==
  /\ Arrives(m) /\ frozen /\ frozen' = FALSE
  /\ End(m)
  /\ UNCHANGED <<sess, hang, queue, bound, approved, hostVars>>

-----------------------------------------------------------------------------
(* A resolved target is dispatched on without another look at its row.     *)

\* the crash_resume loop, in the order recovery listed them (session_list:
\* newest first); sessions that cannot be resumed are skipped
NextCrashed(m, ss, hh, todo) ==
  LET left == {s \in todo : Resumable(ss, s)}
      s    == CHOOSE s \in left : \A r \in left : s >= r
  IN  IF left = {}
        THEN /\ sess' = ss /\ hang' = hh /\ queue' = queue
             /\ End(m)
        ELSE BeginRound(m, [Calling("crash", s, NoTask, FALSE)
                              EXCEPT !.todo = {r \in todo : r < s}],
                        Resume(ss, s), hh, queue)

\* mutant: the approval stays pending
ApproveKeepsRow(m, h, ss, hh) ==
  /\ sess' = Resume(ss, hh[h].sid)
  /\ hang' = hh
  /\ approved' = [approved EXCEPT ![h] = @ + 1]
  /\ Put(m, [Ended EXCEPT !.pc = "approved", !.sid = hh[h].sid])
  /\ UNCHANGED queue

Approve(m, h, ss, hh) ==
  /\ sess' = Resume(ss, hh[h].sid)
  /\ hang' = ResolveRow(hh, h)
  /\ approved' = [approved EXCEPT ![h] = @ + 1]
  /\ Put(m, [Ended EXCEPT !.pc = "approved", !.sid = hh[h].sid])
  /\ UNCHANGED queue

\* mutant: resumed, and not cancelled
DeclineResumes(m, h, ss, hh) ==
  /\ sess' = Resume(ss, hh[h].sid)
  /\ hang' = ResolveRow(hh, h)
  /\ Put(m, Sending(hh[h].sid, {}))
  /\ UNCHANGED <<queue, approved>>

\* mutant: a declined approval stays pending
DeclineKeepsRow(m, h, ss, hh) ==
  /\ sess' = Cancel(Resume(ss, hh[h].sid), hh[h].sid)
  /\ hang' = hh
  /\ Put(m, Sending(hh[h].sid, {}))
  /\ UNCHANGED <<queue, approved>>

Decline(m, h, ss, hh) ==
  /\ sess' = Cancel(Resume(ss, hh[h].sid), hh[h].sid)
  /\ hang' = ResolveRow(hh, h)
  /\ Put(m, Sending(hh[h].sid, {}))
  /\ UNCHANGED <<queue, approved>>

ResumeCrashed(m, h, ss, hh) ==
  /\ NextCrashed(m, ss, ResolveRow(hh, h), hh[h].sids)
  /\ UNCHANGED approved

DropCrashed(m, h, ss, hh) ==
  /\ sess' = [s \in SessionIds |->
                IF s \in hh[h].sids THEN [ss[s] EXCEPT !.st = "cancelled"] ELSE ss[s]]
  /\ hang' = ResolveRow(hh, h)
  /\ End(m)
  /\ UNCHANGED <<queue, approved>>

\* mutant: an answered question stays pending
AnswerKeepsRow(m, h, ss, hh) ==
  /\ BeginRound(m, Calling("answer", hh[h].sid, NoTask, FALSE),
                Resume(ss, hh[h].sid), hh, queue)
  /\ UNCHANGED approved

Answer(m, h, ss, hh) ==
  /\ BeginRound(m, Calling("answer", hh[h].sid, NoTask, FALSE),
                Resume(ss, hh[h].sid), ResolveRow(hh, h), queue)
  /\ UNCHANGED approved

\* neither yes nor no: the question stays, the message is an ordinary one
NotAnAnswer(m, ss, hh) ==
  /\ sess' = ss /\ hang' = hh
  /\ Put(m, [Ended EXCEPT !.pc = "classify"])
  /\ UNCHANGED <<queue, approved>>

Dispatch(m, h, text, ss, hh) ==
  \/ hh[h].kind = "approval"     /\ text = "yes"   /\ Approve(m, h, ss, hh)
  \/ hh[h].kind = "approval"     /\ text = "no"    /\ Decline(m, h, ss, hh)
  \/ hh[h].kind = "crash_resume" /\ text = "yes"   /\ ResumeCrashed(m, h, ss, hh)
  \/ hh[h].kind = "crash_resume" /\ text = "no"    /\ DropCrashed(m, h, ss, hh)
  \/ hh[h].kind # "ask_user"     /\ text = "plain" /\ NotAnAnswer(m, ss, hh)
  \/ hh[h].kind = "ask_user"     /\ Answer(m, h, ss, hh)

\* routing.resolve: expire, then the replied-to session's oldest row, or the
\* only row, or ask the fast model; replies go to bound messages only
Route(m) ==
  LET ss    == SweepSessions(sess, hang, Questions)
      hh    == SweepRows(hang, Questions)
      items == Pending(hh, Questions)
      RepliedTo(h) == /\ hh[h].sid \in bound
                      /\ \A g \in items : hh[g].sid = hh[h].sid => h <= g
  IN
  /\ Arrives(m)
  /\ \/ items = {} /\ NotAnAnswer(m, ss, hh)
     \/ \E h \in items, text \in {"plain", "yes", "no"} :
          /\ RepliedTo(h) \/ items = {h}
          /\ Dispatch(m, h, text, ss, hh)
     \/ \E text \in {"plain", "yes", "no"} :
          /\ Cardinality(items) > 1
          /\ sess' = ss /\ hang' = hh
          /\ Put(m, [Ended EXCEPT !.pc = "routing", !.hids = items, !.text = text])
          /\ UNCHANGED <<queue, approved>>
  /\ UNCHANGED <<frozen, bound, hostVars>>

\* the fast model picked a row of the snapshot, or Lin is asked which one
Routed(m) ==
  /\ run[m].pc = "routing"
  /\ \/ \E h \in run[m].hids : Dispatch(m, h, run[m].text, sess, hang)
     \/ End(m) /\ UNCHANGED <<sess, hang, queue, approved>>
  /\ UNCHANGED <<frozen, bound, hostVars>>

-----------------------------------------------------------------------------
\* the freeze flag is read once, right after classification; a talk that gets no
\* tools for its context is a run whose model calls none
Classified(m) ==
  /\ run[m].pc = "classify"
  /\ \/ End(m)
     \/ Put(m, [Calling("simple", NoSession, NoTask, frozen) EXCEPT !.pc = "llm"])
     \/ Put(m, [Ended EXCEPT !.pc = "plan", !.gated = frozen])
  /\ UNCHANGED <<sess, hang, queue>> /\ Quiet

\* make_plan is back: the task session opens and the run starts
Planned(m) ==
  /\ run[m].pc = "plan" /\ CanCreate(sess)
  /\ \E tags \in SUBSET Tags :
       BeginRound(m, Calling("deep", NextSession(sess), NoTask, run[m].gated),
                  StartChat(sess, tags), hang, queue)
  /\ Quiet

\* a corrected retry resumes the session (no effect on a failed one) and runs
Reflected(m) ==
  LET s == run[m].sid IN
  /\ run[m].pc = "reflect"
  /\ \/ BeginRound(m, [run[m] EXCEPT !.caller = "retry"], Resume(sess, s), hang, queue)
     \/ Put(m, Sending(s, {})) /\ UNCHANGED <<sess, hang, queue>>
  /\ Quiet

\* the confirmed tool is done; "Ошибка..." as its result fails the session
ApprovedToolEnds(m) ==
  LET s == run[m].sid IN
  /\ run[m].pc = "approved"
  /\ sess' \in {Complete(sess, s), Fail(sess, s)}
  /\ Put(m, Sending(s, {}))
  /\ UNCHANGED <<hang, queue>> /\ Quiet

\* the reply is out and bound to its session
Sent(m) ==
  /\ run[m].pc = "send"
  /\ bound' = bound \cup ({run[m].sid} \ {NoSession})
  /\ NextCrashed(m, sess, hang, run[m].todo)
  /\ UNCHANGED <<frozen, approved, hostVars>>

MessageStep(m) ==
  \/ Routed(m) \/ Classified(m) \/ Planned(m) \/ Reflected(m)
  \/ ApprovedToolEnds(m) \/ Sent(m) \/ ExecutorStep(m)

MessageArrives(m) == StopPhrase(m) \/ ResumePhrase(m) \/ Route(m)
=============================================================================
