----------------------------- MODULE Turn_proofs -----------------------------
(***************************************************************************)
(* What a turn promises, for any callers, keys, models, calls and limits,  *)
(* and for any number of crashes.  Of LLMAccess alone: a caller is told    *)
(* that a tier is exhausted only after everything of that tier was tried.  *)
(* Of the turn: every step is a step of LLMAccess or leaves it alone, a    *)
(* side effect starts once in a run, a turn that is over leaves its        *)
(* session settled or displaced, and a note names the interrupted step     *)
(* unless something else was written while that step ran.                  *)
(***************************************************************************)
EXTENDS Turn, TLAPS

-----------------------------------------------------------------------------
(* The walk through keys and models: LLMAccess                             *)

(***************************************************************************)
(* The walk stores how many keys of the current model were tried, not      *)
(* which: that follows from where it began, which is keyIdx only because   *)
(* nobody else moves keyIdx in the middle of a walk.  So the invariant     *)
(* says what a walk has tried, counted from keyIdx, and that a walk that   *)
(* has begun holds the semaphore.                                          *)
(***************************************************************************)
Line(prov, m) == {prov} \X {m} \X (0..Keys[prov] - 1)

Walked(c, start) ==
  /\ c.prov \in Asked(c)
  /\ c.model \in 1..Models[c.prov] /\ c.off \in 0..Keys[c.prov] - 1
  /\ \A m \in 1..c.model - 1 : Line(c.prov, m) \subseteq c.tried
  /\ \A i \in 0..c.off - 1 : <<c.prov, c.model, (start + i) % Keys[c.prov]>> \in c.tried
  /\ c.prov = "groq" =>
       \A prov \in Asked(c) \ {"groq"} : Grid(prov) \subseteq c.tried

Everything(c) == \A prov \in Asked(c) : Grid(prov) \subseteq c.tried

CallOK(c, start, holds) ==
  /\ c.st = "waiting" => /\ Walked(c, start)
                         /\ c.model # 1 \/ c.off # 0 => holds
  /\ c.st = "exhausted" => Everything(c)

KeyPositions == {f \in [Provider -> Nat] : \A prov \in Provider : f[prov] \in 0..Keys[prov] - 1}

LLMInv ==
  /\ LLMTypeOK
  /\ keyIdx \in KeyPositions
  /\ \A p \in Callers : CallOK(call[p], keyIdx[call[p].prov], Holds(p))

-----------------------------------------------------------------------------
(* Arithmetic and shapes                                                   *)

\* k steps past the start, counted modulo n, meet every key.
LEMMA Rotation ==
  ASSUME NEW n \in Nat \ {0}, NEW start \in 0..n-1, NEW k \in 0..n-1
  PROVE  \E i \in 0..n-1 : (start + i) % n = k
<1>1. CASE k >= start
  <2>1. k - start \in 0..n-1 /\ (start + (k - start)) % n = k
    BY <1>1
  <2> QED BY <2>1
<1>2. CASE k < start
  <2>1. n + k - start \in 0..n-1 /\ start + (n + k - start) = n + k
    BY <1>2
  <2>2. (n + k) % n = k
    OBVIOUS
  <2> QED BY <2>1, <2>2
<1> QED BY <1>1, <1>2

\* Every provider has a key and a model to begin with.
LEMMA Numbers ==
  /\ \A prov \in Provider : Keys[prov] \in Nat \ {0} /\ Models[prov] \in Nat \ {0}
  /\ \A prov \in Provider : 0 \in 0..Keys[prov] - 1 /\ 1 \in 1..Models[prov]
  /\ \A prov \in Provider, n \in Nat : n % Keys[prov] \in 0..Keys[prov] - 1
<1>1. \A prov \in Provider : Keys[prov] \in Nat \ {0} /\ Models[prov] \in Nat \ {0}
  BY LLMAssumption DEF LLMAssumption
<1>2. \A k \in Nat \ {0} : 0 \in 0..k-1 /\ 1 \in 1..k
  OBVIOUS
<1>3. \A n \in Nat, k \in Nat \ {0} : n % k \in 0..k-1
  OBVIOUS
<1> QED BY <1>1, <1>2, <1>3, Zenon

\* Before the first key nothing has to have been tried.
LEMMA FreshWalk ==
  ASSUME NEW prov \in Provider, NEW start, NEW holds
  PROVE  Queued(prov) \in Call /\ CallOK(Queued(prov), start, holds) /\ NoCall \in Call
<1>1. NoCall \in Call
  BY DEF NoCall, Call, Provider
<1>2. Queued(prov) \in Call
  BY DEF Queued, NoCall, Call, Provider
<1>3. CallOK(Queued(prov), start, holds)
  BY Numbers DEF Queued, NoCall, CallOK, Walked, Asked, Provider
<1> QED BY <1>1, <1>2, <1>3

\* A call with some fields replaced is a call, and the other fields are the same.
LEMMA CallUpdates ==
  ASSUME NEW c \in Call, NEW prov \in Provider, NEW m \in Nat, NEW o \in Nat,
         NEW t \in SUBSET (Grid("openrouter") \cup Grid("groq"))
  PROVE  /\ [c EXCEPT !.model = m, !.off = o] \in Call
         /\ [c EXCEPT !.prov = prov, !.model = m, !.off = o] \in Call
         /\ [c EXCEPT !.st = "exhausted"] \in Call
         /\ [c EXCEPT !.off = o, !.tried = t] \in Call
         /\ [c EXCEPT !.tried = t] \in Call
<1> DEFINE T == SUBSET (Grid("openrouter") \cup Grid("groq"))
<1>1. t \in T /\ Call = [st : {"idle", "waiting", "exhausted"}, entry : Provider,
                          prov : Provider, model : Nat, off : Nat, tried : T]
  BY DEF Call
<1> HIDE DEF T
<1> QED BY <1>1

\* The fields of a call.
LEMMA CallTyped ==
  ASSUME LLMTypeOK, NEW p \in Callers
  PROVE  /\ call[p] \in Call
         /\ call[p].prov \in Provider /\ call[p].entry \in Provider
         /\ call[p].model \in Nat /\ call[p].off \in Nat
  BY DEF LLMTypeOK, Call

\* The key that is asked next is one of the provider's.
LEMMA KeyTyped ==
  ASSUME LLMTypeOK, NEW p \in Callers
  PROVE  KeyOf(p) \in 0..Keys[call[p].prov] - 1
<1>1. keyIdx[call[p].prov] \in Nat
  BY CallTyped DEF LLMTypeOK
<1> QED BY <1>1, CallTyped, Numbers DEF KeyOf

\* When all keys of a model were tried, its line is complete.
LEMMA LineComplete ==
  ASSUME NEW prov \in Provider, NEW m, NEW tried, NEW start \in 0..Keys[prov] - 1,
         \A i \in 0..Keys[prov] - 1 : <<prov, m, (start + i) % Keys[prov]>> \in tried
  PROVE  Line(prov, m) \subseteq tried
<1>1. ASSUME NEW k \in 0..Keys[prov] - 1 PROVE <<prov, m, k>> \in tried
  <2>1. PICK i \in 0..Keys[prov] - 1 : (start + i) % Keys[prov] = k
    BY Numbers, Rotation
  <2> QED BY <2>1
<1> QED BY <1>1 DEF Line

\* When the lines of all its models are complete, the provider's grid is.
LEMMA GridComplete ==
  ASSUME NEW prov \in Provider, NEW tried,
         \A m \in 1..Models[prov] : Line(prov, m) \subseteq tried
  PROVE  Grid(prov) \subseteq tried
  BY DEF Grid, Line

-----------------------------------------------------------------------------
(* One caller's step leaves the others as they are.                        *)

Alone(p) ==
  \A q \in Callers \ {p} :
    /\ call'[q] = call[q]
    /\ CallOK(call'[q], keyIdx'[call'[q].prov], Holds(q)')

\* The one at the head may move keyIdx and let go: nobody else has begun.
LEMMA HeadSteps ==
  ASSUME LLMInv, NEW p \in Callers, NEW d, Asking(p), Place(p, d)
  PROVE  Alone(p)
<1> SUFFICES ASSUME NEW q \in Callers \ {p}
             PROVE  call'[q] = call[q] /\ CallOK(call'[q], keyIdx'[call'[q].prov], Holds(q)')
  BY DEF Alone
<1>1. call'[q] = call[q]
  BY DEF Place, LLMInv, LLMTypeOK
<1>2. ~Holds(q)
  BY DEF Asking, Holds
<1>3. CallOK(call[q], keyIdx[call[q].prov], FALSE)
  BY <1>2 DEF LLMInv, CallOK
<1>4. CASE call[q].st = "waiting"
  <2>1. call[q].model = 1 /\ call[q].off = 0 /\ Walked(call[q], keyIdx[call[q].prov])
    BY <1>3, <1>4 DEF CallOK
  <2>2. Walked(call[q], keyIdx'[call[q].prov])
    BY <2>1 DEF Walked
  <2> QED BY <1>1, <1>4, <2>1, <2>2 DEF CallOK
<1>5. CASE call[q].st # "waiting"
  BY <1>1, <1>3, <1>5 DEF CallOK
<1> QED BY <1>1, <1>4, <1>5

\* A step of p keeps the invariant when p's new call is in order.
LEMMA StepKeepsInv ==
  ASSUME LLMInv, NEW p \in Callers, NEW d \in Call, Place(p, d), Alone(p),
         sem' \in Seq(Callers), keyIdx' \in KeyPositions,
         CallOK(d, keyIdx'[d.prov], Holds(p)')
  PROVE  LLMInv'
<1>1. call'[p] = d /\ call' \in [Callers -> Call]
  BY DEF Place, LLMInv, LLMTypeOK
<1>2. LLMTypeOK'
  BY <1>1 DEF LLMTypeOK, KeyPositions
<1>3. ASSUME NEW q \in Callers PROVE CallOK(call[q], keyIdx[call[q].prov], Holds(q))'
  BY <1>1 DEF Alone
<1> QED BY <1>2, <1>3 DEF LLMInv

\* The semaphore's queue after a request, a release, or both.
LEMMA QueueTypes ==
  ASSUME LLMTypeOK, NEW p \in Callers
  PROVE  /\ Append(sem, p) \in Seq(Callers)
         /\ sem # <<>> => Tail(sem) \in Seq(Callers) /\ Append(Tail(sem), p) \in Seq(Callers)
  BY DEF LLMTypeOK

-----------------------------------------------------------------------------
(* The steps of a walk                                                     *)

\* c has everything of its current model
Spent(c) == /\ c \in Call /\ c.st = "waiting"
            /\ c.prov \in Asked(c) /\ c.model \in 1..Models[c.prov]
            /\ \A m \in 1..c.model : Line(c.prov, m) \subseteq c.tried
            /\ c.prov = "groq" =>
                 \A prov \in Asked(c) \ {"groq"} : Grid(prov) \subseteq c.tried

\* Whatever comes after a model that was tried with all keys is in order: the
\* next model, the next provider, or the end of the tier.
LEMMA NextModelKeepsInv ==
  ASSUME LLMInv, NEW p \in Callers, NEW c, Asking(p), Spent(c), NextModel(p, c),
         UNCHANGED keyIdx
  PROVE  LLMInv'
<1>1. /\ c \in Call /\ c.st = "waiting" /\ c.prov \in Asked(c) /\ c.model \in 1..Models[c.prov]
      /\ \A m \in 1..c.model : Line(c.prov, m) \subseteq c.tried
      /\ c.prov = "groq" => \A prov \in Asked(c) \ {"groq"} : Grid(prov) \subseteq c.tried
  BY DEF Spent
<1>0. /\ c.prov \in Provider /\ c.entry \in Provider /\ c.model \in Nat /\ c.off \in Nat
      /\ Models[c.prov] \in Nat \ {0}
  BY <1>1, Numbers DEF Call
<1>2. sem # <<>> /\ LLMTypeOK /\ keyIdx' \in KeyPositions
  BY DEF LLMInv, Asking, Holds
<1>3. CASE /\ c.model < Models[c.prov]
           /\ Place(p, [c EXCEPT !.model = @ + 1, !.off = 0])
           /\ UNCHANGED sem
  <2> DEFINE d == [c EXCEPT !.model = @ + 1, !.off = 0]
  <2>1. d \in Call
    <3>1. c.model + 1 \in Nat /\ 0 \in Nat
      BY <1>0
    <3>2. [c EXCEPT !.model = c.model + 1, !.off = 0] \in Call
      BY <1>0, <1>1, <3>1, CallUpdates
    <3> QED BY <3>2
  <2>2. /\ d.prov = c.prov /\ d.entry = c.entry /\ d.st = c.st /\ d.tried = c.tried
        /\ d.model = c.model + 1 /\ d.off = 0
    BY <1>0, <1>1 DEF Call
  <2>3. d.model \in 1..Models[d.prov] /\ d.model - 1 = c.model
    BY <1>0, <1>3, <2>2
  <2>4. Walked(d, keyIdx'[d.prov])
    BY <1>0, <1>1, <2>2, <2>3, Numbers DEF Walked, Asked
  <2>5. Holds(p)'
    BY <1>3 DEF Asking, Holds
  <2>6. CallOK(d, keyIdx'[d.prov], Holds(p)')
    BY <1>1, <2>2, <2>4, <2>5 DEF CallOK
  <2>7. Place(p, d) /\ sem' \in Seq(Callers)
    BY <1>2, <1>3 DEF LLMTypeOK
  <2> HIDE DEF d
  <2> QED BY <1>2, <2>1, <2>6, <2>7, HeadSteps, StepKeepsInv
<1>4. ASSUME c.model >= Models[c.prov], GivesUp(p, c) PROVE LLMInv'
  <2>1. Grid(c.prov) \subseteq c.tried
    BY <1>0, <1>1, <1>4, GridComplete
  <2>2. CASE c.prov = "openrouter" /\ FallsBack(p, c)
    <3> DEFINE d == [c EXCEPT !.prov = "groq", !.model = 1, !.off = 0]
    <3>1. d \in Call
      BY <1>0, <1>1, CallUpdates DEF Provider
    <3>2. /\ d.prov = "groq" /\ d.entry = c.entry /\ d.st = c.st /\ d.tried = c.tried
          /\ d.model = 1 /\ d.off = 0
      BY <1>0, <1>1 DEF Call
    <3>3. Asked(d) = Provider
      BY <1>1, <2>2, <3>2 DEF Asked, Provider
    <3>4. Walked(d, keyIdx'[d.prov])
      BY <2>1, <2>2, <3>2, <3>3, Numbers DEF Walked, Provider
    <3>5. CallOK(d, keyIdx'[d.prov], Holds(p)')
      BY <1>1, <3>2, <3>4 DEF CallOK
    <3>6. Place(p, d) /\ sem' \in Seq(Callers)
      BY <1>2, <2>2, QueueTypes DEF FallsBack
    <3> HIDE DEF d
    <3> QED BY <1>2, <3>1, <3>5, <3>6, HeadSteps, StepKeepsInv
  <2>3. CASE /\ c.prov = "groq" /\ sem' = Tail(sem)
             /\ Place(p, [c EXCEPT !.st = "exhausted"])
    <3> DEFINE d == [c EXCEPT !.st = "exhausted"]
    <3>1. d \in Call
      BY <1>0, <1>1, CallUpdates
    <3>2. d.st = "exhausted" /\ d.entry = c.entry /\ d.tried = c.tried
      BY <1>0, <1>1 DEF Call
    <3>3. Everything(d)
      BY <1>1, <2>1, <2>3, <3>2 DEF Everything, Asked
    <3> QED BY <1>2, <2>3, <3>1, <3>2, <3>3, QueueTypes, HeadSteps, StepKeepsInv DEF CallOK
  <2> QED BY <1>4, <2>2, <2>3 DEF GivesUp
<1> QED BY <1>3, <1>4 DEF NextModel

\* A key fails: the next one, the next model, or nothing left.
LEMMA KeyFailsKeepsInv ==
  ASSUME LLMInv, NEW p \in Callers, KeyFails(p)
  PROVE  LLMInv'
<1> DEFINE b == call[p]
           c == [b EXCEPT !.off = @ + 1, !.tried = @ \cup {<<b.prov, b.model, KeyOf(p)>>}]
<1>1. /\ b \in Call /\ b.st = "waiting" /\ b.prov \in Provider /\ b.off \in Nat
      /\ b.model \in Nat /\ KeyOf(p) \in 0..Keys[b.prov] - 1 /\ Keys[b.prov] \in Nat \ {0}
      /\ keyIdx[b.prov] \in 0..Keys[b.prov] - 1
      /\ Asking(p) /\ UNCHANGED keyIdx
  BY CallTyped, KeyTyped, Numbers DEF KeyFails, Asking, LLMInv, KeyPositions
<1>2. Walked(b, keyIdx[b.prov])
  BY <1>1 DEF LLMInv, CallOK
<1>3. <<b.prov, b.model, KeyOf(p)>> \in Grid("openrouter") \cup Grid("groq")
  BY <1>1, <1>2 DEF Grid, Walked, Provider
<1>4. c \in Call
  <2>1. b.tried \cup {<<b.prov, b.model, KeyOf(p)>>}
          \in SUBSET (Grid("openrouter") \cup Grid("groq"))
    BY <1>1, <1>3 DEF Call
  <2>2. b.off + 1 \in Nat
    BY <1>1
  <2>3. [b EXCEPT !.off = b.off + 1, !.tried = b.tried \cup {<<b.prov, b.model, KeyOf(p)>>}] \in Call
    BY <1>1, <2>1, <2>2, CallUpdates
  <2> QED BY <2>3
<1>5. /\ c.prov = b.prov /\ c.entry = b.entry /\ c.st = "waiting" /\ c.model = b.model
      /\ c.off = b.off + 1 /\ c.tried = b.tried \cup {<<b.prov, b.model, KeyOf(p)>>}
  BY <1>1 DEF Call
<1>6. \A i \in 0..c.off - 1 : <<c.prov, c.model, (keyIdx[b.prov] + i) % Keys[c.prov]>> \in c.tried
  BY <1>1, <1>2, <1>5 DEF Walked, KeyOf
<1>7. ASSUME c.off < Keys[c.prov], Place(p, c), UNCHANGED sem PROVE LLMInv'
  <2>1. c.off \in 0..Keys[c.prov] - 1
    BY <1>1, <1>5, <1>7
  <2>2. Walked(c, keyIdx'[c.prov])
    BY <1>1, <1>2, <1>5, <1>6, <2>1 DEF Walked, Asked
  <2>3. Holds(p)' /\ LLMTypeOK /\ keyIdx' \in KeyPositions
    BY <1>1, <1>7 DEF Asking, Holds, LLMInv
  <2> QED BY <1>1, <1>4, <1>5, <1>7, <2>2, <2>3, HeadSteps, StepKeepsInv DEF CallOK, LLMTypeOK
<1>8. ASSUME c.off >= Keys[c.prov], NextModel(p, c) PROVE LLMInv'
  <2>1. c.off = Keys[c.prov]
    <3>1. b.off \in 0..Keys[b.prov] - 1
      BY <1>2 DEF Walked
    <3> QED BY <1>1, <1>5, <1>8, <3>1
  <2>2. Line(c.prov, c.model) \subseteq c.tried
    BY <1>1, <1>5, <1>6, <2>1, LineComplete
  <2>3. \A m \in 1..c.model : m \in 1..c.model - 1 \/ m = c.model
    BY <1>1, <1>5
  <2>4. Spent(c)
    BY <1>2, <1>4, <1>5, <2>2, <2>3 DEF Spent, Walked, Asked
  <2> QED BY <1>1, <1>8, <2>4, NextModelKeepsInv
<1> QED BY <1>7, <1>8 DEF KeyFails

\* A model is missing: none of its keys need be tried.
LEMMA ModelMissingKeepsInv ==
  ASSUME LLMInv, NEW p \in Callers, ModelMissing(p)
  PROVE  LLMInv'
<1> DEFINE b == call[p]
           c == [b EXCEPT !.tried = @ \cup ({b.prov} \X {b.model} \X (0..Keys[b.prov] - 1))]
<1>1. /\ b \in Call /\ b.st = "waiting" /\ b.prov \in Provider /\ b.model \in Nat
      /\ Asking(p) /\ UNCHANGED keyIdx
  BY CallTyped DEF ModelMissing, Asking, LLMInv
<1>2. Walked(b, keyIdx[b.prov])
  BY <1>1 DEF LLMInv, CallOK
<1>3. Line(b.prov, b.model) \subseteq Grid(b.prov)
  BY <1>1, <1>2 DEF Grid, Walked, Line
<1>4. c \in Call
  BY <1>1, <1>3 DEF Call, Provider, Line
<1>5. /\ c.prov = b.prov /\ c.entry = b.entry /\ c.st = "waiting" /\ c.model = b.model
      /\ c.tried = b.tried \cup Line(b.prov, b.model)
  BY <1>1 DEF Call, Line
<1>6. \A m \in 1..c.model : m \in 1..c.model - 1 \/ m = c.model
  BY <1>1, <1>5
<1>7. Spent(c)
  BY <1>2, <1>4, <1>5, <1>6 DEF Spent, Walked, Asked
<1> QED BY <1>1, <1>7, NextModelKeepsInv DEF ModelMissing

-----------------------------------------------------------------------------
(* What ends a call or begins one                                          *)

\* The key after the one that answered is one of the provider's.
LEMMA RotatesTyped ==
  ASSUME LLMInv, NEW p \in Callers, Rotates(p)
  PROVE  keyIdx' \in KeyPositions
<1>1. /\ call[p].prov \in Provider /\ KeyOf(p) \in 0..Keys[call[p].prov] - 1
      /\ Keys[call[p].prov] \in Nat \ {0}
  BY CallTyped, KeyTyped, Numbers DEF LLMInv
<1>2. (KeyOf(p) + 1) % Keys[call[p].prov] \in 0..Keys[call[p].prov] - 1
  BY <1>1, Numbers
<1> QED BY <1>1, <1>2, Numbers DEF Rotates, LLMInv, KeyPositions

\* A caller that has its answer lets go.
LEMMA ReleaseKeepsInv ==
  ASSUME LLMInv, NEW p \in Callers, Asking(p), Release(p), keyIdx' \in KeyPositions
  PROVE  LLMInv'
<1>1. sem # <<>> /\ LLMTypeOK
  BY DEF Asking, Holds, LLMInv
<1>2. NoCall \in Call /\ CallOK(NoCall, keyIdx'[NoCall.prov], Holds(p)')
  BY FreshWalk DEF NoCall, CallOK, Provider
<1> QED BY <1>1, <1>2, QueueTypes, HeadSteps, StepKeepsInv DEF Release

\* A caller that goes straight on queues behind the others.
LEMMA AsksAgainKeepsInv ==
  ASSUME LLMInv, NEW p \in Callers, NEW prov \in Provider, AsksAgain(p, prov),
         keyIdx' \in KeyPositions
  PROVE  LLMInv'
<1>1. sem # <<>> /\ LLMTypeOK /\ Asking(p)
  BY DEF AsksAgain, Asking, Holds, LLMInv
<1> QED BY <1>1, FreshWalk, QueueTypes, HeadSteps, StepKeepsInv DEF AsksAgain

\* Who has the semaphore keeps it when another one queues.
LEMMA RequestKeepsInv ==
  ASSUME LLMInv, NEW p \in Callers, NEW prov \in Provider, Request(p, prov)
  PROVE  LLMInv'
<1>1. /\ LLMTypeOK /\ sem' = Append(sem, p) /\ sem \in Seq(Callers)
      /\ Place(p, Queued(prov)) /\ keyIdx' = keyIdx /\ keyIdx' \in KeyPositions
  BY DEF Request, LLMInv, LLMTypeOK
<1>2. \A q \in Callers : Holds(q) => Holds(q)'
  BY <1>1 DEF Holds
<1>3. Alone(p)
  <2> SUFFICES ASSUME NEW q \in Callers \ {p}
               PROVE  call'[q] = call[q] /\ CallOK(call'[q], keyIdx'[call'[q].prov], Holds(q)')
    BY DEF Alone
  <2>1. call'[q] = call[q]
    BY <1>1 DEF Place, LLMTypeOK
  <2>2. CallOK(call[q], keyIdx[call[q].prov], Holds(q))
    BY DEF LLMInv
  <2> QED BY <1>1, <1>2, <2>1, <2>2 DEF CallOK
<1> QED BY <1>1, <1>3, FreshWalk, QueueTypes, StepKeepsInv

\* A crash leaves no call.
LEMMA ResetKeepsInv == Reset => LLMInv'
<1> SUFFICES ASSUME Reset PROVE LLMInv'
  OBVIOUS
<1>1. NoCall \in Call /\ NoCall.st = "idle"
  BY FreshWalk DEF NoCall, Provider
<1>2. LLMTypeOK'
  BY <1>1 DEF Reset, LLMTypeOK
<1>3. keyIdx' \in KeyPositions
  BY Numbers DEF Reset, KeyPositions
<1>4. ASSUME NEW p \in Callers PROVE CallOK(call[p], keyIdx[call[p].prov], Holds(p))'
  BY <1>1 DEF Reset, CallOK
<1> QED BY <1>2, <1>3, <1>4 DEF LLMInv

\* Nobody calls at first.
LEMMA LLMInvInit == LLMInit => LLMInv
<1> SUFFICES ASSUME LLMInit PROVE LLMInv
  OBVIOUS
<1>1. NoCall \in Call /\ NoCall.st = "idle"
  BY FreshWalk DEF NoCall, Provider
<1>2. LLMTypeOK
  BY <1>1 DEF LLMInit, LLMTypeOK
<1>3. keyIdx \in KeyPositions
  BY Numbers DEF LLMInit, KeyPositions
<1>4. ASSUME NEW p \in Callers PROVE CallOK(call[p], keyIdx[call[p].prov], Holds(p))
  BY <1>1 DEF LLMInit, CallOK
<1> QED BY <1>2, <1>3, <1>4 DEF LLMInv

\* Every step of LLMAccess keeps LLMInv.
LEMMA LLMInvNext == LLMInv /\ [LLMNext]_llmVars => LLMInv'
<1> SUFFICES ASSUME LLMInv, [LLMNext]_llmVars PROVE LLMInv'
  OBVIOUS
<1>1. ASSUME NEW p \in Callers, Walks(p) PROVE LLMInv'
  BY <1>1, KeyFailsKeepsInv, ModelMissingKeepsInv DEF Walks
<1>2. ASSUME NEW p \in Callers, Answers(p) PROVE LLMInv'
  BY <1>2, RotatesTyped, ReleaseKeepsInv DEF Answers
<1>3. ASSUME NEW p \in Callers, BadRequest(p) PROVE LLMInv'
  BY <1>3, ReleaseKeepsInv DEF BadRequest, LLMInv
<1>4. ASSUME NEW p \in Callers, NEW prov \in Provider,
             \/ Request(p, prov) \/ AnswersAndAsks(p, prov) \/ BadRequestAsks(p, prov)
      PROVE  LLMInv'
  <2>1. CASE Request(p, prov)
    BY <2>1, RequestKeepsInv
  <2>2. CASE AnswersAndAsks(p, prov)
    BY <2>2, RotatesTyped, AsksAgainKeepsInv DEF AnswersAndAsks
  <2>3. CASE BadRequestAsks(p, prov)
    BY <2>3, AsksAgainKeepsInv DEF BadRequestAsks, LLMInv
  <2> QED BY <1>4, <2>1, <2>2, <2>3
<1>5. CASE Reset
  BY <1>5, ResetKeepsInv
<1>6. CASE UNCHANGED llmVars
  BY <1>6 DEF llmVars, LLMInv, LLMTypeOK, CallOK, Walked, Everything, Asked, Holds
<1> QED BY <1>1, <1>2, <1>3, <1>4, <1>5, <1>6 DEF LLMNext

\* LLMInv holds throughout, whoever calls.
LEMMA LLMInvariant == LLMSpec => []LLMInv
  BY LLMInvInit, LLMInvNext, PTL DEF LLMSpec

\* AllKeysExhausted is the truth: every model of the tier was tried with every
\* key or was missing, wherever the rotation began and whoever else was calling.
THEOREM ExhaustedIsExhausted == LLMSpec => []ExhaustedMeansTried
<1>1. LLMInv => ExhaustedMeansTried
  BY DEF LLMInv, CallOK, Everything, ExhaustedMeansTried
<1> QED BY <1>1, LLMInvariant, PTL

\* The records of the calls keep their types.
THEOREM LLMTypesHold == LLMSpec => []LLMTypeOK
<1>1. LLMInv => LLMTypeOK
  BY DEF LLMInv
<1> QED BY <1>1, LLMInvariant, PTL

-----------------------------------------------------------------------------
(* The turn                                                                *)
(***************************************************************************)
(* EffectOnce is not inductive: that a call in pc "called" may run must be *)
(* known from the counts, and that what ran has been counted.  The other   *)
(* two need what the session and its journal say at each place of a turn,  *)
(* and what they say while the process is down.                            *)
(***************************************************************************)
RunOK(f) ==
  \A c \in SideEffects :
    /\ f.ran[c] <= 1
    /\ f.ran[c] > 0 => f.counts[c] > 0
    /\ f.pc = "called" /\ f.tool = c => /\ f.counts[c] > 0
                                        /\ f.counts[c] = 1 => f.ran[c] = 0

\* r says that c was started, or b and something was written since
Logged(r, c, b) == \/ r.last = "step_started" /\ r.step = c
                   \/ b /\ r.last = "other"

PairOK(f, r, b) ==
  /\ f.pc = "done" => r.st \in {"done", "failed", "cancelled", "paused"}
  /\ f.pc \in {"failed", "reflect"} => r.st = "failed"
  /\ f.pc = "paused" => r.st = "paused"
  /\ f.pc \in InRun \cup {"approved", "cut"} => r.st \in {"active", "failed", "paused"}
  /\ f.pc = "tool" /\ r.st = "active" => Logged(r, f.tool, b)

NoteOK(f, r, i, b) ==
  f.pc = "paused" /\ i # NoTool => r.note = KindOf(i) \/ (b /\ r.note = "between")

CutOK(p) ==
  ~up /\ inFlight[p] # NoTool /\ sess[p].st = "active" =>
    Logged(sess[p], inFlight[p], blurred[p])

TurnInv ==
  /\ LLMInv /\ TypeOK
  /\ \A p \in Callers : RunOK(turn[p])
  /\ \A p \in Sessioned : /\ PairOK(turn[p], sess[p], blurred[p])
                          /\ NoteOK(turn[p], sess[p], inFlight[p], blurred[p])
                          /\ CutOK(p)

-----------------------------------------------------------------------------
(* The model calls of a turn are those of LLMAccess.                       *)

\* The two providers.
LEMMA ProvidersAre == "openrouter" \in Provider /\ "groq" \in Provider
  BY DEF Provider

\* A run that goes on asks a model again or lets go.
LEMMA OnwardCalls ==
  ASSUME NEW p \in Callers, NEW f, NEW r, Onward(p, f, r)
  PROVE  [LLMNext]_llmVars
  BY ProvidersAre DEF Onward, KeepLLM, LLMNext

\* Every step of a turn is one of LLMAccess or leaves it alone.
LEMMA TurnCallsModels == [Next]_vars => [LLMNext]_llmVars
<1> SUFFICES ASSUME [Next]_vars PROVE [LLMNext]_llmVars
  OBVIOUS
<1>1. ASSUME NEW p \in Callers, Works(p) PROVE [LLMNext]_llmVars
  <2>1. CASE FinalReply(p)
    BY <2>1 DEF FinalReply, LLMNext
  <2>2. CASE AnswerCallsTool(p)
    BY <2>2 DEF AnswerCallsTool, LLMNext
  <2>3. CASE ModelFails(p)
    BY <2>3 DEF ModelFails, LLMNext
  <2>4. CASE Trims(p)
    BY <2>4, ProvidersAre DEF Trims, LLMNext
  <2>5. CASE ModelWalks(p)
    BY <2>5 DEF ModelWalks, LLMNext
  <2>6. CASE Blocked(p)
    BY <2>6, OnwardCalls DEF Blocked
  <2>7. CASE Starts(p)
    BY <2>7 DEF Starts, KeepLLM
  <2>8. CASE ToolEnds(p)
    BY <2>8 DEF ToolEnds, KeepLLM
  <2>9. CASE Finished(p)
    BY <2>9, OnwardCalls DEF Finished
  <2>10. CASE Reflects(p)
    BY <2>10, ProvidersAre DEF Reflects, LLMNext
  <2>11. CASE Retries(p)
    BY <2>11, ProvidersAre DEF Retries, LLMNext
  <2>12. CASE Gives(p)
    BY <2>12 DEF Gives, LLMNext
  <2> QED BY <1>1, <2>1, <2>2, <2>3, <2>4, <2>5, <2>6, <2>7, <2>8, <2>9, <2>10, <2>11, <2>12 DEF Works
<1>2. ASSUME NEW p \in Callers, \/ ReportWrites(p) \/ Begin(p) \/ Displaced(p)
                                \/ Approve(p) \/ Decline(p) \/ Answered(p) \/ ApprovedReturns(p)
                                \/ Resume(p) \/ Abandon(p) \/ Expire(p)
      PROVE  [LLMNext]_llmVars
  BY <1>2, ProvidersAre DEF Begin, Approve, Decline, Answered, ApprovedReturns, Resume, Abandon,
    Expire, ReportWrites, Displaced, KeepLLM, LLMNext
<1>3. ASSUME NEW c \in Cooled, WindowPasses(c) PROVE [LLMNext]_llmVars
  BY <1>3 DEF WindowPasses, KeepLLM
<1>4. CASE Crash
  BY <1>4 DEF Crash, LLMNext
<1>5. CASE Restart
  BY <1>5 DEF Restart, KeepLLM
<1>6. CASE UNCHANGED vars
  BY <1>6 DEF vars, llmVars
<1> QED BY <1>1, <1>2, <1>3, <1>4, <1>5, <1>6 DEF Next

\* A turn implements LLMAccess: composed with tools, sessions, retries and
\* crashes, the model calls still follow the semaphore and the walk.
THEOREM TurnImplementsLLM == Spec => LLMSpec
<1>1. Init => LLMInit
  BY DEF Init
<1> QED BY <1>1, TurnCallsModels, PTL DEF Spec, LLMSpec

\* So no turn is ever told that the models are exhausted when they are not.
THEOREM TurnExhausted == Spec => []ExhaustedMeansTried
  BY TurnImplementsLLM, ExhaustedIsExhausted, PTL

-----------------------------------------------------------------------------
(* Frames and rows                                                         *)

\* the turn of p goes on with a frame and a row that are in order
Moves(p, g, r) ==
  /\ Put(p, g) /\ PutRow(p, r)
  /\ g \in Frame /\ r \in Row
  /\ RunOK(g) /\ g.pc # "paused"
  /\ p \in Sessioned => PairOK(g, r, FALSE)

\* What the assumptions say of the calls, in pieces.
LEMMA CallsTyped ==
  /\ SideEffects \subseteq Calls /\ Cooled \subseteq SideEffects /\ Sessioned \subseteq Callers
  /\ Limit \in Nat \ {0} /\ NoTool \notin Calls
  /\ Menu \in [Callers -> SUBSET Calls]
  BY TurnAssumption DEF TurnAssumption

\* What a run begins with, and what is left of one.
LEMMA FreshIs ==
  /\ Fresh \in Frame
  /\ \A c \in SideEffects : Fresh.ran[c] = 0
<1>1. NoCounts \in [Calls -> 0..(Limit - 1)]
  BY CallsTyped DEF NoCounts
<1>2. [c \in SideEffects |-> 0] \in [SideEffects -> Nat]
  OBVIOUS
<1> QED BY <1>1, <1>2 DEF Fresh, Frame

Resting == {"failed", "reflect", "asked", "done", "cut", "paused"}

\* A coroutine outside a run.
LEMMA RestFrame ==
  ASSUME NEW pc \in Resting
  PROVE  /\ [Fresh EXCEPT !.pc = pc] \in Frame
         /\ RunOK([Fresh EXCEPT !.pc = pc]) /\ [Fresh EXCEPT !.pc = pc].pc = pc
<1> DEFINE f == [Fresh EXCEPT !.pc = pc]
<1>1. f \in Frame /\ f.pc = pc /\ f.ran = Fresh.ran
  BY FreshIs DEF Frame, Running, InRun, Resting
<1>2. RunOK(f)
  BY <1>1, FreshIs DEF RunOK, Resting
<1> QED BY <1>1, <1>2

\* One that waits for Lin's approval of a call.
LEMMA AskFrame ==
  ASSUME NEW c \in Calls
  PROVE  /\ [Fresh EXCEPT !.pc = "waiting", !.tool = c] \in Frame
         /\ RunOK([Fresh EXCEPT !.pc = "waiting", !.tool = c])
         /\ [Fresh EXCEPT !.pc = "waiting", !.tool = c].pc = "waiting"
<1> DEFINE f == [Fresh EXCEPT !.pc = "waiting", !.tool = c]
<1>1. f \in Frame /\ f.pc = "waiting" /\ f.ran = Fresh.ran
  BY FreshIs DEF Frame
<1>2. RunOK(f)
  BY <1>1, FreshIs DEF RunOK
<1> QED BY <1>1, <1>2

\* One that begins a run.
LEMMA RunFrame ==
  ASSUME NEW retried \in BOOLEAN
  PROVE  LET f == [Fresh EXCEPT !.pc = "llm", !.round = 1, !.retried = retried]
         IN  f \in Frame /\ RunOK(f) /\ f.pc = "llm"
<1> DEFINE f == [Fresh EXCEPT !.pc = "llm", !.round = 1, !.retried = retried]
<1>1. f \in Frame /\ f.pc = "llm" /\ f.ran = Fresh.ran
  BY FreshIs DEF Frame, Running, InRun
<1>2. RunOK(f)
  BY <1>1, FreshIs DEF RunOK
<1> QED BY <1>1, <1>2

\* A row after an entry of the journal and a change of status.
LEMMA RowUpdates ==
  ASSUME NEW r \in Row, NEW st \in {"active", "waiting_user", "failed", "done", "cancelled"},
         NEW c \in Calls \cup {NoTool}
  PROVE  /\ LET s == [Journal(r, "other", NoTool) EXCEPT !.st = st] IN s \in Row /\ s.st = st
         /\ LET s == Journal(r, "other", NoTool) IN s \in Row /\ s.st = r.st
         /\ LET s == Journal(r, "step_started", c)
            IN  s \in Row /\ s.st = r.st /\ s.last = "step_started" /\ s.step = c
  BY DEF Row, Journal

\* A session that does not exist yet.
LEMMA NoRowTyped == NoRow \in Row
  BY DEF Row, NoRow

-----------------------------------------------------------------------------
(* The gate                                                                *)

\* A run that fails ends its turn or has it reflected on.
LEMMA FailsMoves ==
  ASSUME NEW p \in Callers, NEW r \in Row, Fails(p, r)
  PROVE  \E g, s : Moves(p, g, s)
<1> DEFINE s == [Journal(r, "other", NoTool) EXCEPT !.st = "failed"]
<1>1. s \in Row /\ s.st = "failed"
  <2>1. "failed" \in {"active", "waiting_user", "failed", "done", "cancelled"}
    OBVIOUS
  <2> QED BY <2>1 DEF Row, Journal
<1>2. PutRow(p, s)
  BY DEF Fails, Becomes
<1> HIDE DEF s
<1>3. CASE Put(p, [Fresh EXCEPT !.pc = "failed"])
  <2> DEFINE g == [Fresh EXCEPT !.pc = "failed"]
  <2>1. g \in Frame /\ RunOK(g) /\ g.pc = "failed"
    BY RestFrame DEF Resting
  <2> HIDE DEF g
  <2>2. PairOK(g, s, FALSE)
    BY <1>1, <2>1 DEF PairOK, Logged, InRun
  <2>3. Put(p, g)
    BY <1>3 DEF g
  <2> QED BY <1>1, <1>2, <2>1, <2>2, <2>3 DEF Moves
<1>4. CASE Rest(p)
  <2> DEFINE g == [Fresh EXCEPT !.pc = "done"]
  <2>1. g \in Frame /\ RunOK(g) /\ g.pc = "done"
    BY RestFrame DEF Resting
  <2> HIDE DEF g
  <2>2. PairOK(g, s, FALSE)
    BY <1>1, <2>1 DEF PairOK, Logged, InRun
  <2>3. Put(p, g)
    BY <1>4 DEF g, Rest
  <2> QED BY <1>1, <1>2, <2>1, <2>2, <2>3 DEF Moves
<1> QED BY <1>3, <1>4 DEF Fails

\* What a frame and a row are inside a run.
Inside(p, f, r) ==
  /\ f \in Frame /\ RunOK(f) /\ r \in Row
  /\ p \in Sessioned => r.st \in {"active", "failed", "paused"}

\* A call at the gate: Lin is asked, it is refused, or it is announced.
LEMMA GateMoves ==
  ASSUME NEW p \in Callers, NEW f, NEW r, NEW c \in Calls, Inside(p, f, r), Gate(p, f, r, c)
  PROVE  \E g, s : Moves(p, g, s)
<1>1. CASE AsksLin(p, f, r, c)
  <2> DEFINE g == [Fresh EXCEPT !.pc = "waiting", !.tool = c]
             s == [Journal(r, "other", NoTool) EXCEPT !.st = "waiting_user"]
  <2>1. g \in Frame /\ RunOK(g) /\ g.pc = "waiting"
    BY AskFrame
  <2>2. s \in Row
    BY DEF Row, Journal, Inside
  <2>3. Put(p, g) /\ PutRow(p, s)
    BY <1>1 DEF AsksLin, Becomes
  <2> HIDE DEF g, s
  <2>4. PairOK(g, s, FALSE)
    BY <2>1 DEF PairOK, Logged, InRun
  <2> QED BY <2>1, <2>2, <2>3, <2>4 DEF Moves
<1>2. CASE Loops(p, f, r, c)
  BY <1>2, FailsMoves DEF Loops, Inside
<1>4. CASE AsksQuestion(p, f, r, c)
  <2> DEFINE g == [Fresh EXCEPT !.pc = "asked"]
             s == [Journal(r, "other", NoTool) EXCEPT !.st = "waiting_user"]
  <2>1. g \in Frame /\ RunOK(g) /\ g.pc = "asked"
    BY RestFrame DEF Resting
  <2>2. s \in Row
    BY DEF Row, Journal, Inside
  <2>3. Put(p, g) /\ PutRow(p, s)
    BY <1>4 DEF AsksQuestion, Becomes
  <2> HIDE DEF g, s
  <2>4. PairOK(g, s, FALSE)
    BY <2>1 DEF PairOK, InRun
  <2> QED BY <2>1, <2>2, <2>3, <2>4 DEF Moves
<1>3. CASE Admits(p, f, r, c)
  <2> DEFINE g == [f EXCEPT !.pc = "called", !.tool = c, !.counts[c] = @ + 1]
  <2>1. Put(p, g) /\ PutRow(p, r) /\ f.counts[c] + 1 < Limit
    BY <1>3 DEF Admits, Counted
  <2>2. f \in Frame /\ f.counts \in [Calls -> 0..(Limit - 1)] /\ f.ran \in [SideEffects -> Nat]
    BY DEF Inside, Frame
  <2>3. f.counts[c] + 1 \in 0..(Limit - 1)
    BY <2>1, <2>2, CallsTyped
  <2>4. g.counts = [f.counts EXCEPT ![c] = @ + 1] /\ g.pc = "called" /\ g.tool = c /\ g.ran = f.ran
    BY <2>2 DEF Frame
  <2>5. [f.counts EXCEPT ![c] = @ + 1] \in [Calls -> 0..(Limit - 1)]
    BY <2>2, <2>3
  <2>6. g \in Frame
    <3> DEFINE cs == [f.counts EXCEPT ![c] = @ + 1]
    <3>1. g = [f EXCEPT !.pc = "called", !.tool = c, !.counts = cs]
      BY <2>2 DEF Frame
    <3>2. cs \in [Calls -> 0..(Limit - 1)]
      BY <2>5
    <3> HIDE DEF g, cs
    <3> QED BY <2>2, <3>1, <3>2 DEF Frame, Running, InRun
  <2> HIDE DEF g
  <2>7. RunOK(g)
    <3> SUFFICES ASSUME NEW d \in SideEffects
                 PROVE  /\ g.ran[d] <= 1
                        /\ g.ran[d] > 0 => g.counts[d] > 0
                        /\ g.pc = "called" /\ g.tool = d => /\ g.counts[d] > 0
                                                            /\ g.counts[d] = 1 => g.ran[d] = 0
      BY DEF RunOK
    <3>1. /\ f.ran[d] <= 1 /\ f.ran[d] \in Nat /\ f.counts[d] \in Nat
          /\ f.ran[d] > 0 => f.counts[d] > 0
      BY <2>2, CallsTyped DEF Inside, RunOK
    <3>2. g.counts[d] = IF d = c THEN f.counts[d] + 1 ELSE f.counts[d]
      BY <2>2, <2>4, CallsTyped
    <3> QED BY <2>4, <3>1, <3>2
  <2>8. p \in Sessioned => PairOK(g, r, FALSE)
    BY <2>4 DEF PairOK, Logged, InRun, Inside
  <2> QED BY <2>1, <2>4, <2>6, <2>7, <2>8 DEF Moves, Inside
<1> QED BY <1>1, <1>2, <1>3, <1>4 DEF Gate

\* A turn that is over, with a session that has ended or was displaced.
LEMMA RestMoves ==
  ASSUME NEW p \in Callers, NEW s \in Row, Rest(p), PutRow(p, s),
         p \in Sessioned => s.st \in {"done", "failed", "cancelled", "paused"}
  PROVE  \E g, t : Moves(p, g, t)
<1> DEFINE g == [Fresh EXCEPT !.pc = "done"]
<1>1. g \in Frame /\ RunOK(g) /\ g.pc = "done"
  BY RestFrame DEF Resting
<1>2. Put(p, g)
  BY DEF Rest
<1> HIDE DEF g
<1>3. p \in Sessioned => PairOK(g, s, FALSE)
  BY <1>1 DEF PairOK, Logged, InRun
<1> QED BY <1>1, <1>2, <1>3 DEF Moves

\* The rest of a round.
LEMMA OnwardMoves ==
  ASSUME NEW p \in Callers, NEW f, NEW r, Inside(p, f, r), f.round \in Nat, Onward(p, f, r)
  PROVE  \E g, s : Moves(p, g, s)
<1>1. ASSUME NEW c \in Menu[p], Gate(p, f, r, c) PROVE \E g, s : Moves(p, g, s)
  <2>1. c \in Calls
    BY CallsTyped
  <2> QED BY <1>1, <2>1, GateMoves
<1>2. ASSUME Put(p, [f EXCEPT !.pc = "llm", !.round = @ + 1, !.tool = NoTool, !.trimmed = FALSE]),
             PutRow(p, r)
      PROVE  \E g, s : Moves(p, g, s)
  <2> DEFINE g == [f EXCEPT !.pc = "llm", !.round = @ + 1, !.tool = NoTool, !.trimmed = FALSE]
  <2>1. g \in Frame /\ g.pc = "llm" /\ g.ran = f.ran /\ g.counts = f.counts
    <3>1. f \in Frame /\ f.round + 1 \in Nat
      BY DEF Inside
    <3> QED BY <3>1 DEF Frame, Running, InRun
  <2>2. Put(p, g)
    BY <1>2
  <2> HIDE DEF g
  <2>3. RunOK(g)
    BY <2>1 DEF RunOK, Inside
  <2>4. p \in Sessioned => PairOK(g, r, FALSE)
    BY <2>1 DEF PairOK, Logged, InRun, Inside
  <2> QED BY <1>2, <2>1, <2>2, <2>3, <2>4 DEF Moves, Inside
<1>3. ASSUME Notices(p, f, r), Rest(p), PutRow(p, r) PROVE \E g, s : Moves(p, g, s)
  BY <1>3, RestMoves DEF Notices, Inside
<1> QED BY <1>1, <1>2, <1>3 DEF Onward

-----------------------------------------------------------------------------
(* The steps of one turn                                                   *)

\* the other sessions stay as they are or are displaced
Stands(q) == \/ sess'[q] = sess[q]
             \/ sess[q].st = "active" /\ sess'[q] = Displace(sess[q])

\* what p's step may do to the rest
Aside(p) ==
  /\ up /\ up' = up /\ crashes' = crashes /\ stamp' \in [Cooled -> BOOLEAN]
  /\ writing' \subseteq Callers
  /\ inFlight' = inFlight \/ inFlight' = [inFlight EXCEPT ![p] = NoTool]
  /\ blurred' = blurred \/ blurred' = [blurred EXCEPT ![p] = FALSE]

\* A displaced session stays in order beside its turn.
LEMMA DisplacedInOrder ==
  ASSUME NEW f, NEW r \in Row, NEW i, NEW b \in BOOLEAN, r.st = "active",
         PairOK(f, r, b), NoteOK(f, r, i, b)
  PROVE  /\ Displace(r) \in Row /\ Displace(r).st = "paused"
         /\ PairOK(f, Displace(r), b) /\ NoteOK(f, Displace(r), i, b)
<1>1. Displace(r) \in Row /\ Displace(r).st = "paused" /\ Displace(r).note = r.note
  BY DEF Displace, Journal, Row
<1> QED BY <1>1 DEF PairOK, NoteOK, InRun

\* A turn that moves to a frame and a row in order keeps the invariant.
LEMMA StepKeepsTurnInv ==
  ASSUME TurnInv, LLMInv', NEW p \in Callers, NEW g \in Frame, Put(p, g), RunOK(g),
         g.pc # "paused", sess' \in [Callers -> Row],
         p \in Sessioned => PairOK(g, sess'[p], FALSE),
         \A q \in Sessioned \ {p} : Stands(q), Aside(p)
  PROVE  TurnInv'
<1>1. turn' = [turn EXCEPT ![p] = g] /\ turn' \in [Callers -> Frame]
  BY DEF Put, TurnInv, TypeOK
<1>2. /\ inFlight' \in [Callers -> Calls \cup {NoTool}] /\ blurred' \in [Callers -> BOOLEAN]
      /\ \A q \in Callers \ {p} : inFlight'[q] = inFlight[q] /\ blurred'[q] = blurred[q]
  BY DEF TurnInv, TypeOK, Aside
<1>3. TypeOK'
  BY <1>1, <1>2 DEF TypeOK, TurnInv, LLMInv, Aside
<1>4. ASSUME NEW q \in Callers PROVE RunOK(turn'[q])
  BY <1>1, <1>4 DEF TurnInv, TypeOK
<1>5. ASSUME NEW q \in Sessioned
      PROVE  PairOK(turn'[q], sess'[q], blurred'[q]) /\ NoteOK(turn'[q], sess'[q], inFlight'[q], blurred'[q])
  <2>1. q \in Callers
    BY CallsTyped
  <2>2. CASE q = p
    <3>1. turn'[q] = g /\ PairOK(g, sess'[q], FALSE)
      BY <1>1, <1>5, <2>1, <2>2 DEF TurnInv, TypeOK
    <3> QED BY <3>1 DEF NoteOK, PairOK, Logged
  <2>3. CASE q # p
    <3>1. turn'[q] = turn[q] /\ inFlight'[q] = inFlight[q] /\ blurred'[q] = blurred[q] /\ Stands(q)
      BY <1>1, <1>2, <1>5, <2>1, <2>3 DEF TurnInv, TypeOK
    <3>2. /\ PairOK(turn[q], sess[q], blurred[q]) /\ NoteOK(turn[q], sess[q], inFlight[q], blurred[q])
          /\ sess[q] \in Row /\ blurred[q] \in BOOLEAN
      BY <1>5, <2>1 DEF TurnInv, TypeOK
    <3> QED BY <3>1, <3>2, DisplacedInOrder DEF Stands
  <2> QED BY <2>2, <2>3
<1>6. ASSUME NEW q \in Sessioned PROVE CutOK(q)'
  BY DEF CutOK, Aside
<1> QED BY <1>3, <1>4, <1>5, <1>6 DEF TurnInv

\* A turn that moves as Moves says keeps the invariant.
LEMMA MoveKeepsInv ==
  ASSUME TurnInv, LLMInv', NEW p \in Callers, \E g, s : Moves(p, g, s), Aside(p)
  PROVE  TurnInv'
<1>1. PICK g, s : Moves(p, g, s)
  OBVIOUS
<1>2. sess' \in [Callers -> Row] /\ (p \in Sessioned => sess'[p] = s)
  BY <1>1 DEF TurnInv, TypeOK, Moves, PutRow
<1>3. ASSUME NEW q \in Sessioned \ {p} PROVE Stands(q)
  BY <1>1, <1>3, CallsTyped DEF TurnInv, TypeOK, Moves, PutRow, Stands
<1> QED BY <1>1, <1>2, <1>3, StepKeepsTurnInv DEF Moves

\* What is known of the turn that takes a step.
LEMMA TurnTyped ==
  ASSUME TurnInv, NEW p \in Callers
  PROVE  /\ turn[p] \in Frame /\ turn[p].round \in Nat /\ turn[p].tool \in Calls \cup {NoTool}
         /\ turn[p].pc \in Running \cup {"new", "waiting", "asked", "approved", "cut", "paused", "done"}
         /\ RunOK(turn[p]) /\ sess[p] \in Row
         /\ turn[p].pc \in InRun /\ p \in Sessioned => sess[p].st \in {"active", "failed", "paused"}
         /\ turn[p].pc \in InRun => Inside(p, turn[p], sess[p])
         /\ p \in Sessioned => PairOK(turn[p], sess[p], blurred[p])
         /\ stamp \in [Cooled -> BOOLEAN] /\ writing \subseteq Callers
<1>1. turn[p] \in Frame /\ sess[p] \in Row /\ RunOK(turn[p]) /\ stamp \in [Cooled -> BOOLEAN]
      /\ writing \subseteq Callers
  BY DEF TurnInv, TypeOK
<1>2. p \in Sessioned => PairOK(turn[p], sess[p], blurred[p])
  BY DEF TurnInv
<1>3. turn[p].pc \in InRun /\ p \in Sessioned => sess[p].st \in {"active", "failed", "paused"}
  BY <1>2 DEF PairOK
<1>4. turn[p].pc \in InRun => Inside(p, turn[p], sess[p])
  BY <1>1, <1>3 DEF Inside
<1>5. /\ turn[p].round \in Nat /\ turn[p].tool \in Calls \cup {NoTool}
      /\ turn[p].pc \in Running \cup {"new", "waiting", "asked", "approved", "cut", "paused", "done"}
  BY <1>1 DEF Frame
<1> QED BY <1>1, <1>2, <1>3, <1>4, <1>5

\* A turn that ends settles its session.
LEMMA SettlesMoves ==
  ASSUME NEW p \in Callers, NEW r \in Row, NEW st \in {"done", "failed", "cancelled"},
         Rest(p), Becomes(p, r, st)
  PROVE  \E g, t : Moves(p, g, t)
<1> DEFINE s == [Journal(r, "other", NoTool) EXCEPT !.st = st]
<1>1. s \in Row /\ s.st = st
  BY DEF Row, Journal
<1>2. PutRow(p, s)
  BY DEF Becomes
<1> HIDE DEF s
<1> QED BY <1>1, <1>2, RestMoves

\* A run begins, for a session that is active or has failed.
LEMMA EntersMoves ==
  ASSUME NEW p \in Callers, NEW s \in Row, NEW retried \in BOOLEAN, EnterRun(p, retried),
         PutRow(p, s), p \in Sessioned => s.st \in {"active", "failed", "paused"}
  PROVE  \E g, t : Moves(p, g, t)
<1> DEFINE g == [Fresh EXCEPT !.pc = "llm", !.round = 1, !.retried = retried]
<1>1. g \in Frame /\ RunOK(g) /\ g.pc = "llm"
  BY RunFrame
<1>2. Put(p, g)
  BY DEF EnterRun
<1> HIDE DEF g
<1>3. p \in Sessioned => PairOK(g, s, FALSE)
  BY <1>1 DEF PairOK, Logged, InRun
<1> QED BY <1>1, <1>2, <1>3 DEF Moves

\* Only the place of a turn changes, its row does not.
LEMMA SameRow ==
  ASSUME TurnInv, NEW p \in Callers, UNCHANGED sess
  PROVE  PutRow(p, sess[p])
  BY DEF PutRow, TurnInv, TypeOK

\* p's step moves its own turn and touches nothing else
Own(p) ==
  /\ \E g, s : Moves(p, g, s)
  /\ Aside(p)

\* The steps of the loop itself.
LEMMA RunSteps ==
  ASSUME TurnInv, NEW p \in Callers,
         \/ FinalReply(p) \/ AnswerCallsTool(p) \/ ModelFails(p) \/ Trims(p)
         \/ Blocked(p) \/ Starts(p) \/ ToolEnds(p) \/ Finished(p)
  PROVE  Own(p)
<1> DEFINE f == turn[p]
           r == sess[p]
<1>0. /\ f \in Frame /\ f.round \in Nat /\ f.tool \in Calls \cup {NoTool} /\ RunOK(f) /\ r \in Row
      /\ f.pc \in InRun => Inside(p, f, r)
      /\ stamp \in [Cooled -> BOOLEAN] /\ writing \subseteq Callers
  BY TurnTyped
<1>1. CASE FinalReply(p)
  BY <1>0, <1>1, SettlesMoves DEF FinalReply, At, Still, Own, Aside
<1>2. CASE AnswerCallsTool(p)
  <2>1. Inside(p, f, r) /\ up
    BY <1>0, <1>2 DEF AnswerCallsTool, At, InRun
  <2>2. PICK c \in Menu[p] : Gate(p, f, r, c)
    BY <1>2 DEF AnswerCallsTool
  <2>3. c \in Calls
    BY CallsTyped
  <2>4. \E g, s : Moves(p, g, s)
    BY <2>1, <2>2, <2>3, GateMoves
  <2> QED BY <1>0, <1>2, <2>1, <2>4 DEF AnswerCallsTool, Still, Own, Aside
<1>3. CASE ModelFails(p)
  BY <1>0, <1>3, FailsMoves DEF ModelFails, At, Still, Own, Aside
<1>4. CASE Trims(p)
  <2> DEFINE g == [f EXCEPT !.trimmed = TRUE]
  <2>1. g \in Frame /\ g.pc = "llm" /\ g.ran = f.ran /\ g.counts = f.counts
    BY <1>0, <1>4 DEF Trims, At, Frame
  <2>2. Put(p, g) /\ PutRow(p, r) /\ Inside(p, f, r)
    BY <1>0, <1>4, SameRow DEF Trims, At, InRun
  <2> HIDE DEF g
  <2>3. RunOK(g) /\ (p \in Sessioned => PairOK(g, r, FALSE))
    BY <1>0, <2>1, <2>2 DEF RunOK, PairOK, Logged, InRun, Inside
  <2>4. Moves(p, g, r)
    BY <1>0, <2>1, <2>2, <2>3 DEF Moves
  <2> QED BY <1>0, <1>4, <2>4 DEF Trims, At, Still, Own, Aside
<1>5. CASE Blocked(p)
  <2>1. Inside(p, f, r) /\ up /\ Onward(p, f, r)
    BY <1>0, <1>5 DEF Blocked, At, InRun
  <2>2. \E g, s : Moves(p, g, s)
    BY <1>0, <2>1, OnwardMoves
  <2> QED BY <1>0, <1>5, <2>1, <2>2 DEF Blocked, Still, Own, Aside
<1>6. CASE Starts(p)
  <2> DEFINE g == Launched(f)
             s == Journal(r, "step_started", f.tool)
  <2>1. Put(p, g) /\ PutRow(p, s) /\ Inside(p, f, r) /\ up /\ ~IsDuplicate(p) /\ f.pc = "called"
    BY <1>0, <1>6 DEF Starts, At, InRun
  <2>2. f.ran \in [SideEffects -> Nat] /\ f.counts \in [Calls -> 0..(Limit - 1)]
    BY <1>0 DEF Frame
  <2>3. [c \in SideEffects |-> IF c = f.tool THEN f.ran[c] + 1 ELSE f.ran[c]] \in [SideEffects -> Nat]
    BY <2>2
  <2>4. /\ g.pc = "tool" /\ g.tool = f.tool /\ g.counts = f.counts /\ g \in Frame
        /\ g.ran = [c \in SideEffects |-> IF c = f.tool THEN f.ran[c] + 1 ELSE f.ran[c]]
    BY <1>0, <2>3 DEF Launched, Frame, Running, InRun
  <2>5. s \in Row /\ s.st = r.st /\ s.last = "step_started" /\ s.step = f.tool
    BY <1>0 DEF Row, Journal
  <2> HIDE DEF g, s
  <2>6. RunOK(g)
    <3> SUFFICES ASSUME NEW d \in SideEffects
                 PROVE  g.ran[d] <= 1 /\ (g.ran[d] > 0 => g.counts[d] > 0)
      BY <2>4 DEF RunOK
    <3>1. /\ f.ran[d] <= 1 /\ f.ran[d] \in Nat /\ f.counts[d] \in Nat
          /\ f.ran[d] > 0 => f.counts[d] > 0
          /\ f.tool = d => f.counts[d] > 0 /\ (f.counts[d] = 1 => f.ran[d] = 0)
      BY <1>0, <2>1, <2>2, CallsTyped DEF RunOK
    <3>2. f.tool = d => ~(f.counts[d] > 1)
      BY <2>1 DEF IsDuplicate
    <3> QED BY <2>4, <3>1, <3>2
  <2>7. p \in Sessioned => PairOK(g, s, FALSE)
    BY <2>1, <2>4, <2>5 DEF PairOK, Logged, InRun, Inside
  <2>8. Moves(p, g, s)
    BY <2>1, <2>4, <2>5, <2>6, <2>7 DEF Moves
  <2> QED BY <1>0, <1>6, <2>1, <2>8 DEF Starts, Spawns, Own, Aside
<1>7. CASE ToolEnds(p)
  <2> DEFINE g == [f EXCEPT !.pc = "finished"]
  <2>1. g \in Frame /\ g.pc = "finished" /\ g.ran = f.ran /\ g.counts = f.counts
    BY <1>0, <1>7 DEF ToolEnds, At, Frame, Running, InRun
  <2>2. Put(p, g) /\ PutRow(p, r) /\ Inside(p, f, r)
    BY <1>0, <1>7, SameRow DEF ToolEnds, At, InRun
  <2> HIDE DEF g
  <2>3. RunOK(g) /\ (p \in Sessioned => PairOK(g, r, FALSE))
    BY <1>0, <2>1, <2>2 DEF RunOK, PairOK, Logged, InRun, Inside
  <2>4. Moves(p, g, r)
    BY <1>0, <2>1, <2>2, <2>3 DEF Moves
  <2>5. stamp' \in [Cooled -> BOOLEAN]
    BY <1>0, <1>7 DEF ToolEnds, MarkCalled
  <2> QED BY <1>0, <1>7, <2>4, <2>5 DEF ToolEnds, At, Forget, Own, Aside
<1>8. CASE Finished(p)
  <2> DEFINE s == Journal(r, "other", NoTool)
  <2>1. s \in Row /\ s.st = r.st
    BY <1>0 DEF Row, Journal
  <2>2. Onward(p, f, s) /\ up /\ Inside(p, f, r)
    BY <1>0, <1>8 DEF Finished, At, InRun
  <2> HIDE DEF s
  <2>3. Inside(p, f, s)
    BY <2>1, <2>2 DEF Inside
  <2>4. \E g, t : Moves(p, g, t)
    BY <1>0, <2>2, <2>3, OnwardMoves
  <2> QED BY <1>0, <1>8, <2>2, <2>4 DEF Finished, Still, Own, Aside
<1> QED BY <1>1, <1>2, <1>3, <1>4, <1>5, <1>6, <1>7, <1>8

\* The steps of the controller around it.
LEMMA AroundSteps ==
  ASSUME TurnInv, NEW p \in Callers,
         \/ Reflects(p) \/ Retries(p) \/ Gives(p) \/ Approve(p) \/ Decline(p)
         \/ Answered(p) \/ ApprovedReturns(p) \/ Resume(p) \/ Abandon(p) \/ Expire(p)
  PROVE  Own(p)
<1> DEFINE f == turn[p]
           r == sess[p]
           s == Journal(r, "other", NoTool)
<1>0. /\ f \in Frame /\ RunOK(f) /\ r \in Row /\ stamp \in [Cooled -> BOOLEAN]
      /\ p \in Sessioned => PairOK(f, r, blurred[p])
      /\ writing \subseteq Callers
  BY TurnTyped
<1>a. s \in Row /\ s.st = r.st
  BY <1>0 DEF Row, Journal
<1> HIDE DEF s
<1>1. CASE Reflects(p)
  <2> DEFINE g == [f EXCEPT !.pc = "reflect"]
  <2>1. g \in Frame /\ g.pc = "reflect" /\ g.ran = f.ran /\ g.counts = f.counts
    BY <1>0, <1>1 DEF Reflects, At, Frame, Running, InRun
  <2>2. Put(p, g) /\ PutRow(p, r) /\ f.pc = "failed"
    BY <1>1, SameRow DEF Reflects, At
  <2> HIDE DEF g
  <2>3. RunOK(g) /\ (p \in Sessioned => PairOK(g, r, FALSE))
    BY <1>0, <2>1, <2>2 DEF RunOK, PairOK, Logged, InRun
  <2>4. Moves(p, g, r)
    BY <1>0, <2>1, <2>2, <2>3 DEF Moves
  <2> QED BY <1>0, <1>1, <2>4 DEF Reflects, At, Still, Own, Aside
<1>2. CASE Retries(p)
  <2>1. PutRow(p, s) /\ f.pc = "reflect" /\ up
    BY <1>2 DEF Retries, At, s
  <2>2. p \in Sessioned => s.st \in {"active", "failed", "paused"}
    BY <1>0, <1>a, <2>1 DEF PairOK
  <2>3. \E g, t : Moves(p, g, t)
    BY <1>2, <1>a, <2>1, <2>2, EntersMoves DEF Retries
  <2> QED BY <1>0, <1>2, <2>1, <2>3 DEF Retries, Still, Own, Aside
<1>3. CASE Gives(p)
  <2>1. PutRow(p, s) /\ f.pc = "reflect" /\ up
    BY <1>3 DEF Gives, At, s
  <2>2. p \in Sessioned => s.st \in {"done", "failed", "cancelled", "paused"}
    BY <1>0, <1>a, <2>1 DEF PairOK
  <2>3. \E g, t : Moves(p, g, t)
    BY <1>3, <1>a, <2>1, <2>2, RestMoves DEF Gives
  <2> QED BY <1>0, <1>3, <2>1, <2>3 DEF Gives, Still, Own, Aside
<1>4. ASSUME NEW b \in Row, EnterRun(p, TRUE), Becomes(p, b, "active")
      PROVE  \E g, t : Moves(p, g, t)
  <2> DEFINE n == [Journal(b, "other", NoTool) EXCEPT !.st = "active"]
  <2>1. n \in Row /\ n.st = "active"
    BY DEF Row, Journal
  <2>2. PutRow(p, n)
    BY <1>4 DEF Becomes
  <2> HIDE DEF n
  <2> QED BY <1>4, <2>1, <2>2, EntersMoves
<1>5. CASE Answered(p)
  BY <1>0, <1>4, <1>5 DEF Answered, At, Still, Own, Aside
<1>6. CASE Approve(p)
  <2> DEFINE g == [f EXCEPT !.pc = "approved"]
             n == [Journal(r, "other", NoTool) EXCEPT !.st = "active"]
  <2>1. g \in Frame /\ g.pc = "approved" /\ g.ran = f.ran /\ g.counts = f.counts
    BY <1>0, <1>6 DEF Approve, At, Frame
  <2>2. n \in Row /\ n.st = "active"
    BY <1>0 DEF Row, Journal
  <2>3. Put(p, g) /\ PutRow(p, n)
    BY <1>6 DEF Approve, Becomes
  <2> HIDE DEF g, n
  <2>4. RunOK(g) /\ PairOK(g, n, FALSE)
    BY <1>0, <2>1, <2>2 DEF RunOK, PairOK, Logged, InRun
  <2>5. Moves(p, g, n)
    BY <2>1, <2>2, <2>3, <2>4 DEF Moves
  <2> QED BY <1>0, <1>6, <2>5 DEF Approve, At, Still, Own, Aside
<1>7. CASE Decline(p)
  BY <1>0, <1>7, SettlesMoves DEF Decline, At, Still, Own, Aside
<1>8. CASE ApprovedReturns(p)
  BY <1>0, <1>8, SettlesMoves DEF ApprovedReturns, At, Still, Own, Aside
<1>9. CASE Resume(p)
  BY <1>0, <1>4, <1>9, NoRowTyped DEF Resume, At, NoteRead, Forget, Own, Aside
<1>10. CASE Abandon(p)
  BY <1>0, <1>10, NoRowTyped, SettlesMoves DEF Abandon, At, NoteRead, Forget, Own, Aside
<1>11. CASE Expire(p)
  <2>1. CASE Becomes(p, r, "failed")
    BY <1>0, <1>11, <2>1, SettlesMoves DEF Expire, At, Still, NoteRead, Forget, Own, Aside
  <2>2. CASE ~Becomes(p, r, "failed")
    <3>1. /\ Rest(p) /\ UNCHANGED sess /\ At(p, "paused") /\ NoteRead(p)
      BY <1>11, <2>2 DEF Expire
    <3>2. p \in Sessioned => r.st = "paused"
      BY <1>0, <3>1 DEF PairOK, At
    <3>3. \E g, t : Moves(p, g, t)
      BY <1>0, <3>1, <3>2, SameRow, RestMoves
    <3> QED BY <1>0, <3>1, <3>3 DEF At, NoteRead, Forget, Own, Aside
  <2> QED BY <2>1, <2>2
<1> QED BY <1>1, <1>2, <1>3, <1>5, <1>6, <1>7, <1>8, <1>9, <1>10, <1>11

\* A turn begins, and displaces whichever session of Lin's is active.
LEMMA BeginKeepsInv ==
  ASSUME TurnInv, LLMInv', NEW p \in Callers, Begin(p)
  PROVE  TurnInv'
<1> DEFINE g == [Fresh EXCEPT !.pc = "llm", !.round = 1, !.retried = FALSE]
           n == [NoRow EXCEPT !.st = "active"]
<1>1. g \in Frame /\ RunOK(g) /\ g.pc = "llm"
  BY RunFrame
<1>2. Put(p, g) /\ Opens(p) /\ up /\ Still
  BY DEF Begin, EnterRun, At
<1>3. n \in Row /\ n.st = "active"
  BY NoRowTyped DEF Row
<1>4. \A q \in Callers : sess[q] \in Row /\ Displace(sess[q]) \in Row
  BY DEF TurnInv, TypeOK, Displace, Journal, Row
<1> HIDE DEF g, n
<1>5. sess' \in [Callers -> Row] /\ (p \in Sessioned => sess'[p].st = "active")
  BY <1>2, <1>3, <1>4 DEF Opens, n, TurnInv, TypeOK
<1>6. ASSUME NEW q \in Sessioned \ {p} PROVE Stands(q)
  BY <1>2, <1>6, CallsTyped DEF Opens, Stands
<1>7. p \in Sessioned => PairOK(g, sess'[p], FALSE)
  BY <1>1, <1>5 DEF PairOK, InRun
<1>8. Aside(p)
  BY <1>2, TurnTyped DEF Still, Aside
<1> QED BY <1>1, <1>2, <1>5, <1>6, <1>7, <1>8, StepKeepsTurnInv

\* A session is displaced by a task outside the model.
LEMMA DisplacedKeepsInv ==
  ASSUME TurnInv, LLMInv', NEW p \in Callers, Displaced(p)
  PROVE  TurnInv'
<1>1. /\ up /\ sess[p].st = "active" /\ sess' = [sess EXCEPT ![p] = Displace(sess[p])]
      /\ UNCHANGED <<turn, stamp, up, crashes, writing, inFlight, blurred>>
  BY DEF Displaced, Still
<1>2. sess[p] \in Row /\ Displace(sess[p]) \in Row
  BY DEF TurnInv, TypeOK, Displace, Journal, Row
<1>3. TypeOK'
  BY <1>1, <1>2 DEF TurnInv, TypeOK, LLMInv
<1>4. ASSUME NEW q \in Sessioned
      PROVE  /\ PairOK(turn'[q], sess'[q], blurred'[q])
             /\ NoteOK(turn'[q], sess'[q], inFlight'[q], blurred'[q])
             /\ CutOK(q)'
  <2>1. /\ q \in Callers /\ sess[q] \in Row /\ blurred[q] \in BOOLEAN
        /\ PairOK(turn[q], sess[q], blurred[q]) /\ NoteOK(turn[q], sess[q], inFlight[q], blurred[q])
    BY CallsTyped DEF TurnInv, TypeOK
  <2>2. sess'[q] = sess[q] \/ (sess[q].st = "active" /\ sess'[q] = Displace(sess[q]))
    BY <1>1, <2>1 DEF TurnInv, TypeOK
  <2>3. CutOK(q)'
    BY <1>1 DEF CutOK
  <2> QED BY <1>1, <2>1, <2>2, <2>3, DisplacedInOrder
<1> QED BY <1>1, <1>3, <1>4 DEF TurnInv

\* A report is written, into whichever session hears it.
LEMMA WriteKeepsInv ==
  ASSUME TurnInv, LLMInv', NEW p \in Callers, ReportWrites(p)
  PROVE  TurnInv'
<1>1. up /\ UNCHANGED <<turn, stamp, up, crashes, inFlight>> /\ writing' \subseteq Callers
  BY DEF ReportWrites, TurnInv, TypeOK
<1>2. CASE UNCHANGED <<sess, blurred>>
  <2>1. TypeOK'
    BY <1>1, <1>2 DEF TurnInv, TypeOK, LLMInv
  <2> QED BY <1>1, <1>2, <2>1 DEF TurnInv, CutOK
<1>3. CASE \E q \in Hears(p) :
             /\ sess' = [sess EXCEPT ![q] = Journal(@, "other", NoTool)]
             /\ blurred' = [blurred EXCEPT ![q] = @ \/ turn[q].pc = "tool"]
  <2>1. PICK h \in Hears(p) :
             /\ sess' = [sess EXCEPT ![h] = Journal(sess[h], "other", NoTool)]
             /\ blurred' = [blurred EXCEPT ![h] = blurred[h] \/ turn[h].pc = "tool"]
    BY <1>3
  <2>2. h \in Callers
    BY CallsTyped DEF Hears
  <2> DEFINE w == Journal(sess[h], "other", NoTool)
  <2>3. sess[h] \in Row /\ blurred \in [Callers -> BOOLEAN]
    BY <2>2 DEF TurnInv, TypeOK
  <2>4. w \in Row /\ w.st = sess[h].st /\ w.note = sess[h].note /\ w.last = "other"
    BY <2>3 DEF Journal, Row
  <2>5. sess' = [sess EXCEPT ![h] = w]
    BY <2>1
  <2> HIDE DEF w
  <2>6. sess' \in [Callers -> Row] /\ blurred' \in [Callers -> BOOLEAN]
    BY <2>1, <2>2, <2>3, <2>4, <2>5 DEF TurnInv, TypeOK
  <2>7. TypeOK'
    BY <1>1, <2>6 DEF TurnInv, TypeOK, LLMInv
  <2>8. ASSUME NEW q \in Sessioned
        PROVE  /\ PairOK(turn'[q], sess'[q], blurred'[q])
               /\ NoteOK(turn'[q], sess'[q], inFlight'[q], blurred'[q])
               /\ CutOK(q)'
    <3>1. /\ q \in Callers /\ PairOK(turn[q], sess[q], blurred[q])
          /\ NoteOK(turn[q], sess[q], inFlight[q], blurred[q])
      BY CallsTyped DEF TurnInv
    <3>2. CutOK(q)'
      BY <1>1 DEF CutOK
    <3>3. CASE q = h
      <4>1. /\ sess'[q] = w /\ turn'[q] = turn[q] /\ inFlight'[q] = inFlight[q]
            /\ blurred'[q] = (blurred[q] \/ turn[q].pc = "tool")
        BY <1>1, <2>1, <2>2, <2>5, <3>3 DEF TurnInv, TypeOK
      <4>2. PairOK(turn'[q], sess'[q], blurred'[q])
        BY <2>4, <3>1, <3>3, <4>1 DEF PairOK, Logged
      <4>3. NoteOK(turn'[q], sess'[q], inFlight'[q], blurred'[q])
        BY <2>4, <3>1, <3>3, <4>1 DEF NoteOK
      <4> QED BY <3>2, <4>2, <4>3
    <3>4. CASE q # h
      <4>1. sess'[q] = sess[q] /\ blurred'[q] = blurred[q]
        BY <2>1, <2>5, <3>1, <3>4 DEF TurnInv, TypeOK
      <4> QED BY <1>1, <3>1, <3>2, <4>1
    <3> QED BY <3>3, <3>4
  <2> QED BY <1>1, <2>7, <2>8 DEF TurnInv
<1> QED BY <1>2, <1>3 DEF ReportWrites

-----------------------------------------------------------------------------
(* The end of the process, the start after it, and the theorems            *)

\* What stays when neither a turn nor a session moves.
LEMMA QuietKeepsInv ==
  ASSUME TurnInv, LLMInv', UNCHANGED <<turn, sess, up, crashes, writing, inFlight, blurred>>,
         stamp' \in [Cooled -> BOOLEAN]
  PROVE  TurnInv'
<1>1. TypeOK'
  BY DEF TurnInv, TypeOK, LLMInv
<1> QED BY <1>1 DEF TurnInv, CutOK

\* A crash cuts every run where it stands; what was in flight is kept in history.
LEMMA CrashKeepsInv ==
  ASSUME TurnInv, LLMInv', Crash
  PROVE  TurnInv'
<1> DEFINE Left(p) == IF turn[p].pc \in Running \cup {"approved"}
                      THEN [Fresh EXCEPT !.pc = "cut"] ELSE turn[p]
           Held(p) == IF p \in Sessioned /\ turn[p].pc = "tool" THEN turn[p].tool ELSE NoTool
<1>1. turn' = [p \in Callers |-> Left(p)] /\ inFlight' = [p \in Callers |-> Held(p)]
  BY DEF Crash
<1>2. [Fresh EXCEPT !.pc = "cut"] \in Frame /\ RunOK([Fresh EXCEPT !.pc = "cut"])
      /\ [Fresh EXCEPT !.pc = "cut"].pc = "cut"
  BY RestFrame DEF Resting
<1>3. ASSUME NEW p \in Callers PROVE Left(p) \in Frame /\ RunOK(Left(p)) /\ Held(p) \in Calls \cup {NoTool}
  BY <1>2, TurnTyped
<1>4. crashes' \in 0..MaxCrashes
  BY TurnAssumption DEF TurnAssumption, Crash, TurnInv, TypeOK
<1>5. TypeOK'
  BY <1>1, <1>3, <1>4 DEF Crash, TurnInv, TypeOK, LLMInv
<1>6. ASSUME NEW p \in Callers PROVE RunOK(turn'[p])
  BY <1>1, <1>3
<1>7. ASSUME NEW p \in Sessioned
      PROVE  /\ PairOK(turn'[p], sess'[p], blurred'[p])
             /\ NoteOK(turn'[p], sess'[p], inFlight'[p], blurred'[p]) /\ CutOK(p)'
  <2>1. p \in Callers /\ sess' = sess
    BY CallsTyped DEF Crash
  <2>2. turn'[p] = Left(p) /\ inFlight'[p] = Held(p) /\ PairOK(turn[p], sess[p], blurred[p])
          /\ blurred' = blurred
    BY <1>1, <2>1, TurnTyped DEF Crash
  <2>3. CASE turn[p].pc \in Running \cup {"approved"}
    <3>1. turn'[p].pc = "cut" /\ sess[p].st \in {"active", "failed", "paused"}
      BY <1>2, <2>2, <2>3 DEF PairOK, Running
    <3>2. PairOK(turn'[p], sess'[p], blurred'[p])
          /\ NoteOK(turn'[p], sess'[p], inFlight'[p], blurred'[p])
      BY <2>1, <3>1 DEF PairOK, NoteOK, InRun
    <3>3. CutOK(p)'
      BY <2>1, <2>2 DEF PairOK, Logged, CutOK
    <3> QED BY <3>2, <3>3
  <2>4. CASE turn[p].pc \notin Running \cup {"approved"}
    <3>1. turn'[p] = turn[p] /\ inFlight'[p] = NoTool
      BY <2>2, <2>4 DEF Running, InRun
    <3> QED BY <2>1, <2>2, <3>1 DEF NoteOK, CutOK
  <2> QED BY <2>3, <2>4
<1> QED BY <1>5, <1>6, <1>7 DEF TurnInv

\* Recovery pauses the sessions that were cut and notes the step.
LEMMA RestartKeepsInv ==
  ASSUME TurnInv, LLMInv', Restart
  PROVE  TurnInv'
<1> DEFINE Noted(p) == IF p \in Orphans
                       THEN [NoRow EXCEPT !.st = "paused", !.note = StepNote(sess[p])] ELSE sess[p]
           Left(p) == IF p \in Orphans THEN [Fresh EXCEPT !.pc = "paused"]
                      ELSE IF turn[p].pc = "cut" THEN [Fresh EXCEPT !.pc = "done"] ELSE turn[p]
<1>1. turn' = [p \in Callers |-> Left(p)] /\ sess' = [p \in Callers |-> Noted(p)]
  BY DEF Restart
<1>2. ASSUME NEW p \in Callers PROVE Noted(p) \in Row
  <2>1. StepNote(sess[p]) \in {"none", "read", "write", "between"}
    BY DEF StepNote, KindOf
  <2>2. [NoRow EXCEPT !.st = "paused", !.note = StepNote(sess[p])] \in Row
    BY <2>1, NoRowTyped DEF Row
  <2> QED BY <2>2, TurnTyped
<1>3. ASSUME NEW pc \in {"paused", "done"}
      PROVE  /\ [Fresh EXCEPT !.pc = pc] \in Frame /\ RunOK([Fresh EXCEPT !.pc = pc])
             /\ [Fresh EXCEPT !.pc = pc].pc = pc
  BY RestFrame DEF Resting
<1>4. ASSUME NEW p \in Callers PROVE Left(p) \in Frame /\ RunOK(Left(p))
  BY <1>3, TurnTyped
<1>5. TypeOK'
  BY <1>1, <1>2, <1>4 DEF Restart, TurnInv, TypeOK, LLMInv
<1>6. ASSUME NEW p \in Callers PROVE RunOK(turn'[p])
  BY <1>1, <1>4
<1>7. ASSUME NEW p \in Sessioned
      PROVE  /\ PairOK(turn'[p], sess'[p], blurred'[p])
             /\ NoteOK(turn'[p], sess'[p], inFlight'[p], blurred'[p]) /\ CutOK(p)'
  <2>1. p \in Callers /\ inFlight' = inFlight /\ ~up /\ up'
    BY CallsTyped DEF Restart
  <2>2. /\ turn'[p] = Left(p) /\ sess'[p] = Noted(p) /\ blurred' = blurred
        /\ PairOK(turn[p], sess[p], blurred[p]) /\ CutOK(p)
        /\ NoteOK(turn[p], sess[p], inFlight[p], blurred[p])
    BY <1>1, <1>7, <2>1, TurnTyped DEF TurnInv, Restart
  <2>3. CutOK(p)'
    BY <2>1 DEF CutOK
  <2>4. CASE p \in Orphans
    <3>1. /\ turn'[p].pc = "paused" /\ sess'[p].note = StepNote(sess[p])
          /\ sess'[p].st = "paused" /\ sess[p].st = "active"
      BY <1>3, <2>2, <2>4, NoRowTyped DEF Row, Orphans
    <3>2. PairOK(turn'[p], sess'[p], blurred'[p])
      BY <3>1 DEF PairOK, InRun
    <3>3. NoteOK(turn'[p], sess'[p], inFlight'[p], blurred'[p])
      BY <2>1, <2>2, <3>1 DEF NoteOK, CutOK, Logged, StepNote
    <3> QED BY <2>3, <3>2, <3>3
  <2>5. CASE p \notin Orphans /\ turn[p].pc = "cut"
    <3>1. turn'[p].pc = "done" /\ sess'[p] = sess[p] /\ sess[p].st \in {"failed", "paused"}
      BY <1>3, <2>1, <2>2, <2>5 DEF Orphans, PairOK
    <3> QED BY <2>3, <3>1 DEF PairOK, NoteOK, InRun
  <2>6. CASE p \notin Orphans /\ turn[p].pc # "cut"
    <3>1. turn'[p] = turn[p] /\ sess'[p] = sess[p]
      BY <2>2, <2>6
    <3> QED BY <2>1, <2>2, <2>3, <3>1 DEF NoteOK
  <2> QED BY <2>4, <2>5, <2>6
<1> QED BY <1>5, <1>6, <1>7 DEF TurnInv

\* No turn has begun.
LEMMA TurnInvInit == Init => TurnInv
<1> SUFFICES ASSUME Init PROVE TurnInv
  OBVIOUS
<1>1. LLMInv
  BY LLMInvInit DEF Init
<1>2. TypeOK
  BY <1>1, FreshIs, NoRowTyped, TurnAssumption DEF TurnAssumption, Init, TypeOK, LLMInv
<1>3. ASSUME NEW p \in Callers PROVE turn[p] = Fresh /\ Fresh.pc = "new" /\ inFlight[p] = NoTool
  BY DEF Init, Fresh
<1>4. \A p \in Callers : RunOK(turn[p])
  BY <1>3, FreshIs DEF RunOK
<1>5. \A p \in Sessioned : /\ PairOK(turn[p], sess[p], blurred[p])
                              /\ NoteOK(turn[p], sess[p], inFlight[p], blurred[p]) /\ CutOK(p)
  BY <1>3, CallsTyped DEF PairOK, NoteOK, CutOK, InRun
<1> QED BY <1>1, <1>2, <1>4, <1>5 DEF TurnInv

\* Every step keeps TurnInv.
LEMMA TurnInvNext == TurnInv /\ [Next]_vars => TurnInv'
<1> SUFFICES ASSUME TurnInv, [Next]_vars PROVE TurnInv'
  OBVIOUS
<1>1. LLMInv'
  BY TurnCallsModels, LLMInvNext DEF TurnInv
<1>2. ASSUME NEW p \in Callers, Own(p) PROVE TurnInv'
  BY <1>1, <1>2, MoveKeepsInv DEF Own
<1>3. ASSUME NEW p \in Callers, Works(p) PROVE TurnInv'
  <2>1. CASE ModelWalks(p)
    BY <1>1, <2>1, QuietKeepsInv DEF ModelWalks, Still, TurnInv, TypeOK
  <2>2. CASE ~ModelWalks(p)
    BY <1>2, <1>3, <2>2, RunSteps, AroundSteps DEF Works
  <2> QED BY <2>1, <2>2
<1>4. ASSUME NEW p \in Callers, \/ Approve(p) \/ Decline(p) \/ Answered(p) \/ ApprovedReturns(p)
                                \/ Resume(p) \/ Abandon(p) \/ Expire(p)
      PROVE  TurnInv'
  BY <1>2, <1>4, AroundSteps
<1>9. ASSUME NEW p \in Callers, Begin(p) \/ Displaced(p) \/ ReportWrites(p)
      PROVE  TurnInv'
  BY <1>1, <1>9, BeginKeepsInv, DisplacedKeepsInv, WriteKeepsInv
<1>5. ASSUME NEW c \in Cooled, WindowPasses(c) PROVE TurnInv'
  BY <1>1, <1>5, QuietKeepsInv DEF WindowPasses, TurnInv, TypeOK
<1>6. CASE Crash
  BY <1>1, <1>6, CrashKeepsInv
<1>7. CASE Restart
  BY <1>1, <1>7, RestartKeepsInv
<1>8. CASE UNCHANGED vars
  BY <1>1, <1>8, QuietKeepsInv DEF vars, TurnInv, TypeOK
<1> QED BY <1>3, <1>4, <1>5, <1>6, <1>7, <1>8, <1>9 DEF Next

\* TurnInv holds throughout.
LEMMA TurnInvariant == Spec => []TurnInv
  BY TurnInvInit, TurnInvNext, PTL DEF Spec

\* The records of turns, sessions and calls keep their types; no count of a
\* call passes the duplicate limit.
THEOREM TurnTypes == Spec => []TypeOK
<1>1. TurnInv => TypeOK
  BY DEF TurnInv
<1> QED BY <1>1, TurnInvariant, PTL

\* A side effect starts at most once in a run, whatever the model repeats and
\* whether or not its first start came back.
THEOREM EffectsOnce == Spec => []EffectOnce
<1>1. TurnInv => EffectOnce
  BY DEF TurnInv, RunOK, EffectOnce
<1> QED BY <1>1, TurnInvariant, PTL

\* A turn that is over leaves its session settled or paused by a newer task:
\* replies, failures, retries, refusals, expired questions, displacement and
\* crashes.
THEOREM SessionsSettled == Spec => []SessionSettled
<1>1. TurnInv => SessionSettled
  BY DEF TurnInv, PairOK, SessionSettled
<1> QED BY <1>1, TurnInvariant, PTL

\* The note a paused session is resumed with names the kind of the step of its
\* loop that the crash interrupted, unless something was written into its
\* journal while the step ran; then it may say "between two steps".
THEOREM StepsReported == Spec => []CutStepsReported
<1>1. TurnInv => CutStepsReported
  BY DEF TurnInv, NoteOK, CutStepsReported
<1> QED BY <1>1, TurnInvariant, PTL
=============================================================================
