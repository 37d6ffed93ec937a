------------------------------ MODULE LLMAccess ------------------------------
(***************************************************************************)
(* llm/: every model call of the process goes through one FIFO semaphore   *)
(* (llm/semaphore.py).  The caller that holds it walks a provider's models *)
(* and keys, beginning with the key after the one that last answered; the  *)
(* generation tier (llm/tiers.py) lets go and queues again for groq when   *)
(* openrouter is exhausted.                                                *)
(***************************************************************************)
EXTENDS Naturals, Sequences

CONSTANTS
  Callers,       \* coroutines that call a model
  Keys,          \* provider -> number of its API keys
  Models         \* provider -> number of models it tries in turn

Provider == {"openrouter", "groq"}

ASSUME LLMAssumption ==
  /\ Keys \in [Provider -> Nat \ {0}]   \* none: as if its one key failed
  /\ Models \in [Provider -> Nat \ {0}]

VARIABLES
  sem,           \* llm_semaphore: the head holds it, the others wait
  keyIdx,        \* _key_idx of each provider
  call           \* each caller's last or current call

llmVars == <<sem, keyIdx, call>>

Grid(prov) == {prov} \X (1..Models[prov]) \X (0..Keys[prov] - 1)

Call ==
  [st    : {"idle", "waiting", "exhausted"},
   entry : Provider,                   \* where it began: the tier
   prov  : Provider,
   model : Nat,                        \* position in the provider's models
   off   : Nat,                        \* keys tried with this model
   tried : SUBSET (Grid("openrouter") \cup Grid("groq"))]   \* history

NoCall == [st |-> "idle", entry |-> "groq", prov |-> "groq",
           model |-> 1, off |-> 0, tried |-> {}]

LLMInit ==
  /\ sem = <<>>
  /\ keyIdx = [prov \in Provider |-> 0]
  /\ call = [p \in Callers |-> NoCall]

-----------------------------------------------------------------------------
\* nobody moves a provider's _key_idx while p holds the semaphore, so the
\* start that chat() reads first is still keyIdx
KeyOf(p) == (keyIdx[call[p].prov] + call[p].off) % Keys[call[p].prov]

Holds(p) == sem # <<>> /\ Head(sem) = p

Place(p, c) == call' = [call EXCEPT ![p] = c]

Release(p) == sem' = Tail(sem) /\ Place(p, NoCall)

Queued(prov) == [NoCall EXCEPT !.st = "waiting", !.entry = prov, !.prov = prov]

Request(p, prov) ==
  /\ call[p].st # "waiting"
  /\ sem' = Append(sem, p)
  /\ Place(p, Queued(prov))
  /\ UNCHANGED keyIdx

\* AllKeysExhausted from openrouter: the semaphore is released, then groq
\* asks for it again behind whoever waits
FallsBack(p, c) ==
  /\ sem' = Append(Tail(sem), p)
  /\ Place(p, [c EXCEPT !.prov = "groq", !.model = 1, !.off = 0])

\* the models of c's provider are used up
GivesUp(p, c) ==
  \/ c.prov = "openrouter" /\ FallsBack(p, c)
  \/ /\ c.prov = "groq"
     /\ sem' = Tail(sem)
     /\ Place(p, [c EXCEPT !.st = "exhausted"])

NextModel(p, c) ==
  \/ /\ c.model < Models[c.prov]
     /\ Place(p, [c EXCEPT !.model = @ + 1, !.off = 0])
     /\ UNCHANGED sem
  \/ c.model >= Models[c.prov] /\ GivesUp(p, c)

\* p is head of the queue: its request is on the way
Asking(p) == call[p].st = "waiting" /\ Holds(p)

\* the next call of this provider begins with the key after this one
Rotates(p) ==
  keyIdx' = [keyIdx EXCEPT ![call[p].prov] = (KeyOf(p) + 1) % Keys[call[p].prov]]

Answers(p) == Asking(p) /\ Rotates(p) /\ Release(p)

\* mutant: the last key of each model is never asked
LastKeySkipped(p) ==
  LET c == [call[p] EXCEPT !.off = @ + 1,
                           !.tried = @ \cup {<<call[p].prov, call[p].model, KeyOf(p)>>}] IN
  /\ Asking(p)
  /\ \/ c.off + 1 < Keys[c.prov] /\ Place(p, c) /\ UNCHANGED sem
     \/ c.off + 1 >= Keys[c.prov] /\ NextModel(p, c)
  /\ UNCHANGED keyIdx

\* a rate limit, a refused key, a timeout: the next key
KeyFails(p) ==
  LET c == [call[p] EXCEPT !.off = @ + 1,
                           !.tried = @ \cup {<<call[p].prov, call[p].model, KeyOf(p)>>}] IN
  /\ Asking(p)
  /\ \/ c.off < Keys[c.prov] /\ Place(p, c) /\ UNCHANGED sem
     \/ c.off >= Keys[c.prov] /\ NextModel(p, c)
  /\ UNCHANGED keyIdx

\* 404: no key would do, the next model
ModelMissing(p) ==
  /\ Asking(p)
  /\ NextModel(p, [call[p] EXCEPT
       !.tried = @ \cup ({call[p].prov} \X {call[p].model} \X (0..Keys[call[p].prov] - 1))])
  /\ UNCHANGED keyIdx

\* 400: raised to the caller
BadRequest(p) == Asking(p) /\ Release(p) /\ UNCHANGED keyIdx

\* the caller has its answer, or its error, and calls again at once
AsksAgain(p, prov) ==
  /\ Asking(p)
  /\ sem' = Append(Tail(sem), p)
  /\ Place(p, Queued(prov))

AnswersAndAsks(p, prov)  == AsksAgain(p, prov) /\ Rotates(p)
BadRequestAsks(p, prov)  == AsksAgain(p, prov) /\ UNCHANGED keyIdx

\* steps of the walk; the last of them ends the call as "exhausted"
Walks(p) == KeyFails(p) \/ ModelMissing(p)

\* the process dies: all of it is module state
Reset ==
  /\ sem' = <<>>
  /\ keyIdx' = [prov \in Provider |-> 0]
  /\ call' = [p \in Callers |-> NoCall]

LLMNext ==
  \/ \E p \in Callers :
       \/ Walks(p) \/ Answers(p) \/ BadRequest(p)
       \/ \E prov \in Provider :
            Request(p, prov) \/ AnswersAndAsks(p, prov) \/ BadRequestAsks(p, prov)
  \/ Reset

LLMSpec == LLMInit /\ [][LLMNext]_llmVars

-----------------------------------------------------------------------------
LLMTypeOK ==
  /\ sem \in Seq(Callers)
  /\ keyIdx \in [Provider -> Nat]
  /\ call \in [Callers -> Call]

Asked(c) == IF c.entry = "openrouter" THEN Provider ELSE {"groq"}

\* AllKeysExhausted reaches a caller only after every model of its tier was
\* tried with every key or was missing (llm/openrouter.py:42 "Try every (model,
\* key) combination once", llm/tiers.py:21), whichever key the walk began with
ExhaustedMeansTried ==
  \A p \in Callers :
    call[p].st = "exhausted" =>
      \A prov \in Asked(call[p]) : Grid(prov) \subseteq call[p].tried
=============================================================================
