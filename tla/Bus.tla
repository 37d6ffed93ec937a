-------------------------------- MODULE Bus --------------------------------
(***************************************************************************)
(* bus/server.py and bus/client.py: a relay of lines between the clients'  *)
(* processes.  A handler per connection reads a line and broadcasts it to  *)
(* every subscriber before it reads the next; every drain may suspend it.  *)
(* A broadcast walks the subscriber set itself: a set that changed its     *)
(* size meanwhile ends the walk, the handler and the publisher's           *)
(* connection.  The server lives in the process of the client Host.        *)
(***************************************************************************)
EXTENDS Integers, Sequences, FiniteSets

CONSTANTS
  Clients,     \* processes with a BusClient
  Host,        \* the one that also runs the server
  ShortDrains, \* is no broadcast under way when a client connects again? (No drain outlasts RECONNECT_DELAY.)
  MaxLinks,    \* bound: connections of one client
  MaxLines,    \* bound: events published by each client
  MaxDeaths    \* bound: processes that end

ASSUME BusAssumption ==
  /\ Host \in Clients /\ IsFiniteSet(Clients) /\ ShortDrains \in BOOLEAN
  /\ MaxLinks \in Nat /\ MaxLines \in [Clients -> Nat] /\ MaxDeaths \in Nat

VARIABLES
  link,      \* per client: the connection its _writer is for, 0 when None
  made,      \* per client: connections made so far
  inbox,     \* per connection: lines the server has not read
  outbox,    \* per connection: lines the client has not read
  handler,   \* per connection: _handle_client
  subs,      \* _subscribers
  said,      \* per client: events given to publish
  heard,     \* per client: what its handlers got since the process began
  deaths

busVars == <<link, made, inbox, outbox, handler, subs, said, heard, deaths>>

Links == Clients \X (1..MaxLinks)
ClientOf(k) == k[1]
LinkOf(c) == <<c, link[c]>>
Connected(c) == link[c] # 0

Alive(k) == handler[k].pc \in {"accepted", "reading", "sending"}

BusInit ==
  /\ link = [c \in Clients |-> 0] /\ made = [c \in Clients |-> 0]
  /\ inbox = [k \in Links |-> <<>>] /\ outbox = [k \in Links |-> <<>>]
  /\ handler = [k \in Links |-> [pc |-> "none"]] /\ subs = {}
  /\ said = [c \in Clients |-> 0] /\ heard = [c \in Clients |-> <<>>]
  /\ deaths = 0

-----------------------------------------------------------------------------
(* the client *)

\* a client that was connected before waits RECONNECT_DELAY, or starts anew
WaitedFor(c) == made[c] = 0 \/ \A k \in Links : handler[k].pc # "sending"

\* _loop opens a connection; the kernel accepts it before the server does
Connect(c) ==
  /\ ~Connected(c) /\ made[c] < MaxLinks
  /\ ShortDrains => WaitedFor(c)
  /\ made' = [made EXCEPT ![c] = @ + 1]
  /\ link' = [link EXCEPT ![c] = made[c] + 1]
  /\ handler' = [handler EXCEPT ![<<c, made[c] + 1>>] = [pc |-> "accepted"]]
  /\ UNCHANGED <<inbox, outbox, subs, said, heard, deaths>>

\* publish: without a writer the event is dropped, without a reader lost
Publish(c) ==
  /\ said[c] < MaxLines[c]
  /\ said' = [said EXCEPT ![c] = @ + 1]
  /\ inbox' = IF Connected(c) /\ Alive(LinkOf(c))
              THEN [inbox EXCEPT ![LinkOf(c)] = Append(@, said[c] + 1)] ELSE inbox
  /\ UNCHANGED <<link, made, outbox, handler, subs, heard, deaths>>

\* _read_loop hands a line to the handlers
Hear(c) ==
  /\ Connected(c) /\ outbox[LinkOf(c)] # <<>>
  /\ heard' = [heard EXCEPT ![c] = Append(@, Head(outbox[LinkOf(c)]))]
  /\ outbox' = [outbox EXCEPT ![LinkOf(c)] = Tail(@)]
  /\ UNCHANGED <<link, made, inbox, handler, subs, said, deaths>>

\* the server closed: end of file or a reset that takes unread lines with it
SeesClosed(c) ==
  /\ Connected(c) /\ ~Alive(LinkOf(c))
  /\ link' = [link EXCEPT ![c] = 0]
  /\ outbox' = [outbox EXCEPT ![LinkOf(c)] = <<>>]
  /\ UNCHANGED <<made, inbox, handler, subs, said, heard, deaths>>

-----------------------------------------------------------------------------
(* the server *)

Becomes(k, h) == handler' = [handler EXCEPT ![k] = h]

Reading == [pc |-> "reading"]
Broadcast(line) ==
  [pc |-> "sending", line |-> line, began |-> subs, done |-> {}, dead |-> {}]

Accept(k) ==
  /\ handler[k].pc = "accepted"
  /\ subs' = subs \cup {k} /\ Becomes(k, Reading)
  /\ UNCHANGED <<link, made, inbox, outbox, said, heard, deaths>>

ReadLine(k) ==
  /\ handler[k].pc = "reading" /\ inbox[k] # <<>>
  /\ inbox' = [inbox EXCEPT ![k] = Tail(@)]
  /\ Becomes(k, Broadcast(<<k, Head(inbox[k])>>))
  /\ UNCHANGED <<link, made, outbox, subs, said, heard, deaths>>

\* the finally of _handle_client
Ends(k) ==
  /\ subs' = subs \ {k} /\ Becomes(k, [pc |-> "closed"])
  /\ inbox' = [inbox EXCEPT ![k] = <<>>]
  /\ UNCHANGED <<link, made, outbox, said, heard, deaths>>

EndOfFile(k) ==
  /\ handler[k].pc = "reading" /\ inbox[k] = <<>> /\ link[ClientOf(k)] # k[2]
  /\ Ends(k)

\* the walk may go on while the set has the size it began with; a member that
\* was exchanged for another may be met or missed
MayMeet(h) == IF Cardinality(subs) = Cardinality(h.began) THEN subs \ h.done ELSE {}

SendOne(k) ==
  LET h == handler[k]
  IN /\ h.pc = "sending"
     /\ \E w \in MayMeet(h) :
          \/ /\ link[ClientOf(w)] = w[2]
             /\ outbox' = [outbox EXCEPT ![w] = Append(@, h.line)]
             /\ Becomes(k, [h EXCEPT !.done = @ \cup {w}])
          \/ /\ link[ClientOf(w)] # w[2]
             /\ \E dead \in SUBSET {w} :
                  Becomes(k, [h EXCEPT !.done = @ \cup {w}, !.dead = @ \cup dead])
             /\ UNCHANGED outbox
     /\ UNCHANGED <<link, made, inbox, subs, said, heard, deaths>>

\* mutant: the walk begins again with the set as it is
StartsOver(k) ==
  /\ handler[k].pc = "sending" /\ Cardinality(subs) # Cardinality(handler[k].began)
  /\ Becomes(k, Broadcast(handler[k].line))
  /\ UNCHANGED <<link, made, inbox, outbox, subs, said, heard, deaths>>

\* RuntimeError: Set changed size during iteration
SetChanged(k) ==
  /\ handler[k].pc = "sending" /\ Cardinality(subs) # Cardinality(handler[k].began)
  /\ Ends(k)

AllSent(k) ==
  LET h == handler[k]
  IN /\ h.pc = "sending" /\ Cardinality(subs) = Cardinality(h.began)
     /\ subs = h.began => subs \subseteq h.done
     /\ subs' = subs \ h.dead /\ Becomes(k, Reading)
     /\ UNCHANGED <<link, made, inbox, outbox, said, heard, deaths>>

-----------------------------------------------------------------------------
\* A process ends; with the host's the server, its handlers and what they
\* had not sent.
ProcessEnds(c) ==
  /\ deaths < MaxDeaths /\ deaths' = deaths + 1
  /\ link' = [link EXCEPT ![c] = 0] /\ heard' = [heard EXCEPT ![c] = <<>>]
  /\ outbox' = [k \in Links |-> IF ClientOf(k) = c THEN <<>> ELSE outbox[k]]
  /\ IF c = Host
     THEN /\ handler' = [k \in Links |-> IF Alive(k) THEN [pc |-> "closed"] ELSE handler[k]]
          /\ inbox' = [k \in Links |-> <<>>] /\ subs' = {}
     ELSE UNCHANGED <<handler, inbox, subs>>
  /\ UNCHANGED <<made, said>>

BusNext ==
  \/ \E c \in Clients :
       \/ Connect(c)
       \/ Publish(c)
       \/ Hear(c)
       \/ SeesClosed(c)
       \/ ProcessEnds(c)
  \/ \E k \in Links :
       \/ Accept(k)
       \/ ReadLine(k)
       \/ EndOfFile(k)
       \/ SendOne(k)
       \/ SetChanged(k)
       \/ AllSent(k)

BusSpec == BusInit /\ [][BusNext]_busVars

-----------------------------------------------------------------------------
BusTypeOK ==
  /\ link \in [Clients -> 0..MaxLinks] /\ made \in [Clients -> 0..MaxLinks]
  /\ \A c \in Clients : link[c] <= made[c] /\ said[c] \in 0..MaxLines[c]
  /\ subs \subseteq Links
  /\ \A k \in Links : handler[k].pc \in {"none", "accepted", "reading", "sending", "closed"}
  /\ deaths \in 0..MaxDeaths

\* A process hears what came in on one connection in the order it was
\* published and each event once, although broadcasts of several publishers
\* interleave, connections come and go in the middle of a walk, and a walk may
\* be given up (server.py:36-44, 56-69).  A drain that outlasts the delay of a
\* reconnect can bring an event twice.
HeardInOrder ==
  \A c \in Clients : \A i, j \in DOMAIN heard[c] :
    i < j /\ heard[c][i][1] = heard[c][j][1] => heard[c][i][2] < heard[c][j][2]
=============================================================================
