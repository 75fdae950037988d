--------------------------- MODULE IsPrimeServer ---------------------------
(***************************************************************************)
(* The primality server of isprime_server.c: callbacks of one libuv loop   *)
(* and, in the mode that does not block, worker threads that test numbers. *)
(*                                                                         *)
(* Each connected client has a peer_state_t with the number asked for and  *)
(* the buffer the answer is sent from.  The loop, a worker thread and      *)
(* libuv's write queue all use it, with no lock.  libuv itself is          *)
(* external: a loop that runs one callback at a time, a pool that takes    *)
(* work in the order it was queued, and a write that keeps the pointer to  *)
(* the buffer until the socket takes the bytes.                            *)
(***************************************************************************)
EXTENDS Integers, Sequences, FiniteSets, SequencesExt

CONSTANTS
  Peer,         \* connections the server may have at a time
  Number,       \* numbers the clients ask for
  Width,        \* bits of the uint64_t
  Pool,         \* threads of libuv's pool
  MaxRequests,  \* bound: numbers one client sends over one connection
  Eager,        \* those whose clients send numbers before they have the answers
  Brief,        \* those that may end before their clients have the answers
  NULL

ASSUME ServerAssumption ==
  /\ Number \subseteq Nat /\ NULL \notin Number
  /\ Width \in Nat /\ Pool \in Nat \ {0} /\ MaxRequests \in Nat
  /\ Eager \subseteq Peer /\ Brief \subseteq Peer

\* How many numbers there are of Width bits; the provers do not know of ^.
ASSUME PowerAssumption == 2 ^ Width \in Nat \ {0}

VARIABLES
  mode,       \* the environment variable MODE, read for each request
  client,     \* the uv_tcp_t of each peer
  peerstate,  \* its peer_state_t, or NULL
  queue,      \* uv_work_t's that wait for a thread of the pool
  running,    \* those a thread has taken
  finished,   \* those whose on_work_completed is due, in order
  writes,     \* for each peer its uv_write_t's, with the length to send
  asked,      \* for each peer the numbers sent by the client
  replies,    \* and the texts it has received
  server      \* "up", or "dead" after die()

vars == <<mode, client, peerstate, queue, running, finished, writes, asked, replies, server>>
pool == <<queue, running, finished>>
talk == <<asked, replies>>

\* A text is the answer it reads as, or torn when it is neither of the two.
Answer == {"prime", "composite"}
Text   == Answer \cup {"torn"}

\* sendbuf holds text, sendbuf_end is the length of end.
PeerState == [number : Number \cup {NULL}, text : Text, end : Answer \cup {NULL}]
NewState  == [number |-> NULL, text |-> "torn", end |-> NULL]

ASSUME NullAssumption == NULL \notin PeerState

\* req distinguishes the works for one peer, answer is what isprime has
\* found, written whether it is in sendbuf yet.
Work == [peer : Peer, req : Nat, answer : Answer \cup {NULL}, written : BOOLEAN]

Init ==
  /\ mode \in {"WORK", "BLOCK"}
  /\ client = [p \in Peer |-> "away"]
  /\ peerstate = [p \in Peer |-> NULL]
  /\ queue = <<>> /\ running = {} /\ finished = <<>>
  /\ writes = [p \in Peer |-> <<>>]
  /\ asked = [p \in Peer |-> <<>>] /\ replies = [p \in Peer |-> <<>>]
  /\ server = "up"

-----------------------------------------------------------------------------
(***************************************************************************)
(* The test.  r * r is computed with Width bits; r itself reaches n before *)
(* it can overflow.                                                        *)
(***************************************************************************)

OddUpTo(m) == {r \in 3 .. m : r % 2 = 1}

\* Mutant: a divisor equal to the root is not tried.
isprimeShort(n) ==
  IF n % 2 = 0 THEN n = 2
  ELSE ~ \E r \in OddUpTo(n) :
           n % r = 0 /\ \A q \in OddUpTo(r) : (q * q) % 2 ^ Width < n

\* The loop stops at the first r whose square is above n, and returns false
\* at a divisor it reaches before.
isprime(n) ==
  IF n % 2 = 0 THEN n = 2
  ELSE ~ \E r \in OddUpTo(n) :
           n % r = 0 /\ \A q \in OddUpTo(r) : (q * q) % 2 ^ Width <= n

Outcome(n) == IF isprime(n) THEN "prime" ELSE "composite"

-----------------------------------------------------------------------------
(***************************************************************************)
(* Connections.                                                            *)
(***************************************************************************)

on_peer_connected(p) ==
  /\ server = "up"
  /\ client[p] = "away"
  /\ \/ /\ client' = [client EXCEPT ![p] = "open"]
        /\ peerstate' = [peerstate EXCEPT ![p] = NewState]
        /\ UNCHANGED server
     \/ /\ client' = [client EXCEPT ![p] = "closing"]   \* uv_accept failed
        /\ UNCHANGED <<peerstate, server>>
     \/ /\ server' = "dead"   \* it was reset already, so it has no peer name
        /\ UNCHANGED <<client, peerstate>>
  /\ UNCHANGED <<mode, pool, writes, talk>>

Waiting(p) == Len(replies[p]) < Len(asked[p])

MayAsk(p) == p \in Eager \/ ~ Waiting(p)
MayEnd(p) == p \in Brief \/ ~ Waiting(p)

\* on_peer_read at the end of the stream, or after an error: the client has
\* closed, or the connection was reset.
PeerLeaves(p) ==
  /\ server = "up"
  /\ client[p] = "open"
  /\ MayEnd(p)
  /\ client' = [client EXCEPT ![p] = "closing"]
  /\ UNCHANGED <<mode, peerstate, pool, writes, talk, server>>

\* The close callback.  libuv ends the writes that are still queued with
\* UV_ECANCELED first, and on_sent_response dies of that.  The connection
\* is over; the model uses p for the next one.
on_client_closed(p) ==
  /\ server = "up"
  /\ client[p] = "closing"
  /\ IF writes[p] # <<>>
     THEN server' = "dead" /\ UNCHANGED <<client, peerstate, talk>>
     ELSE /\ client' = [client EXCEPT ![p] = "away"]
          /\ peerstate' = [peerstate EXCEPT ![p] = NULL]
          /\ asked' = [asked EXCEPT ![p] = <<>>]
          /\ replies' = [replies EXCEPT ![p] = <<>>]
          /\ UNCHANGED server
  /\ UNCHANGED <<mode, pool, writes>>

-----------------------------------------------------------------------------
(***************************************************************************)
(* A request and its answer.                                               *)
(***************************************************************************)

\* uv_write with sendbuf up to sendbuf_end; when it refuses, the server dies.
uv_write(p, end) ==
  \/ writes' = [writes EXCEPT ![p] = Append(@, end)] /\ UNCHANGED server
  \/ server' = "dead" /\ UNCHANGED writes

\* Mutant: with MODE unset the number is kept and no work is queued.
on_peer_readDrops(p, n) ==
  /\ server = "up"
  /\ client[p] = "open"
  /\ MayAsk(p)
  /\ Len(asked[p]) < MaxRequests
  /\ asked' = [asked EXCEPT ![p] = Append(@, n)]
  /\ peerstate' = [peerstate EXCEPT ![p].number = n]
  /\ UNCHANGED <<mode, client, pool, writes, replies, server>>

\* Mutant: with MODE=BLOCK the number is tested at once and given to the pool too.
on_peer_readBoth(p, n) ==
  /\ server = "up"
  /\ client[p] = "open"
  /\ MayAsk(p)
  /\ Len(asked[p]) < MaxRequests
  /\ asked' = [asked EXCEPT ![p] = Append(@, n)]
  /\ IF mode = "BLOCK"
     THEN /\ peerstate' = [peerstate EXCEPT ![p] =
               [number |-> n, text |-> Outcome(n), end |-> Outcome(n)]]
          /\ uv_write(p, Outcome(n))
     ELSE peerstate' = [peerstate EXCEPT ![p].number = n] /\ UNCHANGED <<writes, server>>
  /\ queue' = Append(queue, [peer |-> p, req |-> Len(asked'[p]),
                             answer |-> NULL, written |-> FALSE])
  /\ UNCHANGED <<mode, client, running, finished, replies>>

\* on_peer_read with bytes: "assume for simplicity the request all arrives
\* at the same time".  Bound: MaxRequests.
on_peer_read(p, n) ==
  /\ server = "up"
  /\ client[p] = "open"
  /\ MayAsk(p)
  /\ Len(asked[p]) < MaxRequests
  /\ asked' = [asked EXCEPT ![p] = Append(@, n)]
  /\ \/ /\ mode = "BLOCK"
        /\ peerstate' = [peerstate EXCEPT ![p] =
             [number |-> n, text |-> Outcome(n), end |-> Outcome(n)]]
        /\ uv_write(p, Outcome(n))
        /\ UNCHANGED queue
     \/ /\ mode = "WORK"
        /\ peerstate' = [peerstate EXCEPT ![p].number = n]
        /\ queue' = Append(queue, [peer |-> p, req |-> Len(asked'[p]),
                                   answer |-> NULL, written |-> FALSE])
        /\ UNCHANGED <<writes, server>>
  /\ UNCHANGED <<mode, client, running, finished, replies>>

\* Memory that was given back reads as anything.
NumberAt(p) == IF peerstate[p] = NULL THEN Number ELSE {peerstate[p].number}

\* on_work_submitted, in a thread of the pool: the number is read and tested.
WorkTests ==
  /\ server = "up"
  /\ queue # <<>> /\ Cardinality(running) < Pool
  /\ queue' = Tail(queue)
  /\ \E n \in NumberAt(Head(queue).peer) :
       running' = running \cup {[Head(queue) EXCEPT !.answer = Outcome(n)]}
  /\ UNCHANGED <<mode, client, peerstate, finished, writes, talk, server>>

\* set_peer_sendbuf copies the answer; two threads that copy into one buffer
\* at the same time may mix their texts.
WorkWrites(w) ==
  LET p == w.peer
      others == {v \in running : v.peer = p /\ v.written /\ v.answer # w.answer}
  IN
  /\ server = "up"
  /\ w \in running /\ ~ w.written
  /\ running' = (running \ {w}) \cup {[w EXCEPT !.written = TRUE]}
  /\ IF peerstate[p] = NULL THEN UNCHANGED peerstate
     ELSE \E text \in {w.answer} \cup (IF others = {} THEN {} ELSE {"torn"}) :
            peerstate' = [peerstate EXCEPT ![p].text = text]
  /\ UNCHANGED <<mode, client, queue, finished, writes, talk, server>>

\* Mutant: sendbuf_end is left as it was.
WorkEndsShort(w) ==
  /\ server = "up"
  /\ w \in running /\ w.written
  /\ running' = running \ {w}
  /\ finished' = Append(finished, w)
  /\ UNCHANGED <<mode, client, peerstate, queue, writes, talk, server>>

\* set_peer_sendbuf sets sendbuf_end, and the work is done.
WorkEnds(w) ==
  /\ server = "up"
  /\ w \in running /\ w.written
  /\ running' = running \ {w}
  /\ finished' = Append(finished, w)
  /\ peerstate' = IF peerstate[w.peer] = NULL THEN peerstate
                  ELSE [peerstate EXCEPT ![w.peer].end = w.answer]
  /\ UNCHANGED <<mode, client, queue, writes, talk, server>>

\* Mutant: the peer state is freed when its work is done.
on_work_completedFrees ==
  LET p == Head(finished).peer IN
  /\ server = "up"
  /\ finished # <<>>
  /\ finished' = Tail(finished)
  /\ uv_write(p, peerstate[p].end)
  /\ peerstate' = [peerstate EXCEPT ![p] = NULL]
  /\ UNCHANGED <<mode, client, queue, running, talk>>

\* uv_write refuses a handle that is closing; what it does with a peer state
\* that was freed is up to the memory.
on_work_completed ==
  LET p == Head(finished).peer IN
  /\ server = "up"
  /\ finished # <<>>
  /\ finished' = Tail(finished)
  /\ \/ client[p] = "open" /\ uv_write(p, peerstate[p].end)
     \/ client[p] = "closing" /\ server' = "dead" /\ UNCHANGED writes
     \/ client[p] = "away" /\ server' \in {"up", "dead"} /\ UNCHANGED writes
  /\ UNCHANGED <<mode, client, peerstate, queue, running, talk>>

\* The socket takes the bytes that are in sendbuf now, and on_sent_response
\* follows.
Send(p) ==
  LET end == Head(writes[p])
      sent == IF peerstate[p].text = end THEN end ELSE "torn"
  IN
  /\ server = "up"
  /\ client[p] = "open" /\ writes[p] # <<>>
  /\ replies' = [replies EXCEPT ![p] = Append(@, sent)]
  /\ writes' = [writes EXCEPT ![p] = Tail(@)]
  /\ UNCHANGED <<mode, client, peerstate, pool, asked, server>>

\* The connection has broken and on_sent_response gets an error.
SendFails(p) ==
  /\ server = "up"
  /\ client[p] = "open" /\ writes[p] # <<>>
  /\ server' = "dead"
  /\ UNCHANGED <<mode, client, peerstate, pool, writes, talk>>

-----------------------------------------------------------------------------

Next ==
  \/ WorkTests \/ on_work_completed
  \/ \E w \in running : WorkWrites(w) \/ WorkEnds(w)
  \/ \E p \in Peer : \/ on_peer_connected(p) \/ PeerLeaves(p) \/ on_client_closed(p)
                     \/ Send(p) \/ SendFails(p)
  \/ \E p \in Peer, n \in Number : on_peer_read(p, n)

Spec == Init /\ [][Next]_vars

\* The loop and the threads of the pool go on, and a socket whose client
\* reads its answers takes them.
FairSpec ==
  /\ Spec
  /\ WF_vars(WorkTests) /\ WF_vars(on_work_completed)
  /\ \A p \in Peer :
       /\ WF_vars(\E w \in running : w.peer = p /\ (WorkWrites(w) \/ WorkEnds(w)))
       /\ WF_vars(Send(p))

-----------------------------------------------------------------------------
(***************************************************************************)
(* Correctness.                                                            *)
(***************************************************************************)

Prime(n) == n > 1 /\ \A d \in 2 .. n - 1 : n % d # 0

\* The server "accepts a number and sends back prime or composite": the i-th
\* text of a client that waits for its answers is the answer to the i-th number
\* it sent, whole, and not that of another number or client, whatever the
\* other clients do.  With 64 bits r * r is above n for an r below every prime
\* n, also where the product wraps; 1 is called prime.
RepliesRight ==
  \A p \in Peer \ (Eager \cup Brief) :
    /\ Len(replies[p]) <= Len(asked[p])
    /\ \A i \in DOMAIN replies[p] :
         replies[p][i] = IF Prime(asked[p][i]) THEN "prime" ELSE "composite"

\* A work in the pool and a write in the queue hold a pointer to the state of
\* their peer, so the state is there as long as they are.
StateOutlivesWork ==
  /\ \A w \in ToSet(queue) \cup running \cup ToSet(finished) : peerstate[w.peer] # NULL
  /\ \A p \in Peer : writes[p] # <<>> => peerstate[p] # NULL

\* Which of its numbers a client's works are for.
UnderWay(p) ==
  {w.req : w \in {v \in ToSet(queue) \cup running \cup ToSet(finished) : v.peer = p}}

\* Each number a client has sent gets one text, however many it sends at once
\* and whichever thread tests them: it is on its way through the pool, or its
\* answer waits in libuv's queue of writes, or has been received.
OneAnswerEach ==
  server = "up" =>
    \A p \in Peer :
      Len(asked[p]) = Len(replies[p]) + Len(writes[p]) + Cardinality(UnderWay(p))

\* Every number is answered in the end, unless a broken connection has ended
\* the server for everybody.
Answered == \A p \in Peer : Waiting(p) ~> ~ Waiting(p) \/ server = "dead"
=============================================================================
