---------------------------- MODULE PrimeProofs ----------------------------
(***************************************************************************)
(* For any number of clients, numbers and threads of the pool.  As long as *)
(* connections end when all is answered, no peer state is freed too early  *)
(* and every number gets one answer; a client that waits for each answer   *)
(* gets the right ones, whatever the others do.                            *)
(***************************************************************************)
EXTENDS IsPrimeServer, FiniteSetTheorems, TLAPS

Tested == [peer : Peer, req : Nat, answer : Answer, written : BOOLEAN]

Types ==
  /\ client \in [Peer -> {"away", "open", "closing"}]
  /\ peerstate \in [Peer -> PeerState \cup {NULL}]
  /\ queue \in Seq(Work) /\ finished \in Seq(Tested) /\ running \in SUBSET Tested
  /\ writes \in [Peer -> Seq(Answer \cup {NULL})]
  /\ asked \in [Peer -> Seq(Number)] /\ replies \in [Peer -> Seq(Text)]

LEMMA OutcomeAnswers == \A n : Outcome(n) \in Answer
  BY DEF Outcome, Answer

\* One more write for p.
LEMMA OneWrite ==
  ASSUME Types, NEW p \in Peer, NEW end \in Answer \cup {NULL},
         writes' = [writes EXCEPT ![p] = Append(@, end)]
  PROVE  /\ writes' \in [Peer -> Seq(Answer \cup {NULL})]
         /\ Len(writes[p]) \in Nat /\ Len(writes'[p]) = Len(writes[p]) + 1
<1>1. writes \in [Peer -> Seq(Answer \cup {NULL})]
  BY DEF Types
<1>2. PICK s \in Seq(Answer \cup {NULL}) : s = writes[p]
  BY <1>1
<1>3. Append(s, end) \in Seq(Answer \cup {NULL}) /\ Len(Append(s, end)) = Len(s) + 1 /\ Len(s) \in Nat
  OBVIOUS
<1>4. writes'[p] = Append(s, end)
  BY <1>1, <1>2
<1> QED
  BY <1>1, <1>2, <1>3, <1>4

----------------------------------------------------------------------------
(***************************************************************************)
(* Clients that send more before they have their answers, over connections *)
(* that end when all is answered.  A number that a client has sent is      *)
(* known by the client and by its place k among that client's numbers.     *)
(***************************************************************************)

Has(s, p, k) == \E i \in DOMAIN s : s[i].peer = p /\ s[i].req = k
Tests(p, k)  == \E w \in running : w.peer = p /\ w.req = k
At(p, k)     == Has(queue, p, k) \/ Tests(p, k) \/ Has(finished, p, k)

\* A number has one work, and that is in one place.
Distinct(s) ==
  \A i, j \in DOMAIN s : s[i].peer = s[j].peer /\ s[i].req = s[j].req => i = j

DistinctRuns ==
  \A v, w \in running : v.peer = w.peer /\ v.req = w.req => v = w

Apart ==
  \A p \in Peer, k \in Nat :
    /\ Has(queue, p, k) => ~ Tests(p, k) /\ ~ Has(finished, p, k)
    /\ Tests(p, k) => ~ Has(finished, p, k)

Ways(p) == {k \in 1 .. Len(asked[p]) : At(p, k)}

Counted(p) ==
  /\ \A k \in Nat : At(p, k) => k \in 1 .. Len(asked[p])
  /\ server = "up" => Len(asked[p]) = Len(replies[p]) + Len(writes[p]) + Cardinality(Ways(p))

\* A client with a number under way is connected.
Held(p) ==
  /\ (\E k \in Nat : At(p, k)) \/ writes[p] # <<>> => client[p] = "open"
  /\ client[p] = "open" => peerstate[p] # NULL

CInv ==
  /\ Types /\ Distinct(queue) /\ Distinct(finished) /\ DistinctRuns /\ Apart
  /\ \A p \in Peer : Counted(p) /\ Held(p)

LEMMA FirstTaken ==
  ASSUME NEW S, NEW s \in Seq(S), s # <<>>, Distinct(s)
  PROVE  /\ Head(s) \in S /\ Tail(s) \in Seq(S) /\ Distinct(Tail(s))
         /\ Has(s, Head(s).peer, Head(s).req) /\ ~ Has(Tail(s), Head(s).peer, Head(s).req)
         /\ \A p, k : ~ (p = Head(s).peer /\ k = Head(s).req) => (Has(Tail(s), p, k) <=> Has(s, p, k))
<1> DEFINE t == Tail(s)
<1>1. /\ Len(s) \in Nat \ {0} /\ DOMAIN s = 1 .. Len(s) /\ 1 \in DOMAIN s
      /\ t \in Seq(S) /\ DOMAIN t = 1 .. Len(s) - 1
      /\ \A i \in DOMAIN t : i + 1 \in DOMAIN s /\ t[i] = s[i + 1]
      /\ Head(s) = s[1] /\ Head(s) \in S
  OBVIOUS
<1>2. Distinct(t)
  BY <1>1 DEF Distinct
<1>3. Has(s, Head(s).peer, Head(s).req)
  BY <1>1 DEF Has
<1>4. ~ Has(t, Head(s).peer, Head(s).req)
  BY <1>1 DEF Has, Distinct
<1>5. ASSUME NEW p, NEW k, ~ (p = Head(s).peer /\ k = Head(s).req)
      PROVE  Has(t, p, k) <=> Has(s, p, k)
  <2>1. Has(t, p, k) => Has(s, p, k)
    BY <1>1 DEF Has
  <2>2. ASSUME NEW i \in DOMAIN s, s[i].peer = p, s[i].req = k
        PROVE  i - 1 \in DOMAIN t /\ t[i - 1].peer = p /\ t[i - 1].req = k
    BY <1>1, <1>5, <2>2
  <2> QED
    BY <2>1, <2>2 DEF Has
<1> QED
  BY <1>1, <1>2, <1>3, <1>4, <1>5

LEMMA LastPut ==
  ASSUME NEW S, NEW s \in Seq(S), NEW w \in S, Distinct(s), ~ Has(s, w.peer, w.req)
  PROVE  /\ Append(s, w) \in Seq(S) /\ Distinct(Append(s, w)) /\ Has(Append(s, w), w.peer, w.req)
         /\ \A p, k : ~ (p = w.peer /\ k = w.req) => (Has(Append(s, w), p, k) <=> Has(s, p, k))
<1> DEFINE t == Append(s, w)
<1>1. /\ Len(s) \in Nat /\ DOMAIN s = 1 .. Len(s)
      /\ t \in Seq(S) /\ DOMAIN t = 1 .. Len(s) + 1
      /\ \A i \in DOMAIN s : i \in DOMAIN t /\ t[i] = s[i]
      /\ Len(s) + 1 \in DOMAIN t /\ t[Len(s) + 1] = w
      /\ \A i \in DOMAIN t : i = Len(s) + 1 \/ i \in DOMAIN s
  OBVIOUS
<1> HIDE DEF t
<1>2. Distinct(t)
  BY <1>1 DEF Distinct, Has
<1>3. Has(t, w.peer, w.req)
  BY <1>1 DEF Has
<1>4. ASSUME NEW p, NEW k, ~ (p = w.peer /\ k = w.req)
      PROVE  Has(t, p, k) <=> Has(s, p, k)
  BY <1>1, <1>4 DEF Has
<1> QED
  BY <1>1, <1>2, <1>3, <1>4 DEF t

LEMMA WaysFinite ==
  ASSUME NEW p \in Peer, Types
  PROVE  IsFiniteSet(Ways(p)) /\ Cardinality(Ways(p)) \in Nat /\ (Cardinality(Ways(p)) = 0 <=> Ways(p) = {})
<1>1. Len(asked[p]) \in Int
  BY DEF Types
<1>2. IsFiniteSet(1 .. Len(asked[p]))
  BY <1>1, FS_Interval
<1>3. Ways(p) \subseteq 1 .. Len(asked[p])
  BY DEF Ways
<1>4. IsFiniteSet(Ways(p))
  BY <1>2, <1>3, FS_Subset
<1> QED
  BY <1>4, FS_CardinalityType, FS_EmptySet

LEMMA WorkTypes ==
  ASSUME Types, NEW w \in ToSet(queue) \cup running \cup ToSet(finished)
  PROVE  w.peer \in Peer /\ w.req \in Nat
<1>1. CASE w \in ToSet(queue)
  <2>1. w \in Work
    BY <1>1 DEF Types, ToSet
  <2> QED
    BY <2>1 DEF Work
<1>2. CASE w \in running
  BY <1>2 DEF Types, Tested
<1>3. CASE w \in ToSet(finished)
  <2>1. w \in Tested
    BY <1>3 DEF Types, ToSet
  <2> QED
    BY <2>1 DEF Tested
<1> QED
  BY <1>1, <1>2, <1>3

\* What the property counts.
LEMMA WaysAre ==
  ASSUME CInv, NEW p \in Peer
  PROVE  UnderWay(p) = Ways(p)
<1>1. ASSUME NEW w \in ToSet(queue) \cup running \cup ToSet(finished), w.peer = p
      PROVE  w.req \in Ways(p)
  <2>1. w.req \in Nat
    BY <1>1, WorkTypes DEF CInv
  <2>2. At(p, w.req)
    BY <1>1 DEF ToSet, At, Has, Tests
  <2> QED
    BY <2>1, <2>2 DEF CInv, Counted, Ways
<1>2. ASSUME NEW k \in Ways(p)
      PROVE  \E w \in ToSet(queue) \cup running \cup ToSet(finished) : w.peer = p /\ w.req = k
  BY DEF Ways, At, Has, Tests, ToSet
<1> QED
  BY <1>1, <1>2 DEF UnderWay

\* What a step leaves alone.
Kept(q) ==
  /\ \A k \in Nat : At(q, k)' <=> At(q, k)
  /\ writes'[q] = writes[q] /\ client'[q] = client[q]
  /\ peerstate[q] # NULL => peerstate'[q] # NULL
  /\ asked'[q] = asked[q] /\ replies'[q] = replies[q]

LEMMA KeptHolds ==
  ASSUME CInv, server = "up", NEW q \in Peer, Kept(q)
  PROVE  Counted(q)' /\ Held(q)'
<1>1. Counted(q) /\ Held(q) /\ Len(asked[q]) \in Nat
  BY DEF CInv, Types
<1>2. Ways(q)' = Ways(q)
  BY <1>1 DEF Ways, Kept
<1> QED
  BY <1>1, <1>2 DEF Counted, Held, Kept

LEMMA OthersHold ==
  ASSUME CInv, server = "up", NEW p \in Peer, \A q \in Peer \ {p} : Kept(q), Counted(p)', Held(p)'
  PROVE  \A q \in Peer : Counted(q)' /\ Held(q)'
<1> SUFFICES ASSUME NEW q \in Peer, q # p
             PROVE  Counted(q)' /\ Held(q)'
  OBVIOUS
<1> QED
  BY KeptHolds

\* Nothing is under way for a client that is not connected, or has had its
\* answers.
LEMMA Idle ==
  ASSUME CInv, server = "up", NEW p \in Peer, client[p] # "open" \/ ~ Waiting(p)
  PROVE  writes[p] = <<>> /\ \A k \in Nat : ~ At(p, k)
<1>1. Counted(p) /\ Held(p)
  BY DEF CInv
<1>2. CASE client[p] # "open"
  BY <1>1, <1>2 DEF Held
<1>3. CASE ~ Waiting(p)
  <2>1. /\ Len(asked[p]) \in Nat /\ Len(replies[p]) \in Nat /\ Len(writes[p]) \in Nat
        /\ writes[p] \in Seq(Answer \cup {NULL})
    BY DEF CInv, Types
  <2>2. Len(writes[p]) = 0 /\ Cardinality(Ways(p)) = 0
    <3>1. PICK c \in Nat : c = Cardinality(Ways(p))
      BY WaysFinite DEF CInv
    <3>2. PICK a \in Nat, r \in Nat, u \in Nat :
            a = Len(asked[p]) /\ r = Len(replies[p]) /\ u = Len(writes[p])
      BY <2>1
    <3>3. a = r + u + c
      BY <1>1, <3>1, <3>2 DEF Counted
    <3>4. ~ (r < a)
      BY <1>3, <3>2 DEF Waiting
    <3>5. u = 0 /\ c = 0
      BY <3>3, <3>4
    <3> QED
      BY <3>1, <3>2, <3>5
  <2>3. writes[p] = <<>> /\ Ways(p) = {}
    BY <2>1, <2>2, WaysFinite DEF CInv
  <2> QED
    BY <1>1, <2>3 DEF Counted, Ways
<1> QED
  BY <1>2, <1>3

\* The works are where they were.
StillAt == UNCHANGED <<queue, running, finished>>

LEMMA StillDistinct ==
  ASSUME CInv, StillAt
  PROVE  /\ Distinct(queue)' /\ Distinct(finished)' /\ DistinctRuns' /\ Apart'
         /\ \A p, k : At(p, k)' <=> At(p, k)
BY DEF CInv, StillAt, Distinct, DistinctRuns, Apart, At, Has, Tests

LEMMA ConnectedCounts ==
  ASSUME CInv, server = "up", NEW p \in Peer, on_peer_connected(p)
  PROVE  CInv'
<1>1. NewState \in PeerState /\ NewState # NULL
  BY NullAssumption DEF NewState, PeerState, Text
<1>2. /\ StillAt /\ UNCHANGED <<writes, asked, replies>>
      /\ \/ client' = [client EXCEPT ![p] = "open"] /\ peerstate' = [peerstate EXCEPT ![p] = NewState]
         \/ client' = [client EXCEPT ![p] = "closing"] /\ peerstate' = peerstate
         \/ client' = client /\ peerstate' = peerstate
      /\ client[p] = "away"
  BY DEF on_peer_connected, StillAt, pool, talk
<1>3. Types'
  BY <1>1, <1>2 DEF CInv, Types, StillAt
<1>4. \A q \in Peer \ {p} : Kept(q)
  BY <1>2, StillDistinct DEF Kept, CInv, Types
<1>5. writes[p] = <<>> /\ \A k \in Nat : ~ At(p, k)
  BY <1>2, Idle
<1>6. Held(p)'
  BY <1>1, <1>2, <1>5, StillDistinct DEF Held, CInv, Types
<1>7. Ways(p)' = Ways(p) /\ Len(asked[p]) \in Nat
  BY <1>2, StillDistinct DEF Ways, CInv, Types
<1>8. Counted(p)'
  BY <1>2, <1>7, StillDistinct DEF Counted, CInv
<1> QED
  BY <1>2, <1>3, <1>4, <1>6, <1>8, StillDistinct, OthersHold DEF CInv

LEMMA LeavesCounts ==
  ASSUME CInv, server = "up", Brief = {}, NEW p \in Peer, PeerLeaves(p)
  PROVE  CInv'
<1>1. /\ StillAt /\ UNCHANGED <<peerstate, writes, asked, replies>>
      /\ client' = [client EXCEPT ![p] = "closing"] /\ ~ Waiting(p)
  BY DEF PeerLeaves, MayEnd, StillAt, pool, talk
<1>2. Types'
  BY <1>1 DEF CInv, Types, StillAt
<1>3. \A q \in Peer \ {p} : Kept(q)
  BY <1>1, StillDistinct DEF Kept, CInv, Types
<1>4. writes[p] = <<>> /\ \A k \in Nat : ~ At(p, k)
  BY <1>1, Idle
<1>5. Held(p)'
  BY <1>1, <1>4, StillDistinct DEF Held, CInv, Types
<1>6. Ways(p)' = Ways(p)
  <2>1. asked'[p] = asked[p] /\ \A k : At(p, k)' <=> At(p, k)
    BY <1>1, StillDistinct
  <2> QED
    BY <2>1 DEF Ways
<1>7. Counted(p)'
  BY <1>1, <1>6, StillDistinct DEF Counted, CInv
<1> QED
  BY <1>1, <1>2, <1>3, <1>5, <1>7, StillDistinct, OthersHold DEF CInv

LEMMA ClosedCounts ==
  ASSUME CInv, server = "up", NEW p \in Peer, on_client_closed(p)
  PROVE  CInv'
<1>1. writes[p] = <<>> /\ \A k \in Nat : ~ At(p, k)
  BY Idle DEF on_client_closed
<1>2. /\ StillAt /\ UNCHANGED writes
      /\ client' = [client EXCEPT ![p] = "away"] /\ peerstate' = [peerstate EXCEPT ![p] = NULL]
      /\ asked' = [asked EXCEPT ![p] = <<>>] /\ replies' = [replies EXCEPT ![p] = <<>>]
  BY <1>1 DEF on_client_closed, StillAt, pool
<1>3. Types'
  BY <1>2 DEF CInv, Types, StillAt
<1>4. \A q \in Peer \ {p} : Kept(q)
  BY <1>2, StillDistinct DEF Kept, CInv, Types
<1>5. /\ writes'[p] = <<>> /\ client'[p] = "away" /\ asked'[p] = <<>> /\ replies'[p] = <<>>
      /\ \A k \in Nat : ~ At(p, k)'
  BY <1>1, <1>2, StillDistinct DEF CInv, Types
<1>6. Held(p)'
  BY <1>5 DEF Held
<1>7. Cardinality(Ways(p)') = 0
  <2>1. Ways(p)' = {}
    BY <1>5 DEF Ways
  <2> QED
    BY <2>1, FS_EmptySet
<1>8. Counted(p)'
  BY <1>5, <1>7 DEF Counted
<1> QED
  BY <1>2, <1>3, <1>4, <1>6, <1>8, StillDistinct, OthersHold DEF CInv

\* A number that is read has no work yet.
LEMMA ReadCounts ==
  ASSUME CInv, server = "up", NEW p \in Peer, NEW n \in Number, on_peer_read(p, n)
  PROVE  CInv'
<1> DEFINE w == [peer |-> p, req |-> Len(asked'[p]), answer |-> NULL, written |-> FALSE]
<1>0. PICK m \in Nat : m = Len(asked[p])
  BY DEF CInv, Types
<1>1. /\ UNCHANGED <<client, running, finished, replies>>
      /\ asked' = [asked EXCEPT ![p] = Append(@, n)] /\ client[p] = "open"
  BY DEF on_peer_read
<1>2. /\ asked' \in [Peer -> Seq(Number)] /\ Len(asked'[p]) = m + 1 /\ m \in Nat
      /\ \A q \in Peer \ {p} : asked'[q] = asked[q]
  BY <1>0, <1>1 DEF CInv, Types
<1>3. Counted(p) /\ Held(p) /\ ~ At(p, m + 1)
  <2>1. Counted(p) /\ Held(p)
    BY DEF CInv
  <2>2. m + 1 \in Nat /\ m + 1 \notin 1 .. m
    BY <1>2
  <2> QED
    BY <1>0, <2>1, <2>2 DEF Counted
<1>4. /\ peerstate' \in [Peer -> PeerState \cup {NULL}] /\ peerstate'[p] # NULL
      /\ \A q \in Peer \ {p} : peerstate'[q] = peerstate[q]
  <2>1. peerstate[p] \in PeerState
    BY <1>1, <1>3 DEF Held, CInv, Types
  <2>2. [number |-> n, text |-> Outcome(n), end |-> Outcome(n)] \in PeerState
    BY OutcomeAnswers DEF PeerState, Text
  <2>3. [peerstate[p] EXCEPT !.number = n] \in PeerState
    BY <2>1 DEF PeerState
  <2> QED
    BY <2>2, <2>3, NullAssumption DEF on_peer_read, CInv, Types
<1>5. /\ Len(replies[p]) \in Nat /\ Len(writes[p]) \in Nat
      /\ IsFiniteSet(Ways(p)) /\ Cardinality(Ways(p)) \in Nat
  <2>1. Len(replies[p]) \in Nat /\ Len(writes[p]) \in Nat
    BY DEF CInv, Types
  <2>2. IsFiniteSet(Ways(p)) /\ Cardinality(Ways(p)) \in Nat
    BY WaysFinite DEF CInv
  <2> QED
    BY <2>1, <2>2
<1>6. CASE mode = "BLOCK"
  <2>1. /\ StillAt
        /\ \/ writes' = [writes EXCEPT ![p] = Append(@, Outcome(n))]
           \/ writes' = writes /\ server' = "dead"
    BY <1>1, <1>6 DEF on_peer_read, uv_write, StillAt
  <2>2. /\ writes' \in [Peer -> Seq(Answer \cup {NULL})]
        /\ server' = "up" => Len(writes'[p]) = Len(writes[p]) + 1
    <3>1. CASE writes' = [writes EXCEPT ![p] = Append(@, Outcome(n))]
      BY <3>1, OneWrite, OutcomeAnswers DEF CInv
    <3>2. CASE writes' = writes /\ server' = "dead"
      BY <3>2 DEF CInv, Types
    <3> QED
      BY <2>1, <3>1, <3>2
  <2>3. Types'
    BY <1>1, <1>2, <1>4, <2>1, <2>2 DEF CInv, Types, StillAt
  <2>4. \A q \in Peer \ {p} : Kept(q)
    BY <1>1, <1>2, <1>4, <2>1, StillDistinct DEF Kept, CInv, Types
  <2>5. Ways(p)' = Ways(p)
    <3>1. \A k : At(p, k)' <=> At(p, k)
      BY <2>1, StillDistinct
    <3>2. \A k \in 1 .. m + 1 : At(p, k) => k \in 1 .. m
      BY <1>2, <1>3
    <3>3. 1 .. m \subseteq 1 .. m + 1
      BY <1>2
    <3> QED
      BY <1>0, <1>2, <3>1, <3>2, <3>3 DEF Ways
  <2>6. Counted(p)'
    <3>1. ASSUME NEW k \in Nat, At(p, k)'
          PROVE  k \in 1 .. Len(asked'[p])
      <4>1. k \in 1 .. m
        BY <1>0, <1>3, <2>1, <3>1, StillDistinct DEF Counted
      <4> QED
        BY <1>2, <4>1
    <3>2. ASSUME server' = "up"
          PROVE  Len(asked'[p]) = Len(replies'[p]) + Len(writes'[p]) + Cardinality(Ways(p)')
      <4>1. PICK c \in Nat : c = Cardinality(Ways(p)) /\ c = Cardinality(Ways(p)')
        BY <1>5, <2>5
      <4>2. m = Len(replies[p]) + Len(writes[p]) + c
        BY <1>0, <1>3, <4>1 DEF Counted
      <4>3. Len(asked'[p]) = m + 1 /\ replies'[p] = replies[p] /\ Len(writes'[p]) = Len(writes[p]) + 1
        BY <1>1, <1>2, <2>2, <3>2
      <4>4. PICK r \in Nat, u \in Nat : r = Len(replies[p]) /\ u = Len(writes[p])
        BY <1>5
      <4>5. m = r + u + c
        BY <4>2, <4>4
      <4>6. m + 1 = r + (u + 1) + c
        BY <4>5
      <4> QED
        BY <4>1, <4>3, <4>4, <4>6
    <3> QED
      BY <3>1, <3>2 DEF Counted
  <2>7. Held(p)'
    BY <1>1, <1>4 DEF Held
  <2> QED
    BY <2>1, <2>3, <2>4, <2>6, <2>7, StillDistinct, OthersHold DEF CInv
<1>7. CASE mode = "WORK"
  <2>1. queue' = Append(queue, w) /\ writes' = writes
    BY <1>7 DEF on_peer_read
  <2>2. w \in Work /\ w.peer = p /\ w.req = m + 1
    BY <1>2 DEF Work
  <2>3. ~ Has(queue, p, m + 1) /\ ~ Tests(p, m + 1) /\ ~ Has(finished, p, m + 1)
    BY <1>3 DEF At
  <2> HIDE DEF w
  <2>4. /\ queue' \in Seq(Work) /\ Distinct(queue') /\ Has(queue', p, m + 1)
        /\ \A q, k : ~ (q = p /\ k = m + 1) => (Has(queue', q, k) <=> Has(queue, q, k))
    BY <2>1, <2>2, <2>3, LastPut DEF CInv, Types
  <2>5. /\ \A q, k : ~ (q = p /\ k = m + 1) => (At(q, k)' <=> At(q, k))
        /\ At(p, m + 1)'
    <3>1. \A q, k : /\ Tests(q, k)' <=> Tests(q, k)
                    /\ Has(finished', q, k) <=> Has(finished, q, k)
      BY <1>1 DEF Tests
    <3>2. ASSUME NEW q, NEW k, ~ (q = p /\ k = m + 1)
          PROVE  At(q, k)' <=> At(q, k)
      <4>1. Has(queue', q, k) <=> Has(queue, q, k)
        BY <2>4, <3>2
      <4> QED
        BY <3>1, <4>1 DEF At
    <3>3. At(p, m + 1)'
      BY <2>4 DEF At
    <3> QED
      BY <3>2, <3>3
  <2>6. Types'
    BY <1>1, <1>2, <1>4, <2>1, <2>4 DEF CInv, Types
  <2>7. Distinct(queue)' /\ Distinct(finished)' /\ DistinctRuns'
    BY <1>1, <2>4 DEF CInv, DistinctRuns
  <2>8. Apart'
    <3> SUFFICES ASSUME NEW q \in Peer, NEW k \in Nat
                 PROVE  /\ Has(queue', q, k) => ~ Tests(q, k)' /\ ~ Has(finished', q, k)
                        /\ Tests(q, k)' => ~ Has(finished', q, k)
      BY DEF Apart
    <3>1. (Tests(q, k)' <=> Tests(q, k)) /\ (Has(finished', q, k) <=> Has(finished, q, k))
      BY <1>1 DEF Tests
    <3> QED
      BY <2>3, <2>4, <3>1 DEF CInv, Apart
  <2>9. \A q \in Peer \ {p} : Kept(q)
    BY <1>1, <1>2, <1>4, <2>1, <2>5 DEF Kept, CInv, Types
  <2>10. Ways(p)' = Ways(p) \cup {m + 1} /\ m + 1 \notin Ways(p)
    <3>1. \A k \in 1 .. m + 1 : k \in 1 .. m \/ k = m + 1
      BY <1>2
    <3>2. 1 .. m \subseteq 1 .. m + 1 /\ m + 1 \in 1 .. m + 1 /\ m + 1 \notin 1 .. m
      BY <1>2
    <3>3. \A k \in 1 .. m : At(p, k)' <=> At(p, k)
      BY <2>5, <3>2
    <3> QED
      BY <1>0, <1>2, <2>5, <3>1, <3>2, <3>3 DEF Ways
  <2>11. Cardinality(Ways(p)') = Cardinality(Ways(p)) + 1
    BY <1>5, <2>10, FS_AddElement
  <2>12. Counted(p)'
    <3>1. ASSUME NEW k \in Nat, At(p, k)'
          PROVE  k \in 1 .. Len(asked'[p])
      <4>1. k = m + 1 \/ k \in 1 .. m
        BY <1>0, <1>3, <2>5, <3>1 DEF Counted
      <4> QED
        BY <1>2, <4>1
    <3>2. ASSUME server' = "up"
          PROVE  Len(asked'[p]) = Len(replies'[p]) + Len(writes'[p]) + Cardinality(Ways(p)')
      <4>1. PICK r \in Nat, u \in Nat, c \in Nat :
              r = Len(replies[p]) /\ u = Len(writes[p]) /\ c = Cardinality(Ways(p))
        BY <1>5
      <4>2. m = r + u + c
        BY <1>0, <1>3, <4>1 DEF Counted
      <4>3. m + 1 = r + u + (c + 1)
        BY <4>2
      <4>4. Len(asked'[p]) = m + 1 /\ replies'[p] = replies[p] /\ writes'[p] = writes[p]
        BY <1>1, <1>2, <2>1
      <4> QED
        BY <2>11, <4>1, <4>3, <4>4
    <3> QED
      BY <3>1, <3>2 DEF Counted
  <2>13. Held(p)'
    BY <1>1, <1>4 DEF Held
  <2> QED
    BY <2>6, <2>7, <2>8, <2>9, <2>12, <2>13, OthersHold DEF CInv
<1> QED
  BY <1>6, <1>7 DEF on_peer_read

\* A work goes on to the next place: every number is under way as before.
LEMMA MovedCounts ==
  ASSUME CInv, server = "up", Types', Distinct(queue)', Distinct(finished)', DistinctRuns', Apart',
         UNCHANGED <<client, writes, asked, replies>>,
         \A q \in Peer : peerstate[q] # NULL => peerstate'[q] # NULL,
         \A q \in Peer, k \in Nat : At(q, k)' <=> At(q, k)
  PROVE  CInv'
<1>1. \A q \in Peer : Kept(q)
  BY DEF Kept
<1> QED
  BY <1>1, KeptHolds DEF CInv

LEMMA WorkTestsCounts ==
  ASSUME CInv, server = "up", WorkTests
  PROVE  CInv'
<1>0. queue # <<>> /\ queue \in Seq(Work)
  BY DEF WorkTests, CInv, Types
<1>1. PICK h \in Work : h = Head(queue)
  BY <1>0
<1>2. PICK w \in Tested : w.peer = h.peer /\ w.req = h.req /\ running' = running \cup {w}
  <2>1. PICK n \in NumberAt(h.peer) : running' = running \cup {[h EXCEPT !.answer = Outcome(n)]}
    BY <1>1 DEF WorkTests
  <2>2. /\ [h EXCEPT !.answer = Outcome(n)] \in Tested /\ [h EXCEPT !.answer = Outcome(n)].peer = h.peer
        /\ [h EXCEPT !.answer = Outcome(n)].req = h.req
    BY OutcomeAnswers DEF Work, Tested
  <2> QED
    BY <2>1, <2>2
<1>3. queue' = Tail(queue) /\ UNCHANGED <<client, peerstate, finished, writes, asked, replies>>
  BY DEF WorkTests, talk
<1>4. /\ queue' \in Seq(Work) /\ Distinct(queue') /\ h.peer \in Peer /\ h.req \in Nat
      /\ Has(queue, h.peer, h.req) /\ ~ Has(queue', h.peer, h.req)
      /\ \A q, k : ~ (q = h.peer /\ k = h.req) => (Has(queue', q, k) <=> Has(queue, q, k))
  BY <1>0, <1>1, <1>3, FirstTaken DEF CInv, Work
<1>5. ~ Tests(h.peer, h.req) /\ ~ Has(finished, h.peer, h.req)
  BY <1>4 DEF CInv, Apart
<1>6. /\ Tests(h.peer, h.req)'
      /\ \A q, k : ~ (q = h.peer /\ k = h.req) => (Tests(q, k)' <=> Tests(q, k))
  BY <1>2 DEF Tests
<1>7. Types' /\ Distinct(finished)'
  BY <1>2, <1>3, <1>4 DEF CInv, Types
<1>8. DistinctRuns'
  BY <1>2, <1>5 DEF CInv, DistinctRuns, Tests
<1>9. \A q, k : At(q, k)' <=> At(q, k)
  BY <1>3, <1>4, <1>5, <1>6 DEF At
<1>10. Apart'
  <2> SUFFICES ASSUME NEW q \in Peer, NEW k \in Nat
               PROVE  /\ Has(queue', q, k) => ~ Tests(q, k)' /\ ~ Has(finished', q, k)
                      /\ Tests(q, k)' => ~ Has(finished', q, k)
    BY DEF Apart
  <2> QED
    BY <1>3, <1>4, <1>5, <1>6 DEF CInv, Apart
<1> QED
  BY <1>3, <1>4, <1>7, <1>8, <1>9, <1>10, MovedCounts

LEMMA WorkWritesCounts ==
  ASSUME CInv, server = "up", NEW w \in running, WorkWrites(w)
  PROVE  CInv'
<1> DEFINE v == [w EXCEPT !.written = TRUE]
<1>1. /\ w \in Tested /\ w.peer \in Peer /\ w.answer \in Text
      /\ v \in Tested /\ v.peer = w.peer /\ v.req = w.req
  BY DEF CInv, Types, Tested, Text
<1>2. /\ running' = (running \ {w}) \cup {v}
      /\ UNCHANGED <<client, queue, finished, writes, asked, replies>>
  BY DEF WorkWrites, talk
<1> HIDE DEF v
<1>3. DistinctRuns' /\ \A q, k : Tests(q, k)' <=> Tests(q, k)
  BY <1>1, <1>2 DEF CInv, DistinctRuns, Tests
<1>4. /\ peerstate' \in [Peer -> PeerState \cup {NULL}]
      /\ \A q \in Peer : peerstate[q] # NULL => peerstate'[q] # NULL
  <2>1. CASE peerstate[w.peer] = NULL
    BY <2>1 DEF WorkWrites, CInv, Types
  <2>2. CASE peerstate[w.peer] # NULL
    <3>1. PICK text \in Text : peerstate' = [peerstate EXCEPT ![w.peer].text = text]
      BY <1>1, <2>2 DEF WorkWrites, Text
    <3>2. [peerstate[w.peer] EXCEPT !.text = text] \in PeerState
      BY <1>1, <2>2 DEF CInv, Types, PeerState
    <3> QED
      BY <1>1, <3>1, <3>2, NullAssumption DEF CInv, Types
  <2> QED
    BY <2>1, <2>2
<1>5. Types' /\ Distinct(queue)' /\ Distinct(finished)'
  BY <1>1, <1>2, <1>4 DEF CInv, Types
<1>6. Apart' /\ \A q, k : At(q, k)' <=> At(q, k)
  BY <1>2, <1>3 DEF CInv, Apart, At
<1> QED
  BY <1>2, <1>3, <1>4, <1>5, <1>6, MovedCounts

LEMMA WorkEndsCounts ==
  ASSUME CInv, server = "up", NEW w \in running, WorkEnds(w)
  PROVE  CInv'
<1>1. w \in Tested /\ w.peer \in Peer /\ w.req \in Nat /\ w.answer \in Answer
  BY DEF CInv, Types, Tested
<1>2. /\ running' = running \ {w} /\ finished' = Append(finished, w)
      /\ UNCHANGED <<client, queue, writes, asked, replies>>
  BY DEF WorkEnds, talk
<1>3. Tests(w.peer, w.req) /\ ~ Has(queue, w.peer, w.req) /\ ~ Has(finished, w.peer, w.req)
  BY <1>1 DEF CInv, Apart, Tests
<1>4. /\ DistinctRuns' /\ ~ Tests(w.peer, w.req)'
      /\ \A q, k : ~ (q = w.peer /\ k = w.req) => (Tests(q, k)' <=> Tests(q, k))
  BY <1>2 DEF CInv, DistinctRuns, Tests
<1>5. /\ finished' \in Seq(Tested) /\ Distinct(finished') /\ Has(finished', w.peer, w.req)
      /\ \A q, k : ~ (q = w.peer /\ k = w.req) => (Has(finished', q, k) <=> Has(finished, q, k))
  BY <1>1, <1>2, <1>3, LastPut DEF CInv, Types
<1>6. /\ peerstate' \in [Peer -> PeerState \cup {NULL}]
      /\ \A q \in Peer : peerstate[q] # NULL => peerstate'[q] # NULL
  <2>1. CASE peerstate[w.peer] = NULL
    BY <2>1 DEF WorkEnds, CInv, Types
  <2>2. CASE peerstate[w.peer] # NULL
    <3>1. peerstate' = [peerstate EXCEPT ![w.peer].end = w.answer]
      BY <2>2 DEF WorkEnds
    <3>2. [peerstate[w.peer] EXCEPT !.end = w.answer] \in PeerState
      BY <1>1, <2>2 DEF CInv, Types, PeerState
    <3> QED
      BY <1>1, <3>1, <3>2, NullAssumption DEF CInv, Types
  <2> QED
    BY <2>1, <2>2
<1>7. Types' /\ Distinct(queue)'
  BY <1>2, <1>5, <1>6 DEF CInv, Types
<1>8. \A q, k : At(q, k)' <=> At(q, k)
  BY <1>2, <1>3, <1>4, <1>5 DEF At
<1>9. Apart'
  <2> SUFFICES ASSUME NEW q \in Peer, NEW k \in Nat
               PROVE  /\ Has(queue', q, k) => ~ Tests(q, k)' /\ ~ Has(finished', q, k)
                      /\ Tests(q, k)' => ~ Has(finished', q, k)
    BY DEF Apart
  <2> QED
    BY <1>2, <1>3, <1>4, <1>5 DEF CInv, Apart
<1> QED
  BY <1>2, <1>4, <1>5, <1>6, <1>7, <1>8, <1>9, MovedCounts

\* A work that is done becomes a write, or the server dies.
LEMMA CompletedCounts ==
  ASSUME CInv, server = "up", on_work_completed
  PROVE  CInv'
<1>0. finished # <<>> /\ finished \in Seq(Tested)
  BY DEF on_work_completed, CInv, Types
<1>1. PICK h \in Tested : h = Head(finished)
  BY <1>0
<1>2. PICK p \in Peer, j \in Nat : p = h.peer /\ j = h.req
  BY DEF Tested
<1>3. /\ Distinct(finished') /\ finished' \in Seq(Tested) /\ Has(finished, p, j) /\ ~ Has(finished', p, j)
      /\ \A q, k : ~ (q = p /\ k = j) => (Has(finished', q, k) <=> Has(finished, q, k))
  <2>1. finished' = Tail(finished)
    BY DEF on_work_completed
  <2> QED
    BY <1>0, <1>1, <1>2, <2>1, FirstTaken DEF CInv
<1>4. At(p, j) /\ ~ Has(queue, p, j) /\ ~ Tests(p, j)
  BY <1>2, <1>3 DEF At, CInv, Apart
<1>5. Counted(p) /\ Held(p) /\ client[p] = "open" /\ peerstate[p] # NULL /\ j \in 1 .. Len(asked[p])
  <2>1. Counted(p) /\ Held(p)
    BY DEF CInv
  <2> QED
    BY <1>2, <1>4, <2>1 DEF Counted, Held
<1>6. /\ \/ writes' = [writes EXCEPT ![p] = Append(@, peerstate[p].end)]
         \/ writes' = writes /\ server' = "dead"
      /\ UNCHANGED <<client, peerstate, queue, running, asked, replies>>
  BY <1>1, <1>2, <1>5 DEF on_work_completed, uv_write, talk
<1>7. /\ writes' \in [Peer -> Seq(Answer \cup {NULL})] /\ Len(writes[p]) \in Nat
      /\ server' = "up" => Len(writes'[p]) = Len(writes[p]) + 1
  <2>1. peerstate[p].end \in Answer \cup {NULL}
    BY <1>5 DEF CInv, Types, PeerState
  <2> QED
    <3>1. CASE writes' = [writes EXCEPT ![p] = Append(@, peerstate[p].end)]
      BY <2>1, <3>1, OneWrite DEF CInv
    <3>2. CASE writes' = writes /\ server' = "dead"
      BY <3>2 DEF CInv, Types
    <3> QED
      BY <1>6, <3>1, <3>2
<1>8. Types' /\ Distinct(queue)' /\ Distinct(finished)' /\ DistinctRuns'
  BY <1>3, <1>6, <1>7 DEF CInv, Types, DistinctRuns
<1>9. Apart'
  <2> SUFFICES ASSUME NEW q \in Peer, NEW k \in Nat
               PROVE  /\ Has(queue', q, k) => ~ Tests(q, k)' /\ ~ Has(finished', q, k)
                      /\ Tests(q, k)' => ~ Has(finished', q, k)
    BY DEF Apart
  <2>1. (Tests(q, k)' <=> Tests(q, k)) /\ (Has(queue', q, k) <=> Has(queue, q, k))
    BY <1>6 DEF Tests
  <2> QED
    BY <1>3, <2>1 DEF CInv, Apart
<1>10. /\ ~ At(p, j)'
       /\ \A q, k : ~ (q = p /\ k = j) => (At(q, k)' <=> At(q, k))
  BY <1>3, <1>4, <1>6 DEF At, Tests
<1>11. \A q \in Peer \ {p} : Kept(q)
  BY <1>6, <1>10 DEF Kept, CInv, Types
<1>12. Ways(p)' = Ways(p) \ {j} /\ j \in Ways(p)
  BY <1>4, <1>5, <1>6, <1>10 DEF Ways
<1>13. Cardinality(Ways(p)') = Cardinality(Ways(p)) - 1
  BY <1>12, WaysFinite, FS_RemoveElement DEF CInv
<1>14. Counted(p)'
  <2>1. Len(replies[p]) \in Nat /\ Len(asked[p]) \in Nat
    BY DEF CInv, Types
  <2>2. \A k \in Nat : At(p, k)' => k \in 1 .. Len(asked'[p])
    BY <1>5, <1>6, <1>10 DEF Counted
  <2>3. Cardinality(Ways(p)) \in Nat
    BY WaysFinite DEF CInv
  <2>4. ASSUME server' = "up"
        PROVE  Len(asked'[p]) = Len(replies'[p]) + Len(writes'[p]) + Cardinality(Ways(p)')
    <3>0. PICK c \in Nat : c = Cardinality(Ways(p)) /\ Cardinality(Ways(p)') = c - 1
      BY <1>13, <2>3
    <3>1. PICK a \in Nat, r \in Nat, u \in Nat :
            a = Len(asked[p]) /\ r = Len(replies[p]) /\ u = Len(writes[p])
      BY <1>7, <2>1
    <3>4. a = r + u + c
      BY <1>5, <3>0, <3>1 DEF Counted
    <3>2. asked'[p] = asked[p] /\ replies'[p] = replies[p] /\ Len(writes'[p]) = Len(writes[p]) + 1
      BY <1>6, <1>7, <2>4
    <3>3. a = r + (u + 1) + (c - 1)
      BY <3>4
    <3> QED
      BY <3>0, <3>1, <3>2, <3>3
  <2> QED
    BY <2>2, <2>4 DEF Counted
<1>15. Held(p)'
  BY <1>5, <1>6 DEF Held
<1> QED
  BY <1>8, <1>9, <1>11, <1>14, <1>15, OthersHold DEF CInv

LEMMA SendCounts ==
  ASSUME CInv, server = "up", NEW p \in Peer, Send(p)
  PROVE  CInv'
<1> DEFINE end == Head(writes[p])
           sent == IF peerstate[p].text = end THEN end ELSE "torn"
<1>1. /\ client[p] = "open" /\ writes[p] # <<>> /\ StillAt
      /\ replies' = [replies EXCEPT ![p] = Append(@, sent)]
      /\ writes' = [writes EXCEPT ![p] = Tail(@)]
      /\ UNCHANGED <<client, peerstate, asked>>
  BY DEF Send, pool, StillAt
<1>2. Counted(p) /\ Held(p) /\ peerstate[p] # NULL
  BY <1>1 DEF CInv, Held
<1>3. sent \in Text
  BY <1>1, <1>2 DEF CInv, Types, PeerState, Text
<1> HIDE DEF end, sent
<1>4. /\ writes[p] \in Seq(Answer \cup {NULL}) /\ Len(writes[p]) \in Nat
      /\ Len(writes'[p]) = Len(writes[p]) - 1 /\ writes' \in [Peer -> Seq(Answer \cup {NULL})]
  BY <1>1 DEF CInv, Types
<1>5. /\ replies' \in [Peer -> Seq(Text)] /\ Len(replies'[p]) = Len(replies[p]) + 1 /\ Len(replies[p]) \in Nat
  BY <1>1, <1>3 DEF CInv, Types
<1>6. Types'
  BY <1>1, <1>4, <1>5 DEF CInv, Types, StillAt
<1>7. \A q \in Peer \ {p} : Kept(q)
  BY <1>1, StillDistinct DEF Kept, CInv, Types
<1>8. Ways(p)' = Ways(p) /\ Cardinality(Ways(p)) \in Nat /\ Len(asked[p]) \in Nat
  <2>1. Len(asked[p]) \in Nat /\ asked' = asked
    BY <1>1 DEF CInv, Types
  <2>2. Cardinality(Ways(p)) \in Nat
    BY WaysFinite DEF CInv
  <2>3. Ways(p)' = Ways(p)
    BY <1>1, <2>1, StillDistinct DEF Ways
  <2> QED
    BY <2>1, <2>2, <2>3
<1>9. Counted(p)'
  BY <1>1, <1>2, <1>4, <1>5, <1>8, StillDistinct DEF Counted, Send
<1>10. Held(p)'
  BY <1>1, <1>2 DEF Held
<1> QED
  BY <1>1, <1>6, <1>7, <1>9, <1>10, StillDistinct, OthersHold DEF CInv

LEMMA InitCounts == Init => CInv
<1> SUFFICES ASSUME Init
             PROVE  CInv
  OBVIOUS
<1>1. Types
  BY DEF Init, Types
<1>2. \A p, k : ~ Has(queue, p, k) /\ ~ Tests(p, k) /\ ~ Has(finished, p, k)
  BY DEF Init, Has, Tests
<1>3. Distinct(queue) /\ Distinct(finished) /\ DistinctRuns /\ Apart
  BY <1>2 DEF Init, Distinct, DistinctRuns, Apart
<1>4. ASSUME NEW p \in Peer
      PROVE  Counted(p) /\ Held(p)
  <2>1. Ways(p) = {}
    BY <1>2 DEF Ways, At
  <2>2. Cardinality(Ways(p)) = 0
    BY <2>1, FS_EmptySet
  <2>3. asked[p] = <<>> /\ replies[p] = <<>> /\ writes[p] = <<>> /\ client[p] = "away"
    BY DEF Init
  <2> QED
    BY <1>2, <2>2, <2>3 DEF Counted, Held, At
<1> QED
  BY <1>1, <1>3, <1>4 DEF CInv

LEMMA NextCounts ==
  ASSUME CInv, Brief = {}, [Next]_vars
  PROVE  CInv'
<1>1. CASE UNCHANGED <<client, peerstate, pool, writes, talk>> /\ (server' = server \/ server' = "dead")
  <2>1. StillAt
    BY <1>1 DEF StillAt, pool
  <2>2. Types'
    BY <1>1 DEF CInv, Types, pool, talk
  <2>3. ASSUME NEW q \in Peer
        PROVE  Counted(q)' /\ Held(q)'
    <3>1. Counted(q) /\ Held(q)
      BY DEF CInv
    <3>2. Ways(q)' = Ways(q)
      BY <1>1, <2>1, StillDistinct DEF Ways, talk
    <3> QED
      BY <1>1, <2>1, <3>1, <3>2, StillDistinct DEF Counted, Held, talk
  <2> QED
    BY <2>1, <2>2, <2>3, StillDistinct DEF CInv
<1>2. CASE Next
  <2>1. server = "up"
    BY <1>2 DEF Next, WorkTests, on_work_completed, WorkWrites, WorkEnds, on_peer_connected, PeerLeaves,
                on_client_closed, Send, SendFails, on_peer_read
  <2>2. CASE \E p \in Peer : SendFails(p)
    BY <1>1, <2>2 DEF SendFails
  <2> QED
    BY <1>2, <2>1, <2>2, ConnectedCounts, LeavesCounts, ClosedCounts, SendCounts, ReadCounts, WorkTestsCounts,
       WorkWritesCounts, WorkEndsCounts, CompletedCounts DEF Next
<1>3. CASE UNCHANGED vars
  BY <1>1, <1>3 DEF vars, pool, talk
<1> QED
  BY <1>2, <1>3

\* Over connections that end when all is answered, each number has one work,
\* write or reply, however many a client sends at once.
THEOREM PrimeCounts == Brief = {} => (Spec => []CInv)
<1> SUFFICES ASSUME Brief = {}
             PROVE  Spec => []CInv
  OBVIOUS
<1>1. CInv /\ [Next]_vars => CInv'
  BY NextCounts
<1> QED
  BY <1>1, InitCounts, PTL DEF Spec

\* While the server is up, each number that a client has sent is in the pool,
\* or its answer in the queue of writes, or it has been answered, for any
\* number of clients, of numbers sent at once and of threads of the pool.
THEOREM PrimeOneAnswerEach == Brief = {} => (Spec => []OneAnswerEach)
<1> SUFFICES ASSUME Brief = {}
             PROVE  Spec => []OneAnswerEach
  OBVIOUS
<1>1. CInv => OneAnswerEach
  BY WaysAre DEF OneAnswerEach, CInv, Counted
<1>2. Spec => []CInv
  BY PrimeCounts
<1> QED
  BY <1>1, <1>2, PTL

\* The peer state that a work or a write points to is never freed before it,
\* also with clients that do not wait for their answers.
THEOREM PrimeStateOutlivesWork == Brief = {} => (Spec => []StateOutlivesWork)
<1> SUFFICES ASSUME Brief = {}
             PROVE  Spec => []StateOutlivesWork
  OBVIOUS
<1>1. ASSUME CInv, NEW w \in ToSet(queue) \cup running \cup ToSet(finished)
      PROVE  peerstate[w.peer] # NULL
  <2>1. w.peer \in Peer /\ w.req \in Nat
    BY <1>1, WorkTypes DEF CInv
  <2>2. At(w.peer, w.req)
    BY <1>1 DEF ToSet, At, Has, Tests
  <2> QED
    BY <1>1, <2>1, <2>2 DEF CInv, Held
<1>2. ASSUME CInv, NEW p \in Peer, writes[p] # <<>>
      PROVE  peerstate[p] # NULL
  BY <1>2 DEF CInv, Held
<1>3. CInv => StateOutlivesWork
  BY <1>1, <1>2 DEF StateOutlivesWork
<1>4. Spec => []CInv
  BY PrimeCounts
<1> QED
  BY <1>3, <1>4, PTL

----------------------------------------------------------------------------
(***************************************************************************)
(* The test.                                                               *)
(***************************************************************************)

\* What the clients may ask: a number of Width bits, not 1, and when it is an
\* odd prime, the loop stops at some r, maybe at a product that has wrapped.
Fits(n) ==
  /\ n # 1 /\ n < 2 ^ Width
  /\ Prime(n) => n = 2 \/ \E r \in OddUpTo(n) : n < (r * r) % 2 ^ Width

\* Two factors, one of them is at most the root; both are odd when the number is.
LEMMA OddFactor ==
  ASSUME NEW d \in Nat, NEW e \in Nat, (d * e) % 2 = 1
  PROVE  d % 2 = 1
<1> SUFFICES ASSUME d % 2 = 0 PROVE FALSE
  OBVIOUS
<1> DEFINE k == d \div 2
<1>1. k \in Nat /\ d = 2 * k
  OBVIOUS
<1> HIDE DEF k
<1>2. d * e = 2 * (k * e) /\ k * e \in Nat
  BY <1>1
<1> QED
  BY <1>2

LEMMA Multiple == \A a \in Nat \ {0}, b \in Nat : (a * b) % a = 0
  OBVIOUS

LEMMA SmallDivisor ==
  ASSUME NEW n \in Nat, n % 2 = 1, NEW d \in 2 .. n - 1, n % d = 0
  PROVE  \E m \in OddUpTo(n) : n % m = 0 /\ m * m <= n
<1> DEFINE e == n \div d
<1>1. e \in Nat /\ n = d * e
  OBVIOUS
<1> HIDE DEF e
<1>2. e # 0 /\ e # 1
  BY <1>1
<1>3. n = e * d
  BY <1>1
<1>4. d % 2 = 1 /\ e % 2 = 1
  <2>1. (d * e) % 2 = 1 /\ (e * d) % 2 = 1
    BY <1>1, <1>3
  <2>2. d \in Nat /\ e \in Nat
    BY <1>1
  <2>3. d % 2 = 1
    BY <2>1, <2>2, OddFactor
  <2>4. e % 2 = 1
    BY <2>1, <2>2, OddFactor
  <2> QED
    BY <2>3, <2>4
<1>5. n % e = 0
  <2>1. e \in Nat \ {0} /\ d \in Nat
    BY <1>1, <1>2
  <2>2. (e * d) % e = 0
    BY <2>1, Multiple
  <2> QED
    BY <1>3, <2>2
<1>6. e <= n /\ d <= n
  BY <1>1, <1>3
<1>7. d \in OddUpTo(n) /\ e \in OddUpTo(n)
  <2>1. d \in 3 .. n /\ e \in 3 .. n
    BY <1>1, <1>2, <1>4, <1>6
  <2> QED
    BY <2>1, <1>4 DEF OddUpTo
<1>8. d * d <= n \/ e * e <= n
  BY <1>1, <1>3
<1> QED
  BY <1>5, <1>7, <1>8

LEMMA TestIsRight ==
  ASSUME NEW n \in Nat, Fits(n)
  PROVE  isprime(n) <=> Prime(n)
<1>1. CASE n % 2 = 0
  <2>1. CASE n > 2
    BY <1>1, <2>1 DEF isprime, Prime
  <2>2. CASE n = 2
    BY <1>1, <2>2 DEF isprime, Prime
  <2>3. CASE n = 0
    BY <1>1, <2>3 DEF isprime, Prime
  <2> QED
    BY <2>1, <2>2, <2>3 DEF Fits
<1>2. CASE n % 2 = 1
  <2>0. n > 2
    BY <1>2 DEF Fits
  <2>2. ASSUME ~ Prime(n)
        PROVE  ~ isprime(n)
    <3>1. PICK d \in 2 .. n - 1 : n % d = 0
      <4>1. ~ \A d \in 2 .. n - 1 : n % d # 0
        BY <2>0, <2>2 DEF Prime
      <4> QED
        BY <4>1, Zenon
    <3>2. PICK m \in OddUpTo(n) : n % m = 0 /\ m * m <= n
      BY <1>2, <3>1, SmallDivisor
    <3>3. ASSUME NEW r \in OddUpTo(m)
          PROVE  (r * r) % 2 ^ Width <= n
      <4>1. r \in Nat /\ m \in Nat /\ r <= m
        BY DEF OddUpTo
      <4>2. r * r <= m * m /\ r * r \in Nat /\ m * m \in Nat
        BY <4>1
      <4>3. n < 2 ^ Width
        BY DEF Fits
      <4>4. r * r <= n /\ r * r < 2 ^ Width
        BY <4>2, <4>3, <3>2, PowerAssumption
      <4>5. (r * r) % 2 ^ Width = r * r
        BY <4>2, <4>4, PowerAssumption
      <4> QED
        BY <4>4, <4>5
    <3> QED
      BY <1>2, <3>2, <3>3 DEF isprime
  <2>3. ASSUME Prime(n)
        PROVE  isprime(n)
    <3> SUFFICES ASSUME NEW m \in OddUpTo(n), n % m = 0,
                        \A r \in OddUpTo(m) : (r * r) % 2 ^ Width <= n
                 PROVE  FALSE
      BY <1>2 DEF isprime
    <3>0. PICK q \in OddUpTo(n) : n < (q * q) % 2 ^ Width
      BY <2>0, <2>3 DEF Fits
    <3>1. m = n
      <4>1. m \in 3 .. n
        BY DEF OddUpTo
      <4>2. \A d \in 2 .. n - 1 : n % d # 0
        BY <2>3 DEF Prime
      <4>3. m \notin 2 .. n - 1
        BY <4>2
      <4> QED
        BY <4>1, <4>3
    <3>2. (q * q) % 2 ^ Width <= n
      BY <3>0, <3>1
    <3>3. (q * q) % 2 ^ Width \in Nat
      <4>1. q * q \in Nat
        BY DEF OddUpTo
      <4> QED
        BY <4>1, PowerAssumption
    <3> QED
      BY <3>0, <3>2, <3>3
  <2> QED
    BY <2>2, <2>3
<1> QED
  BY <1>1, <1>2

\* Below the square of k - 1, where k * k is the first number that wraps, the
\* loop stops before a product wraps.
LEMMA BelowFits ==
  ASSUME NEW k \in Nat, k % 2 = 0, k >= 4, 2 ^ Width = k * k,
         NEW n \in Nat, n # 1, n < (k - 1) * (k - 1)
  PROVE  Fits(n)
<1>0. PICK m \in Nat, w \in Nat : m = k - 1 /\ w = 2 ^ Width
  <2>1. k - 1 \in Nat
    OBVIOUS
  <2>2. 2 ^ Width \in Nat
    BY PowerAssumption
  <2> QED
    BY <2>1, <2>2, Zenon
<1>1. m >= 3 /\ m % 2 = 1 /\ n < m * m /\ m * m < w
  <2>1. m >= 3 /\ m % 2 = 1 /\ n < m * m /\ k = m + 1
    BY <1>0
  <2>2. (m + 1) * (m + 1) = m * m + 2 * m + 1
    OBVIOUS
  <2> QED
    BY <1>0, <2>1, <2>2
<1>2. n < w
  BY <1>1
<1>3. ASSUME Prime(n), n # 2
      PROVE  \E r \in OddUpTo(n) : n < (r * r) % w
  <2>1. n > 2 /\ n % 2 = 1
    <3>1. n > 2
      BY <1>3 DEF Prime
    <3>2. 2 \in 2 .. n - 1
      BY <3>1
    <3>3. n % 2 # 0
      BY <1>3, <3>2 DEF Prime
    <3> QED
      BY <3>1, <3>3
  <2>2. CASE n <= m
    <3>1. n * n <= m * m /\ n < n * n
      <4>1. n * n <= n * m
        BY <2>2
      <4>2. n * m <= m * m
        BY <2>2
      <4>3. n * 3 <= n * n
        BY <2>1
      <4> QED
        BY <2>1, <4>1, <4>2, <4>3
    <3>2. (n * n) % w = n * n
      BY <1>1, <3>1
    <3>3. n \in OddUpTo(n)
      BY <2>1 DEF OddUpTo
    <3> QED
      BY <3>1, <3>2, <3>3
  <2>3. CASE n > m
    <3>1. (m * m) % w = m * m
      BY <1>1
    <3>2. m \in OddUpTo(n)
      BY <1>1, <2>3 DEF OddUpTo
    <3> QED
      BY <1>1, <3>1, <3>2
  <2> QED
    BY <2>2, <2>3
<1> QED
  BY <1>0, <1>2, <1>3 DEF Fits

----------------------------------------------------------------------------
(***************************************************************************)
(* A client that waits for its answers has one number under way.           *)
(***************************************************************************)

Calm == Peer \ Eager

\* s has a work for p, and not two.
In(s, p)     == \E i \in DOMAIN s : s[i].peer = p
Single(s, p) == \A i, j \in DOMAIN s : s[i].peer = p /\ s[j].peer = p => i = j

Runs(p)      == \E w \in running : w.peer = p
SingleRun(p) == \A v, w \in running : v.peer = p /\ w.peer = p => v = w

Busy(p) == In(queue, p) \/ Runs(p) \/ In(finished, p) \/ writes[p] # <<>>

\* The number is in one place only: it waits for a thread, or is tested, or
\* is done, or its answer is to be sent.
OnePlace(p) ==
  /\ Single(queue, p) /\ SingleRun(p) /\ Single(finished, p)
  /\ In(queue, p) => ~ Runs(p) /\ ~ In(finished, p) /\ writes[p] = <<>>
  /\ Runs(p) => ~ In(finished, p) /\ writes[p] = <<>>
  /\ In(finished, p) => writes[p] = <<>>
  /\ Len(writes[p]) <= 1

\* Where it is, its client is connected and waits.
Served(p) == Busy(p) => client[p] = "open" /\ Waiting(p) /\ peerstate[p] # NULL

Patient(p) ==
  /\ Len(replies[p]) <= Len(asked[p])
  /\ Len(asked[p]) <= Len(replies[p]) + 1

IInv == CInv /\ \A p \in Calm : Patient(p)

\* That one number at most is under way is what the counts leave.
LEMMA OneAtATime ==
  ASSUME IInv, server = "up", NEW p \in Calm
  PROVE  /\ Len(writes[p]) \in Nat /\ Len(writes[p]) <= 1
         /\ \A j, k \in Nat : At(p, j) /\ At(p, k) => j = k
         /\ (\E k \in Nat : At(p, k)) => writes[p] = <<>> /\ Waiting(p)
         /\ writes[p] # <<>> => Waiting(p)
<1>1. /\ p \in Peer /\ Types /\ Counted(p) /\ Patient(p)
      /\ writes[p] \in Seq(Answer \cup {NULL})
  BY DEF Calm, IInv, CInv, Types
<1>2. PICK a \in Nat, r \in Nat, u \in Nat :
        a = Len(asked[p]) /\ r = Len(replies[p]) /\ u = Len(writes[p])
  BY <1>1 DEF Types
<1>3. PICK c \in Nat : c = Cardinality(Ways(p))
  BY <1>1, WaysFinite
<1>4. a = r + u + c /\ a <= r + 1
  BY <1>1, <1>2, <1>3 DEF Counted, Patient
<1>5. u + c <= 1 /\ u <= 1 /\ c <= 1 /\ (u + c = 1 => r < a)
  BY <1>4
<1>6. \A k \in Nat : At(p, k) => k \in Ways(p)
  BY <1>1 DEF Counted, Ways
<1>7. ASSUME NEW j \in Nat, NEW k \in Nat, At(p, j), At(p, k)
      PROVE  j = k
  <2>1. IsFiniteSet(Ways(p)) /\ j \in Ways(p) /\ k \in Ways(p)
    BY <1>1, <1>6, <1>7, WaysFinite
  <2>2. IsFiniteSet({j}) /\ IsFiniteSet(Ways(p) \ {j})
    BY <2>1, FS_Singleton, FS_Difference
  <2>3. Cardinality(Ways(p) \ {j}) = Cardinality(Ways(p)) - 1
    BY <2>1, FS_RemoveElement
  <2>4. Cardinality(Ways(p) \ {j}) \in Nat
    BY <2>2, FS_CardinalityType
  <2>5. Cardinality(Ways(p) \ {j}) = 0
    BY <1>3, <1>5, <2>3, <2>4
  <2>6. Ways(p) \ {j} = {}
    BY <2>2, <2>5, FS_EmptySet
  <2> QED
    BY <2>1, <2>6
<1>8. ASSUME NEW k \in Nat, At(p, k)
      PROVE  writes[p] = <<>> /\ Waiting(p)
  <2>1. c # 0
    BY <1>1, <1>3, <1>6, <1>8, WaysFinite
  <2>2. u = 0 /\ r < a
    BY <1>5, <2>1
  <2>3. Len(writes[p]) = 0 /\ writes[p] \in Seq(Answer \cup {NULL})
    BY <1>1, <1>2, <2>2
  <2>4. writes[p] = <<>>
    BY <2>3
  <2> QED
    BY <1>2, <2>2, <2>4 DEF Waiting
<1>9. writes[p] # <<>> => Waiting(p)
  <2>1. writes[p] # <<>> => u # 0
    BY <1>1, <1>2
  <2> QED
    BY <1>2, <1>5, <2>1 DEF Waiting
<1> QED
  BY <1>2, <1>5, <1>7, <1>8, <1>9

LEMMA Alone ==
  ASSUME IInv, server = "up", NEW p \in Calm
  PROVE  p \in Peer /\ OnePlace(p) /\ Served(p)
<1>1. p \in Peer /\ CInv /\ Types /\ Held(p)
  BY DEF Calm, IInv, CInv
<1>2. ASSUME NEW i \in DOMAIN queue, queue[i].peer = p
      PROVE  queue[i].req \in Nat /\ Has(queue, p, queue[i].req) /\ At(p, queue[i].req)
  <2>1. queue[i] \in ToSet(queue)
    BY DEF ToSet
  <2> QED
    BY <1>1, <1>2, <2>1, WorkTypes DEF Has, At
<1>3. ASSUME NEW w \in running, w.peer = p
      PROVE  w.req \in Nat /\ Tests(p, w.req) /\ At(p, w.req)
  BY <1>1, <1>3, WorkTypes DEF Tests, At
<1>4. ASSUME NEW i \in DOMAIN finished, finished[i].peer = p
      PROVE  finished[i].req \in Nat /\ Has(finished, p, finished[i].req) /\ At(p, finished[i].req)
  <2>1. finished[i] \in ToSet(finished)
    BY DEF ToSet
  <2> QED
    BY <1>1, <1>4, <2>1, WorkTypes DEF Has, At
<1>5. Single(queue, p) /\ SingleRun(p) /\ Single(finished, p)
  BY <1>1, <1>2, <1>3, <1>4, OneAtATime DEF Single, SingleRun, CInv, Distinct, DistinctRuns
<1>6. In(queue, p) => ~ Runs(p) /\ ~ In(finished, p) /\ writes[p] = <<>>
  <2> SUFFICES ASSUME NEW i \in DOMAIN queue, queue[i].peer = p
               PROVE  ~ Runs(p) /\ ~ In(finished, p) /\ writes[p] = <<>>
    BY DEF In
  <2>1. writes[p] = <<>>
    BY <1>2, OneAtATime
  <2>2. ~ Runs(p)
    BY <1>1, <1>2, <1>3, OneAtATime DEF Runs, CInv, Apart
  <2>3. ~ In(finished, p)
    BY <1>1, <1>2, <1>4, OneAtATime DEF In, CInv, Apart
  <2> QED
    BY <2>1, <2>2, <2>3
<1>7. Runs(p) => ~ In(finished, p) /\ writes[p] = <<>>
  BY <1>1, <1>3, <1>4, OneAtATime DEF Runs, In, CInv, Apart
<1>8. In(finished, p) => writes[p] = <<>>
  BY <1>4, OneAtATime DEF In
<1>9. Busy(p) => ((\E k \in Nat : At(p, k)) \/ writes[p] # <<>>)
  BY <1>2, <1>3, <1>4 DEF Busy, In, Runs
<1>10. Served(p)
  BY <1>1, <1>9, OneAtATime DEF Served, Held
<1> QED
  BY <1>1, <1>5, <1>6, <1>7, <1>8, <1>10, OneAtATime DEF OnePlace

LEMMA NextPatient ==
  ASSUME IInv, Brief = {}, [Next]_vars
  PROVE  \A p \in Calm : Patient(p)'
<1> SUFFICES ASSUME NEW p \in Calm
             PROVE  Patient(p)'
  OBVIOUS
<1>1. /\ p \in Peer /\ Patient(p) /\ Types
      /\ asked[p] \in Seq(Number) /\ replies[p] \in Seq(Text)
  BY DEF Calm, IInv, CInv, Types
<1>2. CASE asked'[p] = asked[p] /\ replies'[p] = replies[p]
  BY <1>1, <1>2 DEF Patient
<1>3. ASSUME NEW q \in Peer, on_client_closed(q)
      PROVE  Patient(p)'
  <2>1. CASE asked'[p] = <<>> /\ replies'[p] = <<>>
    BY <2>1 DEF Patient
  <2> QED
    BY <1>1, <1>2, <1>3, <2>1 DEF on_client_closed, talk, Types
<1>4. ASSUME NEW q \in Peer, NEW n \in Number, on_peer_read(q, n)
      PROVE  Patient(p)'
  <2>1. CASE q # p
    BY <1>1, <1>2, <1>4, <2>1 DEF on_peer_read, Types
  <2>2. CASE q = p
    <3>1. asked' = [asked EXCEPT ![p] = Append(@, n)] /\ replies' = replies /\ ~ Waiting(p)
      BY <1>4, <2>2 DEF on_peer_read, MayAsk, Calm
    <3>2. asked'[p] = Append(asked[p], n) /\ Len(asked'[p]) = Len(asked[p]) + 1
      BY <1>1, <3>1 DEF Types
    <3>3. Len(asked[p]) \in Nat /\ Len(replies[p]) \in Nat /\ Len(asked[p]) = Len(replies[p])
      BY <1>1, <3>1 DEF Waiting, Patient
    <3> QED
      BY <3>1, <3>2, <3>3 DEF Patient
  <2> QED
    BY <2>1, <2>2
<1>5. ASSUME NEW q \in Peer, Send(q)
      PROVE  Patient(p)'
  <2>1. CASE q # p
    BY <1>1, <1>2, <1>5, <2>1 DEF Send, Types
  <2>2. CASE q = p
    <3>1. server = "up" /\ writes[p] # <<>> /\ asked' = asked
      BY <1>5, <2>2 DEF Send
    <3>2. Waiting(p)
      BY <3>1, OneAtATime
    <3>3. PICK s : replies' = [replies EXCEPT ![p] = Append(@, s)]
      BY <1>5, <2>2 DEF Send
    <3>4. Len(replies'[p]) = Len(replies[p]) + 1
      BY <1>1, <3>3 DEF Types
    <3>5. Len(asked[p]) \in Nat /\ Len(replies[p]) \in Nat
      BY <1>1
    <3> QED
      BY <1>1, <3>1, <3>2, <3>4, <3>5 DEF Patient, Waiting
  <2> QED
    BY <2>1, <2>2
<1>6. CASE UNCHANGED talk
  BY <1>2, <1>6 DEF talk
<1> QED
  BY <1>3, <1>4, <1>5, <1>6
    DEF Next, vars, talk, WorkTests, on_work_completed, WorkWrites, WorkEnds, on_peer_connected,
        PeerLeaves, SendFails

\* For any clients, of which only some wait for their answers: every number has
\* one work, write or reply, and who waits has one number under way at most.
THEOREM PrimeInvariant == Brief = {} => (Spec => []IInv)
<1> SUFFICES ASSUME Brief = {}
             PROVE  Spec => []IInv
  OBVIOUS
<1>1. Init => IInv
  <2> SUFFICES ASSUME Init
               PROVE  IInv
    OBVIOUS
  <2>1. \A p \in Calm : asked[p] = <<>> /\ replies[p] = <<>>
    BY DEF Init, Calm
  <2> QED
    BY <2>1, InitCounts DEF IInv, Patient
<1>2. IInv /\ [Next]_vars => IInv'
  BY NextCounts, NextPatient DEF IInv
<1> QED
  BY <1>1, <1>2, PTL DEF Spec

----------------------------------------------------------------------------
(***************************************************************************)
(* Which answer is where.                                                  *)
(***************************************************************************)

\* Taking the first of a sequence, whose works for its peer were that one.
LEMMA TailTakes ==
  ASSUME NEW S, NEW s \in Seq(S), s # <<>>
  PROVE  /\ Head(s) \in S /\ In(s, Head(s).peer)
         /\ \A p : p # Head(s).peer => (In(Tail(s), p) <=> In(s, p))
         /\ Single(s, Head(s).peer) => ~ In(Tail(s), Head(s).peer)
<1> DEFINE t == Tail(s)
<1>1. /\ Len(s) \in Nat \ {0} /\ DOMAIN s = 1 .. Len(s) /\ 1 \in DOMAIN s
      /\ t \in Seq(S) /\ DOMAIN t = 1 .. Len(s) - 1
      /\ \A i \in DOMAIN t : i + 1 \in DOMAIN s /\ i + 1 # 1 /\ t[i] = s[i + 1]
      /\ Head(s) = s[1] /\ Head(s) \in S
  OBVIOUS
<1>2. In(s, Head(s).peer)
  BY <1>1 DEF In
<1>3. Single(s, Head(s).peer) => ~ In(t, Head(s).peer)
  BY <1>1 DEF In, Single
<1>4. ASSUME NEW p, p # Head(s).peer
      PROVE  In(t, p) <=> In(s, p)
  <2>1. In(t, p) => In(s, p)
    BY <1>1 DEF In
  <2>2. ASSUME NEW i \in DOMAIN s, s[i].peer = p
        PROVE  i - 1 \in DOMAIN t /\ t[i - 1].peer = p
    BY <1>1, <1>4, <2>2
  <2> QED
    BY <2>1, <2>2 DEF In
<1> QED
  BY <1>1, <1>2, <1>3, <1>4

\* Adding one is about its peer only.
LEMMA AppendAdds ==
  ASSUME NEW S, NEW s \in Seq(S), NEW w \in S
  PROVE  \A p : p # w.peer => (In(Append(s, w), p) <=> In(s, p))
<1> DEFINE t == Append(s, w)
<1>1. /\ Len(s) \in Nat /\ DOMAIN s = 1 .. Len(s)
      /\ DOMAIN t = 1 .. Len(s) + 1
      /\ \A i \in DOMAIN s : i \in DOMAIN t /\ t[i] = s[i]
      /\ t[Len(s) + 1] = w
      /\ \A i \in DOMAIN t : i = Len(s) + 1 \/ i \in DOMAIN s
  OBVIOUS
<1> HIDE DEF t
<1>2. ASSUME NEW p, p # w.peer
      PROVE  In(t, p) <=> In(s, p)
  BY <1>1, <1>2 DEF In
<1> QED
  BY <1>2 DEF t

\* The number that is being answered, or was last.
Current(p) == asked[p][Len(asked[p])]

\* The answers a client has are those to its numbers, in their order; the
\* number under way is the last one, and what was written of its answer is
\* the answer to it.
Right(p) ==
  /\ \A i \in DOMAIN replies[p] : replies[p][i] = Outcome(asked[p][i])
  /\ Waiting(p) => Len(asked[p]) = Len(replies[p]) + 1
  /\ Busy(p) => peerstate[p].number = Current(p)
  /\ \A w \in running : w.peer = p =>
       w.answer = Outcome(Current(p)) /\ (w.written => peerstate[p].text = w.answer)
  /\ In(finished, p) => /\ peerstate[p].text = Outcome(Current(p))
                        /\ peerstate[p].end = Outcome(Current(p))
  /\ writes[p] # <<>> => /\ peerstate[p].text = Outcome(Current(p))
                         /\ Head(writes[p]) = Outcome(Current(p))

AllRight == \A p \in Calm : Right(p)

\* What waits for a thread has not been tested.
Fresh == \A i \in DOMAIN queue : ~ queue[i].written

\* A step is about one peer.
Alike(q) ==
  /\ In(queue', q) <=> In(queue, q)
  /\ \A w : w.peer = q => (w \in running' <=> w \in running)
  /\ In(finished', q) <=> In(finished, q)
  /\ writes'[q] = writes[q] /\ peerstate'[q] = peerstate[q]
  /\ asked'[q] = asked[q] /\ replies'[q] = replies[q]

LEMMA AlikeRight ==
  ASSUME NEW q, Alike(q), Right(q)
  PROVE  Right(q)'
<1>1. Runs(q)' <=> Runs(q)
  BY DEF Alike, Runs
<1>2. Busy(q)' <=> Busy(q)
  BY <1>1 DEF Alike, Busy
<1> QED
  BY <1>2 DEF Alike, Right, Current, Waiting

LEMMA OthersRight ==
  ASSUME AllRight, NEW p, \A q \in Calm \ {p} : Alike(q), p \in Calm => Right(p)'
  PROVE  AllRight'
  BY AlikeRight DEF AllRight, Calm

\* All calm peers but p are as they were, and so is p unless it is calm.
LEMMA ConnectionsRight ==
  ASSUME IInv, AllRight, server = "up", NEW p \in Peer,
         on_peer_connected(p) \/ PeerLeaves(p) \/ on_client_closed(p), Brief = {}
  PROVE  AllRight'
<1>1. UNCHANGED <<queue, running, finished, writes>>
  BY DEF on_peer_connected, PeerLeaves, on_client_closed, pool
<1>2. \A q \in Calm \ {p} : Alike(q)
  BY <1>1 DEF on_peer_connected, PeerLeaves, on_client_closed, pool, talk, Alike, IInv, CInv, Types, Calm
<1>3. ASSUME p \in Calm
      PROVE  Right(p)'
  <2>1. ~ Busy(p) /\ Right(p)
    BY <1>3, Alone DEF on_peer_connected, PeerLeaves, MayEnd, on_client_closed, Served, AllRight
  <2>2. ~ Busy(p)'
    BY <1>1, <2>1 DEF Busy, Runs
  <2>3. CASE UNCHANGED <<asked, replies>>
    BY <2>1, <2>2, <2>3 DEF Right, Busy, Runs, Waiting
  <2>4. CASE asked'[p] = <<>> /\ replies'[p] = <<>>
    BY <2>2, <2>4 DEF Right, Busy, Runs, Waiting
  <2> QED
    BY <2>3, <2>4 DEF on_peer_connected, PeerLeaves, on_client_closed, talk, IInv, CInv, Types
<1> QED
  BY <1>2, <1>3, OthersRight

LEMMA ReadRight ==
  ASSUME IInv, AllRight, server = "up", NEW p \in Peer, NEW n \in Number, on_peer_read(p, n)
  PROVE  AllRight'
<1> DEFINE w == [peer |-> p, req |-> Len(asked'[p]), answer |-> NULL, written |-> FALSE]
<1>1. /\ UNCHANGED <<running, finished, replies>>
      /\ asked' = [asked EXCEPT ![p] = Append(@, n)]
      /\ client[p] = "open"
  BY DEF on_peer_read
<1>2. \/ /\ mode = "BLOCK" /\ queue' = queue
         /\ writes' = [writes EXCEPT ![p] = Append(@, Outcome(n))] \/ writes' = writes
         /\ peerstate' = [peerstate EXCEPT ![p] = [number |-> n, text |-> Outcome(n), end |-> Outcome(n)]]
      \/ /\ mode = "WORK" /\ queue' = Append(queue, w)
         /\ writes' = writes /\ peerstate' = [peerstate EXCEPT ![p].number = n]
  BY DEF on_peer_read, uv_write
<1>3. /\ asked[p] \in Seq(Number) /\ replies[p] \in Seq(Text)
      /\ asked'[p] = Append(asked[p], n) /\ replies'[p] = replies[p]
  BY <1>1 DEF IInv, CInv, Types
<1>4. ASSUME NEW q \in Calm \ {p}
      PROVE  Alike(q)
  <2>1. w \in Work /\ queue \in Seq(Work) /\ w.peer = p
    BY <1>3 DEF Work, IInv, CInv, Types
  <2>2. In(Append(queue, w), q) <=> In(queue, q)
    BY <2>1, AppendAdds
  <2>3. In(queue', q) <=> In(queue, q)
    BY <1>2, <2>2
  <2> QED
    BY <1>1, <1>2, <2>3 DEF Alike, IInv, CInv, Types, Calm
<1>5. ASSUME p \in Calm
      PROVE  Right(p)'
  <2>1. ~ Waiting(p) /\ ~ Busy(p) /\ Right(p) /\ Patient(p)
    BY <1>5, Alone DEF on_peer_read, MayAsk, Calm, Served, AllRight, IInv
  <2>2. peerstate[p] \in PeerState /\ Len(replies[p]) = Len(asked[p])
    BY <1>1, <1>3, <2>1 DEF IInv, CInv, Held, Types, Waiting, Patient
  <2>3. Current(p)' = n /\ Len(asked'[p]) = Len(replies'[p]) + 1
    BY <1>3, <2>2 DEF Current
  <2>4. ASSUME NEW i \in DOMAIN replies'[p]
        PROVE  replies'[p][i] = Outcome(asked'[p][i])
    <3>1. asked'[p][i] = asked[p][i]
      BY <1>3, <2>2
    <3> QED
      BY <1>3, <2>1, <3>1 DEF Right
  <2>5. ~ Runs(p)' /\ ~ In(finished', p)
    BY <1>1, <2>1 DEF Busy, Runs
  <2>6. CASE mode = "BLOCK"
    <3>1. /\ writes'[p] # <<>> => Head(writes'[p]) = Outcome(n)
          /\ peerstate'[p].number = n /\ peerstate'[p].text = Outcome(n)
      BY <1>2, <2>1, <2>6 DEF Busy, IInv, CInv, Types
    <3> QED
      BY <2>3, <2>4, <2>5, <3>1 DEF Right, Runs
  <2>7. CASE mode = "WORK"
    <3>1. writes'[p] = <<>> /\ peerstate'[p].number = n
      BY <1>2, <2>1, <2>2, <2>7 DEF Busy, IInv, CInv, Types, PeerState
    <3> QED
      BY <2>3, <2>4, <2>5, <3>1 DEF Right, Runs
  <2> QED
    BY <1>2, <2>6, <2>7
<1> QED
  BY <1>4, <1>5, OthersRight

LEMMA WorkTestsRight ==
  ASSUME IInv, AllRight, Fresh, server = "up", WorkTests
  PROVE  AllRight'
<1>0. queue # <<>> /\ queue \in Seq(Work)
  BY DEF WorkTests, IInv, CInv, Types
<1>1. PICK h \in Work : h = Head(queue)
  BY <1>0
<1>2. PICK p \in Peer : p = h.peer
  BY DEF Work
<1>3. /\ queue' = Tail(queue) /\ UNCHANGED <<peerstate, finished, writes, asked, replies>>
  BY DEF WorkTests, talk
<1>4. /\ In(queue, p) /\ (Single(queue, p) => ~ In(queue', p))
      /\ \A q : q # p => (In(queue', q) <=> In(queue, q))
  BY <1>0, <1>1, <1>2, <1>3, TailTakes
<1>5. PICK n \in NumberAt(p) : running' = running \cup {[h EXCEPT !.answer = Outcome(n)]}
  BY <1>1, <1>2 DEF WorkTests
<1> DEFINE w == [h EXCEPT !.answer = Outcome(n)]
<1>6. w.peer = p /\ w.answer = Outcome(n) /\ w.written = h.written
  BY <1>2 DEF Work
<1>7. running' = running \cup {w}
  BY <1>5
<1> HIDE DEF w
<1>8. \A q \in Calm \ {p} : Alike(q)
  BY <1>3, <1>4, <1>6, <1>7 DEF Alike
<1>9. ~ w.written
  BY <1>0, <1>1, <1>6 DEF Fresh
<1>10. ASSUME p \in Calm
       PROVE  Right(p)'
  <2>1. OnePlace(p) /\ Served(p) /\ Busy(p) /\ Right(p) /\ ~ Runs(p) /\ ~ In(queue', p)
    BY <1>4, <1>10, Alone DEF OnePlace, Busy, AllRight
  <2>2. w.answer = Outcome(Current(p))
    BY <1>6, <2>1 DEF NumberAt, Served, Right
  <2> QED
    BY <1>3, <1>6, <1>7, <1>9, <2>1, <2>2 DEF Right, Current, Waiting, Busy, Runs, OnePlace
<1> QED
  BY <1>8, <1>10, OthersRight

LEMMA WorkWritesRight ==
  ASSUME IInv, AllRight, server = "up", NEW w \in running, WorkWrites(w)
  PROVE  AllRight'
<1> DEFINE v == [w EXCEPT !.written = TRUE]
<1>1. PICK p \in Peer : p = w.peer /\ w \in Tested
  BY DEF IInv, CInv, Types, Tested
<1>2. v.peer = p /\ v.answer = w.answer
  BY <1>1 DEF Tested
<1>3. /\ running' = (running \ {w}) \cup {v}
      /\ UNCHANGED <<queue, finished, writes, asked, replies>>
  BY DEF WorkWrites, talk
<1> HIDE DEF v
<1>4. peerstate' = peerstate \/ \E text : peerstate' = [peerstate EXCEPT ![p].text = text]
  BY <1>1 DEF WorkWrites
<1>5. \A q \in Calm \ {p} : Alike(q)
  BY <1>1, <1>2, <1>3, <1>4 DEF Alike, IInv, CInv, Types, Calm
<1>6. ASSUME p \in Calm
      PROVE  Right(p)'
  <2>1. OnePlace(p) /\ Served(p) /\ Runs(p) /\ Busy(p) /\ Right(p)
    BY <1>1, <1>6, Alone DEF Runs, Busy, AllRight
  <2>2. peerstate' = [peerstate EXCEPT ![p].text = w.answer]
    <3>1. {u \in running : u.peer = p /\ u.written /\ u.answer # w.answer} = {}
      BY <1>1, <2>1 DEF OnePlace, SingleRun
    <3>2. peerstate[p] # NULL
      BY <2>1 DEF Served
    <3> QED
      BY <1>1, <3>1, <3>2 DEF WorkWrites
  <2>3. peerstate[p] \in PeerState /\ peerstate'[p] = [peerstate[p] EXCEPT !.text = w.answer]
    BY <2>1, <2>2 DEF Served, IInv, CInv, Types
  <2>4. peerstate'[p].text = w.answer /\ peerstate'[p].number = peerstate[p].number
    BY <2>3 DEF PeerState
  <2>5. w.answer = Outcome(Current(p)) /\ \A u \in running' : u.peer = p => u = v
    BY <1>1, <1>3, <2>1 DEF Right, OnePlace, SingleRun
  <2>6. ~ In(finished', p) /\ writes'[p] = <<>>
    BY <1>3, <2>1 DEF OnePlace
  <2> HIDE DEF Outcome
  <2> QED
    BY <1>2, <1>3, <2>1, <2>4, <2>5, <2>6 DEF Right, Current, Waiting
<1> QED
  BY <1>5, <1>6, OthersRight

LEMMA WorkEndsRight ==
  ASSUME IInv, AllRight, server = "up", NEW w \in running, WorkEnds(w)
  PROVE  AllRight'
<1>1. PICK p \in Peer : p = w.peer /\ w \in Tested
  BY DEF IInv, CInv, Types, Tested
<1>2. /\ running' = running \ {w} /\ finished' = Append(finished, w) /\ w.written
      /\ UNCHANGED <<queue, writes, asked, replies>>
  BY DEF WorkEnds, talk
<1>3. \A q : q # p => (In(finished', q) <=> In(finished, q))
  BY <1>1, <1>2, AppendAdds DEF IInv, CInv, Types
<1>4. peerstate' = peerstate \/ peerstate' = [peerstate EXCEPT ![p].end = w.answer]
  BY <1>1 DEF WorkEnds
<1>5. \A q \in Calm \ {p} : Alike(q)
  BY <1>1, <1>2, <1>3, <1>4 DEF Alike, IInv, CInv, Types, Calm
<1>6. ASSUME p \in Calm
      PROVE  Right(p)'
  <2>1. OnePlace(p) /\ Served(p) /\ Runs(p) /\ Busy(p) /\ Right(p)
    BY <1>1, <1>6, Alone DEF Runs, Busy, AllRight
  <2>2. peerstate' = [peerstate EXCEPT ![p].end = w.answer] /\ peerstate[p] \in PeerState
    BY <1>1, <2>1 DEF WorkEnds, Served, IInv, CInv, Types
  <2>3. /\ peerstate'[p].text = peerstate[p].text /\ peerstate'[p].end = w.answer
        /\ peerstate'[p].number = peerstate[p].number
    BY <2>2 DEF PeerState, IInv, CInv, Types
  <2>4. w.answer = Outcome(Current(p)) /\ peerstate[p].text = w.answer
    BY <1>1, <1>2, <2>1 DEF Right
  <2>5. writes'[p] = <<>> /\ \A u \in running' : u.peer # p
    BY <1>1, <1>2, <2>1 DEF OnePlace, SingleRun
  <2> QED
    BY <1>2, <2>1, <2>3, <2>4, <2>5 DEF Right, Current, Waiting
<1> QED
  BY <1>5, <1>6, OthersRight

LEMMA CompletedRight ==
  ASSUME IInv, AllRight, server = "up", on_work_completed
  PROVE  AllRight'
<1>1. finished # <<>> /\ finished \in Seq(Tested) /\ finished' = Tail(finished)
  BY DEF on_work_completed, IInv, CInv, Types
<1>2. PICK p \in Peer : p = Head(finished).peer
  <2>1. Head(finished) \in Tested
    BY <1>1
  <2> QED
    BY <2>1 DEF Tested
<1>3. /\ In(finished, p) /\ (Single(finished, p) => ~ In(finished', p))
      /\ \A q : q # p => (In(finished', q) <=> In(finished, q))
  BY <1>1, <1>2, TailTakes
<1>4. /\ writes' = [writes EXCEPT ![p] = Append(@, peerstate[p].end)] \/ writes' = writes
      /\ UNCHANGED <<peerstate, queue, running, asked, replies>>
  BY <1>2 DEF on_work_completed, uv_write, talk
<1>5. \A q \in Calm \ {p} : Alike(q)
  BY <1>3, <1>4 DEF Alike, IInv, CInv, Types, Calm
<1>6. ASSUME p \in Calm
      PROVE  Right(p)'
  <2>1. OnePlace(p) /\ Busy(p) /\ Right(p) /\ writes[p] = <<>> /\ ~ Runs(p) /\ ~ In(finished', p)
    BY <1>3, <1>6, Alone DEF OnePlace, Busy, AllRight
  <2>2. /\ writes'[p] # <<>> => Head(writes'[p]) = Outcome(Current(p))
        /\ peerstate[p].text = Outcome(Current(p))
    BY <1>3, <1>4, <2>1 DEF Right, IInv, CInv, Types
  <2> QED
    BY <1>4, <2>1, <2>2 DEF Right, Current, Waiting, Runs
<1> QED
  BY <1>5, <1>6, OthersRight

LEMMA SendRight ==
  ASSUME IInv, AllRight, NEW p \in Peer, Send(p)
  PROVE  AllRight'
<1>1. /\ writes[p] # <<>> /\ writes' = [writes EXCEPT ![p] = Tail(@)] /\ server = "up"
      /\ UNCHANGED <<peerstate, queue, running, finished, asked>>
  BY DEF Send, pool
<1>2. PICK sent : /\ replies' = [replies EXCEPT ![p] = Append(@, sent)]
                  /\ sent = IF peerstate[p].text = Head(writes[p]) THEN Head(writes[p]) ELSE "torn"
  BY DEF Send
<1>3. \A q \in Calm \ {p} : Alike(q)
  BY <1>1, <1>2 DEF Alike, IInv, CInv, Types, Calm
<1>4. ASSUME p \in Calm
      PROVE  Right(p)'
  <2>1. OnePlace(p) /\ Served(p) /\ Right(p) /\ Waiting(p) /\ ~ In(queue, p) /\ ~ In(finished, p) /\ ~ Runs(p)
    BY <1>1, <1>4, Alone DEF OnePlace, Served, Busy, AllRight
  <2>2. sent = Outcome(Current(p))
    BY <1>1, <1>2, <2>1 DEF Right
  <2>3. /\ replies[p] \in Seq(Text) /\ asked[p] \in Seq(Number)
        /\ replies'[p] = Append(replies[p], Outcome(Current(p))) /\ asked'[p] = asked[p]
        /\ writes[p] \in Seq(Answer \cup {NULL}) /\ Len(writes[p]) <= 1 /\ writes'[p] = Tail(writes[p])
    BY <1>1, <1>2, <2>1, <2>2 DEF IInv, CInv, Types, OnePlace
  <2>4. Len(asked[p]) = Len(replies[p]) + 1
    BY <2>1 DEF Right
  <2>5. Tail(writes[p]) = <<>>
    BY <1>1, <2>3
  <2>6. ASSUME NEW i \in DOMAIN replies'[p]
        PROVE  replies'[p][i] = Outcome(asked[p][i])
    BY <2>1, <2>3, <2>4 DEF Right, Current
  <2>7. ~ Waiting(p)'
    BY <2>3, <2>4 DEF Waiting
  <2>8. ~ Busy(p)'
    BY <1>1, <2>1, <2>3, <2>5 DEF Busy, Runs
  <2> QED
    BY <2>3, <2>6, <2>7, <2>8 DEF Right, Busy, Runs
<1> QED
  BY <1>3, <1>4, OthersRight

LEMMA NextFresh ==
  ASSUME IInv, Fresh, [Next]_vars
  PROVE  Fresh'
<1>1. queue \in Seq(Work)
  BY DEF IInv, CInv, Types
<1>2. CASE queue' = queue
  BY <1>2 DEF Fresh
<1>3. CASE queue # <<>> /\ queue' = Tail(queue)
  <2>1. \A i \in DOMAIN queue' : i + 1 \in DOMAIN queue /\ queue'[i] = queue[i + 1]
    BY <1>1, <1>3
  <2> QED
    BY <2>1 DEF Fresh
<1>4. ASSUME NEW w \in Work, queue' = Append(queue, w), ~ w.written
      PROVE  Fresh'
  BY <1>1, <1>4 DEF Fresh
<1>5. CASE \E p \in Peer, n \in Number : on_peer_read(p, n)
  <2> PICK p \in Peer, n \in Number : on_peer_read(p, n)
    BY <1>5
  <2>1. asked'[p] \in Seq(Number)
    BY DEF on_peer_read, IInv, CInv, Types
  <2>2. [peer |-> p, req |-> Len(asked'[p]), answer |-> NULL, written |-> FALSE] \in Work
    BY <2>1 DEF Work
  <2> QED
    BY <1>2, <1>4, <2>2 DEF on_peer_read
<1>6. CASE WorkTests
  BY <1>3, <1>6 DEF WorkTests
<1>7. CASE UNCHANGED queue
  BY <1>2, <1>7
<1> QED
  BY <1>5, <1>6, <1>7
    DEF Next, vars, pool, on_work_completed, WorkWrites, WorkEnds, on_peer_connected,
        PeerLeaves, on_client_closed, Send, SendFails

\* The client of each answer gets the one to its own number.
LEMMA NextRight ==
  ASSUME IInv, AllRight, Fresh, Brief = {}, [Next]_vars
  PROVE  AllRight'
<1>1. CASE \E p \in Peer : on_peer_connected(p) \/ PeerLeaves(p) \/ on_client_closed(p)
  <2>1. server = "up"
    BY <1>1 DEF on_peer_connected, PeerLeaves, on_client_closed
  <2> QED
    BY <1>1, <2>1, ConnectionsRight
<1>2. CASE \E p \in Peer : Send(p)
  BY <1>2, SendRight
<1>3. CASE \E p \in Peer, n \in Number : on_peer_read(p, n)
  <2>1. server = "up"
    BY <1>3 DEF on_peer_read
  <2> QED
    BY <1>3, <2>1, ReadRight
<1>4. CASE WorkTests
  BY <1>4, WorkTestsRight DEF WorkTests
<1>5. CASE \E w \in running : WorkWrites(w) \/ WorkEnds(w)
  <2>1. server = "up"
    BY <1>5 DEF WorkWrites, WorkEnds
  <2> QED
    BY <1>5, <2>1, WorkWritesRight, WorkEndsRight
<1>6. CASE on_work_completed
  BY <1>6, CompletedRight DEF on_work_completed
<1>7. CASE UNCHANGED <<peerstate, queue, running, finished, writes, asked, replies>>
  BY <1>7 DEF AllRight, Right, Current, Waiting, Busy, Runs
<1> QED
  BY <1>1, <1>2, <1>3, <1>4, <1>5, <1>6, <1>7 DEF Next, vars, SendFails, pool, talk

\* Every client that waits for its answers gets, for each of its numbers in
\* their order, "prime" exactly when the number is prime, whatever the threads
\* of the pool and the clients that do not wait do at the same time.
THEOREM PrimeRepliesRight ==
  Brief = {} /\ (\A n \in Number : Fits(n)) => (Spec => []RepliesRight)
<1> SUFFICES ASSUME Brief = {}, \A n \in Number : Fits(n)
             PROVE  Spec => []RepliesRight
  OBVIOUS
<1>1. Init => AllRight /\ Fresh
  BY DEF Init, AllRight, Right, Fresh, Waiting, Busy, Runs, In, Calm
<1>2. IInv /\ AllRight /\ Fresh /\ [Next]_vars => AllRight' /\ Fresh'
  BY NextRight, NextFresh
<1>3. IInv /\ AllRight => RepliesRight
  <2> SUFFICES ASSUME IInv, AllRight, NEW p \in Calm
               PROVE  /\ Len(replies[p]) <= Len(asked[p])
                      /\ \A i \in DOMAIN replies[p] :
                           replies[p][i] = IF Prime(asked[p][i]) THEN "prime" ELSE "composite"
    BY DEF RepliesRight, Calm
  <2>1. Len(replies[p]) <= Len(asked[p]) /\ asked[p] \in Seq(Number) /\ replies[p] \in Seq(Text)
    BY DEF IInv, CInv, Types, Patient, Calm
  <2>2. ASSUME NEW i \in DOMAIN replies[p]
        PROVE  replies[p][i] = IF Prime(asked[p][i]) THEN "prime" ELSE "composite"
    <3>1. replies[p][i] = Outcome(asked[p][i])
      BY DEF AllRight, Right
    <3>2. asked[p][i] \in Number
      BY <2>1
    <3>3. asked[p][i] \in Nat /\ Fits(asked[p][i])
      BY <3>2, ServerAssumption
    <3> QED
      BY <3>1, <3>3, TestIsRight DEF Outcome
  <2> QED
    BY <2>1, <2>2
<1>4. Spec => []IInv
  BY PrimeInvariant
<1> QED
  BY <1>1, <1>2, <1>3, <1>4, PTL DEF Spec

\* All numbers but 1 below the square of k - 1, where k * k is 2 ^ Width, are
\* tested rightly and answered rightly: for the 64 bits of the program these
\* are the numbers below (2^32 - 1)^2.
THEOREM PrimeBelowSquare ==
  ASSUME NEW k \in Nat, k % 2 = 0, k >= 4, 2 ^ Width = k * k,
         \A n \in Number : n # 1 /\ n < (k - 1) * (k - 1),
         Brief = {}
  PROVE  Spec => []RepliesRight
<1>1. \A n \in Number : n \in Nat /\ Fits(n)
  BY BelowFits, ServerAssumption
<1> QED
  BY <1>1, PrimeRepliesRight
============================================================================
