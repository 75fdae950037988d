----------------------------- MODULE TlsProofs -----------------------------
(***************************************************************************)
(* For any number of clients, of any programs, and however often networks  *)
(* and users interfere: no descriptor of a connection is lost, and what    *)
(* ends a server is what the property names.  For any number of lines,     *)
(* connections and pieces in a socket: no line that two users type to each *)
(* other is lost.                                                          *)
(***************************************************************************)
EXTENDS TlsSamples, SequenceTheorems, WellFoundedInduction, TLAPS

-----------------------------------------------------------------------------
(***************************************************************************)
(* What a call on one side does to a connection.                           *)
(***************************************************************************)

\* The flights after which side s is through with the handshake.
Goal(l, s) == IF s = "server" /\ l.flights = 3 THEN 4 ELSE l.flights

Sound(l) ==
  /\ l \in Link
  /\ \A s \in Side : l.done[s] <= Goal(l, s)
  /\ l.full => l.filled

\* A call of side s neither opens nor closes, and leaves the other's handshake.
Moved(l, k, s) ==
  /\ Sound(k) /\ k.open = l.open /\ k.flights = l.flights
  /\ k.done[Other(s)] = l.done[Other(s)]
  /\ (l.reset => k.reset) /\ (l.filled => k.filled)

LEMMA Sides == ASSUME NEW s \in Side PROVE Other(s) \in Side /\ Other(s) # s /\ Other(Other(s)) = s
  BY DEF Side, Other

LEMMA MovedStays == ASSUME NEW l, Sound(l), NEW s PROVE Moved(l, l, s)
  BY DEF Moved

LEMMA MovedTwice ==
  ASSUME NEW l, NEW k, NEW m, NEW s, Moved(l, k, s), Moved(k, m, s)
  PROVE  Moved(l, m, s)
  BY DEF Moved

LEMMA PutMoves ==
  ASSUME NEW l, Sound(l), NEW s \in Side, NEW m \in Message
  PROVE  /\ Moved(l, Put(l, s, m).link, s) /\ Put(l, s, m).link.done = l.done
         /\ Put(l, s, m).out \in {"error", "reset", "ok", "again"}
         /\ Put(l, s, m).out = "again" => Put(l, s, m).link.full
<1>1. CASE l.lost
  BY <1>1, MovedStays DEF Put, Result
<1>2. CASE ~ l.lost /\ l.reset
  BY <1>2, MovedStays DEF Put, Result
<1>3. CASE ~ l.lost /\ ~ l.reset /\ Other(s) \notin l.open
  <2> DEFINE k == [l EXCEPT !.reset = TRUE]
  <2>1. Put(l, s, m) = Result(k, "ok")
    BY <1>3 DEF Put
  <2>2. k \in Link /\ k.done = l.done /\ k.flights = l.flights /\ k.open = l.open
        /\ k.reset = TRUE /\ k.filled = l.filled /\ k.full = l.full
    BY DEF Sound, Link
  <2> HIDE DEF k
  <2>3. Moved(l, k, s)
    BY <2>2 DEF Moved, Sound, Goal
  <2> QED
    BY <2>1, <2>2, <2>3 DEF Result
<1>4. CASE ~ l.lost /\ ~ l.reset /\ Other(s) \in l.open /\ l.full
  BY <1>4, MovedStays DEF Put, Result
<1>5. CASE ~ l.lost /\ ~ l.reset /\ Other(s) \in l.open /\ ~ l.full
  <2> DEFINE k == [l EXCEPT !.sent[s] = Append(@, m)]
  <2>1. Put(l, s, m) = Result(k, "ok")
    BY <1>5 DEF Put
  <2>2. l.sent \in [Side -> Seq(Message)] /\ Append(l.sent[s], m) \in Seq(Message)
    BY DEF Sound, Link
  <2>3. k.sent \in [Side -> Seq(Message)]
    BY <2>2 DEF Sound, Link
  <2>4. k \in Link /\ k.done = l.done /\ k.flights = l.flights /\ k.open = l.open
        /\ k.reset = l.reset /\ k.filled = l.filled /\ k.full = l.full
    BY <2>3 DEF Sound, Link
  <2> HIDE DEF k
  <2>5. Moved(l, k, s)
    BY <2>4 DEF Moved, Sound, Goal
  <2> QED
    BY <2>1, <2>4, <2>5 DEF Result
<1> QED
  BY <1>1, <1>2, <1>3, <1>4, <1>5 DEF Sound, Link

LEMMA TakenMoves ==
  ASSUME NEW l, Sound(l), NEW s \in Side, Inbox(l, s) # <<>>
  PROVE  Moved(l, Taken(l, s), s) /\ Taken(l, s).done = l.done
<1> DEFINE k == Taken(l, s)
<1>1. l.sent \in [Side -> Seq(Message)] /\ Tail(l.sent[Other(s)]) \in Seq(Message)
  BY Sides DEF Sound, Link, Inbox
<1>2. k.sent \in [Side -> Seq(Message)]
  BY <1>1 DEF Sound, Link, Taken
<1>3. k \in Link /\ k.done = l.done /\ k.flights = l.flights /\ k.open = l.open
      /\ k.reset = l.reset /\ k.filled = l.filled /\ k.full = l.full
  BY <1>2 DEF Sound, Link, Taken
<1> HIDE DEF k
<1>4. Moved(l, k, s)
  BY <1>3 DEF Moved, Sound, Goal
<1> QED
  BY <1>3, <1>4 DEF k

\* Side s is through with one flight more, or takes one back.
LEMMA DoneMoves ==
  ASSUME NEW l, Sound(l), NEW s \in Side, NEW n \in 0 .. 4, n <= Goal(l, s)
  PROVE  Moved(l, [l EXCEPT !.done[s] = n], s)
<1> DEFINE k == [l EXCEPT !.done[s] = n]
<1>1. k \in Link /\ k.done = [l.done EXCEPT ![s] = n] /\ k.flights = l.flights /\ k.open = l.open
      /\ k.reset = l.reset /\ k.filled = l.filled /\ k.full = l.full /\ l.done \in [Side -> 0 .. 4]
  BY DEF Sound, Link
<1> HIDE DEF k
<1>2. k.done[s] = n /\ k.done[Other(s)] = l.done[Other(s)]
  BY <1>1, Sides
<1>3. \A t \in Side : k.done[t] <= Goal(k, t)
  BY <1>1, <1>2 DEF Goal, Sound
<1>4. Moved(l, k, s)
  BY <1>1, <1>2, <1>3 DEF Moved, Sound
<1> QED
  BY <1>4 DEF k

LEMMA DueIs ==
  ASSUME NEW l, Sound(l), NEW s \in Side, ~ Secure(l, s)
  PROVE  /\ Due(l, s) \in 1 .. 4 /\ Due(l, s) = l.done[s] + 1 /\ Due(l, s) <= Goal(l, s)
         /\ Flight[Due(l, s)] \in Message
<1>1. /\ l.done[s] \in 0 .. 4 /\ l.done[s] <= Goal(l, s) /\ l.done[s] # Goal(l, s)
      /\ Goal(l, s) \in 0 .. 4
  BY DEF Sound, Link, Secure, Goal
<1> QED
  BY <1>1 DEF Due, Message

LEMMA TookMoves ==
  ASSUME NEW l, Sound(l), NEW s \in Side
  PROVE  Moved(l, Took(l, s), s)
<1>1. CASE Took(l, s) = l
  BY <1>1, MovedStays
<1>2. CASE Took(l, s) # l
  <2>1. /\ Took(l, s) = [Taken(l, s) EXCEPT !.done[s] = @ + 1] /\ ~ Secure(l, s)
        /\ Inbox(l, s) # <<>>
    BY <1>2 DEF Took
  <2> DEFINE k == Taken(l, s)
  <2>2. Moved(l, k, s) /\ k.done = l.done
    BY <2>1, TakenMoves
  <2>3. Took(l, s) = [k EXCEPT !.done[s] = k.done[s] + 1]
    BY <2>1
  <2> HIDE DEF k
  <2>4. k.done[s] + 1 \in 0 .. 4 /\ k.done[s] + 1 <= Goal(k, s) /\ Sound(k)
    <3>1. Due(l, s) \in 1 .. 4 /\ Due(l, s) = l.done[s] + 1 /\ Due(l, s) <= Goal(l, s)
      BY <2>1, DueIs
    <3>2. Goal(k, s) = Goal(l, s) /\ Sound(k)
      BY <2>2 DEF Moved, Goal
    <3>3. k.done[s] + 1 = Due(l, s)
      BY <2>2, <3>1
    <3> QED
      BY <3>1, <3>2, <3>3
  <2>5. Moved(k, Took(l, s), s)
    <3> DEFINE n == k.done[s] + 1
    <3>1. n \in 0 .. 4 /\ n <= Goal(k, s) /\ Took(l, s) = [k EXCEPT !.done[s] = n]
      BY <2>3, <2>4
    <3> HIDE DEF n
    <3>2. Moved(k, [k EXCEPT !.done[s] = n], s)
      BY <2>4, <3>1, DoneMoves
    <3> QED
      BY <3>1, <3>2, Zenon
  <2> QED
    BY <2>2, <2>5, MovedTwice
<1> QED
  BY <1>1, <1>2

LEMMA GaveMoves ==
  ASSUME NEW l, Sound(l), NEW s \in Side
  PROVE  Moved(l, Gave(l, s), s)
<1>1. CASE Gave(l, s) = l
  BY <1>1, MovedStays
<1>2. CASE Gave(l, s) # l
  <2> DEFINE k == Put(l, s, Flight[Due(l, s)]).link
  <2>1. Gave(l, s) = [k EXCEPT !.done[s] = @ + 1] /\ ~ Secure(l, s)
    BY <1>2 DEF Gave
  <2>2. Moved(l, k, s) /\ k.done = l.done
    BY <2>1, DueIs, PutMoves
  <2>3. Gave(l, s) = [k EXCEPT !.done[s] = k.done[s] + 1]
    BY <2>1
  <2> HIDE DEF k
  <2>4. k.done[s] + 1 \in 0 .. 4 /\ k.done[s] + 1 <= Goal(k, s) /\ Sound(k)
    <3>1. Due(l, s) \in 1 .. 4 /\ Due(l, s) = l.done[s] + 1 /\ Due(l, s) <= Goal(l, s)
      BY <2>1, DueIs
    <3>2. Goal(k, s) = Goal(l, s) /\ Sound(k)
      BY <2>2 DEF Moved, Goal
    <3>3. k.done[s] + 1 = Due(l, s)
      BY <2>2, <3>1
    <3> QED
      BY <3>1, <3>2, <3>3
  <2>5. Moved(k, Gave(l, s), s)
    <3> DEFINE n == k.done[s] + 1
    <3>1. n \in 0 .. 4 /\ n <= Goal(k, s) /\ Gave(l, s) = [k EXCEPT !.done[s] = n]
      BY <2>3, <2>4
    <3> HIDE DEF n
    <3>2. Moved(k, [k EXCEPT !.done[s] = n], s)
      BY <2>4, <3>1, DoneMoves
    <3> QED
      BY <3>1, <3>2, Zenon
  <2> QED
    BY <2>2, <2>5, MovedTwice
<1> QED
  BY <1>1, <1>2

LEMMA AlertMoves ==
  ASSUME NEW l, Sound(l), NEW s \in Side
  PROVE  Moved(l, Alerted(l, s), s)
<1>1. "alert" \in Message
  BY DEF Message
<1> QED
  BY <1>1, PutMoves DEF Alerted

LEMMA OutcomeIs ==
  ASSUME NEW l, Sound(l), NEW s \in Side
  PROVE  /\ HandshakeOutcome(l, s) \in {"ok", "again", "error", "reset", "eof"}
         /\ HandshakeOutcome(l, s) = "ok" => Secure(l, s) \/ Writing(l, s)
         /\ HandshakeOutcome(l, s) = "again" /\ Writing(l, s) => l.filled
<1>1. CASE Secure(l, s)
  BY <1>1 DEF HandshakeOutcome, Writing
<1>2. CASE ~ Secure(l, s) /\ IsMine(Due(l, s), s)
  <2>1. HandshakeOutcome(l, s) = Put(l, s, Flight[Due(l, s)]).out /\ Writing(l, s)
    BY <1>2 DEF HandshakeOutcome, Writing
  <2>2. HandshakeOutcome(l, s) \in {"error", "reset", "ok", "again"}
    BY <1>2, <2>1, DueIs, PutMoves
  <2>3. HandshakeOutcome(l, s) = "again" => l.full
    BY <2>1 DEF Put, Result
  <2> QED
    BY <2>1, <2>2, <2>3 DEF Sound
<1>3. CASE ~ Secure(l, s) /\ ~ IsMine(Due(l, s), s)
  BY <1>3 DEF HandshakeOutcome, Silence, Writing
<1> QED
  BY <1>1, <1>2, <1>3

\* Whatever a handshake comes to; a handshake that waits for room to write
\* waits on a connection that is full.
LEMMA HandshakeMoves ==
  ASSUME NEW l, Sound(l), NEW s \in Side, NEW r \in Handshake(l, s)
  PROVE  /\ Moved(l, r.link, s) /\ r.out \in {"ok", "again", "error", "reset", "eof"}
         /\ r.out = "again" /\ Writing(r.link, s) => r.link.filled
<1> DEFINE took == Took(l, s)
<1>1. Moved(l, took, s) /\ Sound(took)
  BY TookMoves DEF Moved
<1>2. r \in IF Refuses(took, s)
              THEN {Result(Alerted([took EXCEPT !.done[s] = @ - 1], s), "error")}
              ELSE {Progress(Gave(took, s), s)}
  BY DEF Handshake
<1> HIDE DEF took
<1>3. CASE Refuses(took, s)
  <2>1. PICK n \in 0 .. 4 : n = took.done[s] - 1 /\ n <= Goal(took, s)
    <3>1. took.done[s] \in 2 .. 4 /\ took.done[s] <= Goal(took, s)
      <4>1. took.done[s] \in 0 .. 4 /\ took.done[s] <= Goal(took, s)
        BY <1>1 DEF Sound, Link
      <4>2. took.done[s] >= 2
        BY <1>3 DEF Refuses
      <4> QED
        BY <4>1, <4>2
    <3>2. Goal(took, s) \in Nat
      BY <1>1 DEF Sound, Link, Goal
    <3>3. took.done[s] - 1 \in 0 .. 4 /\ took.done[s] - 1 <= Goal(took, s)
      BY <3>1, <3>2
    <3> QED
      BY <3>3
  <2> DEFINE back == [took EXCEPT !.done[s] = n]
  <2>2. r = Result(Alerted(back, s), "error")
    BY <1>2, <1>3, <2>1
  <2>3. Moved(took, back, s)
    BY <1>1, <2>1, DoneMoves
  <2> HIDE DEF back
  <2>4. Sound(back)
    BY <2>3 DEF Moved
  <2>5. Moved(back, Alerted(back, s), s)
    BY <2>4, AlertMoves
  <2>6. Moved(l, Alerted(back, s), s)
    BY <1>1, <2>3, <2>5, MovedTwice
  <2> QED
    BY <2>2, <2>6 DEF Result
<1>4. CASE ~ Refuses(took, s)
  <2> DEFINE left == Gave(took, s)
             o == HandshakeOutcome(left, s)
  <2>1. r = Progress(left, s)
    BY <1>2, <1>4
  <2>2. Moved(took, left, s)
    BY <1>1, GaveMoves
  <2> HIDE DEF left
  <2>3. Moved(l, left, s) /\ Sound(left)
    BY <1>1, <2>2, MovedTwice DEF Moved
  <2>4. /\ o \in {"ok", "again", "error", "reset", "eof"}
        /\ o = "again" /\ Writing(left, s) => left.filled
    BY <2>3, OutcomeIs
  <2>5. r = IF o = "error" /\ Inbox(left, s) # <<>>
              THEN Result(Alerted(Taken(left, s), s), "error") ELSE Result(left, o)
    BY <2>1 DEF Progress
  <2> HIDE DEF o
  <2>6. CASE o = "error" /\ Inbox(left, s) # <<>>
    <3> DEFINE rest == Taken(left, s)
    <3>1. Moved(left, rest, s) /\ Sound(rest)
      BY <2>3, <2>6, TakenMoves DEF Moved
    <3>2. r = Result(Alerted(rest, s), "error")
      BY <2>5, <2>6
    <3> HIDE DEF rest
    <3>3. Moved(rest, Alerted(rest, s), s)
      BY <3>1, AlertMoves
    <3>4. Moved(l, Alerted(rest, s), s)
      BY <2>3, <3>1, <3>3, MovedTwice
    <3> QED
      BY <3>2, <3>4 DEF Result
  <2>7. CASE ~ (o = "error" /\ Inbox(left, s) # <<>>)
    <3>1. r = Result(left, o)
      BY <2>5, <2>7
    <3> QED
      BY <2>3, <2>4, <3>1 DEF Result
  <2> QED
    BY <2>6, <2>7
<1> QED
  BY <1>3, <1>4

LEMMA UntakenMoves ==
  ASSUME NEW l, Sound(l), NEW s \in Side
  PROVE  Moved(l, Untaken(l, s), s)
  BY MovedStays, TakenMoves DEF Untaken

LEMMA ReadMoves ==
  ASSUME NEW l, Sound(l), NEW s \in Side
  PROVE  Moved(l, Read(l, s).link, s)
<1>1. CASE ~ Secure(l, s) \/ l.lost
  BY <1>1, MovedStays DEF Read, Result
<1>2. CASE ~ (~ Secure(l, s) \/ l.lost)
  <2> DEFINE k == Untaken(l, s)
  <2>1. Moved(l, k, s) /\ Sound(k)
    BY UntakenMoves DEF Moved
  <2>2. Read(l, s) = FirstMessage(k, s)
    BY <1>2 DEF Read
  <2> HIDE DEF k
  <2>3. CASE Inbox(k, s) = <<>>
    BY <2>1, <2>2, <2>3 DEF FirstMessage, Result
  <2>4. CASE Inbox(k, s) # <<>> /\ k.cut
    <3> DEFINE m == [k EXCEPT !.cut = FALSE]
    <3>1. Read(l, s).link = m
      BY <2>2, <2>4 DEF FirstMessage, Result
    <3>2. m \in Link /\ m.done = k.done /\ m.flights = k.flights /\ m.open = k.open
          /\ m.reset = k.reset /\ m.filled = k.filled /\ m.full = k.full
      BY <2>1 DEF Sound, Link
    <3> HIDE DEF m
    <3>3. Moved(k, m, s)
      BY <2>1, <3>2 DEF Moved, Sound, Goal
    <3> QED
      BY <2>1, <3>1, <3>3, MovedTwice
  <2>5. CASE Inbox(k, s) # <<>> /\ ~ k.cut
    <3>1. Read(l, s).link = Taken(k, s)
      BY <2>2, <2>5 DEF FirstMessage, Result
    <3>2. Moved(k, Taken(k, s), s)
      BY <2>1, <2>5, TakenMoves
    <3>3. Moved(l, Taken(k, s), s)
      BY <2>1, <3>2, MovedTwice
    <3> QED
      BY <3>1, <3>3
  <2> QED
    BY <2>3, <2>4, <2>5
<1> QED
  BY <1>1, <1>2

LEMMA WriteMoves ==
  ASSUME NEW l, Sound(l), NEW s \in Side, NEW m \in Message
  PROVE  /\ Moved(l, Write(l, s, m).link, s)
         /\ Write(l, s, m).out \in {"error", "reset", "ok", "again"}
<1>1. CASE Secure(l, s)
  BY <1>1, PutMoves DEF Write
<1>2. CASE ~ Secure(l, s)
  BY <1>2, MovedStays DEF Write, Result
<1> QED
  BY <1>1, <1>2

\* The outcomes of the calls that write.
Writes == {"request", "response", "notify", "babble"}

LEMMA CalledMoves ==
  ASSUME NEW l, Sound(l), NEW s \in Side, NEW call \in OnLink, NEW r \in Called(call, l, s)
  PROVE  /\ Moved(l, r.link, s)
         /\ call = "handshake" => r.out \in {"ok", "again", "error", "reset", "eof"}
         /\ call \in Writes => r.out \in {"error", "reset", "ok", "again"}
<1>1. CASE call = "handshake"
  <2>1. r \in Handshake(l, s)
    BY <1>1 DEF Called
  <2> QED
    BY <1>1, <2>1, HandshakeMoves DEF Writes
<1>2. CASE call = "read"
  <2>1. r = Read(l, s)
    BY <1>2 DEF Called
  <2> QED
    BY <1>2, <2>1, ReadMoves DEF Writes
<1>3. CASE call \in {"request", "response", "notify"}
  <2>1. r = Write(l, s, call) /\ call \in Message
    BY <1>3 DEF Called, Message, Data
  <2> QED
    BY <1>3, <2>1, WriteMoves
<1>4. CASE call = "babble"
  <2>1. r = Put(l, s, "junk") /\ "junk" \in Message
    BY <1>4 DEF Called, Message
  <2> QED
    BY <1>4, <2>1, PutMoves
<1> QED
  BY <1>1, <1>2, <1>3, <1>4 DEF OnLink

-----------------------------------------------------------------------------
(***************************************************************************)
(* What others do to a connection that the server has open.                *)
(***************************************************************************)

Served(l, k) ==
  /\ Sound(k)
  /\ "server" \in l.open =>
       /\ "server" \in k.open /\ k.flights = l.flights /\ k.done["server"] = l.done["server"]
       /\ (l.reset => k.reset) /\ (l.filled => k.filled)

LEMMA MovedServes ==
  ASSUME NEW l, NEW k, Moved(l, k, "client")
  PROVE  Served(l, k)
  BY DEF Moved, Served, Other

LEMMA ServedTwice ==
  ASSUME NEW l, NEW k, NEW m, Served(l, k), Served(k, m)
  PROVE  Served(l, m)
  BY DEF Served

LEMMA FreshIs ==
  ASSUME NEW f \in {0, 3, 4}, NEW w \in Side \union {"nobody"}
  PROVE  /\ Sound(Fresh(f, w)) /\ Fresh(f, w).open = {}
<1>1. [s \in Side |-> <<>>] \in [Side -> Seq(Message)] /\ [s \in Side |-> 0] \in [Side -> 0 .. 4]
  OBVIOUS
<1>2. Fresh(f, w) \in Link
  BY <1>1 DEF Fresh, Link
<1> QED
  BY <1>2 DEF Fresh, Sound, Goal

\* close by either side.
LEMMA CloseIs ==
  ASSUME NEW l, Sound(l), NEW s \in Side
  PROVE  /\ Sound(Close(l, s))
         /\ s = "client" => Served(l, Close(l, s))
<1>1. CASE Other(s) \in l.open
  <2> DEFINE k == [l EXCEPT !.open = @ \ {s}, !.reset = @ \/ Inbox(l, s) # <<>>,
                            !.sent[Other(s)] = <<>>]
  <2>1. Close(l, s) = k
    BY <1>1 DEF Close
  <2>2. /\ k \in Link /\ k.done = l.done /\ k.flights = l.flights /\ k.open = l.open \ {s}
        /\ (l.reset => k.reset) /\ k.filled = l.filled /\ k.full = l.full
    <3>1. <<>> \in Seq(Message) /\ l.sent \in [Side -> Seq(Message)]
      BY DEF Sound, Link
    <3>2. k.sent \in [Side -> Seq(Message)] /\ k.open \in SUBSET Side /\ k.reset \in BOOLEAN
      BY <3>1 DEF Sound, Link
    <3> QED
      BY <3>2 DEF Sound, Link
  <2> HIDE DEF k
  <2>3. Sound(k)
    BY <2>2 DEF Sound, Goal
  <2> QED
    BY <2>1, <2>2, <2>3 DEF Served
<1>2. CASE Other(s) \notin l.open
  <2> DEFINE f == Fresh(l.flights, l.refuser)
             k == [f EXCEPT !.filled = l.filled]
  <2>1. Close(l, s) = k
    BY <1>2 DEF Close
  <2>2. Sound(f) /\ f.full = FALSE
    BY FreshIs DEF Sound, Link, Fresh
  <2> HIDE DEF f
  <2>3. /\ k \in Link /\ k.done = f.done /\ k.flights = f.flights /\ k.full = f.full
    BY <2>2 DEF Sound, Link
  <2> HIDE DEF k
  <2>4. Sound(k)
    BY <2>2, <2>3 DEF Sound, Goal
  <2> QED
    BY <1>2, <2>1, <2>4 DEF Served, Other
<1> QED
  BY <1>1, <1>2

LEMMA AbortIs == ASSUME NEW l, Sound(l) PROVE Served(l, Abort(l, "client"))
<1>1. CASE Other("client") \in l.open
  <2> DEFINE k == [l EXCEPT !.open = @ \ {"client"}, !.reset = TRUE, !.sent = [t \in Side |-> <<>>]]
  <2>1. Abort(l, "client") = k
    BY <1>1 DEF Abort
  <2>2. /\ k \in Link /\ k.done = l.done /\ k.flights = l.flights /\ k.open = l.open \ {"client"}
        /\ k.reset = TRUE /\ k.filled = l.filled /\ k.full = l.full
    <3>1. [t \in Side |-> <<>>] \in [Side -> Seq(Message)]
      OBVIOUS
    <3> QED
      BY <3>1 DEF Sound, Link
  <2> HIDE DEF k
  <2> QED
    BY <2>1, <2>2 DEF Served, Sound, Goal
<1>2. CASE Other("client") \notin l.open
  <2>1. Abort(l, "client") = Close(l, "client")
    BY <1>2 DEF Abort
  <2> QED
    BY <2>1, CloseIs DEF Side
<1> QED
  BY <1>1, <1>2

\* connect, and what a network does.
LEMMA NetworkIs ==
  ASSUME NEW l, Sound(l), NEW k \in {Connected(l), Lose(l), Cut(l), Fill(l), Drain(l)}
  PROVE  Served(l, k)
<1>1. /\ k \in Link /\ k.done = l.done /\ k.flights = l.flights /\ k.open \in {l.open, Side}
      /\ k.reset = l.reset /\ (l.filled => k.filled)
      /\ k.full => k.filled
  <2>1. CASE k = Connected(l)
    BY <2>1 DEF Connected, Sound, Link
  <2>2. CASE k = Lose(l)
    BY <2>2 DEF Lose, Sound, Link
  <2>3. CASE k = Cut(l)
    BY <2>3 DEF Cut, Sound, Link
  <2>4. CASE k = Fill(l)
    BY <2>4 DEF Fill, Sound, Link
  <2>5. CASE k = Drain(l)
    BY <2>5 DEF Drain, Sound, Link
  <2> QED
    BY <2>1, <2>2, <2>3, <2>4, <2>5
<1> QED
  BY <1>1 DEF Served, Sound, Goal, Side

-----------------------------------------------------------------------------
(***************************************************************************)
(* The tables of the servers that serve one connection at a time.          *)
(***************************************************************************)
Sequential == {"tls_server", "one_way_server", "two_way_server", "tcp_server"}

\* The places of a server that has accepted a connection.
Busy == {"handshake", "read", "write", "notify", "finish", "close"}

LEMMA CallOf == ASSUME NEW call, NEW to PROVE Do(call, to).call = call
  BY DEF Do

LEMMA AfterAlways ==
  ASSUME NEW call, NEW m, NEW l, NEW out
  PROVE  After(Do(call, Always(m)), l, out) = IF out \in Outcome \ {"again"} THEN {m} ELSE {l}
  BY DEF After, Do, Always

LEMMA AfterBut ==
  ASSUME NEW call, NEW o, NEW ls, NEW m, NEW l, NEW out
  PROVE  After(Do(call, But(o, ls) ++ Always(m)), l, out)
           = IF out = o THEN ls ELSE IF out \in Outcome \ {"again"} THEN {m} ELSE {l}
  BY DEF After, Do, But, Always, ++

LEMMA AfterButs ==
  ASSUME NEW call, NEW o, NEW ls, NEW p, NEW ms, NEW m, NEW l, NEW out
  PROVE  After(Do(call, But(o, ls) ++ But(p, ms) ++ Always(m)), l, out)
           = IF out = o THEN ls ELSE IF out = p THEN ms
             ELSE IF out \in Outcome \ {"again"} THEN {m} ELSE {l}
  BY DEF After, Do, But, Always, ++

\* The row of the server s at l.
RowAt(s, l) == Program[s][l]

\* The outcomes that a call can have; a read can have any.
Can(call, out) ==
  /\ call = "handshake" => out \in {"ok", "again", "error", "reset", "eof"}
  /\ call \in Writes => out \in {"error", "reset", "ok", "again"}

\* A server accepts, is at the connection, closes it, and accepts again; when
\* a call on the connection ends it, EndsServer says so.
RowFine(s, l) ==
  LET row == RowAt(s, l)
      To(out) == After(row, l, out)
  IN  \/ /\ l = "setup" /\ row.call = "setup"
         /\ To("ok") \subseteq {"reset", "accept"} /\ To("error") \subseteq Ended
      \/ /\ l = "accept" /\ row.call = "accept"
         /\ To("ok") \subseteq Busy /\ To("error") \subseteq {"accept"} \union Ended
      \/ l \in {"reset", "close"} /\ row.call = "close" /\ To("ok") \subseteq {"accept"}
      \/ /\ l \in Busy \ {"close"} /\ row.call \in OnLink
         /\ \A out : Can(row.call, out) =>
              /\ To(out) \subseteq Busy \union {"reset"} \union Ended
              /\ \A next \in To(out) : next \in Ended => <<l, out>> \in EndsServer[s]

\* From a place of the server a call leads to a place of it, or ends it.
RowInside(s, l) ==
  \A out : After(RowAt(s, l), l, out) \subseteq DOMAIN Program[s] \union Ended

LEMMA TlsServerRows ==
  /\ DOMAIN Program["tls_server"] = {"setup", "reset", "accept", "handshake", "read", "write", "notify"}
  /\ RowAt("tls_server", "setup") = Do("setup", But("ok", {"reset"}) ++ Always("ended"))
  /\ RowAt("tls_server", "reset") = Do("close", Always("accept"))
  /\ RowAt("tls_server", "accept")
       = Do("accept", But("ok", {"handshake"}) ++ Always("ended"))
  /\ RowAt("tls_server", "handshake")
       = Do("handshake", But("ok", {"read"}) ++ Always("reset"))
  /\ RowAt("tls_server", "read") = Do("read", Always("write"))
  /\ RowAt("tls_server", "write")
       = Do("response", But("ok", {"notify"}) ++ But("reset", {"reset"}) ++ Always("ended"))
  /\ RowAt("tls_server", "notify") = Do("notify", Always("reset"))
  BY DEF RowAt, Program, tls_server, tls_server_setup, tls_server_accept, tls_server_read,
         tls_server_write, ++

LEMMA TlsServerFine ==
  ASSUME NEW l \in DOMAIN Program["tls_server"]
  PROVE  RowFine("tls_server", l) /\ RowInside("tls_server", l)
<1> USE TlsServerRows, CallOf DEF RowFine, RowInside, Can, Busy, Ended, OnLink, Writes, Outcome, EndsServer
<1>1. CASE l = "setup"
  BY <1>1, AfterBut, SMTT(30)
<1>2. CASE l = "reset"
  BY <1>2, AfterAlways, SMTT(30)
<1>3. CASE l = "accept"
  BY <1>3, AfterBut, SMTT(30)
<1>4. CASE l = "handshake"
  BY <1>4, AfterBut, SMTT(30)
<1>5. CASE l = "read"
  BY <1>5, AfterAlways, SMTT(30)
<1>6. CASE l = "write"
  BY <1>6, AfterButs, SMTT(30)
<1>7. CASE l = "notify"
  BY <1>7, AfterAlways, SMTT(30)
<1> QED
  BY <1>1, <1>2, <1>3, <1>4, <1>5, <1>6, <1>7

LEMMA OneWayServerRows ==
  /\ DOMAIN Program["one_way_server"] = {"setup", "accept", "handshake", "write", "read", "finish", "close"}
  /\ RowAt("one_way_server", "setup")
       = Do("setup", But("ok", {"accept"}) ++ Always("ended"))
  /\ RowAt("one_way_server", "accept")
       = Do("accept", But("ok", {"handshake"}) ++ Always("ended"))
  /\ RowAt("one_way_server", "handshake")
       = Do("handshake", But("ok", {"write"}) ++ But("eof", {"write", "ended"}) ++ Always("ended"))
  /\ RowAt("one_way_server", "write")
       = Do("response", But("ok", {"read"}) ++ But("reset", {"finish", "killed"}) ++ Always("finish"))
  /\ RowAt("one_way_server", "read") = Do("read", Always("finish"))
  /\ RowAt("one_way_server", "finish")
       = Do("notify", But("reset", {"close", "killed"}) ++ Always("close"))
  /\ RowAt("one_way_server", "close") = Do("close", Always("accept"))
  BY DEF RowAt, Program, one_way_server, one_way_server_setup, one_way_server_accept,
         one_way_server_talk, one_way_server_finish, ++

LEMMA OneWayServerFine ==
  ASSUME NEW l \in DOMAIN Program["one_way_server"]
  PROVE  RowFine("one_way_server", l) /\ RowInside("one_way_server", l)
<1> USE OneWayServerRows, CallOf DEF RowFine, RowInside, Can, Busy, Ended, OnLink, Writes, Outcome, EndsServer
<1>1. CASE l = "setup"
  BY <1>1, AfterBut, SMTT(30)
<1>2. CASE l = "accept"
  BY <1>2, AfterBut, SMTT(30)
<1>3. CASE l = "handshake"
  BY <1>3, AfterButs, SMTT(30)
<1>4. CASE l = "write"
  BY <1>4, AfterButs, SMTT(30)
<1>5. CASE l = "read"
  BY <1>5, AfterAlways, SMTT(30)
<1>6. CASE l = "finish"
  BY <1>6, AfterBut, SMTT(30)
<1>7. CASE l = "close"
  BY <1>7, AfterAlways, SMTT(30)
<1> QED
  BY <1>1, <1>2, <1>3, <1>4, <1>5, <1>6, <1>7

LEMMA TwoWayServerRows ==
  /\ DOMAIN Program["two_way_server"] = {"setup", "accept", "handshake", "write", "read", "finish", "close"}
  /\ RowAt("two_way_server", "setup")
       = Do("setup", But("ok", {"accept"}) ++ Always("ended"))
  /\ RowAt("two_way_server", "accept")
       = Do("accept", But("ok", {"handshake"}) ++ Always("ended"))
  /\ RowAt("two_way_server", "handshake")
       = Do("handshake", But("ok", {"write"}) ++ But("eof", {"write", "ended"}) ++ Always("ended"))
  /\ RowAt("two_way_server", "write")
       = Do("response", But("ok", {"read"}) ++ But("reset", {"finish", "killed"}) ++ Always("finish"))
  /\ RowAt("two_way_server", "read") = Do("read", Always("finish"))
  /\ RowAt("two_way_server", "finish")
       = Do("notify", But("reset", {"close", "killed"}) ++ Always("close"))
  /\ RowAt("two_way_server", "close") = Do("close", Always("accept"))
  BY DEF RowAt, Program, two_way_server, one_way_server_setup, two_way_server_accept,
         two_way_server_talk, one_way_server_accept, one_way_server_talk, one_way_server_finish, ++

LEMMA TwoWayServerFine ==
  ASSUME NEW l \in DOMAIN Program["two_way_server"]
  PROVE  RowFine("two_way_server", l) /\ RowInside("two_way_server", l)
<1> USE TwoWayServerRows, CallOf DEF RowFine, RowInside, Can, Busy, Ended, OnLink, Writes, Outcome, EndsServer
<1>1. CASE l = "setup"
  BY <1>1, AfterBut, SMTT(30)
<1>2. CASE l = "accept"
  BY <1>2, AfterBut, SMTT(30)
<1>3. CASE l = "handshake"
  BY <1>3, AfterButs, SMTT(30)
<1>4. CASE l = "write"
  BY <1>4, AfterButs, SMTT(30)
<1>5. CASE l = "read"
  BY <1>5, AfterAlways, SMTT(30)
<1>6. CASE l = "finish"
  BY <1>6, AfterBut, SMTT(30)
<1>7. CASE l = "close"
  BY <1>7, AfterAlways, SMTT(30)
<1> QED
  BY <1>1, <1>2, <1>3, <1>4, <1>5, <1>6, <1>7

LEMMA TcpServerRows ==
  /\ DOMAIN Program["tcp_server"] = {"setup", "accept", "read", "close"}
  /\ RowAt("tcp_server", "setup") = Do("setup", But("ok", {"accept"}) ++ Always("ended"))
  /\ RowAt("tcp_server", "accept") = Do("accept", But("ok", {"read"}) ++ Always("accept"))
  /\ RowAt("tcp_server", "read")
       = Do("read", But("error", {"close", "killed"}) ++ But("reset", {"close", "killed"}) ++ Always("close"))
  /\ RowAt("tcp_server", "close") = Do("close", Always("accept"))
  BY DEF RowAt, Program, tcp_server, ++

LEMMA TcpServerFine ==
  ASSUME NEW l \in DOMAIN Program["tcp_server"]
  PROVE  RowFine("tcp_server", l) /\ RowInside("tcp_server", l)
<1> USE TcpServerRows, CallOf DEF RowFine, RowInside, Can, Busy, Ended, OnLink, Writes, Outcome, EndsServer
<1>1. CASE l = "setup"
  BY <1>1, AfterBut, SMTT(30)
<1>2. CASE l = "accept"
  BY <1>2, AfterBut, SMTT(30)
<1>3. CASE l = "read"
  BY <1>3, AfterButs, SMTT(30)
<1>4. CASE l = "close"
  BY <1>4, AfterAlways, SMTT(30)
<1> QED
  BY <1>1, <1>2, <1>3, <1>4

LEMMA Fine ==
  ASSUME NEW s \in Sequential, NEW l \in DOMAIN Program[s]
  PROVE  RowFine(s, l) /\ RowInside(s, l)
  BY TlsServerFine, OneWayServerFine, TwoWayServerFine, TcpServerFine DEF Sequential
-----------------------------------------------------------------------------
(***************************************************************************)
(* The invariant.                                                          *)
(***************************************************************************)

\* A server that serves one connection at a time has the descriptor of the
\* one it is at, and of no other.
SeqInv ==
  server \in Sequential =>
    /\ at \in DOMAIN Program[server] \union Ended
    /\ serving \in Client \union {NoClient}
    /\ held = IF serving = NoClient THEN {} ELSE {serving}
    /\ at \in {"setup", "accept"} \union Ended => serving = NoClient
    /\ at \in Busy => serving \in Client

Opened == held \subseteq Client /\ \A c \in held : "server" \in link[c].open

\* While its handshake goes on a channel is watched for what it waits for.
\* It is watched for reading at its end unless the last thing the handshake
\* waited for was to write, which it only does on a full connection.
WatchedAs(l, ch) ==
  /\ ch.tcpConnected /\ ~ ch.sslConnected =>
       IF Writing(l, "server") THEN "out" \in ch.events ELSE "in" \in ch.events
  /\ ch.tcpConnected => "in" \in ch.events \/ l.filled
  /\ ch.sslConnected => ch.tcpConnected

ChannelInv ==
  /\ channel \in [Client -> Channel \union {NoChannel}]
  /\ ~ IsAsync => \A c \in Client : channel[c] = NoChannel
  /\ \A c \in Client : channel[c] # NoChannel => c \in held /\ WatchedAs(link[c], channel[c])
  /\ IsAsync => \A c \in held : channel[c] = NoChannel => link[c].reset

\* A handler is called for a channel that is still there.
ReadyType == [Client -> SUBSET {"in", "out", "err"}]

ReadyInv ==
  /\ ready \in ReadyType
  /\ IsAsync /\ at = "handle" => \A c \in Client : ready[c] # {} => channel[c] # NoChannel

Causes ==
  at \in Ended => cause \in EndsServer[server] \union {<<"setup", "error">>, <<"accept", "error">>}

Links == link \in [Client -> Link] /\ \A c \in Client : Sound(link[c])

Servers ==
  /\ server \in Sequential \union {"ssl_server_async", "bio_tls_server"}
  /\ server = "bio_tls_server" => at = "setup" /\ held = {}

IInv == Links /\ Servers /\ SeqInv /\ Opened /\ ChannelInv /\ ReadyInv /\ Causes

LEMMA InitIInv == Init => IInv
<1> SUFFICES ASSUME Init PROVE IInv
  OBVIOUS
<1>1. /\ server \in Sequential \union {"ssl_server_async", "bio_tls_server"}
      /\ at = "setup" /\ serving = NoClient /\ held = {}
  BY SamplesAssumption DEF Init, PeersInit, PeersIdle, Sequential
<1>2. PICK f \in {0, 3, 4}, w \in Side \union {"nobody"} : link = [c \in Client |-> Fresh(f, w)]
  <2>1. CASE PeersInit(Server, ClientsOf, FlightsOf, RefusersOf)
    <3>1. PICK f \in FlightsOf[server], w \in RefusersOf[server] : link = [c \in Client |-> Fresh(f, w)]
      BY <2>1 DEF PeersInit
    <3>2. server \in Server
      BY <2>1 DEF PeersInit
    <3> QED
      BY <3>1, <3>2, SamplesAssumption
  <2>2. CASE PeersIdle("bio_tls_server")
    BY <2>2 DEF PeersIdle
  <2> QED
    BY <2>1, <2>2 DEF Init
<1>3. Links
  BY <1>2, FreshIs DEF Links, Sound
<1>4. channel = [c \in Client |-> NoChannel] /\ ready = [c \in Client |-> {}]
  BY DEF Init, AsyncInit
<1>5. at \notin Ended /\ at \notin Busy
  BY <1>1 DEF Ended, Busy
<1>6. \A s \in Sequential : "setup" \in DOMAIN Program[s]
  BY TlsServerRows, OneWayServerRows, TwoWayServerRows, TcpServerRows DEF Sequential
<1>7. Servers /\ SeqInv /\ Opened /\ ReadyInv /\ Causes
  BY <1>1, <1>4, <1>5, <1>6 DEF Servers, SeqInv, Opened, ReadyInv, ReadyType, Causes
<1>8. ChannelInv
  BY <1>1, <1>4 DEF ChannelInv
<1> QED
  BY <1>3, <1>7, <1>8 DEF IInv

-----------------------------------------------------------------------------
(***************************************************************************)
(* Steps that are not the server's.                                        *)
(***************************************************************************)

\* A channel stays watched as it must be when the others do something.
LEMMA WatchedStays ==
  ASSUME NEW l, NEW k, NEW ch, Served(l, k), "server" \in l.open, WatchedAs(l, ch)
  PROVE  WatchedAs(k, ch)
<1>1. Writing(k, "server") = Writing(l, "server") /\ (l.filled => k.filled)
  BY DEF Served, Writing, Secure, Due
<1> QED
  BY <1>1, Zenon DEF WatchedAs

LEMMA OthersKeep ==
  ASSUME IInv, link' \in [Client -> Link], \A c \in Client : Served(link[c], link'[c]),
         UNCHANGED <<server, at, serving, held, cause, asyncVars>>
  PROVE  IInv'
<1>1. Links'
  BY DEF Links, Served
<1>2. Opened'
  BY DEF IInv, Opened, Served
<1>3. ChannelInv'
  <2>1. ASSUME NEW c \in Client, channel[c] # NoChannel PROVE WatchedAs(link'[c], channel[c])
    <3>1. "server" \in link[c].open /\ WatchedAs(link[c], channel[c])
      BY <2>1 DEF IInv, ChannelInv, Opened
    <3> QED
      BY <3>1, WatchedStays
  <2>2. ASSUME NEW c \in held, link[c].reset PROVE link'[c].reset
    BY <2>2 DEF IInv, Opened, Served
  <2> QED
    BY <2>1, <2>2 DEF IInv, ChannelInv, IsAsync, asyncVars
<1>4. Servers' /\ SeqInv' /\ ReadyInv' /\ Causes'
  BY DEF IInv, Servers, SeqInv, ReadyInv, Causes, IsAsync, asyncVars
<1> QED
  BY <1>1, <1>2, <1>3, <1>4 DEF IInv

LEMMA OneServes ==
  ASSUME IInv, NEW c \in Client, NEW k, Served(link[c], k), link' = [link EXCEPT ![c] = k]
  PROVE  link' \in [Client -> Link] /\ \A d \in Client : Served(link[d], link'[d])
<1>1. \A d \in Client : Served(link[d], link[d])
  BY DEF IInv, Links, Served
<1>2. k \in Link
  BY DEF Served, Sound
<1> QED
  BY <1>1, <1>2 DEF IInv, Links

LEMMA ClientStepServes ==
  ASSUME IInv, NEW c \in Client, NEW l, Served(link[c], l), NEW labels, ClientGoes(c, l, labels)
  PROVE  link' \in [Client -> Link] /\ \A d \in Client : Served(link[d], link'[d])
<1>1. PICK k \in {l, ClosedBy(l, "client")} : link' = [link EXCEPT ![c] = k]
  BY DEF ClientGoes
<1>2. Served(l, ClosedBy(l, "client")) /\ Served(l, l)
  BY CloseIs DEF ClosedBy, Served, Side
<1>3. Served(link[c], k)
  BY <1>1, <1>2, ServedTwice
<1> QED
  BY <1>1, <1>3, OneServes

LEMMA ClientKeeps ==
  ASSUME IInv, NEW c \in Client, ClientStep(c) \/ Interrupt(c), UNCHANGED asyncVars
  PROVE  IInv'
<1>1. Sound(link[c]) /\ Served(link[c], link[c])
  BY DEF IInv, Links, Served
<1>2. \E l, labels : Served(link[c], l) /\ ClientGoes(c, l, labels)
  <2>1. CASE ClientCalls(c)
    <3>1. PICK r \in Called(RowOf(c).call, link[c], "client") :
            ClientGoes(c, r.link, After(RowOf(c), pc[c], r.out))
      BY <2>1 DEF ClientCalls
    <3>2. RowOf(c).call \in OnLink
      BY <2>1 DEF ClientCalls
    <3>3. Moved(link[c], r.link, "client")
      BY <1>1, <3>1, <3>2, CalledMoves DEF Side
    <3> QED
      BY <3>1, <3>3, MovedServes
  <2>2. CASE ClientSetup(c)
    BY <1>1, <2>2 DEF ClientSetup
  <2>3. CASE ClientConnects(c)
    <3>1. Served(link[c], Connected(link[c]))
      BY <1>1, NetworkIs
    <3> QED
      BY <1>1, <2>3, <3>1 DEF ClientConnects
  <2>4. CASE ClientAborts(c)
    <3>1. Served(link[c], Abort(link[c], "client"))
      BY <1>1, AbortIs
    <3> QED
      BY <2>4, <3>1 DEF ClientAborts
  <2>5. CASE Interrupt(c)
    BY <1>1, <2>5 DEF Interrupt
  <2> QED
    BY <2>1, <2>2, <2>3, <2>4, <2>5 DEF ClientStep
<1>3. link' \in [Client -> Link] /\ \A d \in Client : Served(link[d], link'[d])
  BY <1>2, ClientStepServes
<1>4. UNCHANGED <<server, at, serving, held, cause>>
  BY DEF ClientStep, Interrupt
<1> QED
  BY <1>3, <1>4, OthersKeep

LEMMA NetworkKeeps ==
  ASSUME IInv, NEW c \in Client, UNCHANGED asyncVars,
         NetworkLoses(c) \/ NetworkCuts(c) \/ NetworkFills(c) \/ NetworkDrains(c)
  PROVE  IInv'
<1>1. PICK k \in {Lose(link[c]), Cut(link[c]), Fill(link[c]), Drain(link[c])} : NetworkDoes(c, k)
  BY DEF NetworkLoses, NetworkCuts, NetworkFills, NetworkDrains
<1>2. Served(link[c], k)
  BY <1>1, NetworkIs DEF IInv, Links
<1>3. link' \in [Client -> Link] /\ \A d \in Client : Served(link[d], link'[d])
  BY <1>1, <1>2, OneServes DEF NetworkDoes
<1> QED
  BY <1>1, <1>3, OthersKeep DEF NetworkDoes

-----------------------------------------------------------------------------
(***************************************************************************)
(* Steps of a server that serves one connection at a time.                 *)
(***************************************************************************)

LEMMA CloseAllIs ==
  ASSUME NEW links \in [Client -> Link], \A c \in Client : Sound(links[c])
  PROVE  /\ CloseAll(links) \in [Client -> Link]
         /\ \A c \in Client : Sound(CloseAll(links)[c])
<1>1. \A c \in Client : Sound(ClosedBy(links[c], "server"))
  BY CloseIs DEF ClosedBy, Side
<1> QED
  BY <1>1 DEF CloseAll, Sound

LEMMA ServerIs ==
  ASSUME IInv, ServerStep
  PROVE  /\ server \in Sequential /\ at \in DOMAIN Program[server] /\ at \notin Ended
         /\ Row = RowAt(server, at) /\ RowFine(server, at) /\ RowInside(server, at)
         /\ ~ IsAsync /\ server' = server
<1>1. server \in Sequential
  BY DEF ServerStep, IInv, Servers, Program
<1>2. at \in DOMAIN Program[server] /\ at \notin Ended
  BY <1>1 DEF ServerStep, IInv, SeqInv
<1> QED
  BY <1>1, <1>2, Fine DEF Row, RowAt, IsAsync, Sequential, ServerStep

\* What a step of such a server leaves to be shown.
LEMMA SeqKeeps ==
  ASSUME IInv, ServerStep, UNCHANGED asyncVars, Links', SeqInv', Opened', Causes'
  PROVE  IInv'
<1>1. server \in Sequential /\ ~ IsAsync /\ ~ IsAsync'
  BY ServerIs DEF IsAsync
<1>2. ChannelInv' /\ ReadyInv'
  BY <1>1 DEF IInv, ChannelInv, ReadyInv, asyncVars
<1>3. Servers'
  BY <1>1, ServerIs DEF IInv, Servers, Sequential
<1> QED
  BY <1>2, <1>3 DEF IInv

LEMMA ServerEndsKeeps ==
  ASSUME IInv, ServerStep, UNCHANGED asyncVars, NEW out, ServerEnds(out), Links',
         <<at, out>> \in EndsServer[server] \union {<<"setup", "error">>, <<"accept", "error">>}
  PROVE  IInv'
<1>1. SeqInv'
  BY ServerIs DEF ServerEnds, SeqInv, Ended, Busy
<1>2. Opened' /\ Causes'
  BY ServerIs DEF ServerEnds, Opened, Causes
<1> QED
  BY <1>1, <1>2, SeqKeeps

LEMMA ServerCallsKeeps ==
  ASSUME IInv, ServerStep, UNCHANGED asyncVars, ServerCalls
  PROVE  IInv'
<1>1. PICK r \in Called(Row.call, link[serving], "server") :
        LET links == [link EXCEPT ![serving] = r.link]
        IN  /\ at' \in After(Row, at, r.out)
            /\ \/ /\ at' \notin Ended
                  /\ link' = links
                  /\ UNCHANGED <<serving, held, cause>>
               \/ /\ ServerEnds(r.out)
                  /\ link' = CloseAll(links)
  BY DEF ServerCalls
<1>2. /\ Row.call \in OnLink /\ at \in Busy \ {"close"}
      /\ Can(Row.call, r.out) =>
           /\ at' \in Busy \union {"reset"} \union Ended
           /\ at' \in Ended => <<at, r.out>> \in EndsServer[server]
  <2>1. Row.call \in OnLink /\ Row.call \notin {"setup", "accept", "close"}
    BY DEF ServerCalls, OnLink
  <2> QED
    BY <1>1, <2>1, ServerIs DEF RowFine
<1>3. serving \in Client /\ held = {serving} /\ Sound(link[serving])
  BY <1>2, ServerIs, SamplesAssumption DEF IInv, SeqInv, Links
<1>4. Moved(link[serving], r.link, "server") /\ Can(Row.call, r.out)
  BY <1>1, <1>2, <1>3, CalledMoves DEF Can, Side
<1>5. at' \in DOMAIN Program[server] \union Ended
  BY <1>1, ServerIs DEF RowInside
<1> DEFINE links == [link EXCEPT ![serving] = r.link]
<1>6. /\ links \in [Client -> Link] /\ \A c \in Client : Sound(links[c])
      /\ links[serving].open = link[serving].open
  BY <1>3, <1>4 DEF IInv, Links, Moved, Sound
<1>7. CASE /\ at' \notin Ended /\ link' = links
           /\ UNCHANGED <<serving, held, cause>>
  <2>1. Links'
    BY <1>6, <1>7 DEF Links
  <2>2. Opened'
    BY <1>3, <1>6, <1>7 DEF IInv, Opened
  <2>3. at' \notin {"setup", "accept"}
    BY <1>2, <1>4, <1>7 DEF Busy
  <2>4. SeqInv'
    BY <1>3, <1>5, <1>7, <2>3, ServerIs DEF IInv, SeqInv
  <2>5. Causes'
    BY <1>7 DEF Causes
  <2> QED
    BY <2>1, <2>2, <2>4, <2>5, SeqKeeps
<1>8. CASE ServerEnds(r.out) /\ link' = CloseAll(links)
  <2>1. Links'
    BY <1>6, <1>8, CloseAllIs DEF Links
  <2>2. <<at, r.out>> \in EndsServer[server]
    BY <1>2, <1>4, <1>8 DEF ServerEnds
  <2> QED
    BY <1>8, <2>1, <2>2, ServerEndsKeeps
<1> QED
  BY <1>1, <1>7, <1>8

LEMMA ServerSetupKeeps ==
  ASSUME IInv, ServerStep, UNCHANGED asyncVars, ServerSetup
  PROVE  IInv'
<1>1. PICK out \in {"ok", "error"} :
        /\ at' \in After(Row, at, out)
        /\ \/ at' \notin Ended /\ UNCHANGED <<link, serving, held, cause>>
           \/ ServerEnds(out) /\ UNCHANGED link
  BY DEF ServerSetup
<1>2. /\ at = "setup" /\ After(Row, at, "ok") \subseteq {"reset", "accept"}
      /\ After(Row, at, "error") \subseteq Ended
  <2>1. Row.call = "setup" /\ Row.call \notin OnLink \union {"accept", "close"}
    BY DEF ServerSetup, OnLink
  <2> QED
    BY <2>1, ServerIs DEF RowFine
<1>3. at' \in DOMAIN Program[server] \union Ended
  BY <1>1, ServerIs DEF RowInside
<1>4. serving = NoClient /\ held = {}
  BY <1>2, ServerIs DEF IInv, SeqInv
<1>5. CASE at' \notin Ended /\ UNCHANGED <<link, serving, held, cause>>
  <2>1. at' \in {"reset", "accept"}
    BY <1>1, <1>2, <1>5
  <2>2. SeqInv'
    BY <1>3, <1>4, <1>5, <2>1, ServerIs DEF SeqInv, Busy
  <2>3. Links' /\ Opened' /\ Causes'
    BY <1>5 DEF IInv, Links, Opened, Causes
  <2> QED
    BY <2>2, <2>3, SeqKeeps
<1>6. CASE ServerEnds(out) /\ UNCHANGED link
  <2>1. out = "error"
    BY <1>1, <1>2, <1>6 DEF ServerEnds, Ended
  <2>2. Links'
    BY <1>6 DEF IInv, Links
  <2> QED
    BY <1>2, <1>6, <2>1, <2>2, ServerEndsKeeps
<1> QED
  BY <1>1, <1>5, <1>6

LEMMA ServerAcceptsKeeps ==
  ASSUME IInv, ServerStep, UNCHANGED asyncVars, ServerAccepts
  PROVE  IInv'
<1>1. /\ at = "accept" /\ After(Row, at, "ok") \subseteq Busy
      /\ After(Row, at, "error") \subseteq {"accept"} \union Ended
  <2>1. Row.call = "accept" /\ Row.call \notin OnLink \union {"setup", "close"}
    BY DEF ServerAccepts, OnLink
  <2> QED
    BY <2>1, ServerIs DEF RowFine
<1>2. serving = NoClient /\ held = {}
  BY <1>1, ServerIs DEF IInv, SeqInv
<1>3. \A out : After(Row, at, out) \subseteq DOMAIN Program[server] \union Ended
  BY ServerIs DEF RowInside
<1>4. CASE /\ at' \in After(Row, at, "ok")
           /\ \E c \in Waiting : serving' = c /\ held' = held \union {c}
           /\ UNCHANGED <<link, cause>>
  <2>1. PICK c \in Client : "server" \in link[c].open /\ serving' = c /\ held' = {c}
    BY <1>2, <1>4 DEF Waiting
  <2>2. at' \in Busy /\ at' \notin Ended /\ at' \notin {"setup", "accept"}
    BY <1>1, <1>4 DEF Busy, Ended
  <2>3. SeqInv'
    BY <1>3, <1>4, <2>1, <2>2, ServerIs, SamplesAssumption DEF SeqInv
  <2>4. Links' /\ Opened' /\ Causes'
    BY <1>4, <2>1, <2>2 DEF IInv, Links, Opened, Causes
  <2> QED
    BY <2>3, <2>4, SeqKeeps
<1>5. CASE /\ at' \in After(Row, at, "error") \ Ended
           /\ UNCHANGED <<link, serving, held, cause>>
  <2>1. at' = at
    BY <1>1, <1>5
  <2>2. SeqInv' /\ Links' /\ Opened' /\ Causes'
    BY <1>5, <2>1, ServerIs DEF IInv, SeqInv, Links, Opened, Causes
  <2> QED
    BY <2>2, SeqKeeps
<1>6. CASE ServerEnds("error") /\ link' = CloseAll(link)
  <2>1. Links'
    BY <1>6, CloseAllIs DEF IInv, Links
  <2> QED
    BY <1>1, <1>6, <2>1, ServerEndsKeeps
<1> QED
  BY <1>4, <1>5, <1>6 DEF ServerAccepts

LEMMA ServerClosesKeeps ==
  ASSUME IInv, ServerStep, UNCHANGED asyncVars, ServerCloses
  PROVE  IInv'
<1>1. at' = "accept"
  <2>1. Row.call = "close" /\ Row.call \notin OnLink \union {"setup", "accept"}
    BY DEF ServerCloses, OnLink
  <2> QED
    BY <2>1, ServerIs DEF RowFine, ServerCloses
<1>2. at' \in DOMAIN Program[server] \union Ended
  BY ServerIs DEF RowInside, ServerCloses
<1>3. /\ held = IF serving = NoClient THEN {} ELSE {serving}
      /\ serving \in Client \union {NoClient}
  BY ServerIs DEF IInv, SeqInv
<1>4. held' = {} /\ serving' = NoClient
  BY <1>3 DEF ServerCloses
<1>5. SeqInv' /\ Opened'
  BY <1>1, <1>2, <1>4, ServerIs DEF SeqInv, Opened, Busy
<1>6. Causes'
  BY <1>1 DEF Causes, Ended
<1>7. Links'
  <2>1. CASE serving = NoClient
    BY <2>1 DEF ServerCloses, IInv, Links
  <2>2. CASE serving # NoClient
    <3>1. link' = [link EXCEPT ![serving] = Close(link[serving], "server")] /\ serving \in Client
      BY <1>3, <2>2 DEF ServerCloses
    <3>2. Sound(Close(link[serving], "server"))
      BY <3>1, CloseIs DEF IInv, Links, Side
    <3> QED
      BY <3>1, <3>2 DEF IInv, Links, Sound
  <2> QED
    BY <2>1, <2>2
<1> QED
  BY <1>5, <1>6, <1>7, SeqKeeps

-----------------------------------------------------------------------------
(***************************************************************************)
(* Steps of the epoll server.                                              *)
(***************************************************************************)

\* What is the same for all of its steps.
LEMMA AsyncKeeps ==
  ASSUME IInv, AsyncStep, Links', Opened', ChannelInv', ReadyInv', Causes'
  PROVE  IInv'
<1>1. server = "ssl_server_async" /\ server' = server
  BY DEF AsyncStep, IsAsync
<1>2. Servers' /\ SeqInv'
  BY <1>1 DEF Servers, SeqInv, Sequential
<1> QED
  BY <1>2 DEF IInv

\* Nothing happens to a connection or a channel.
LEMMA LoopKeeps ==
  ASSUME IInv, AsyncStep, UNCHANGED <<link, held, channel>>, ReadyInv', Causes'
  PROVE  IInv'
<1>1. Links' /\ Opened' /\ ChannelInv'
  BY DEF IInv, Links, Opened, ChannelInv, IsAsync, AsyncStep
<1> QED
  BY <1>1, AsyncKeeps

\* The server is gone, and all of its descriptors with it.
LEMMA GoneKeeps ==
  ASSUME IInv, AsyncStep, NEW links \in [Client -> Link], \A c \in Client : Sound(links[c]),
         link' = CloseAll(links), held' = {}, channel' = [c \in Client |-> NoChannel],
         at' # "handle", ready' \in ReadyType,
         cause' \in EndsServer["ssl_server_async"] \union {<<"setup", "error">>}
  PROVE  IInv'
<1>1. Links' /\ Opened'
  BY CloseAllIs DEF Links, Opened
<1>2. ChannelInv' /\ ReadyInv'
  BY DEF ChannelInv, ReadyInv
<1>3. Causes'
  BY DEF Causes, AsyncStep, IsAsync
<1> QED
  BY <1>1, <1>2, <1>3, AsyncKeeps

\* A handler of c keeps its channel.
LEMMA KeepKeeps ==
  ASSUME IInv, AsyncStep, NEW c \in Client, channel[c] # NoChannel,
         NEW l, Moved(link[c], l, "server"), NEW ch \in Channel, WatchedAs(l, ch),
         Keep(c, l, ch), ready' = [ready EXCEPT ![c] = {}]
  PROVE  IInv'
<1>1. link' = [link EXCEPT ![c] = l] /\ channel' = [channel EXCEPT ![c] = ch]
      /\ UNCHANGED <<held, at, cause, server>>
  BY DEF Keep, AsyncStep
<1>2. ch # NoChannel
  BY DEF Channel, NoChannel
<1>3. /\ Sound(l) /\ l \in Link /\ l.open = link[c].open
      /\ link \in [Client -> Link] /\ channel \in [Client -> Channel \union {NoChannel}]
      /\ c \in held
  BY DEF Moved, Sound, IInv, Links, ChannelInv
<1>4. Links'
  BY <1>1, <1>3 DEF IInv, Links
<1>5. Opened'
  BY <1>1, <1>3 DEF IInv, Opened
<1>6. ChannelInv'
  <2>1. channel' \in [Client -> Channel \union {NoChannel}]
    BY <1>1, <1>3
  <2>2. ASSUME NEW d \in Client, channel'[d] # NoChannel
        PROVE  d \in held' /\ WatchedAs(link'[d], channel'[d])
    <3>1. CASE d = c
      BY <1>1, <1>3, <3>1
    <3>2. CASE d # c
      BY <1>1, <1>3, <2>2, <3>2 DEF IInv, ChannelInv
    <3> QED
      BY <3>1, <3>2
  <2>3. ASSUME NEW d \in held', channel'[d] = NoChannel PROVE link'[d].reset
    <3>1. d # c /\ d \in held /\ d \in Client
      BY <1>1, <1>2, <1>3, <2>3 DEF IInv, Opened
    <3> QED
      BY <1>1, <1>3, <2>3, <3>1 DEF IInv, ChannelInv, AsyncStep
  <2>4. IsAsync'
    BY <1>1 DEF IsAsync, AsyncStep
  <2> QED
    BY <2>1, <2>2, <2>3, <2>4 DEF ChannelInv
<1>7. ReadyInv'
  BY <1>1, <1>2, <1>3 DEF IInv, ReadyInv, ReadyType, IsAsync
<1>8. Causes'
  BY <1>1 DEF IInv, Causes
<1> QED
  BY <1>4, <1>5, <1>6, <1>7, <1>8, AsyncKeeps

\* A handler of c destroys its channel.
LEMMA DestroyKeeps ==
  ASSUME IInv, AsyncStep, NEW c \in Client,
         NEW l, Moved(link[c], l, "server"),
         destroy_channel(c, l), ready' = [ready EXCEPT ![c] = {}]
  PROVE  IInv'
<1> DEFINE k == Close(l, "server")
<1>1. link' = [link EXCEPT ![c] = k] /\ channel' = [channel EXCEPT ![c] = NoChannel]
      /\ held' = held \ {c} /\ UNCHANGED <<at, cause, server>>
  BY DEF destroy_channel, AsyncStep
<1>2. Sound(k) /\ k \in Link
  BY CloseIs DEF Moved, Sound, Side
<1> HIDE DEF k
<1>3. link \in [Client -> Link] /\ channel \in [Client -> Channel \union {NoChannel}]
  BY DEF IInv, Links, ChannelInv
<1>4. Links'
  BY <1>1, <1>2, <1>3 DEF IInv, Links
<1>5. Opened'
  BY <1>1, <1>3 DEF IInv, Opened
<1>6. ChannelInv'
  <2>1. channel' \in [Client -> Channel \union {NoChannel}] /\ channel'[c] = NoChannel
    BY <1>1, <1>3
  <2>2. ASSUME NEW d \in Client, d # c
        PROVE  channel'[d] = channel[d] /\ link'[d] = link[d] /\ (d \in held' <=> d \in held)
    BY <1>1, <1>3, <2>2
  <2>3. IsAsync'
    BY <1>1 DEF IsAsync, AsyncStep
  <2>4. c \notin held' /\ held' \subseteq Client
    BY <1>1 DEF IInv, Opened
  <2> QED
    BY <2>1, <2>2, <2>3, <2>4 DEF IInv, ChannelInv, AsyncStep
<1>7. ReadyInv'
  BY <1>1, <1>3 DEF IInv, ReadyInv, ReadyType, IsAsync
<1>8. Causes'
  BY <1>1 DEF IInv, Causes
<1> QED
  BY <1>4, <1>5, <1>6, <1>7, <1>8, AsyncKeeps

-----------------------------------------------------------------------------
(***************************************************************************)
(* The handlers of one channel.                                            *)
(***************************************************************************)

LEMMA HandshakeHandled ==
  ASSUME IInv, AsyncStep, NEW c \in Client, channel[c] # NoChannel, ~ channel[c].sslConnected,
         handleHandshake(c), ready' = [ready EXCEPT ![c] = {}]
  PROVE  IInv'
<1>1. Sound(link[c]) /\ channel[c] \in Channel /\ WatchedAs(link[c], channel[c])
  BY DEF IInv, Links, ChannelInv
<1>2. CASE poll_fails(c)
  <2>1. Moved(link[c], link[c], "server") /\ destroy_channel(c, link[c])
    BY <1>1, <1>2, MovedStays DEF handleHandshake
  <2> QED
    BY <2>1, DestroyKeeps
<1>3. CASE ~ poll_fails(c)
  <2>1. PICK r \in Handshake(link[c], "server") :
          \/ /\ r.out = "ok"
             /\ Keep(c, r.link, [TcpConnected(c) EXCEPT !.sslConnected = TRUE])
          \/ /\ r.out = "again"
             /\ Keep(c, r.link, [TcpConnected(c) EXCEPT !.events = Wants(@, r.link)])
          \/ /\ r.out \notin {"ok", "again"}
             /\ destroy_channel(c, r.link)
    BY <1>3 DEF handleHandshake, do_handshake
  <2>2. /\ Moved(link[c], r.link, "server")
        /\ r.out = "again" /\ Writing(r.link, "server") => r.link.filled
    BY <1>1, HandshakeMoves DEF Side
  <2> DEFINE ch == TcpConnected(c)
  <2>3. /\ ch \in Channel /\ ch.tcpConnected /\ ~ ch.sslConnected
        /\ "in" \in ch.events \/ link[c].filled
    <3>1. CASE channel[c].tcpConnected
      BY <1>1, <3>1 DEF TcpConnected, WatchedAs
    <3>2. CASE ~ channel[c].tcpConnected
      BY <1>1, <3>2 DEF TcpConnected, Channel
    <3> QED
      BY <3>1, <3>2
  <2> HIDE DEF ch
  <2>4. CASE r.out = "ok" /\ Keep(c, r.link, [ch EXCEPT !.sslConnected = TRUE])
    <3> DEFINE on == [ch EXCEPT !.sslConnected = TRUE]
    <3>1. on \in Channel /\ on.sslConnected /\ on.tcpConnected /\ on.events = ch.events
      BY <2>3 DEF Channel
    <3>2. Keep(c, r.link, on)
      BY <2>4
    <3> HIDE DEF on
    <3>3. WatchedAs(r.link, on)
      BY <2>2, <2>3, <3>1 DEF WatchedAs, Moved
    <3> QED
      BY <2>2, <3>1, <3>2, <3>3, KeepKeeps
  <2>5. CASE r.out = "again" /\ Keep(c, r.link, [ch EXCEPT !.events = Wants(@, r.link)])
    <3> DEFINE on == [ch EXCEPT !.events = Wants(ch.events, r.link)]
    <3>1. /\ Wants(ch.events, r.link) \subseteq {"in", "out", "err"}
          /\ IF Writing(r.link, "server") THEN "out" \in Wants(ch.events, r.link)
             ELSE "in" \in Wants(ch.events, r.link)
      BY <2>3 DEF Wants, Channel
    <3>2. on \in Channel /\ ~ on.sslConnected /\ on.tcpConnected
          /\ on.events = Wants(ch.events, r.link)
      BY <2>3, <3>1 DEF Channel
    <3>3. Keep(c, r.link, on)
      BY <2>5
    <3> HIDE DEF on
    <3>4. WatchedAs(r.link, on)
      BY <2>2, <2>5, <3>1, <3>2 DEF WatchedAs
    <3> QED
      BY <2>2, <3>2, <3>3, <3>4, KeepKeeps
  <2>6. CASE destroy_channel(c, r.link)
    BY <2>2, <2>6, DestroyKeeps
  <2> QED
    BY <2>1, <2>4, <2>5, <2>6 DEF ch
<1> QED
  BY <1>2, <1>3

LEMMA DataHandled ==
  ASSUME IInv, AsyncStep, NEW c \in Client, channel[c] # NoChannel, channel[c].sslConnected,
         handleDataRead(c), ready' = [ready EXCEPT ![c] = {}]
  PROVE  IInv'
<1>1. Sound(link[c]) /\ channel[c] \in Channel /\ WatchedAs(link[c], channel[c])
  BY DEF IInv, Links, ChannelInv
<1> DEFINE r == Read(link[c], "server")
           w == Write(r.link, "server", "response")
<1>2. \/ destroy_channel(c, w.link) \/ Killed
      \/ Keep(c, r.link, channel[c]) \/ destroy_channel(c, r.link)
  BY DEF handleDataRead
<1>3. Moved(link[c], r.link, "server")
  BY <1>1, ReadMoves DEF Side
<1> HIDE DEF r
<1>4. Moved(link[c], w.link, "server")
  <2>1. Sound(r.link) /\ "response" \in Message
    BY <1>3 DEF Moved, Message, Data
  <2>2. Moved(r.link, w.link, "server")
    BY <2>1, WriteMoves DEF Side
  <2> QED
    BY <1>3, <2>2, MovedTwice
<1> HIDE DEF w
<1>5. CASE destroy_channel(c, w.link)
  BY <1>4, <1>5, DestroyKeeps
<1>6. CASE destroy_channel(c, r.link)
  BY <1>3, <1>6, DestroyKeeps
<1>7. CASE Keep(c, r.link, channel[c])
  <2>1. WatchedAs(r.link, channel[c])
    BY <1>1, <1>3 DEF WatchedAs, Moved
  <2> QED
    BY <1>1, <1>3, <1>7, <2>1, KeepKeeps
<1>8. CASE Killed
  <2>1. at' # "handle" /\ <<"handle", "reset">> \in EndsServer["ssl_server_async"]
    BY <1>8 DEF Killed, EndsServer
  <2>2. link \in [Client -> Link] /\ \A d \in Client : Sound(link[d])
    BY DEF IInv, Links
  <2>3. ready' \in ReadyType
    BY DEF IInv, ReadyInv, ReadyType
  <2> QED
    BY <1>8, <2>1, <2>2, <2>3, GoneKeeps DEF Killed
<1> QED
  BY <1>2, <1>5, <1>6, <1>7, <1>8

\* A handler that runs, with the events that epoll_wait gave.
LEMMA HandlerKeeps ==
  ASSUME IInv, AsyncStep, NEW c \in Client, Handle(c)
  PROVE  IInv'
<1>1. channel[c] # NoChannel /\ ready' = [ready EXCEPT ![c] = {}]
  BY DEF Handle, IInv, ReadyInv, AsyncStep
<1>2. CASE ~ channel[c].sslConnected
  <2>1. handleHandshake(c)
    BY <1>2 DEF Handle, handleRead, handleWrite
  <2> QED
    BY <1>1, <1>2, <2>1, HandshakeHandled
<1>3. CASE channel[c].sslConnected /\ handleDataRead(c)
  BY <1>1, <1>3, DataHandled
<1>4. CASE /\ channel[c].sslConnected
           /\ Keep(c, link[c], [channel[c] EXCEPT !.events = @ \ {"out"}])
  <2>1. channel[c] \in Channel /\ Sound(link[c]) /\ WatchedAs(link[c], channel[c])
    BY <1>1 DEF IInv, Links, ChannelInv
  <2> DEFINE ch == [channel[c] EXCEPT !.events = @ \ {"out"}]
  <2>2. /\ ch \in Channel /\ ch.events = channel[c].events \ {"out"}
        /\ ch.sslConnected = channel[c].sslConnected /\ ch.tcpConnected = channel[c].tcpConnected
    BY <2>1 DEF Channel
  <2>3. Keep(c, link[c], ch)
    BY <1>4
  <2> HIDE DEF ch
  <2>4. WatchedAs(link[c], ch)
    BY <1>4, <2>1, <2>2 DEF WatchedAs
  <2>5. Moved(link[c], link[c], "server")
    BY <2>1, MovedStays
  <2> QED
    BY <1>1, <2>2, <2>3, <2>4, <2>5, KeepKeeps
<1> QED
  BY <1>2, <1>3, <1>4 DEF Handle, handleRead, handleWrite

LEMMA RoundKeeps ==
  ASSUME IInv, AsyncStep, epoll_wait
  PROVE  IInv'
<1>1. ready' = [c \in Client |-> EventsOf(c)] /\ channel' = channel /\ at' = "handle"
  BY DEF epoll_wait
<1>2. ASSUME NEW c \in Client
      PROVE  /\ EventsOf(c) \subseteq {"in", "out", "err"}
             /\ EventsOf(c) # {} => channel[c] # NoChannel
  BY DEF EventsOf
<1>3. ReadyInv'
  BY <1>1, <1>2 DEF ReadyInv, ReadyType
<1>4. Causes'
  BY <1>1 DEF Causes, Ended
<1>5. UNCHANGED <<link, held, channel>>
  BY DEF epoll_wait
<1> QED
  BY <1>3, <1>4, <1>5, LoopKeeps

LEMMA AcceptKeeps ==
  ASSUME IInv, AsyncStep, handleAccept
  PROVE  IInv'
<1>1. UNCHANGED <<link, at, cause, ready, server>> /\ at = "handle" /\ IsAsync /\ IsAsync'
  BY DEF handleAccept, AsyncStep, IsAsync
<1>2. CASE UNCHANGED <<held, channel>>
  <2>1. ReadyInv' /\ Causes'
    BY <1>1, <1>2 DEF IInv, ReadyInv, Causes
  <2> QED
    BY <1>1, <1>2, <2>1, LoopKeeps
<1>3. CASE \E c \in Waiting :
             /\ held' = held \union {c}
             /\ channel' = IF link[c].reset THEN channel
                           ELSE [channel EXCEPT ![c] = create_channel]
  <2>1. PICK c \in Waiting :
             /\ held' = held \union {c}
             /\ channel' = IF link[c].reset THEN channel
                           ELSE [channel EXCEPT ![c] = create_channel]
    BY <1>3
  <2>2. c \in Client /\ c \notin held /\ "server" \in link[c].open
    BY DEF Waiting
  <2>3. channel \in [Client -> Channel \union {NoChannel}] /\ channel[c] = NoChannel
    BY <2>2 DEF IInv, ChannelInv
  <2>4. /\ create_channel \in Channel /\ create_channel # NoChannel
        /\ WatchedAs(link[c], create_channel)
    BY DEF create_channel, Channel, NoChannel, WatchedAs
  <2>5. /\ channel' \in [Client -> Channel \union {NoChannel}]
        /\ \A d \in Client : d # c => channel'[d] = channel[d]
        /\ \/ channel'[c] = NoChannel /\ link[c].reset
           \/ channel'[c] = create_channel
    BY <2>1, <2>2, <2>3, <2>4
  <2>6. ChannelInv'
    <3>1. ASSUME NEW d \in Client, channel'[d] # NoChannel
          PROVE  d \in held' /\ WatchedAs(link'[d], channel'[d])
      <4>1. CASE d = c
        BY <1>1, <2>1, <2>4, <2>5, <3>1, <4>1
      <4>2. CASE d # c
        BY <1>1, <2>1, <2>5, <3>1, <4>2 DEF IInv, ChannelInv
      <4> QED
        BY <4>1, <4>2
    <3>2. ASSUME NEW d \in held', channel'[d] = NoChannel PROVE link'[d].reset
      <4>1. CASE d = c
        BY <1>1, <2>4, <2>5, <3>2, <4>1
      <4>2. CASE d # c
        <5>1. d \in held /\ d \in Client
          BY <2>1, <3>2, <4>2 DEF IInv, Opened
        <5> QED
          BY <1>1, <2>5, <3>2, <4>2, <5>1 DEF IInv, ChannelInv
      <4> QED
        BY <4>1, <4>2
    <3> QED
      BY <1>1, <2>5, <3>1, <3>2 DEF ChannelInv
  <2>7. Opened' /\ Links' /\ Causes'
    BY <1>1, <2>1, <2>2 DEF IInv, Opened, Links, Causes
  <2>8. ReadyInv'
    <3>1. \A d \in Client : channel[d] # NoChannel => channel'[d] # NoChannel
      BY <2>3, <2>5
    <3> QED
      BY <1>1, <3>1 DEF IInv, ReadyInv
  <2> QED
    BY <2>6, <2>7, <2>8, AsyncKeeps
<1> QED
  BY <1>2, <1>3 DEF handleAccept

LEMMA AsyncStepKeeps ==
  ASSUME IInv, AsyncStep
  PROVE  IInv'
<1>1. CASE initSSL
  <2>1. /\ UNCHANGED <<link, held, channel, ready, server>> /\ at' # "handle"
        /\ at' \in Ended => cause' = <<"setup", "error">>
    BY <1>1 DEF initSSL, AsyncStep, Ended
  <2>2. ReadyInv' /\ Causes'
    BY <2>1 DEF IInv, ReadyInv, Causes
  <2> QED
    BY <2>1, <2>2, LoopKeeps
<1>2. CASE NextRound
  <2>1. UNCHANGED <<link, held, channel, ready>> /\ at' = "epoll_wait"
    BY <1>2 DEF NextRound
  <2>2. ReadyInv' /\ Causes'
    BY <2>1 DEF IInv, ReadyInv, Causes, Ended
  <2> QED
    BY <2>1, <2>2, LoopKeeps
<1>3. CASE Stop
  <2>1. /\ at' # "handle" /\ ready' \in ReadyType
        /\ cause' \in EndsServer["ssl_server_async"]
    BY <1>3 DEF Stop, IInv, ReadyInv, EndsServer
  <2>2. link \in [Client -> Link] /\ \A d \in Client : Sound(link[d])
    BY DEF IInv, Links
  <2> QED
    BY <1>3, <2>1, <2>2, GoneKeeps DEF Stop
<1>4. CASE handleInterrupt
  <2>1. UNCHANGED <<link, held, channel, ready, at, cause, server>>
    BY <1>4 DEF handleInterrupt, AsyncStep
  <2>2. ReadyInv' /\ Causes'
    BY <2>1 DEF IInv, ReadyInv, Causes, IsAsync
  <2> QED
    BY <2>1, <2>2, LoopKeeps
<1> QED
  BY <1>1, <1>2, <1>3, <1>4, HandlerKeeps, RoundKeeps, AcceptKeeps DEF AsyncStep, AsyncLoop

-----------------------------------------------------------------------------
(***************************************************************************)
(* The invariant holds, and what follows from it.                          *)
(***************************************************************************)

LEMMA NextKeeps == IInv /\ [Next]_vars => IInv'
<1> SUFFICES ASSUME IInv, [Next]_vars PROVE IInv'
  OBVIOUS
<1>1. CASE ServerStep /\ UNCHANGED asyncVars
  BY <1>1, ServerCallsKeeps, ServerSetupKeeps, ServerAcceptsKeeps, ServerClosesKeeps
  DEF ServerStep
<1>2. CASE PeersNext /\ ~ ServerStep /\ UNCHANGED asyncVars
  BY <1>2, ClientKeeps, NetworkKeeps DEF PeersNext
<1>3. CASE AsyncStep
  BY <1>3, AsyncStepKeeps
<1>4. CASE UNCHANGED <<peerVars, asyncVars>>
  BY <1>4 DEF IInv, Links, Servers, SeqInv, Opened, ChannelInv, ReadyInv, Causes, IsAsync,
    peerVars, asyncVars
<1> QED
  BY <1>1, <1>2, <1>3, <1>4 DEF Next, vars

(***************************************************************************)
(* In every state of the samples the connections are well formed, a        *)
(* sequential server is at a row of its table with the descriptors of that *)
(* place, and a channel is watched for what its handshake waits for.       *)
(***************************************************************************)
THEOREM TlsInvariant == Spec => []IInv
<1>1. Init => IInv
  BY InitIInv
<1>2. IInv /\ [Next]_vars => IInv'
  BY NextKeeps
<1> QED
  BY <1>1, <1>2, PTL DEF Spec

(***************************************************************************)
(* No descriptor is lost: every connection that a server has accepted and  *)
(* not closed is the one that it is at, or has a channel that epoll        *)
(* watches for what its handshake waits for, whatever the clients and the  *)
(* network do, and however many they are.                                  *)
(***************************************************************************)
THEOREM TlsNoDescriptorLost == Spec => []NoDescriptorLost
<1>1. IInv => NoDescriptorLost
  <2> SUFFICES ASSUME IInv PROVE NoDescriptorLost
    OBVIOUS
  <2>1. held \subseteq {c \in Client : "server" \in link[c].open}
    BY DEF IInv, Opened
  <2>2. \A c \in Client : channel[c] # NoChannel => c \in held
    BY DEF IInv, ChannelInv
  <2>3. ASSUME NEW c \in held, ~ IsAsync PROVE c = serving
    BY <2>3 DEF IInv, Servers, SeqInv, IsAsync
  <2>4. ASSUME NEW c \in held, IsAsync PROVE Watched(c) \/ (channel[c] = NoChannel /\ link[c].reset)
    <3>1. c \in Client
      BY DEF IInv, Opened
    <3>2. CASE channel[c] = NoChannel
      BY <2>4, <3>2 DEF IInv, ChannelInv
    <3>3. CASE channel[c] # NoChannel
      <4>1. WatchedAs(link[c], channel[c])
        BY <3>1, <3>3 DEF IInv, ChannelInv
      <4> QED
        BY <3>3, <4>1 DEF WatchedAs, Watched
    <3> QED
      BY <3>2, <3>3
  <2> QED
    BY <2>1, <2>2, <2>3, <2>4 DEF NoDescriptorLost
<1> QED
  BY <1>1, TlsInvariant, PTL

(***************************************************************************)
(* A server ends for no other reason than those EndsServer has, so that    *)
(* tls_server is ended only by a write that fails, tcp_server by a read    *)
(* that fails or fills its buffer, and the epoll server by SIGINT or       *)
(* SIGPIPE.                                                                *)
(***************************************************************************)
THEOREM TlsServerOutlivesClients == Spec => []ServerOutlivesClients
<1>1. IInv => ServerOutlivesClients
  BY DEF IInv, Causes, ServerOutlivesClients
<1> QED
  BY <1>1, TlsInvariant, PTL

-----------------------------------------------------------------------------
(***************************************************************************)
(* The lines that pieces carry.                                            *)
(***************************************************************************)

\* A set of numbers has a smallest one: the well-founded order stands in for
\* induction, which the provers cannot instantiate.
LEMMA NatMin == ASSUME NEW T, T \subseteq Nat, T # {} PROVE \E m \in T : \A n \in T : m <= n
<1>1. OpToRel(<, Nat) = {p \in Nat \X Nat : p[1] < p[2]}
  BY Zenon DEF OpToRel
<1>2. IsWellFoundedOn(OpToRel(<, Nat), Nat)
  BY NatLessThanWellFounded
<1>3. PICK m \in T : \A n \in T : <<n, m>> \notin OpToRel(<, Nat)
  BY <1>2, WFMin
<1>4. \A n \in T : <<n, m>> \notin {p \in Nat \X Nat : p[1] < p[2]}
  BY <1>1, <1>3, Zenon
<1>5. ASSUME NEW n \in T PROVE ~ (n < m)
  BY <1>4
<1>6. \A n \in T : m <= n
  BY <1>5
<1> QED
  BY <1>6

\* A piece of a message, with lines of any number and name.
AnyPiece == [flight : Nat, lines : Seq(Nat), part : {1, 2}]

Carried(x) == IF x.part = 2 THEN x.lines ELSE <<>>

\* f[i] are the lines of the first i pieces.
Gathers(f, s, n) ==
  f = [i \in 1 .. n |-> IF i = 1 THEN Carried(s[i]) ELSE f[i - 1] \o Carried(s[i])]

GathersAt(f, s, i) == f[i] = IF i = 1 THEN Carried(s[i]) ELSE f[i - 1] \o Carried(s[i])

LEMMA GatheredAt ==
  ASSUME NEW f, NEW s, NEW n, Gathers(f, s, n), NEW i \in 1 .. n
  PROVE  GathersAt(f, s, i)
<1> DEFINE row(g, j) == IF j = 1 THEN Carried(s[j]) ELSE g[j - 1] \o Carried(s[j])
<1>1. f = [j \in 1 .. n |-> row(f, j)]
  BY DEF Gathers
<1>2. f[i] = row(f, i)
  <2> HIDE DEF row
  <2> QED
    BY <1>1, Zenon
<1> QED
  BY <1>2 DEF GathersAt

LEMMA GatheredExists ==
  ASSUME NEW s, NEW n \in Nat
  PROVE  \E f : Gathers(f, s, n)
<1> SUFFICES ASSUME ~ \E f : Gathers(f, s, n)
             PROVE  FALSE
  OBVIOUS
<1> DEFINE T == {m \in Nat : ~ \E f : Gathers(f, s, m)}
<1>1. PICK m \in T : \A k \in T : m <= k
  <2>1. T \subseteq Nat /\ n \in T
    OBVIOUS
  <2> HIDE DEF T
  <2> QED
    BY <2>1, NatMin
<1>2. PICK g : m = 0 \/ Gathers(g, s, m - 1)
  <2>1. m = 0 \/ m - 1 \notin T
    BY <1>1
  <2> QED
    BY <2>1
<1> DEFINE row(h, j) == IF j = 1 THEN Carried(s[j]) ELSE h[j - 1] \o Carried(s[j])
           f == [j \in 1 .. m |-> row(g, j)]
<1>3. ASSUME NEW j \in 1 .. m - 1 PROVE f[j] = g[j]
  <2>1. Gathers(g, s, m - 1) /\ j \in 1 .. m
    BY <1>2
  <2>2. g[j] = row(g, j)
    <3>1. GathersAt(g, s, j)
      BY <2>1, GatheredAt
    <3> QED
      BY <3>1, Zenon DEF GathersAt
  <2> HIDE DEF row
  <2> QED
    BY <2>1, <2>2
<1>4. ASSUME NEW j \in 1 .. m PROVE row(g, j) = row(f, j)
  <2>1. j # 1 => g[j - 1] = f[j - 1]
    <3>1. j # 1 => j - 1 \in 1 .. m - 1
      BY <1>1
    <3> HIDE DEF f
    <3> QED
      BY <1>3, <3>1
  <2> HIDE DEF f
  <2> QED
    BY <2>1
<1>5. f = [j \in 1 .. m |-> row(f, j)]
  <2> HIDE DEF row
  <2> QED
    BY <1>4
<1>6. Gathers(f, s, m)
  BY <1>5 DEF Gathers
<1> QED
  BY <1>6

\* Two such functions agree where the pieces do.
LEMMA GatheredAgree ==
  ASSUME NEW s \in Seq(AnyPiece), NEW t \in Seq(AnyPiece),
         NEW n \in Nat, NEW m \in Nat, n <= m, \A i \in 1 .. n : s[i] = t[i],
         NEW f, Gathers(f, s, n), NEW g, Gathers(g, t, m), NEW k \in 1 .. n
  PROVE  f[k] = g[k]
<1> SUFFICES ASSUME f[k] # g[k]
             PROVE  FALSE
  OBVIOUS
<1> DEFINE T == {i \in Nat : i \in 1 .. n /\ f[i] # g[i]}
<1>1. PICK i \in T : \A j \in T : i <= j
  <2>1. T \subseteq Nat /\ k \in T
    OBVIOUS
  <2> HIDE DEF T
  <2> QED
    BY <2>1, NatMin
<1>2. i \in 1 .. n /\ i \in 1 .. m /\ f[i] # g[i]
  BY <1>1
<1>3. i # 1 => f[i - 1] = g[i - 1]
  <2>1. i # 1 => i - 1 \in 1 .. n /\ i - 1 \notin T
    BY <1>1
  <2> QED
    BY <2>1
<1>4. GathersAt(f, s, i)
  BY <1>2, GatheredAt, Zenon
<1>5. GathersAt(g, t, i)
  BY <1>2, GatheredAt, Zenon
<1>6. Carried(s[i]) = Carried(t[i])
  BY <1>2
<1>7. CASE i = 1
  <2>1. f[i] = Carried(s[i]) /\ g[i] = Carried(t[i])
    BY <1>4, <1>5, <1>7, Zenon DEF GathersAt
  <2> QED
    BY <1>2, <1>6, <2>1, Zenon
<1>8. CASE i # 1
  <2>1. f[i] = f[i - 1] \o Carried(s[i]) /\ g[i] = g[i - 1] \o Carried(t[i])
    BY <1>4, <1>5, <1>8, Zenon DEF GathersAt
  <2> QED
    BY <1>2, <1>3, <1>6, <1>8, <2>1, Zenon
<1> QED
  BY <1>7, <1>8

LEMMA LinesOfNone == LinesOf(<<>>) = <<>>
<1>1. [i \in 1 .. Len(<<>>) |-> IF <<>>[i].part = 2 THEN <<>>[i].lines ELSE <<>>] = <<>>
  OBVIOUS
<1>2. FlattenSeq(<<>>) = <<>>
  <2>1. Len(<<>>) = 0
    OBVIOUS
  <2> QED
    BY <2>1, Zenon DEF FlattenSeq
<1> QED
  BY <1>1, <1>2 DEF LinesOf

LEMMA LinesOfSome ==
  ASSUME NEW s \in Seq(AnyPiece), s # <<>>
  PROVE  \E f : Gathers(f, s, Len(s)) /\ LinesOf(s) = f[Len(s)]
<1> DEFINE ss == [i \in 1 .. Len(s) |-> IF s[i].part = 2 THEN s[i].lines ELSE <<>>]
<1>1. /\ Len(s) \in Nat /\ Len(s) # 0 /\ Len(ss) = Len(s)
      /\ \A i \in 1 .. Len(s) : ss[i] = Carried(s[i])
  <2>1. ss = [i \in 1 .. Len(s) |-> Carried(s[i])]
    BY DEF Carried
  <2>2. \A i \in 1 .. Len(s) : s[i] \in AnyPiece
    OBVIOUS
  <2>3. \A i \in 1 .. Len(s) : Carried(s[i]) \in Seq(Nat)
    BY <2>2 DEF Carried, AnyPiece
  <2>4. Len(ss) = Len(s)
    BY <2>1, <2>3
  <2> QED
    BY <2>1, <2>4
<1>2. LinesOf(s) = FlattenSeq(ss)
  BY DEF LinesOf
<1> HIDE DEF ss
<1> DEFINE Flat(f) == f = [i \in 1 .. Len(ss) |-> IF i = 1 THEN ss[i] ELSE f[i - 1] \o ss[i]]
<1>3. FlattenSeq(ss) = (CHOOSE f : Flat(f))[Len(ss)]
  BY <1>1, Zenon DEF FlattenSeq
<1>4. ASSUME NEW f PROVE Flat(f) <=> Gathers(f, s, Len(s))
  <2>1. [i \in 1 .. Len(ss) |-> IF i = 1 THEN ss[i] ELSE f[i - 1] \o ss[i]]
          = [i \in 1 .. Len(s) |-> IF i = 1 THEN Carried(s[i]) ELSE f[i - 1] \o Carried(s[i])]
    BY <1>1
  <2> QED
    BY <2>1 DEF Gathers
<1>5. PICK f : Gathers(f, s, Len(s))
  BY <1>1, GatheredExists
<1>6. Flat(CHOOSE g : Flat(g))
  <2>1. Flat(f)
    BY <1>4, <1>5
  <2> HIDE DEF Flat
  <2> QED
    BY <2>1, Zenon
<1>7. Gathers((CHOOSE g : Flat(g)), s, Len(s))
  <2> DEFINE g == CHOOSE h : Flat(h)
  <2>1. Flat(g)
    BY <1>6
  <2> HIDE DEF g
  <2> QED
    BY <1>4, <2>1
<1> HIDE DEF Flat
<1> QED
  BY <1>1, <1>2, <1>3, <1>7

\* The lines of one piece more.
LEMMA LinesOfOneMore ==
  ASSUME NEW s \in Seq(AnyPiece), NEW x \in AnyPiece
  PROVE  LinesOf(Append(s, x)) = IF s = <<>> THEN Carried(x) ELSE LinesOf(s) \o Carried(x)
<1>1. PICK t \in Seq(AnyPiece) : t = Append(s, x)
  <2>1. Append(s, x) \in Seq(AnyPiece)
    OBVIOUS
  <2> QED
    BY <2>1
<1>2. PICK n \in Nat : n = Len(s)
  OBVIOUS
<1>3. PICK m \in Nat : m = n + 1
  BY <1>2
<1>4. /\ t \in Seq(AnyPiece) /\ t # <<>> /\ Len(t) = m /\ (s = <<>> <=> n = 0)
      /\ t[m] = x /\ \A i \in 1 .. n : s[i] = t[i]
  BY <1>1, <1>2, <1>3
<1>5. PICK g : Gathers(g, t, m) /\ LinesOf(t) = g[m]
  BY <1>4, LinesOfSome
<1>6. m \in 1 .. m /\ m - 1 = n /\ (m = 1 <=> n = 0) /\ n <= m
  BY <1>2, <1>3
<1>7. g[m] = IF m = 1 THEN Carried(t[m]) ELSE g[m - 1] \o Carried(t[m])
  <2>1. GathersAt(g, t, m)
    BY <1>5, <1>6, GatheredAt
  <2> QED
    BY <2>1, Zenon DEF GathersAt
<1>8. CASE n = 0
  BY <1>1, <1>4, <1>5, <1>6, <1>7, <1>8
<1>9. CASE n # 0
  <2>1. PICK f : Gathers(f, s, n) /\ LinesOf(s) = f[n]
    BY <1>2, <1>4, <1>9, LinesOfSome
  <2>2. n \in 1 .. n
    BY <1>9
  <2>3. \A i \in 1 .. n : s[i] = t[i]
    BY <1>4
  <2>4. n <= m /\ Gathers(f, s, n) /\ Gathers(g, t, m)
    BY <1>5, <1>6, <2>1
  <2>5. f[n] = g[n]
    BY <2>2, <2>3, <2>4, GatheredAgree
  <2> QED
    BY <1>1, <1>4, <1>5, <1>6, <1>7, <1>9, <2>1, <2>5
<1> QED
  BY <1>8, <1>9

\* Facts about concatenation have a name: the provers find an instance by it.
Associates(a, b, c) == (a \o b) \o c = a \o (b \o c)

LEMMA LinesAssociate ==
  ASSUME NEW a \in Seq(Nat), NEW b \in Seq(Nat), NEW c \in Seq(Nat)
  PROVE  Associates(a, b, c)
  BY DEF Associates

LEMMA PiecesAssociate ==
  ASSUME NEW a \in Seq(AnyPiece), NEW b \in Seq(AnyPiece), NEW c \in Seq(AnyPiece)
  PROVE  Associates(a, b, c)
  BY DEF Associates

LEMMA CarriedIn == ASSUME NEW x \in AnyPiece PROVE Carried(x) \in Seq(Nat)
  BY DEF Carried, AnyPiece

LEMMA SubSeqGrows ==
  ASSUME NEW s \in Seq(AnyPiece), NEW n \in 1 .. Len(s)
  PROVE  /\ SubSeq(s, 1, n - 1) \in Seq(AnyPiece) /\ s[n] \in AnyPiece
         /\ SubSeq(s, 1, n) = Append(SubSeq(s, 1, n - 1), s[n])
  OBVIOUS

LEMMA LinesOfIn ==
  ASSUME NEW s \in Seq(AnyPiece)
  PROVE  LinesOf(s) \in Seq(Nat)
<1> SUFFICES ASSUME LinesOf(s) \notin Seq(Nat)
             PROVE  FALSE
  OBVIOUS
<1> DEFINE T == {n \in 0 .. Len(s) : LinesOf(SubSeq(s, 1, n)) \notin Seq(Nat)}
<1>1. PICK n \in T : \A k \in T : n <= k
  <2>1. Len(s) \in 0 .. Len(s) /\ SubSeq(s, 1, Len(s)) = s
    OBVIOUS
  <2>2. LinesOf(SubSeq(s, 1, Len(s))) \notin Seq(Nat)
    BY <2>1
  <2>3. T \subseteq Nat
    OBVIOUS
  <2>4. Len(s) \in T
    BY <2>1, <2>2
  <2> HIDE DEF T
  <2> QED
    BY <2>3, <2>4, NatMin
<1>2. n \in 0 .. Len(s) /\ LinesOf(SubSeq(s, 1, n)) \notin Seq(Nat)
  BY <1>1
<1>3. n # 0
  <2>1. SubSeq(s, 1, 0) = <<>> /\ <<>> \in Seq(Nat)
    OBVIOUS
  <2> QED
    BY <1>2, <2>1, LinesOfNone
<1>4. LinesOf(SubSeq(s, 1, n - 1)) \in Seq(Nat)
  <2>1. n - 1 \in 0 .. Len(s) /\ n - 1 \notin T
    BY <1>1, <1>2, <1>3
  <2> QED
    BY <2>1
<1>5. n \in 1 .. Len(s)
  BY <1>2, <1>3
<1> DEFINE front == SubSeq(s, 1, n - 1)
<1>6. front \in Seq(AnyPiece) /\ s[n] \in AnyPiece /\ SubSeq(s, 1, n) = Append(front, s[n])
  BY <1>5, SubSeqGrows
<1>7. LinesOf(front) \in Seq(Nat)
  BY <1>4
<1> HIDE DEF front
<1>8. Carried(s[n]) \in Seq(Nat)
  BY <1>6, CarriedIn
<1>9. LinesOf(SubSeq(s, 1, n)) = IF front = <<>> THEN Carried(s[n]) ELSE LinesOf(front) \o Carried(s[n])
  BY <1>6, LinesOfOneMore
<1>10. LinesOf(front) \o Carried(s[n]) \in Seq(Nat)
  BY <1>7, <1>8
<1> QED
  BY <1>2, <1>8, <1>9, <1>10, Zenon

LEMMA LinesOfAppend ==
  ASSUME NEW s \in Seq(AnyPiece), NEW x \in AnyPiece
  PROVE  LinesOf(Append(s, x)) = LinesOf(s) \o Carried(x)
<1>1. Carried(x) \in Seq(Nat)
  BY CarriedIn
<1>2. <<>> \o Carried(x) = Carried(x)
  BY <1>1
<1> QED
  BY <1>2, LinesOfNone, LinesOfOneMore

LEMMA LinesOfJoin ==
  ASSUME NEW s \in Seq(AnyPiece), NEW t \in Seq(AnyPiece)
  PROVE  LinesOf(s \o t) = LinesOf(s) \o LinesOf(t)
<1> DEFINE Joins(n) == LinesOf(s \o SubSeq(t, 1, n)) = LinesOf(s) \o LinesOf(SubSeq(t, 1, n))
           T == {n \in 0 .. Len(t) : ~ Joins(n)}
<1>1. Len(t) \in 0 .. Len(t) /\ SubSeq(t, 1, Len(t)) = t
  OBVIOUS
<1> SUFFICES ASSUME Len(t) \in T
             PROVE  FALSE
  BY <1>1
<1> HIDE DEF Joins
<1>2. PICK n \in T : \A k \in T : n <= k
  <2>1. T \subseteq Nat /\ Len(t) \in T
    OBVIOUS
  <2> HIDE DEF T
  <2> QED
    BY <2>1, NatMin
<1>3. n \in 0 .. Len(t) /\ ~ Joins(n)
  BY <1>2
<1>4. n # 0 => Joins(n - 1)
  <2>1. n # 0 => n - 1 \in 0 .. Len(t) /\ n - 1 \notin T
    BY <1>2, <1>3
  <2> QED
    BY <2>1
<1>5. LinesOf(s) \in Seq(Nat)
  BY LinesOfIn
<1>6. n # 0
  <2>1. SubSeq(t, 1, 0) = <<>> /\ s \o <<>> = s
    OBVIOUS
  <2>2. LinesOf(s) \o <<>> = LinesOf(s)
    BY <1>5
  <2> QED
    BY <1>3, <2>1, <2>2, LinesOfNone DEF Joins
<1>7. n \in 1 .. Len(t)
  BY <1>3, <1>6
<1> DEFINE front == SubSeq(t, 1, n - 1)
<1>8. front \in Seq(AnyPiece) /\ t[n] \in AnyPiece /\ SubSeq(t, 1, n) = Append(front, t[n])
  BY <1>7, SubSeqGrows
<1>9. LinesOf(s \o front) = LinesOf(s) \o LinesOf(front)
  BY <1>4, <1>6 DEF Joins
<1>10. LinesOf(s \o Append(front, t[n])) # LinesOf(s) \o LinesOf(Append(front, t[n]))
  BY <1>3, <1>8 DEF Joins
<1> HIDE DEF front
<1>11. LinesOf(front) \in Seq(Nat) /\ Carried(t[n]) \in Seq(Nat)
  BY <1>8, LinesOfIn, CarriedIn
<1>12. s \o front \in Seq(AnyPiece) /\ s \o Append(front, t[n]) = Append(s \o front, t[n])
  BY <1>8
<1>13. LinesOf(Append(s \o front, t[n])) = LinesOf(s \o front) \o Carried(t[n])
  BY <1>8, <1>12, LinesOfAppend
<1>14. LinesOf(Append(front, t[n])) = LinesOf(front) \o Carried(t[n])
  BY <1>8, LinesOfAppend
<1>15. (LinesOf(s) \o LinesOf(front)) \o Carried(t[n]) = LinesOf(s) \o (LinesOf(front) \o Carried(t[n]))
  <2>1. Associates(LinesOf(s), LinesOf(front), Carried(t[n]))
    BY <1>5, <1>11, LinesAssociate, Zenon
  <2> QED
    BY <2>1, Zenon DEF Associates
<1> QED
  BY <1>9, <1>10, <1>12, <1>13, <1>14, <1>15

\* The two pieces of one message.
LEMMA PiecesAre ==
  ASSUME NEW n \in Nat, NEW ls \in Seq(Nat)
  PROVE  Pieces(n, ls) \in Seq(AnyPiece) /\ LinesOf(Pieces(n, ls)) = ls
<1> DEFINE x == [flight |-> n, lines |-> ls, part |-> 1]
           y == [flight |-> n, lines |-> ls, part |-> 2]
<1>1. x \in AnyPiece /\ y \in AnyPiece /\ Carried(x) = <<>> /\ Carried(y) = ls
  BY DEF AnyPiece, Carried
<1>2. Pieces(n, ls) = <<x, y>>
  BY DEF Pieces
<1> HIDE DEF x, y
<1>3. /\ Pieces(n, ls) = Append(Append(<<>>, x), y)
      /\ <<>> \in Seq(AnyPiece) /\ Append(<<>>, x) \in Seq(AnyPiece)
      /\ Pieces(n, ls) \in Seq(AnyPiece)
  BY <1>1, <1>2
<1>4. LinesOf(Append(<<>>, x)) = <<>> \o <<>>
  BY <1>1, <1>3, LinesOfAppend, LinesOfNone
<1>5. LinesOf(Pieces(n, ls)) = (<<>> \o <<>>) \o ls
  BY <1>1, <1>3, <1>4, LinesOfAppend
<1>6. (<<>> \o <<>>) \o ls = ls
  OBVIOUS
<1> QED
  BY <1>3, <1>5, <1>6

-----------------------------------------------------------------------------
(***************************************************************************)
(* Whole messages, and what the TLS library does to the pieces in its BIOs *)
(* and the program to those in write_buf.                                  *)
(***************************************************************************)

\* The pieces of whole messages: two of each, with the same lines.
Paired(s) ==
  /\ Len(s) % 2 = 0
  /\ \A i \in 1 .. Len(s) :
       i % 2 = 1 => s[i].part = 1 /\ s[i + 1].part = 2 /\ s[i + 1].lines = s[i].lines

LEMMA PairedAt ==
  ASSUME NEW s \in Seq(AnyPiece), Paired(s), NEW i \in 1 .. Len(s), i % 2 = 1
  PROVE  /\ i + 1 \in 1 .. Len(s)
         /\ s[i].part = 1 /\ s[i + 1].part = 2 /\ s[i + 1].lines = s[i].lines
<1>1. Len(s) % 2 = 0 /\ Len(s) \in Nat
  BY DEF Paired
<1>2. i + 1 \in 1 .. Len(s)
  BY <1>1
<1> QED
  BY <1>2 DEF Paired

\* What a sequence of two parts is made of.
LEMMA PartsAt ==
  ASSUME NEW a \in Seq(AnyPiece), NEW b \in Seq(AnyPiece)
  PROVE  \E c \in Seq(AnyPiece), m \in Nat, n \in Nat :
           /\ c = a \o b /\ m = Len(a) /\ n = Len(b) /\ Len(c) = m + n
           /\ \A i \in 1 .. m : c[i] = a[i]
           /\ \A j \in 1 .. n : c[m + j] = b[j]
<1>1. /\ a \o b \in Seq(AnyPiece) /\ Len(a \o b) = Len(a) + Len(b)
      /\ Len(a) \in Nat /\ Len(b) \in Nat
      /\ \A i \in 1 .. Len(a) : (a \o b)[i] = a[i]
  OBVIOUS
<1>2. ASSUME NEW j \in 1 .. Len(b) PROVE (a \o b)[Len(a) + j] = b[j]
  <2>1. PICK i : i = Len(a) + j
    OBVIOUS
  <2>2. i \in Len(a) + 1 .. Len(a) + Len(b) /\ i - Len(a) = j
    BY <1>1, <2>1
  <2>3. (a \o b)[i] = b[i - Len(a)]
    BY <2>2
  <2> QED
    BY <2>1, <2>2, <2>3
<1> QED
  BY <1>1, <1>2

LEMMA PairedJoin ==
  ASSUME NEW a \in Seq(AnyPiece), NEW b \in Seq(AnyPiece), Paired(a), Paired(b)
  PROVE  Paired(a \o b)
<1>1. PICK c \in Seq(AnyPiece), m \in Nat, n \in Nat :
           /\ c = a \o b /\ m = Len(a) /\ n = Len(b) /\ Len(c) = m + n
           /\ \A i \in 1 .. m : c[i] = a[i]
           /\ \A j \in 1 .. n : c[m + j] = b[j]
  BY PartsAt
<1>2. m % 2 = 0 /\ n % 2 = 0
  BY <1>1 DEF Paired
<1>3. (m + n) % 2 = 0
  BY <1>2
<1>4. ASSUME NEW i \in 1 .. m + n, i % 2 = 1
      PROVE  c[i].part = 1 /\ c[i + 1].part = 2 /\ c[i + 1].lines = c[i].lines
  <2>1. CASE i <= m
    <3>1. i \in 1 .. m
      BY <2>1
    <3>2. /\ i + 1 \in 1 .. m
          /\ a[i].part = 1 /\ a[i + 1].part = 2 /\ a[i + 1].lines = a[i].lines
      BY <1>1, <1>4, <3>1, PairedAt
    <3> QED
      BY <1>1, <3>1, <3>2
  <2>2. CASE i > m
    <3>1. PICK j : j = i - m
      OBVIOUS
    <3>2. j \in 1 .. n /\ j % 2 = 1 /\ i = m + j /\ i + 1 = m + (j + 1)
      BY <1>2, <1>4, <2>2, <3>1
    <3>3. /\ j + 1 \in 1 .. n
          /\ b[j].part = 1 /\ b[j + 1].part = 2 /\ b[j + 1].lines = b[j].lines
      BY <1>1, <3>2, PairedAt
    <3>4. c[i] = b[j] /\ c[i + 1] = b[j + 1]
      BY <1>1, <3>2, <3>3
    <3> QED
      BY <3>3, <3>4
  <2> QED
    BY <2>1, <2>2
<1>5. Paired(c)
  BY <1>1, <1>3, <1>4 DEF Paired
<1> QED
  BY <1>1, <1>5

LEMMA PairedRest ==
  ASSUME NEW a \in Seq(AnyPiece), NEW b \in Seq(AnyPiece), Paired(a), Paired(a \o b)
  PROVE  Paired(b)
<1>1. PICK c \in Seq(AnyPiece), m \in Nat, n \in Nat :
           /\ c = a \o b /\ m = Len(a) /\ n = Len(b) /\ Len(c) = m + n
           /\ \A i \in 1 .. m : c[i] = a[i]
           /\ \A j \in 1 .. n : c[m + j] = b[j]
  BY PartsAt
<1>2. m % 2 = 0 /\ (m + n) % 2 = 0 /\ Paired(c)
  BY <1>1 DEF Paired
<1>3. n % 2 = 0
  BY <1>2
<1>4. ASSUME NEW j \in 1 .. n, j % 2 = 1
      PROVE  b[j].part = 1 /\ b[j + 1].part = 2 /\ b[j + 1].lines = b[j].lines
  <2>1. PICK i : i = m + j
    OBVIOUS
  <2>2. /\ i \in 1 .. m + n /\ i % 2 = 1 /\ j + 1 \in 1 .. n /\ i + 1 = m + (j + 1)
    BY <1>2, <1>3, <1>4, <2>1
  <2>3. c[i].part = 1 /\ c[i + 1].part = 2 /\ c[i + 1].lines = c[i].lines
    <3>1. i \in 1 .. Len(c)
      BY <1>1, <2>2
    <3> QED
      BY <1>2, <2>2, <3>1, PairedAt
  <2>4. c[i] = b[j] /\ c[i + 1] = b[j + 1]
    BY <1>1, <2>1, <2>2
  <2> QED
    BY <2>3, <2>4
<1> QED
  BY <1>1, <1>3, <1>4 DEF Paired

LEMMA PairedPieces ==
  ASSUME NEW n \in Nat, NEW ls \in Seq(Nat)
  PROVE  Paired(Pieces(n, ls)) /\ Paired(<<>>)
<1> DEFINE s == Pieces(n, ls)
<1>1. /\ Len(s) = 2 /\ s[1].part = 1 /\ s[2].part = 2 /\ s[2].lines = s[1].lines
      /\ \A i \in 1 .. 2 : i % 2 = 1 => i = 1
  BY DEF Pieces
<1> HIDE DEF s
<1>2. Paired(s)
  BY <1>1 DEF Paired
<1>3. Paired(<<>>)
  BY DEF Paired
<1> QED
  BY <1>2, <1>3 DEF s

LEMMA TwoAre == ASSUME NEW S, NEW f \in Seq(S), Len(f) = 2 PROVE f = <<f[1], f[2]>>
  OBVIOUS

LEMMA SubSeqSplits ==
  ASSUME NEW a \in Seq(AnyPiece), Len(a) >= 2
  PROVE  /\ SubSeq(a, 3, Len(a)) \in Seq(AnyPiece)
         /\ a = SubSeq(a, 1, 2) \o SubSeq(a, 3, Len(a))
<1>1. Len(a) \in Nat /\ \A i \in 1 .. Len(a) : a[i] \in AnyPiece
  OBVIOUS
<1>2. SubSeq(a, 3, Len(a)) \in Seq(AnyPiece)
  BY <1>1
<1>3. 1 \in 1 .. Len(a) + 1 /\ 2 \in 1 - 1 .. Len(a) /\ Len(a) \in 2 .. Len(a)
  BY <1>1
<1>4. SubSeq(a, 1, 2) \o SubSeq(a, 2 + 1, Len(a)) = SubSeq(a, 1, Len(a))
  BY <1>3, ConcatAdjacentSubSeq
<1>5. SubSeq(a, 1, Len(a)) = a
  OBVIOUS
<1> QED
  BY <1>2, <1>4, <1>5

\* The first two pieces of whole messages are one.
LEMMA FirstPair ==
  ASSUME NEW a \in Seq(AnyPiece), NEW b \in Seq(AnyPiece), Paired(a \o b), Len(a) >= 2
  PROVE  /\ SubSeq(a, 1, 2) \in Seq(AnyPiece) /\ SubSeq(a, 3, Len(a)) \in Seq(AnyPiece)
         /\ a = SubSeq(a, 1, 2) \o SubSeq(a, 3, Len(a))
         /\ Paired(SubSeq(a, 1, 2)) /\ LinesOf(SubSeq(a, 1, 2)) = a[1].lines
<1>1. PICK x \in AnyPiece, y \in AnyPiece : x = a[1] /\ y = a[2]
  <2>1. a[1] \in AnyPiece /\ a[2] \in AnyPiece
    OBVIOUS
  <2> QED
    BY <2>1
<1>2. x.part = 1 /\ y.part = 2 /\ y.lines = x.lines
  <2>1. (a \o b)[1] = x /\ (a \o b)[2] = y /\ Len(a \o b) >= 2 /\ Len(a \o b) \in Nat
    BY <1>1
  <2>2. 1 \in 1 .. Len(a \o b) /\ 1 % 2 = 1 /\ 1 + 1 = 2
    BY <2>1
  <2> QED
    BY <2>1, <2>2 DEF Paired
<1>3. /\ SubSeq(a, 1, 2) = <<x, y>> /\ SubSeq(a, 3, Len(a)) \in Seq(AnyPiece)
      /\ a = SubSeq(a, 1, 2) \o SubSeq(a, 3, Len(a))
  <2>1. Len(a) \in Nat /\ \A i \in 1 .. Len(a) : a[i] \in AnyPiece
    OBVIOUS
  <2>2. /\ SubSeq(a, 1, 2) \in Seq(AnyPiece) /\ Len(SubSeq(a, 1, 2)) = 2
        /\ SubSeq(a, 1, 2)[1] = x /\ SubSeq(a, 1, 2)[2] = y
    BY <1>1, <2>1
  <2>3. SubSeq(a, 1, 2) = <<x, y>>
    <3>1. PICK f \in Seq(AnyPiece) : f = SubSeq(a, 1, 2) /\ Len(f) = 2 /\ f[1] = x /\ f[2] = y
      BY <2>2
    <3>2. f = <<f[1], f[2]>>
      BY <3>1, TwoAre
    <3> QED
      BY <3>1, <3>2, Zenon
  <2> QED
    BY <2>3, SubSeqSplits
<1>4. <<x, y>> = Append(Append(<<>>, x), y) /\ <<>> \in Seq(AnyPiece)
      /\ Append(<<>>, x) \in Seq(AnyPiece) /\ <<x, y>> \in Seq(AnyPiece)
  OBVIOUS
<1>5. Paired(<<x, y>>)
  <2>1. Len(<<x, y>>) = 2 /\ <<x, y>>[1] = x /\ <<x, y>>[2] = y /\ \A i \in 1 .. 2 : i % 2 = 1 => i = 1
    OBVIOUS
  <2>2. PICK f : f = <<x, y>>
    OBVIOUS
  <2>3. Len(f) = 2 /\ f[1] = x /\ f[2] = y
    BY <2>1, <2>2
  <2>4. Paired(f)
    BY <1>2, <2>1, <2>3 DEF Paired
  <2> QED
    BY <2>2, <2>4
<1>6. LinesOf(<<x, y>>) = x.lines
  <2>1. Carried(x) = <<>> /\ Carried(y) = x.lines
    BY <1>2 DEF Carried
  <2>2. LinesOf(Append(<<>>, x)) = <<>> \o <<>>
    BY <1>4, <2>1, LinesOfAppend, LinesOfNone
  <2>3. LinesOf(<<x, y>>) = (<<>> \o <<>>) \o x.lines
    BY <1>4, <2>1, <2>2, LinesOfAppend
  <2>4. x.lines \in Seq(Nat)
    BY DEF AnyPiece
  <2>5. (<<>> \o <<>>) \o x.lines = x.lines
    BY <2>4
  <2> QED
    BY <2>3, <2>5
<1> QED
  BY <1>1, <1>3, <1>4, <1>5, <1>6

Streams(t) ==
  /\ DOMAIN t = {"done", "rbio", "wbio", "write_buf"}
  /\ t.done \in Nat
  /\ t.rbio \in Seq(AnyPiece) /\ t.wbio \in Seq(AnyPiece) /\ t.write_buf \in Seq(AnyPiece)

\* From t to k whole messages with the lines ls are taken from rbio, and what
\* is to be written is moved on and has messages without lines added to it.
Handled(t, k, ls) ==
  /\ Streams(k)
  /\ \E front \in Seq(AnyPiece) :
       t.rbio = front \o k.rbio /\ Paired(front) /\ LinesOf(front) = ls
  /\ \E more \in Seq(AnyPiece) :
       /\ k.write_buf \o k.wbio = (t.write_buf \o t.wbio) \o more
       /\ Paired(more) /\ LinesOf(more) = <<>>
  /\ \E x \in Seq(AnyPiece) : k.write_buf = t.write_buf \o x

LEMMA HandledStays ==
  ASSUME NEW t, Streams(t)
  PROVE  Handled(t, t, <<>>)
<1>1. /\ <<>> \in Seq(AnyPiece) /\ Paired(<<>>) /\ LinesOf(<<>>) = <<>>
  BY LinesOfNone DEF Paired
<1>2. /\ t.rbio = <<>> \o t.rbio /\ t.write_buf = t.write_buf \o <<>>
      /\ t.write_buf \o t.wbio = (t.write_buf \o t.wbio) \o <<>>
  BY DEF Streams
<1> QED
  BY <1>1, <1>2 DEF Handled

LEMMA HandledTwice ==
  ASSUME NEW t, NEW k, NEW m, NEW ls \in Seq(Nat), Streams(t),
         Handled(t, k, <<>>), Handled(k, m, ls)
  PROVE  Handled(t, m, ls)
<1>1. Streams(k) /\ Streams(m)
  BY DEF Handled
<1>2. PICK f \in Seq(AnyPiece) :
        t.rbio = f \o k.rbio /\ Paired(f) /\ LinesOf(f) = <<>>
  BY DEF Handled
<1>3. PICK g \in Seq(AnyPiece) :
        k.rbio = g \o m.rbio /\ Paired(g) /\ LinesOf(g) = ls
  BY DEF Handled
<1>4. \E front \in Seq(AnyPiece) :
        t.rbio = front \o m.rbio /\ Paired(front) /\ LinesOf(front) = ls
  <2>1. f \o g \in Seq(AnyPiece) /\ Paired(f \o g)
    BY <1>2, <1>3, PairedJoin
  <2>2. PICK c \in Seq(AnyPiece) : c = m.rbio
    BY <1>1 DEF Streams
  <2>3. (f \o g) \o c = f \o (g \o c)
    <3>1. Associates(f, g, c)
      BY PiecesAssociate, Zenon
    <3> QED
      BY <3>1, Zenon DEF Associates
  <2>4. LinesOf(f \o g) = LinesOf(f) \o LinesOf(g) /\ <<>> \o ls = ls
    BY LinesOfJoin
  <2>5. LinesOf(f \o g) = ls
    BY <1>2, <1>3, <2>4, Zenon
  <2>6. t.rbio = (f \o g) \o m.rbio
    BY <1>2, <1>3, <2>2, <2>3, Zenon
  <2> QED
    BY <2>1, <2>5, <2>6
<1>5. PICK a \in Seq(AnyPiece) :
       /\ k.write_buf \o k.wbio = (t.write_buf \o t.wbio) \o a
       /\ Paired(a) /\ LinesOf(a) = <<>>
  BY DEF Handled
<1>6. PICK b \in Seq(AnyPiece) :
       /\ m.write_buf \o m.wbio = (k.write_buf \o k.wbio) \o b
       /\ Paired(b) /\ LinesOf(b) = <<>>
  BY DEF Handled
<1>7. \E more \in Seq(AnyPiece) :
       /\ m.write_buf \o m.wbio = (t.write_buf \o t.wbio) \o more
       /\ Paired(more) /\ LinesOf(more) = <<>>
  <2>1. a \o b \in Seq(AnyPiece) /\ Paired(a \o b)
    BY <1>5, <1>6, PairedJoin
  <2>2. PICK w \in Seq(AnyPiece) : w = t.write_buf \o t.wbio
    <3>1. PICK x \in Seq(AnyPiece), y \in Seq(AnyPiece) : x = t.write_buf /\ y = t.wbio
      BY DEF Streams
    <3>2. x \o y \in Seq(AnyPiece)
      OBVIOUS
    <3> QED
      BY <3>1, <3>2
  <2>3. (w \o a) \o b = w \o (a \o b)
    <3>1. Associates(w, a, b)
      BY PiecesAssociate, Zenon
    <3> QED
      BY <3>1, Zenon DEF Associates
  <2>4. LinesOf(a \o b) = LinesOf(a) \o LinesOf(b)
    BY LinesOfJoin
  <2>5. LinesOf(a \o b) = <<>>
    <3>1. <<>> \o <<>> = <<>>
      OBVIOUS
    <3> QED
      BY <1>5, <1>6, <2>4, <3>1, Zenon
  <2>6. m.write_buf \o m.wbio = (t.write_buf \o t.wbio) \o (a \o b)
    BY <1>5, <1>6, <2>2, <2>3, Zenon
  <2> QED
    BY <2>1, <2>5, <2>6
<1>8. \E x \in Seq(AnyPiece) : m.write_buf = t.write_buf \o x
  <2>1. PICK x \in Seq(AnyPiece) : k.write_buf = t.write_buf \o x
    BY DEF Handled
  <2>2. PICK y \in Seq(AnyPiece) : m.write_buf = k.write_buf \o y
    BY DEF Handled
  <2>3. PICK w \in Seq(AnyPiece) : w = t.write_buf
    BY DEF Streams
  <2>4. (w \o x) \o y = w \o (x \o y)
    <3>1. Associates(w, x, y)
      BY PiecesAssociate, Zenon
    <3> QED
      BY <3>1, Zenon DEF Associates
  <2>5. m.write_buf = t.write_buf \o (x \o y)
    BY <2>1, <2>2, <2>3, <2>4, Zenon
  <2>6. x \o y \in Seq(AnyPiece)
    OBVIOUS
  <2> QED
    BY <2>5, <2>6
<1> QED
  BY <1>1, <1>4, <1>7, <1>8 DEF Handled

LEMMA TakeFlightIs ==
  ASSUME NEW t, Streams(t), NEW p \in Side
  PROVE  Handled(t, TakeFlight(t, p), <<>>)
<1>1. CASE TakeFlight(t, p) = t
  BY <1>1, HandledStays
<1>2. CASE /\ IsPrefix(Pieces(t.done + 1, <<>>), t.rbio)
           /\ TakeFlight(t, p) = [t EXCEPT !.done = @ + 1, !.rbio = SubSeq(@, 3, Len(@))]
  <2>1. PICK a \in Seq(AnyPiece) : a = t.rbio
    BY DEF Streams
  <2> DEFINE k == [t EXCEPT !.done = @ + 1, !.rbio = SubSeq(a, 3, Len(a))]
  <2>2. PICK f : f = Pieces(t.done + 1, <<>>)
    OBVIOUS
  <2>3. f \in Seq(AnyPiece) /\ LinesOf(f) = <<>> /\ Paired(f) /\ Len(f) = 2
    <3>1. t.done + 1 \in Nat /\ <<>> \in Seq(Nat)
      BY DEF Streams
    <3>2. Len(f) = 2
      BY <2>2 DEF Pieces
    <3> QED
      BY <2>2, <3>1, <3>2, PiecesAre, PairedPieces
  <2>4. Len(a) >= 2 /\ SubSeq(a, 1, 2) = f
    <3>1. SubSeq(f, 1, 2) = f
      BY <2>3
    <3> QED
      BY <1>2, <2>1, <2>2, <2>3, <3>1 DEF IsPrefix
  <2>5. /\ k.done = t.done + 1 /\ k.rbio = SubSeq(a, 3, Len(a)) /\ k.wbio = t.wbio
        /\ k.write_buf = t.write_buf /\ DOMAIN k = {"done", "rbio", "wbio", "write_buf"}
    BY DEF Streams
  <2>6. TakeFlight(t, p) = k
    BY <1>2, <2>1
  <2> HIDE DEF k
  <2>7. a = f \o SubSeq(a, 3, Len(a)) /\ SubSeq(a, 3, Len(a)) \in Seq(AnyPiece)
    BY <2>4, SubSeqSplits
  <2>8. Streams(k)
    BY <2>5, <2>7 DEF Streams
  <2>9. /\ <<>> \in Seq(AnyPiece) /\ Paired(<<>>) /\ LinesOf(<<>>) = <<>>
        /\ t.write_buf = t.write_buf \o <<>>
        /\ t.write_buf \o t.wbio = (t.write_buf \o t.wbio) \o <<>>
    BY LinesOfNone DEF Paired, Streams
  <2> QED
    BY <2>1, <2>3, <2>5, <2>6, <2>7, <2>8, <2>9 DEF Handled
<1> QED
  BY <1>1, <1>2 DEF TakeFlight

LEMMA GiveFlightIs ==
  ASSUME NEW t, Streams(t), NEW p \in Side
  PROVE  Handled(t, GiveFlight(t, p), <<>>)
<1>1. CASE GiveFlight(t, p) = t
  BY <1>1, HandledStays
<1>2. CASE GiveFlight(t, p) = [t EXCEPT !.done = @ + 1, !.wbio = @ \o Pieces(t.done + 1, <<>>)]
  <2>1. PICK f : f = Pieces(t.done + 1, <<>>)
    OBVIOUS
  <2>2. f \in Seq(AnyPiece) /\ LinesOf(f) = <<>> /\ Paired(f)
    <3>1. t.done + 1 \in Nat /\ <<>> \in Seq(Nat)
      BY DEF Streams
    <3> QED
      BY <2>1, <3>1, PiecesAre, PairedPieces
  <2> DEFINE k == [t EXCEPT !.done = @ + 1, !.wbio = @ \o f]
  <2>3. /\ k.done = t.done + 1 /\ k.rbio = t.rbio /\ k.wbio = t.wbio \o f
        /\ k.write_buf = t.write_buf /\ DOMAIN k = {"done", "rbio", "wbio", "write_buf"}
    BY DEF Streams
  <2>4. GiveFlight(t, p) = k
    BY <1>2, <2>1
  <2> HIDE DEF k
  <2>5. Streams(k)
    BY <2>2, <2>3 DEF Streams
  <2>6. /\ <<>> \in Seq(AnyPiece) /\ Paired(<<>>) /\ LinesOf(<<>>) = <<>>
        /\ t.write_buf = t.write_buf \o <<>> /\ t.rbio = <<>> \o t.rbio
    BY LinesOfNone DEF Paired, Streams
  <2>7. t.write_buf \o (t.wbio \o f) = (t.write_buf \o t.wbio) \o f
    <3>1. PICK w \in Seq(AnyPiece), d \in Seq(AnyPiece) : w = t.write_buf /\ d = t.wbio
      BY DEF Streams
    <3>2. Associates(w, d, f)
      BY <2>2, <3>1, PiecesAssociate, Zenon
    <3> QED
      BY <3>1, <3>2, Zenon DEF Associates
  <2> QED
    BY <2>2, <2>3, <2>4, <2>5, <2>6, <2>7 DEF Handled
<1> QED
  BY <1>1, <1>2 DEF GiveFlight

LEMMA QueuedIs ==
  ASSUME NEW t, Streams(t)
  PROVE  Handled(t, Queued(t), <<>>)
<1> DEFINE k == Queued(t)
<1>1. /\ k.done = t.done /\ k.rbio = t.rbio /\ k.wbio = <<>>
      /\ k.write_buf = t.write_buf \o t.wbio /\ DOMAIN k = {"done", "rbio", "wbio", "write_buf"}
  BY DEF Queued, Streams
<1> HIDE DEF k
<1>2. Streams(k)
  BY <1>1 DEF Streams
<1>3. /\ <<>> \in Seq(AnyPiece) /\ Paired(<<>>) /\ LinesOf(<<>>) = <<>>
      /\ (t.write_buf \o t.wbio) \o <<>> = (t.write_buf \o t.wbio) \o <<>>
      /\ t.rbio = <<>> \o t.rbio
  BY LinesOfNone DEF Paired, Streams
<1>4. t.wbio \in Seq(AnyPiece)
  BY DEF Streams
<1>5. Handled(t, k, <<>>)
  BY <1>1, <1>2, <1>3, <1>4 DEF Handled
<1> QED
  BY <1>5 DEF k

\* Whatever is in rbio.
LEMMA ReadAndQueueTypes ==
  ASSUME NEW t, Streams(t)
  PROVE  /\ ReadAndQueue(t).lines \in Seq(Nat) /\ Streams(ReadAndQueue(t).ssl)
         /\ \E x \in Seq(AnyPiece) : ReadAndQueue(t).ssl.write_buf = t.write_buf \o x
<1>1. PICK a \in Seq(AnyPiece) : a = t.rbio
  BY DEF Streams
<1>2. PICK r : r = SSL_read(t)
  OBVIOUS
<1>3. r.lines \in Seq(Nat) /\ r.rest \in Seq(AnyPiece)
  <2>1. CASE Len(a) < 2
    BY <1>1, <1>2, <2>1 DEF SSL_read
  <2>2. CASE ~ (Len(a) < 2)
    <3>1. r.lines = a[1].lines /\ r.rest = SubSeq(a, 3, Len(a))
      BY <1>1, <1>2, <2>2 DEF SSL_read
    <3>2. Len(a) >= 2 /\ a[1] \in AnyPiece
      BY <2>2
    <3>3. a[1].lines \in Seq(Nat)
      BY <3>2 DEF AnyPiece
    <3> QED
      BY <3>1, <3>2, <3>3, SubSeqSplits
  <2> QED
    BY <2>1, <2>2
<1> DEFINE k == [t EXCEPT !.rbio = r.rest]
<1>4. /\ k.done = t.done /\ k.rbio = r.rest /\ k.wbio = t.wbio
      /\ k.write_buf = t.write_buf /\ DOMAIN k = {"done", "rbio", "wbio", "write_buf"}
  BY DEF Streams
<1>5. ReadAndQueue(t).ssl = Queued(k) /\ ReadAndQueue(t).lines = r.lines
  BY <1>2 DEF ReadAndQueue
<1> HIDE DEF k
<1>6. Streams(k)
  BY <1>3, <1>4 DEF Streams
<1>7. Handled(k, Queued(k), <<>>)
  BY <1>6, QueuedIs
<1> QED
  BY <1>3, <1>4, <1>5, <1>7 DEF Handled

\* While all that is still to come from t on is whole messages.
LEMMA ReadAndQueueIs ==
  ASSUME NEW t, Streams(t), NEW rest \in Seq(AnyPiece), Paired(t.rbio \o rest)
  PROVE  /\ ReadAndQueue(t).lines \in Seq(Nat)
         /\ Handled(t, ReadAndQueue(t).ssl, ReadAndQueue(t).lines)
<1>1. PICK a \in Seq(AnyPiece) : a = t.rbio
  BY DEF Streams
<1>2. PICK r : r = SSL_read(t)
  OBVIOUS
<1>3. r.lines \in Seq(Nat) /\ r.rest \in Seq(AnyPiece)
      /\ \E front \in Seq(AnyPiece) : a = front \o r.rest /\ Paired(front) /\ LinesOf(front) = r.lines
  <2>1. CASE Len(a) < 2
    <3>1. r.lines = <<>> /\ r.rest = a
      BY <1>1, <1>2, <2>1 DEF SSL_read
    <3>2. <<>> \in Seq(AnyPiece) /\ Paired(<<>>) /\ LinesOf(<<>>) = <<>> /\ a = <<>> \o a
          /\ <<>> \in Seq(Nat)
      BY LinesOfNone DEF Paired
    <3> QED
      BY <3>1, <3>2
  <2>2. CASE ~ (Len(a) < 2)
    <3>1. r.lines = a[1].lines /\ r.rest = SubSeq(a, 3, Len(a))
      BY <1>1, <1>2, <2>2 DEF SSL_read
    <3>2. Len(a) >= 2 /\ a[1] \in AnyPiece
      BY <2>2
    <3>3. a[1].lines \in Seq(Nat)
      BY <3>2 DEF AnyPiece
    <3>4. Paired(a \o rest)
      BY <1>1
    <3> QED
      BY <3>1, <3>2, <3>3, <3>4, FirstPair
  <2> QED
    BY <2>1, <2>2
<1> DEFINE k == [t EXCEPT !.rbio = r.rest]
<1>4. /\ k.done = t.done /\ k.rbio = r.rest /\ k.wbio = t.wbio
      /\ k.write_buf = t.write_buf /\ DOMAIN k = {"done", "rbio", "wbio", "write_buf"}
  BY DEF Streams
<1>5. ReadAndQueue(t).ssl = Queued(k) /\ ReadAndQueue(t).lines = r.lines
  BY <1>2 DEF ReadAndQueue
<1> HIDE DEF k
<1>6. Streams(k)
  BY <1>3, <1>4 DEF Streams
<1>7. Handled(k, Queued(k), <<>>)
  BY <1>6, QueuedIs
<1> DEFINE m == Queued(k)
<1>8. /\ Streams(m) /\ m.rbio = k.rbio
  <2>1. m.rbio = k.rbio
    BY <1>4 DEF Queued
  <2> QED
    BY <1>7, <2>1 DEF Handled
<1>9. /\ \E more \in Seq(AnyPiece) :
           /\ m.write_buf \o m.wbio = (k.write_buf \o k.wbio) \o more
           /\ Paired(more) /\ LinesOf(more) = <<>>
      /\ \E x \in Seq(AnyPiece) : m.write_buf = k.write_buf \o x
  BY <1>7 DEF Handled
<1> HIDE DEF m
<1>10. Handled(t, m, r.lines)
  BY <1>1, <1>3, <1>4, <1>8, <1>9 DEF Handled
<1> QED
  BY <1>3, <1>5, <1>10 DEF m

LEMMA HandshakeHandles ==
  ASSUME NEW t, Streams(t), NEW p \in Side
  PROVE  Handled(t, do_ssl_handshake(t, p), <<>>)
<1>1. PICK k : k = TakeFlight(t, p)
  OBVIOUS
<1>2. PICK m : m = GiveFlight(k, p)
  OBVIOUS
<1>3. Handled(t, k, <<>>) /\ Streams(k)
  BY <1>1, TakeFlightIs DEF Handled
<1>4. Handled(k, m, <<>>) /\ Streams(m)
  BY <1>2, <1>3, GiveFlightIs DEF Handled
<1>5. Handled(m, Queued(m), <<>>)
  BY <1>4, QueuedIs
<1>6. <<>> \in Seq(Nat)
  OBVIOUS
<1>7. Handled(t, m, <<>>)
  BY <1>3, <1>4, <1>6, HandledTwice
<1>8. Handled(t, Queued(m), <<>>)
  BY <1>5, <1>6, <1>7, HandledTwice
<1> QED
  BY <1>1, <1>2, <1>7, <1>8 DEF do_ssl_handshake, SSL_do_handshake

\* What on_read_cb makes of the BIOs when x has been written to rbio.
Fed(p, x) == [Of(p) EXCEPT !.rbio = Append(@, x)]

LEMMA FedIs ==
  ASSUME NEW p \in Side, NEW x \in AnyPiece, Streams(Of(p))
  PROVE  /\ Streams(Fed(p, x)) /\ Fed(p, x).rbio = Append(rbio[p], x)
         /\ Fed(p, x).wbio = wbio[p] /\ Fed(p, x).write_buf = write_buf[p]
<1> DEFINE k == Fed(p, x)
<1>1. /\ k.done = done[p] /\ k.rbio = Append(rbio[p], x) /\ k.wbio = wbio[p]
      /\ k.write_buf = write_buf[p] /\ DOMAIN k = {"done", "rbio", "wbio", "write_buf"}
  BY DEF Fed, Of
<1>2. done[p] \in Nat /\ rbio[p] \in Seq(AnyPiece) /\ wbio[p] \in Seq(AnyPiece)
      /\ write_buf[p] \in Seq(AnyPiece)
  BY DEF Streams, Of
<1>3. Append(rbio[p], x) \in Seq(AnyPiece)
  BY <1>2
<1> HIDE DEF k
<1>4. Streams(k)
  BY <1>1, <1>2, <1>3 DEF Streams
<1> QED
  BY <1>1, <1>4 DEF k

LEMMA ReadCbIs ==
  ASSUME NEW p \in Side, NEW x \in AnyPiece, Streams(Of(p)),
         NEW r, r = on_read_cb(p, x), ~ r.failed
  PROVE  /\ r.lines \in Seq(Nat) /\ Streams(r.ssl)
         /\ \E w \in Seq(AnyPiece) : r.ssl.write_buf = write_buf[p] \o w
         /\ \A rest \in Seq(AnyPiece) :
              Paired(Fed(p, x).rbio \o rest) => Handled(Fed(p, x), r.ssl, r.lines)
<1>1. PICK fed : fed = Fed(p, x)
  OBVIOUS
<1>2. PICK next : next = IF is_init_finished(fed.done, p) THEN fed ELSE do_ssl_handshake(fed, p)
  OBVIOUS
<1>3. Streams(fed) /\ fed.write_buf = write_buf[p]
  BY <1>1, FedIs
<1>4. Handled(fed, next, <<>>) /\ Streams(next)
  <2>1. Handled(fed, next, <<>>)
    BY <1>2, <1>3, HandledStays, HandshakeHandles
  <2> QED
    BY <2>1 DEF Handled
<1>5. \/ r = ReadAndQueue(next)
      \/ r = [ssl |-> next, lines |-> <<>>, failed |-> FALSE]
  <2>1. r = CASE Garbled(fed, p) -> [ssl |-> fed, lines |-> <<>>, failed |-> TRUE]
              [] ~ Garbled(fed, p) /\ is_init_finished(next.done, p) -> ReadAndQueue(next)
              [] OTHER -> [ssl |-> next, lines |-> <<>>, failed |-> FALSE]
    BY <1>1, <1>2, Zenon DEF on_read_cb, Fed
  <2>2. CASE Garbled(fed, p)
    <3>1. r = [ssl |-> fed, lines |-> <<>>, failed |-> TRUE]
      BY <2>1, <2>2
    <3> QED
      BY <3>1
  <2> QED
    BY <2>1, <2>2
<1>6. PICK w \in Seq(AnyPiece) : next.write_buf = write_buf[p] \o w
  BY <1>3, <1>4 DEF Handled
<1>7. <<>> \in Seq(Nat)
  OBVIOUS
<1>8. CASE r = [ssl |-> next, lines |-> <<>>, failed |-> FALSE]
  <2>1. r.ssl = next /\ r.lines = <<>>
    BY <1>8
  <2> QED
    BY <1>1, <1>4, <1>6, <1>7, <2>1
<1>9. CASE r = ReadAndQueue(next)
  <2>1. r.lines \in Seq(Nat) /\ Streams(r.ssl)
    BY <1>4, <1>9, ReadAndQueueTypes
  <2>2. \E v \in Seq(AnyPiece) : r.ssl.write_buf = write_buf[p] \o v
    <3>1. PICK y \in Seq(AnyPiece) : r.ssl.write_buf = next.write_buf \o y
      BY <1>4, <1>9, ReadAndQueueTypes
    <3>2. PICK b \in Seq(AnyPiece) : b = write_buf[p]
      BY <1>3 DEF Streams
    <3>3. (b \o w) \o y = b \o (w \o y)
      <4>1. Associates(b, w, y)
        BY PiecesAssociate, Zenon
      <4> QED
        BY <4>1, Zenon DEF Associates
    <3>4. w \o y \in Seq(AnyPiece)
      OBVIOUS
    <3>5. r.ssl.write_buf = write_buf[p] \o (w \o y)
      BY <1>6, <3>1, <3>2, <3>3, Zenon
    <3> QED
      BY <3>4, <3>5
  <2>3. ASSUME NEW rest \in Seq(AnyPiece), Paired(fed.rbio \o rest)
        PROVE  Handled(fed, r.ssl, r.lines)
    <3>1. PICK f \in Seq(AnyPiece) : fed.rbio = f \o next.rbio /\ Paired(f)
      BY <1>4 DEF Handled
    <3>2. PICK b \in Seq(AnyPiece) : b = next.rbio
      BY <1>4 DEF Streams
    <3>3. (f \o b) \o rest = f \o (b \o rest)
      <4>1. Associates(f, b, rest)
        BY PiecesAssociate, Zenon
      <4> QED
        BY <4>1, Zenon DEF Associates
    <3>4. b \o rest \in Seq(AnyPiece)
      OBVIOUS
    <3>5. Paired(f \o (b \o rest))
      BY <2>3, <3>1, <3>2, <3>3, Zenon
    <3>6. Paired(b \o rest)
      BY <3>1, <3>4, <3>5, PairedRest
    <3>7. Handled(next, r.ssl, r.lines)
      BY <1>4, <1>9, <3>2, <3>6, ReadAndQueueIs
    <3> QED
      BY <1>3, <1>4, <2>1, <3>7, HandledTwice
  <2> QED
    BY <1>1, <2>1, <2>2, <2>3
<1> QED
  BY <1>5, <1>8, <1>9

-----------------------------------------------------------------------------
(***************************************************************************)
(* What is on the way, when the first piece on the wire is read, when what *)
(* is to be written grows, and when a piece is sent.                       *)
(***************************************************************************)

WayReadTo(a, b, c, d, rest) ==
  /\ a \o b \o c \o d = Append(a, Head(b)) \o rest
  /\ \A a2 \in Seq(AnyPiece) : a2 \o Tail(b) \o c \o d = a2 \o rest

WayGrowsBy(r, w, c, d, c2, d2, more) ==
  c2 \o d2 = (c \o d) \o more => r \o w \o c2 \o d2 = (r \o w \o c \o d) \o more

WaySends(r, w, c, d) == r \o Append(w, Head(c)) \o Tail(c) \o d = r \o w \o c \o d

LEMMA WayRead ==
  ASSUME NEW a \in Seq(AnyPiece), NEW b \in Seq(AnyPiece), NEW c \in Seq(AnyPiece),
         NEW d \in Seq(AnyPiece), b # <<>>
  PROVE  \E rest \in Seq(AnyPiece) : WayReadTo(a, b, c, d, rest)
<1>1. PICK t \in Seq(AnyPiece), x \in AnyPiece : t = Tail(b) /\ x = Head(b) /\ b = <<x>> \o t
  <2>1. Tail(b) \in Seq(AnyPiece) /\ Head(b) \in AnyPiece
    OBVIOUS
  <2>2. b = <<Head(b)>> \o Tail(b)
    OBVIOUS
  <2> QED
    BY <2>1, <2>2
<1>2. PICK e \in Seq(AnyPiece) : e = Append(a, x)
  <2>1. Append(a, x) \in Seq(AnyPiece)
    OBVIOUS
  <2> QED
    BY <2>1
<1>3. a \o b = e \o t
  <2>1. PICK h \in Seq(AnyPiece) : h = <<x>>
    <3>1. <<x>> \in Seq(AnyPiece)
      OBVIOUS
    <3> QED
      BY <3>1
  <2>2. (a \o h) \o t = a \o (h \o t)
    <3>1. Associates(a, h, t)
      BY <1>1, <2>1, PiecesAssociate, Zenon
    <3> QED
      BY <3>1, Zenon DEF Associates
  <2>3. a \o <<x>> = e
    BY <1>2
  <2> QED
    BY <1>1, <2>1, <2>2, <2>3, Zenon
<1>4. ASSUME NEW g \in Seq(AnyPiece)
      PROVE  ((g \o t) \o c) \o d = g \o ((t \o c) \o d)
  <2>1. PICK u \in Seq(AnyPiece) : u = t \o c
    <3>1. t \o c \in Seq(AnyPiece)
      OBVIOUS
    <3> QED
      BY <3>1
  <2>2. (g \o t) \o c = g \o (t \o c)
    <3>1. Associates(g, t, c)
      BY <1>1, PiecesAssociate, Zenon
    <3> QED
      BY <3>1, Zenon DEF Associates
  <2>3. (g \o u) \o d = g \o (u \o d)
    <3>1. Associates(g, u, d)
      BY <2>1, PiecesAssociate, Zenon
    <3> QED
      BY <3>1, Zenon DEF Associates
  <2> QED
    BY <2>1, <2>2, <2>3, Zenon
<1>5. (t \o c) \o d \in Seq(AnyPiece)
  OBVIOUS
<1>6. a \o b \o c \o d = e \o ((t \o c) \o d)
  BY <1>3, <1>4, Zenon
<1>7. PICK rest \in Seq(AnyPiece) : rest = (t \o c) \o d
  BY <1>5
<1>8. WayReadTo(a, b, c, d, rest)
  <2>1. a \o b \o c \o d = Append(a, Head(b)) \o rest
    BY <1>1, <1>2, <1>6, <1>7, Zenon
  <2>2. ASSUME NEW a2 \in Seq(AnyPiece) PROVE a2 \o Tail(b) \o c \o d = a2 \o rest
    BY <1>1, <1>4, <1>7, Zenon
  <2> QED
    BY <2>1, <2>2, Zenon DEF WayReadTo
<1> QED
  BY <1>8, Zenon

LEMMA WayGrows ==
  ASSUME NEW r \in Seq(AnyPiece), NEW w \in Seq(AnyPiece), NEW c \in Seq(AnyPiece),
         NEW d \in Seq(AnyPiece), NEW c2 \in Seq(AnyPiece), NEW d2 \in Seq(AnyPiece),
         NEW more \in Seq(AnyPiece)
  PROVE  WayGrowsBy(r, w, c, d, c2, d2, more)
<1>1. PICK v \in Seq(AnyPiece) : v = r \o w
  <2>1. r \o w \in Seq(AnyPiece)
    OBVIOUS
  <2> QED
    BY <2>1
<1>2. PICK e \in Seq(AnyPiece) : e = c \o d
  <2>1. c \o d \in Seq(AnyPiece)
    OBVIOUS
  <2> QED
    BY <2>1
<1>3. (v \o c2) \o d2 = v \o (c2 \o d2)
  <2>1. Associates(v, c2, d2)
    BY PiecesAssociate, Zenon
  <2> QED
    BY <2>1, Zenon DEF Associates
<1>4. (v \o c) \o d = v \o (c \o d)
  <2>1. Associates(v, c, d)
    BY PiecesAssociate, Zenon
  <2> QED
    BY <2>1, Zenon DEF Associates
<1>5. (v \o e) \o more = v \o (e \o more)
  <2>1. Associates(v, e, more)
    BY PiecesAssociate, Zenon
  <2> QED
    BY <2>1, Zenon DEF Associates
<1> QED
  BY <1>1, <1>2, <1>3, <1>4, <1>5, Zenon DEF WayGrowsBy

LEMMA WaySent ==
  ASSUME NEW r \in Seq(AnyPiece), NEW w \in Seq(AnyPiece), NEW c \in Seq(AnyPiece),
         NEW d \in Seq(AnyPiece), c # <<>>
  PROVE  WaySends(r, w, c, d)
<1>1. PICK t \in Seq(AnyPiece), x \in AnyPiece : t = Tail(c) /\ x = Head(c) /\ c = <<x>> \o t
  <2>1. Tail(c) \in Seq(AnyPiece) /\ Head(c) \in AnyPiece
    OBVIOUS
  <2>2. c = <<Head(c)>> \o Tail(c)
    OBVIOUS
  <2> QED
    BY <2>1, <2>2
<1>2. PICK h \in Seq(AnyPiece) : h = <<x>>
  <2>1. <<x>> \in Seq(AnyPiece)
    OBVIOUS
  <2> QED
    BY <2>1
<1>3. Append(w, x) = w \o h
  BY <1>2
<1>4. PICK v \in Seq(AnyPiece) : v = r \o w
  <2>1. r \o w \in Seq(AnyPiece)
    OBVIOUS
  <2> QED
    BY <2>1
<1>5. Associates(r, w, h) /\ Associates(v, h, t)
  BY <1>1, <1>2, <1>4, PiecesAssociate, Zenon
<1> QED
  BY <1>1, <1>2, <1>3, <1>4, <1>5, Zenon DEF Associates, WaySends

-----------------------------------------------------------------------------
(***************************************************************************)
(* The invariant of the two programs that speak through memory BIOs.       *)
(***************************************************************************)

BioTypes ==
  /\ stage \in [Side -> {"poll", "read", "write", "rest", "accept", "ended", "reads"}]
  /\ revents \in [Side -> SUBSET {"in", "out", "err", "stdin"}]
  /\ done \in [Side -> Nat] /\ taken \in [Side -> Nat]
  /\ rbio \in [Side -> Seq(AnyPiece)] /\ wbio \in [Side -> Seq(AnyPiece)]
  /\ write_buf \in [Side -> Seq(AnyPiece)] /\ wire \in [Side -> Seq(AnyPiece)]
  /\ encrypt_buf \in [Side -> Seq(Nat)]
  /\ said \in [Side -> Seq(Nat)] /\ shown \in [Side -> Seq(Nat)]

\* Who is told by poll that he may write has something to write.
HasOut == \A p \in Side : stage[p] \in {"read", "write"} /\ "out" \in revents[p] => write_buf[p] # <<>>

\* What was in the server's BIOs is gone when it accepts again.
Emptied == stage["server"] = "accept" => rbio["server"] = <<>> /\ wbio["server"] = <<>>

\* What is on the way from p is whole messages, and it is what was said and
\* is neither shown nor waits to be encrypted.
Flows(p) ==
  /\ Paired(OnTheWay(p))
  /\ said[p] = shown[Other(p)] \o LinesOf(OnTheWay(p)) \o encrypt_buf[p]

\* The server has not begun to speak on a connection that it has to accept.
Unheard == said["server"] = <<>> /\ shown["client"] = <<>> /\ rbio["client"] = <<>> /\ wire["server"] = <<>>

InTouch == closed = {} /\ client_prog = "bio_tls_client"

AllFlows == Flows("client") /\ IF stage["server"] = "accept" THEN Unheard ELSE Flows("server")

BioInv == BioTypes /\ HasOut /\ Emptied /\ (InTouch => AllFlows)

LEMMA InitBioInv == BioInit => BioInv
<1> SUFFICES ASSUME BioInit PROVE BioInv
  OBVIOUS
<1>1. <<>> \in Seq(AnyPiece) /\ <<>> \in Seq(Nat)
  OBVIOUS
<1>2. stage \in [Side -> {"poll", "read", "write", "rest", "accept", "ended", "reads"}]
  BY DEF BioInit, Side
<1>3. BioTypes
  BY <1>1, <1>2 DEF BioInit, BioTypes, Both
<1>4. HasOut /\ Emptied /\ ~ InTouch
  BY DEF BioInit, HasOut, Emptied, InTouch, Both, Side
<1> QED
  BY <1>3, <1>4 DEF BioInv

LEMMA WayIn ==
  ASSUME BioTypes, NEW p \in Side
  PROVE  /\ OnTheWay(p) \in Seq(AnyPiece) /\ LinesOf(OnTheWay(p)) \in Seq(Nat)
<1>1. PICK a \in Seq(AnyPiece), b \in Seq(AnyPiece), c \in Seq(AnyPiece), d \in Seq(AnyPiece) :
        a = rbio[Other(p)] /\ b = wire[p] /\ c = write_buf[p] /\ d = wbio[p]
  BY Sides DEF BioTypes
<1>2. a \o b \o c \o d \in Seq(AnyPiece)
  OBVIOUS
<1>3. OnTheWay(p) \in Seq(AnyPiece)
  BY <1>1, <1>2, Zenon DEF OnTheWay
<1> QED
  BY <1>3, LinesOfIn

\* A way on which nothing changes.
LEMMA FlowsOn ==
  ASSUME NEW p \in Side, Flows(p),
         rbio'[Other(p)] = rbio[Other(p)], wire'[p] = wire[p], write_buf'[p] = write_buf[p],
         wbio'[p] = wbio[p], said'[p] = said[p], shown'[Other(p)] = shown[Other(p)],
         encrypt_buf'[p] = encrypt_buf[p]
  PROVE  Flows(p)'
<1>1. OnTheWay(p)' = OnTheWay(p)
  BY Zenon DEF OnTheWay
<1> QED
  BY <1>1, Zenon DEF Flows

LEMMA HoldsIs ==
  ASSUME BioTypes, NEW p \in Side, NEW t, Streams(t), Holds(p, t)
  PROVE  /\ done' \in [Side -> Nat]
         /\ rbio' \in [Side -> Seq(AnyPiece)] /\ wbio' \in [Side -> Seq(AnyPiece)]
         /\ write_buf' \in [Side -> Seq(AnyPiece)]
         /\ rbio'[p] = t.rbio /\ wbio'[p] = t.wbio /\ write_buf'[p] = t.write_buf
         /\ \A q \in Side : q # p => /\ rbio'[q] = rbio[q] /\ wbio'[q] = wbio[q]
                                     /\ write_buf'[q] = write_buf[q]
  BY DEF BioTypes, Streams, Holds

LEMMA OfIs == ASSUME BioTypes, NEW p \in Side PROVE Streams(Of(p))
  BY DEF BioTypes, Streams, Of

LEMMA NoSslIs == Streams(NoSsl)
<1>1. <<>> \in Seq(AnyPiece)
  OBVIOUS
<1> QED
  BY <1>1 DEF Streams, NoSsl

\* Where a side goes that goes on.
LEMMA GoesIs ==
  ASSUME BioTypes, NEW p \in Side, NEW s \in {"poll", "read", "write", "rest"}, Goes(p, s),
         stage[p] # "accept"
  PROVE  /\ stage' \in [Side -> {"poll", "read", "write", "rest", "accept", "ended", "reads"}]
         /\ stage'[p] = s /\ \A q \in Side : q # p => stage'[q] = stage[q]
         /\ stage'["server"] = "accept" <=> stage["server"] = "accept"
         /\ stage["server"] = "accept" => p = "client"
<1>1. stage' = [stage EXCEPT ![p] = s] /\ s # "accept"
  BY DEF Goes
<1> QED
  BY <1>1 DEF BioTypes, Side

LEMMA LeaveForKeeps ==
  ASSUME BioInv, NEW p \in Side, NEW to \in {"accept", "ended"}, LeaveFor(p, to),
         UNCHANGED <<taken, said, shown>>
  PROVE  BioInv'
<1>1. PICK t : t = IF p = "server" THEN [NoSsl EXCEPT !.write_buf = write_buf[p]] ELSE NoSsl
  OBVIOUS
<1>2. Streams(t) /\ t.rbio = <<>> /\ t.wbio = <<>>
  <2>1. <<>> \in Seq(AnyPiece) /\ write_buf[p] \in Seq(AnyPiece)
    BY DEF BioInv, BioTypes
  <2> QED
    BY <1>1, <2>1, NoSslIs DEF Streams, NoSsl
<1>3. Holds(p, t)
  BY <1>1 DEF LeaveFor
<1>4. /\ done' \in [Side -> Nat]
      /\ rbio' \in [Side -> Seq(AnyPiece)] /\ wbio' \in [Side -> Seq(AnyPiece)]
      /\ write_buf' \in [Side -> Seq(AnyPiece)]
      /\ rbio'[p] = <<>> /\ wbio'[p] = <<>>
      /\ \A q \in Side : q # p => /\ rbio'[q] = rbio[q] /\ wbio'[q] = wbio[q]
                                  /\ write_buf'[q] = write_buf[q]
  BY <1>2, <1>3, HoldsIs DEF BioInv
<1>5. /\ stage' = [stage EXCEPT ![p] = to]
      /\ revents' = [revents EXCEPT ![p] = {}] /\ closed' = closed \union {p}
      /\ wire' = [wire EXCEPT ![Other(p)] = <<>>]
      /\ encrypt_buf' = IF p = "server" THEN encrypt_buf ELSE [encrypt_buf EXCEPT ![p] = <<>>]
  BY DEF LeaveFor, Goes
<1>6. <<>> \in Seq(AnyPiece) /\ <<>> \in Seq(Nat)
  OBVIOUS
<1>7. BioTypes'
  <2>1. encrypt_buf' \in [Side -> Seq(Nat)]
    BY <1>5, <1>6 DEF BioInv, BioTypes
  <2>2. wire' \in [Side -> Seq(AnyPiece)]
    BY <1>5, <1>6, Sides DEF BioInv, BioTypes
  <2>3. /\ stage' \in [Side -> {"poll", "read", "write", "rest", "accept", "ended", "reads"}]
        /\ revents' \in [Side -> SUBSET {"in", "out", "err", "stdin"}]
    BY <1>5 DEF BioInv, BioTypes
  <2> QED
    BY <1>4, <2>1, <2>2, <2>3 DEF BioInv, BioTypes
<1>8. HasOut'
  <2>1. ASSUME NEW q \in Side, stage'[q] \in {"read", "write"}, "out" \in revents'[q]
        PROVE  write_buf'[q] # <<>>
    <3>1. q # p
      BY <1>5, <2>1 DEF BioInv, BioTypes
    <3>2. stage'[q] = stage[q] /\ revents'[q] = revents[q] /\ write_buf'[q] = write_buf[q]
      BY <1>4, <1>5, <3>1 DEF BioInv, BioTypes
    <3> QED
      BY <2>1, <3>2 DEF BioInv, HasOut
  <2> QED
    BY <2>1 DEF HasOut
<1>9. Emptied'
  <2>1. CASE p = "server"
    BY <1>4, <2>1 DEF Emptied
  <2>2. CASE p # "server"
    <3>1. "server" \in Side /\ stage'["server"] = stage["server"]
      BY <1>5, <2>2 DEF BioInv, BioTypes, Side
    <3> QED
      BY <1>4, <2>2, <3>1 DEF BioInv, Emptied
  <2> QED
    BY <2>1, <2>2
<1>10. ~ InTouch'
  BY <1>5 DEF InTouch
<1> QED
  BY <1>7, <1>8, <1>9, <1>10 DEF BioInv

LEMMA LeaveKeeps ==
  ASSUME BioInv, NEW p \in Side, Leave(p), UNCHANGED <<taken, said, shown>>
  PROVE  BioInv'
  BY LeaveForKeeps DEF Leave

\* Nothing but where a side is, and what poll has reported to it.
LEMMA MoveKeeps ==
  ASSUME BioInv, NEW p \in Side, NEW s \in {"poll", "read", "write", "rest"}, Goes(p, s),
         stage[p] # "accept",
         NEW e \in SUBSET {"in", "out", "err", "stdin"}, revents' = [revents EXCEPT ![p] = e],
         s \in {"read", "write"} /\ "out" \in e => write_buf[p] # <<>>,
         UNCHANGED <<client_prog, ssl_client, socket, taken, said, shown>>
  PROVE  BioInv'
<1>1. UNCHANGED <<done, rbio, wbio, write_buf, encrypt_buf, wire, closed>>
  BY DEF ssl_client, socket
<1>2. /\ stage' \in [Side -> {"poll", "read", "write", "rest", "accept", "ended", "reads"}]
      /\ stage'[p] = s /\ \A q \in Side : q # p => stage'[q] = stage[q]
      /\ stage'["server"] = "accept" <=> stage["server"] = "accept"
  BY GoesIs DEF BioInv
<1>3. BioTypes'
  BY <1>1, <1>2 DEF BioInv, BioTypes
<1>4. HasOut'
  <2>1. ASSUME NEW q \in Side, stage'[q] \in {"read", "write"}, "out" \in revents'[q]
        PROVE  write_buf'[q] # <<>>
    <3>1. CASE q = p
      <4>1. revents'[p] = e
        BY DEF BioInv, BioTypes
      <4> QED
        BY <1>1, <1>2, <2>1, <3>1, <4>1
    <3>2. CASE q # p
      <4>1. revents'[q] = revents[q]
        BY <3>2 DEF BioInv, BioTypes
      <4> QED
        BY <1>1, <1>2, <2>1, <3>2, <4>1 DEF BioInv, HasOut
    <3> QED
      BY <3>1, <3>2
  <2> QED
    BY <2>1 DEF HasOut
<1>5. Emptied'
  BY <1>1, <1>2 DEF BioInv, Emptied
<1>6. ASSUME NEW q \in Side, Flows(q) PROVE Flows(q)'
  BY <1>1, <1>6, FlowsOn
<1>7. InTouch' => AllFlows'
  <2>1. "client" \in Side /\ "server" \in Side
    BY DEF Side
  <2> QED
    BY <1>1, <1>2, <1>6, <2>1 DEF BioInv, InTouch, AllFlows, Unheard
<1> QED
  BY <1>3, <1>4, <1>5, <1>7 DEF BioInv

LEMMA PollKeeps ==
  ASSUME BioInv, NEW p \in Side, Poll(p)
  PROVE  BioInv'
<1>1. PICK e : e = Ready(p)
  OBVIOUS
<1>2. e \in SUBSET {"in", "out", "err", "stdin"} /\ ("out" \in e => write_buf[p] # <<>>)
  BY <1>1 DEF Ready
<1>3. /\ Goes(p, "read") /\ stage[p] # "accept" /\ revents' = [revents EXCEPT ![p] = e]
      /\ UNCHANGED <<client_prog, ssl_client, socket, taken, said, shown>>
  BY <1>1 DEF Poll, At, users
<1> QED
  BY <1>2, <1>3, MoveKeeps

LinesMove(sh, ln, ml, en, en2, new) ==
  ml \o en2 = en \o new => ((sh \o ln) \o en) \o new = (sh \o (ln \o ml)) \o en2

LEMMA LinesMoved ==
  ASSUME NEW sh \in Seq(Nat), NEW ln \in Seq(Nat), NEW ml \in Seq(Nat),
         NEW en \in Seq(Nat), NEW en2 \in Seq(Nat), NEW new \in Seq(Nat)
  PROVE  LinesMove(sh, ln, ml, en, en2, new)
<1>1. PICK v \in Seq(Nat) : v = sh \o ln
  <2>1. sh \o ln \in Seq(Nat)
    OBVIOUS
  <2> QED
    BY <2>1
<1>2. Associates(v, en, new)
  BY LinesAssociate, Zenon
<1>3. Associates(v, ml, en2)
  BY LinesAssociate, Zenon
<1>4. Associates(sh, ln, ml)
  BY LinesAssociate, Zenon
<1> QED
  BY <1>1, <1>2, <1>3, <1>4, Zenon DEF Associates, LinesMove

\* What is on the way from p grows by whole messages, with the lines that
\* are said and not kept to be encrypted.
LEMMA FlowsGrows ==
  ASSUME NEW p \in Side, BioTypes, BioTypes', Flows(p),
         NEW more \in Seq(AnyPiece), Paired(more), NEW new \in Seq(Nat),
         rbio'[Other(p)] = rbio[Other(p)], wire'[p] = wire[p], shown'[Other(p)] = shown[Other(p)],
         write_buf'[p] \o wbio'[p] = (write_buf[p] \o wbio[p]) \o more,
         said'[p] = said[p] \o new,
         LinesOf(more) \o encrypt_buf'[p] = encrypt_buf[p] \o new
  PROVE  Flows(p)'
<1>1. PICK r \in Seq(AnyPiece), w \in Seq(AnyPiece), c \in Seq(AnyPiece), d \in Seq(AnyPiece) :
        r = rbio[Other(p)] /\ w = wire[p] /\ c = write_buf[p] /\ d = wbio[p]
  BY Sides DEF BioTypes
<1>2. PICK c2 \in Seq(AnyPiece), d2 \in Seq(AnyPiece) : c2 = write_buf'[p] /\ d2 = wbio'[p]
  BY DEF BioTypes
<1>3. PICK n \in Seq(AnyPiece) : n = OnTheWay(p)
  BY WayIn
<1>4. OnTheWay(p)' = n \o more
  <2>1. c2 \o d2 = (c \o d) \o more => r \o w \o c2 \o d2 = (r \o w \o c \o d) \o more
    <3>1. WayGrowsBy(r, w, c, d, c2, d2, more)
      BY WayGrows, Zenon
    <3> QED
      BY <3>1, Zenon DEF WayGrowsBy
  <2>2. c2 \o d2 = (c \o d) \o more
    BY <1>1, <1>2, Zenon
  <2>3. OnTheWay(p)' = r \o w \o c2 \o d2
    BY <1>1, <1>2, Zenon DEF OnTheWay
  <2>4. n = r \o w \o c \o d
    BY <1>1, <1>3, Zenon DEF OnTheWay
  <2> QED
    BY <2>1, <2>2, <2>3, <2>4, Zenon
<1>5. Paired(OnTheWay(p)')
  BY <1>3, <1>4, PairedJoin DEF Flows
<1>6. PICK sh \in Seq(Nat), ln \in Seq(Nat), ml \in Seq(Nat), en \in Seq(Nat), en2 \in Seq(Nat) :
        /\ sh = shown[Other(p)] /\ ln = LinesOf(n) /\ ml = LinesOf(more)
        /\ en = encrypt_buf[p] /\ en2 = encrypt_buf'[p]
  BY Sides, LinesOfIn DEF BioTypes
<1>7. LinesOf(OnTheWay(p)') = ln \o ml
  <2>1. LinesOf(n \o more) = LinesOf(n) \o LinesOf(more)
    BY LinesOfJoin
  <2> QED
    BY <1>4, <1>6, <2>1, Zenon
<1>8. ml \o en2 = en \o new
  BY <1>6, Zenon
<1>9. said'[p] = ((sh \o ln) \o en) \o new
  BY <1>3, <1>6, Zenon DEF Flows
<1>10. ((sh \o ln) \o en) \o new = (sh \o (ln \o ml)) \o en2
  <2>1. LinesMove(sh, ln, ml, en, en2, new)
    BY LinesMoved, Zenon
  <2> QED
    BY <1>8, <2>1, Zenon DEF LinesMove
<1>11. said'[p] = shown'[Other(p)] \o LinesOf(OnTheWay(p)') \o encrypt_buf'[p]
  BY <1>6, <1>7, <1>9, <1>10, Zenon
<1> QED
  BY <1>5, <1>11, Zenon DEF Flows

\* The first piece on the wire is read, and the lines of what is whole shown.
LEMMA ReadKeeps ==
  ASSUME BioInv, NEW p \in Side, stage[p] = "read", wire[Other(p)] # <<>>,
         NEW r, r = on_read_cb(p, Head(wire[Other(p)])), ~ r.failed,
         Holds(p, r.ssl), Goes(p, "write"),
         shown' = [shown EXCEPT ![p] = @ \o r.lines],
         wire' = [wire EXCEPT ![Other(p)] = Tail(@)],
         UNCHANGED <<encrypt_buf, revents, closed, client_prog, taken, said>>
  PROVE  BioInv'
<1>1. PICK o \in Side : o = Other(p) /\ o # p /\ Other(o) = p
  BY Sides
<1>2. BioTypes
  BY DEF BioInv
<1>3. PICK a \in Seq(AnyPiece), b \in Seq(AnyPiece), c \in Seq(AnyPiece), d \in Seq(AnyPiece) :
        a = rbio[p] /\ b = wire[o] /\ c = write_buf[o] /\ d = wbio[o]
  BY <1>2 DEF BioTypes
<1>4. PICK x \in AnyPiece : x = Head(b)
  <2>1. b # <<>>
    BY <1>1, <1>3
  <2>2. Head(b) \in AnyPiece
    BY <2>1
  <2> QED
    BY <2>2
<1>5. Tail(b) \in Seq(AnyPiece) /\ b # <<>>
  BY <1>1, <1>3
<1>6. /\ r.lines \in Seq(Nat) /\ Streams(r.ssl)
      /\ \E w \in Seq(AnyPiece) : r.ssl.write_buf = write_buf[p] \o w
      /\ \A rest \in Seq(AnyPiece) :
           Paired(Fed(p, x).rbio \o rest) => Handled(Fed(p, x), r.ssl, r.lines)
  <2>1. r = on_read_cb(p, x)
    BY <1>1, <1>3, <1>4
  <2>2. Streams(Of(p))
    BY <1>2, OfIs
  <2> QED
    BY <2>1, <2>2, ReadCbIs
<1>7. /\ Streams(Fed(p, x)) /\ Fed(p, x).rbio = Append(a, x)
      /\ Fed(p, x).wbio = wbio[p] /\ Fed(p, x).write_buf = write_buf[p]
  BY <1>2, <1>3, FedIs, OfIs
<1>8. /\ done' \in [Side -> Nat]
      /\ rbio' \in [Side -> Seq(AnyPiece)] /\ wbio' \in [Side -> Seq(AnyPiece)]
      /\ write_buf' \in [Side -> Seq(AnyPiece)]
      /\ rbio'[p] = r.ssl.rbio /\ wbio'[p] = r.ssl.wbio /\ write_buf'[p] = r.ssl.write_buf
      /\ \A q \in Side : q # p => /\ rbio'[q] = rbio[q] /\ wbio'[q] = wbio[q]
                                  /\ write_buf'[q] = write_buf[q]
  BY <1>2, <1>6, HoldsIs
<1>9. /\ stage' \in [Side -> {"poll", "read", "write", "rest", "accept", "ended", "reads"}]
      /\ stage'[p] = "write" /\ \A q \in Side : q # p => stage'[q] = stage[q]
      /\ stage'["server"] = "accept" <=> stage["server"] = "accept"
      /\ stage["server"] = "accept" => p = "client"
  BY <1>2, GoesIs
<1>10. /\ wire' \in [Side -> Seq(AnyPiece)] /\ wire'[o] = Tail(b) /\ wire'[p] = wire[p]
  BY <1>1, <1>2, <1>3, <1>5 DEF BioTypes
<1>11. /\ shown' \in [Side -> Seq(Nat)] /\ shown'[p] = shown[p] \o r.lines /\ shown'[o] = shown[o]
  <2>1. shown[p] \o r.lines \in Seq(Nat)
    <3>1. PICK sh \in Seq(Nat), ls \in Seq(Nat) : sh = shown[p] /\ ls = r.lines
      BY <1>2, <1>6 DEF BioTypes
    <3>2. sh \o ls \in Seq(Nat)
      OBVIOUS
    <3> QED
      BY <3>1, <3>2
  <2> QED
    BY <1>1, <1>2, <2>1 DEF BioTypes
<1>12. BioTypes'
  BY <1>2, <1>8, <1>9, <1>10, <1>11 DEF BioTypes
<1>13. HasOut'
  <2>1. ASSUME NEW q \in Side, stage'[q] \in {"read", "write"}, "out" \in revents'[q]
        PROVE  write_buf'[q] # <<>>
    <3>1. write_buf[q] # <<>>
      BY <1>9, <2>1 DEF BioInv, HasOut
    <3>2. CASE q = p
      <4>1. PICK w \in Seq(AnyPiece), v \in Seq(AnyPiece) :
              r.ssl.write_buf = v \o w /\ v = write_buf[p]
        BY <1>2, <1>6 DEF BioTypes
      <4>2. v # <<>> => v \o w # <<>>
        OBVIOUS
      <4> QED
        BY <1>8, <3>1, <3>2, <4>1, <4>2
    <3> QED
      BY <1>8, <3>1, <3>2
  <2> QED
    BY <2>1 DEF HasOut
<1>14. Emptied'
  BY <1>8, <1>9 DEF BioInv, Emptied, Side
<1>15. ASSUME Flows(p), Flows(o)
       PROVE  Flows(p)' /\ Flows(o)'
  <2>1. PICK rest \in Seq(AnyPiece) :
          /\ a \o b \o c \o d = Append(a, Head(b)) \o rest
          /\ \A a2 \in Seq(AnyPiece) : a2 \o Tail(b) \o c \o d = a2 \o rest
    <3>1. PICK rest \in Seq(AnyPiece) : WayReadTo(a, b, c, d, rest)
      BY <1>5, WayRead, Zenon
    <3> QED
      BY <3>1, Zenon DEF WayReadTo
  <2>2. OnTheWay(o) = Append(a, x) \o rest
    BY <1>1, <1>3, <1>4, <2>1 DEF OnTheWay
  <2>3. Handled(Fed(p, x), r.ssl, r.lines)
    BY <1>6, <1>7, <1>15, <2>2 DEF Flows
  <2>4. PICK f \in Seq(AnyPiece), k \in Seq(AnyPiece) :
          Append(a, x) = f \o k /\ k = r.ssl.rbio /\ Paired(f) /\ LinesOf(f) = r.lines
    BY <1>6, <1>7, <2>3 DEF Handled, Streams
  <2>5. OnTheWay(o)' = k \o rest
    <3>1. rbio'[p] = k /\ wire'[o] = Tail(b) /\ write_buf'[o] = c /\ wbio'[o] = d
      BY <1>1, <1>3, <1>8, <1>10, <2>4
    <3>2. OnTheWay(o)' = rbio'[p] \o wire'[o] \o write_buf'[o] \o wbio'[o]
      BY <1>1, Zenon DEF OnTheWay
    <3>3. k \o Tail(b) \o c \o d = k \o rest
      BY <2>1
    <3> QED
      BY <3>1, <3>2, <3>3, Zenon
  <2>6. (f \o k) \o rest = f \o (k \o rest)
    <3>1. Associates(f, k, rest)
      BY PiecesAssociate, Zenon
    <3> QED
      BY <3>1, Zenon DEF Associates
  <2>7. PICK n \in Seq(AnyPiece) : n = k \o rest
    <3>1. k \o rest \in Seq(AnyPiece)
      OBVIOUS
    <3> QED
      BY <3>1
  <2>8. OnTheWay(o) = f \o n /\ OnTheWay(o)' = n
    BY <2>2, <2>4, <2>5, <2>6, <2>7, Zenon
  <2>9. Paired(n) /\ LinesOf(f \o n) = r.lines \o LinesOf(n)
    <3>1. Paired(f \o n)
      BY <1>15, <2>8 DEF Flows
    <3>2. LinesOf(f \o n) = LinesOf(f) \o LinesOf(n)
      BY LinesOfJoin
    <3> QED
      BY <2>4, <3>1, <3>2, PairedRest
  <2>10. said[o] = shown[p] \o (r.lines \o LinesOf(n)) \o encrypt_buf[o]
    BY <1>1, <1>15, <2>8, <2>9, Zenon DEF Flows
  <2>11. said[o] = (shown[p] \o r.lines) \o LinesOf(n) \o encrypt_buf[o]
    <3>1. PICK sh \in Seq(Nat), ls \in Seq(Nat), ln \in Seq(Nat) :
            sh = shown[p] /\ ls = r.lines /\ ln = LinesOf(n)
      BY <1>2, <1>6, LinesOfIn DEF BioTypes
    <3>2. (sh \o ls) \o ln = sh \o (ls \o ln)
      <4>1. Associates(sh, ls, ln)
        BY LinesAssociate, Zenon
      <4> QED
        BY <4>1, Zenon DEF Associates
    <3> QED
      BY <2>10, <3>1, <3>2, Zenon
  <2>12. Flows(o)'
    <3>1. said'[o] = shown'[p] \o LinesOf(OnTheWay(o)') \o encrypt_buf'[o]
      BY <1>11, <2>8, <2>11, Zenon
    <3>2. Paired(OnTheWay(o)')
      BY <2>8, <2>9
    <3> QED
      BY <1>1, <3>1, <3>2, Zenon DEF Flows
  <2>13. PICK more \in Seq(AnyPiece) :
           /\ r.ssl.write_buf \o r.ssl.wbio = (write_buf[p] \o wbio[p]) \o more
           /\ Paired(more) /\ LinesOf(more) = <<>>
    BY <1>7, <2>3 DEF Handled
  <2>14. Flows(p)'
    <3>1. more \in Seq(AnyPiece) /\ <<>> \in Seq(Nat)
      OBVIOUS
    <3>2. said'[p] = said[p] \o <<>> /\ encrypt_buf'[p] = encrypt_buf[p]
      BY <1>2 DEF BioTypes
    <3>3. /\ write_buf'[p] \o wbio'[p] = (write_buf[p] \o wbio[p]) \o more
          /\ rbio'[o] = rbio[o] /\ wire'[p] = wire[p] /\ shown'[o] = shown[o]
      BY <1>1, <1>8, <1>10, <1>11, <2>13
    <3>4. LinesOf(more) \o encrypt_buf'[p] = encrypt_buf[p] \o <<>>
      <4>1. PICK en \in Seq(Nat) : en = encrypt_buf[p]
        BY <1>2 DEF BioTypes
      <4>2. <<>> \o en = en \o <<>>
        OBVIOUS
      <4> QED
        BY <2>13, <3>2, <4>1, <4>2, Zenon
    <3> QED
      BY <1>1, <1>2, <1>12, <1>15, <2>13, <3>1, <3>2, <3>3, <3>4, FlowsGrows
  <2> QED
    BY <2>12, <2>14
<1>16. InTouch' => AllFlows'
  <2>1. SUFFICES ASSUME InTouch PROVE AllFlows'
    BY DEF InTouch
  <2>2. stage["server"] # "accept"
    BY <1>1, <1>3, <1>5, <1>9, <2>1 DEF BioInv, AllFlows, Unheard, Side, Other
  <2>3. Flows(p) /\ Flows(o) /\ {p, o} = {"client", "server"}
    BY <1>1, <2>1, <2>2 DEF BioInv, AllFlows, Side
  <2> QED
    BY <1>9, <1>15, <2>2, <2>3 DEF AllFlows
<1> QED
  BY <1>12, <1>13, <1>14, <1>16 DEF BioInv

LEMMA SockReadKeeps ==
  ASSUME BioInv, NEW p \in Side, do_sock_read(p)
  PROVE  BioInv'
<1>1. stage[p] = "read" /\ UNCHANGED <<client_prog, taken, said>>
  BY DEF do_sock_read, At
<1>2. CASE Goes(p, "write") /\ UNCHANGED <<ssl_client, revents, socket, shown>>
  <2>1. PICK e \in SUBSET {"in", "out", "err", "stdin"} : e = revents[p]
    BY DEF BioInv, BioTypes
  <2>2. revents' = [revents EXCEPT ![p] = e]
    BY <1>2, <2>1 DEF BioInv, BioTypes
  <2>3. "out" \in e => write_buf[p] # <<>>
    BY <1>1, <2>1 DEF BioInv, HasOut
  <2> QED
    BY <1>1, <1>2, <2>2, <2>3, MoveKeeps
<1>3. CASE /\ wire[Other(p)] # <<>>
           /\ \E r \in {on_read_cb(p, Head(wire[Other(p)]))} :
                /\ ~ r.failed
                /\ Holds(p, r.ssl)
                /\ shown' = [shown EXCEPT ![p] = @ \o r.lines]
                /\ wire' = [wire EXCEPT ![Other(p)] = Tail(@)]
                /\ Goes(p, "write")
                /\ UNCHANGED <<encrypt_buf, revents, closed, refused>>
  BY <1>1, <1>3, ReadKeeps
<1>4. CASE Leave(p) /\ UNCHANGED shown
  BY <1>1, <1>4, LeaveKeeps
<1> QED
  BY <1>2, <1>3, <1>4, Zenon DEF do_sock_read

\* A piece goes from write_buf to the wire.
LEMMA SendKeeps ==
  ASSUME BioInv, NEW p \in Side, stage[p] = "write", "out" \in revents[p],
         wire' = [wire EXCEPT ![p] = Append(@, Head(write_buf[p]))],
         IF Len(write_buf[p]) = 1 THEN WroteAll(p)
         ELSE write_buf' = [write_buf EXCEPT ![p] = Tail(@)] /\ UNCHANGED stage,
         UNCHANGED <<done, rbio, wbio, encrypt_buf, revents, closed, client_prog, taken, said, shown>>
  PROVE  BioInv'
<1>1. PICK r \in Seq(AnyPiece), w \in Seq(AnyPiece), c \in Seq(AnyPiece), d \in Seq(AnyPiece) :
        r = rbio[Other(p)] /\ w = wire[p] /\ c = write_buf[p] /\ d = wbio[p]
  BY Sides DEF BioInv, BioTypes
<1>2. c # <<>>
  BY <1>1 DEF BioInv, HasOut
<1>3. /\ Tail(c) \in Seq(AnyPiece) /\ Append(w, Head(c)) \in Seq(AnyPiece)
      /\ Len(c) = 1 => Tail(c) = <<>>
      /\ Len(c) # 1 => Tail(c) # <<>>
  <2>1. Head(c) \in AnyPiece /\ Tail(c) \in Seq(AnyPiece)
    BY <1>2
  <2>2. Append(w, Head(c)) \in Seq(AnyPiece)
    BY <2>1
  <2>3. Len(Tail(c)) = Len(c) - 1 /\ Len(c) \in Nat
    BY <1>2
  <2>4. PICK t \in Seq(AnyPiece), n \in Nat : t = Tail(c) /\ n = Len(c) /\ Len(t) = n - 1
    BY <2>1, <2>3, Zenon
  <2>5. t = <<>> <=> Len(t) = 0
    OBVIOUS
  <2> QED
    BY <2>1, <2>2, <2>4, <2>5
<1>4. write_buf' = [write_buf EXCEPT ![p] = Tail(c)]
  <2>1. CASE Len(c) = 1
    BY <1>1, <1>3, <2>1 DEF WroteAll
  <2>2. CASE Len(c) # 1
    BY <1>1, <2>2 DEF BioInv, BioTypes
  <2> QED
    BY <2>1, <2>2
<1>5. /\ stage' \in [Side -> {"poll", "read", "write", "rest", "accept", "ended", "reads"}]
      /\ \A q \in Side : q # p => stage'[q] = stage[q]
      /\ stage'[p] \in {"write", "rest"}
      /\ stage'[p] = "write" => Len(c) # 1
  <2>1. CASE Len(c) = 1
    BY <1>1, <2>1 DEF WroteAll, Goes, BioInv, BioTypes
  <2>2. CASE Len(c) # 1
    BY <1>1, <2>2 DEF BioInv, BioTypes
  <2> QED
    BY <2>1, <2>2
<1>6. /\ write_buf' \in [Side -> Seq(AnyPiece)] /\ wire' \in [Side -> Seq(AnyPiece)]
      /\ write_buf'[p] = Tail(c) /\ wire'[p] = Append(w, Head(c))
      /\ \A q \in Side : q # p => write_buf'[q] = write_buf[q] /\ wire'[q] = wire[q]
  BY <1>1, <1>3, <1>4 DEF BioInv, BioTypes
<1>7. BioTypes'
  BY <1>5, <1>6 DEF BioInv, BioTypes
<1>8. HasOut'
  BY <1>3, <1>5, <1>6 DEF BioInv, HasOut
<1>9. stage'["server"] = "accept" <=> stage["server"] = "accept"
  BY <1>5 DEF Side
<1>10. Emptied'
  BY <1>9 DEF BioInv, Emptied
<1>11. Flows(p) => Flows(p)'
  <2>1. OnTheWay(p)' = OnTheWay(p)
    <3>1. WaySends(r, w, c, d)
      BY <1>2, WaySent, Zenon
    <3>2. OnTheWay(p)' = r \o Append(w, Head(c)) \o Tail(c) \o d
      BY <1>1, <1>6, Zenon DEF OnTheWay
    <3>3. OnTheWay(p) = r \o w \o c \o d
      BY <1>1, Zenon DEF OnTheWay
    <3> QED
      BY <3>1, <3>2, <3>3, Zenon DEF WaySends
  <2> QED
    BY <2>1, Zenon DEF Flows
<1>12. ASSUME NEW q \in Side, q # p, Flows(q) PROVE Flows(q)'
  BY <1>6, <1>12, FlowsOn
<1>13. InTouch' => AllFlows'
  <2>1. SUFFICES ASSUME InTouch PROVE AllFlows'
    BY DEF InTouch
  <2>2. AllFlows
    BY <2>1 DEF BioInv
  <2>3. stage["server"] = "accept" => p = "client" /\ wire'["server"] = wire["server"]
    BY <1>6 DEF Side
  <2> QED
    BY <1>9, <1>11, <1>12, <2>2, <2>3 DEF AllFlows, Unheard, Side
<1> QED
  BY <1>7, <1>8, <1>10, <1>13 DEF BioInv

LEMMA SockWriteKeeps ==
  ASSUME BioInv, NEW p \in Side, do_sock_write(p)
  PROVE  BioInv'
<1>1. stage[p] = "write" /\ UNCHANGED <<client_prog, taken, said, shown>>
  BY DEF do_sock_write, At, users
<1>2. CASE Goes(p, "rest") /\ UNCHANGED <<ssl_client, revents, socket>>
  <2>1. PICK e \in SUBSET {"in", "out", "err", "stdin"} : e = revents[p]
    BY DEF BioInv, BioTypes
  <2>2. revents' = [revents EXCEPT ![p] = e]
    BY <1>2, <2>1 DEF BioInv, BioTypes
  <2> QED
    BY <1>1, <1>2, <2>2, MoveKeeps
<1>3. CASE /\ "out" \in revents[p]
           /\ wire' = [wire EXCEPT ![p] = Append(@, Head(write_buf[p]))]
           /\ IF Len(write_buf[p]) = 1 THEN WroteAll(p)
              ELSE write_buf' = [write_buf EXCEPT ![p] = Tail(@)] /\ UNCHANGED stage
           /\ UNCHANGED <<done, rbio, wbio, encrypt_buf, revents, closed, refused>>
  BY <1>1, <1>3, SendKeeps
<1>4. CASE /\ Gone(p) /\ WroteAll(p)
           /\ UNCHANGED <<done, rbio, wbio, encrypt_buf, revents, wire, closed>>
  <2>1. ~ InTouch'
    BY <1>4 DEF Gone, InTouch
  <2>2. stage' = [stage EXCEPT ![p] = "rest"] /\ write_buf' = [write_buf EXCEPT ![p] = <<>>]
    BY <1>4 DEF WroteAll, Goes
  <2>3. <<>> \in Seq(AnyPiece)
    OBVIOUS
  <2>4. BioTypes'
    BY <1>1, <1>4, <2>2, <2>3 DEF BioInv, BioTypes
  <2>5. HasOut'
    BY <1>4, <2>2 DEF BioInv, BioTypes, HasOut
  <2>6. Emptied'
    BY <1>1, <1>4, <2>2 DEF BioInv, BioTypes, Emptied, Side
  <2> QED
    BY <2>1, <2>4, <2>5, <2>6 DEF BioInv
<1>5. CASE Leave(p) \/ LeaveFor(p, "ended")
  BY <1>1, <1>5, LeaveKeeps, LeaveForKeeps
<1> QED
  BY <1>2, <1>3, <1>4, <1>5, Zenon DEF do_sock_write

\* What a side has to be encrypted goes where it may go.
Encrypts(p, buf, e) ==
  /\ Streams(e.ssl) /\ e.left \in Seq(Nat) /\ e.ssl.rbio = rbio[p]
  /\ \E more \in Seq(AnyPiece) :
       /\ e.ssl.write_buf \o e.ssl.wbio = (write_buf[p] \o wbio[p]) \o more
       /\ Paired(more) /\ LinesOf(more) \o e.left = buf

LEMMA EncryptHandles ==
  ASSUME NEW p \in Side, BioTypes, NEW buf \in Seq(Nat), NEW e, e = do_encrypt(p, buf)
  PROVE  Encrypts(p, buf, e)
<1>1. PICK t : t = Of(p)
  OBVIOUS
<1>2. Streams(t) /\ t.rbio = rbio[p] /\ t.wbio = wbio[p] /\ t.write_buf = write_buf[p]
  BY <1>1, OfIs DEF Of
<1>3. PICK c \in Seq(AnyPiece), d \in Seq(AnyPiece) : c = t.write_buf /\ d = t.wbio
  BY <1>2 DEF Streams
<1>4. <<>> \in Seq(AnyPiece) /\ <<>> \in Seq(Nat)
  OBVIOUS
<1>5. CASE e = [ssl |-> t, left |-> buf]
  <2>1. e.ssl = t /\ e.left = buf
    BY <1>5
  <2>2. (c \o d) \o <<>> = c \o d
    OBVIOUS
  <2>3. Paired(<<>>) /\ LinesOf(<<>>) \o buf = buf
    <3>1. <<>> \o buf = buf
      OBVIOUS
    <3> QED
      BY <3>1, LinesOfNone DEF Paired
  <2>4. e.ssl.write_buf \o e.ssl.wbio = (write_buf[p] \o wbio[p]) \o <<>>
    BY <1>2, <1>3, <2>1, <2>2, Zenon
  <2>5. \E more \in Seq(AnyPiece) :
          /\ e.ssl.write_buf \o e.ssl.wbio = (write_buf[p] \o wbio[p]) \o more
          /\ Paired(more) /\ LinesOf(more) \o e.left = buf
    BY <1>4, <2>1, <2>3, <2>4, Zenon
  <2> QED
    BY <1>2, <2>1, <2>5, Zenon DEF Encrypts
<1>6. CASE e = [ssl |-> Queued([t EXCEPT !.wbio = @ \o Pieces(0, buf)]), left |-> <<>>]
  <2>1. PICK f \in Seq(AnyPiece) : f = Pieces(0, buf) /\ Paired(f) /\ LinesOf(f) = buf
    BY PiecesAre, PairedPieces
  <2>2. PICK g \in Seq(AnyPiece) : g = d \o f
    <3>1. d \o f \in Seq(AnyPiece)
      OBVIOUS
    <3> QED
      BY <3>1
  <2>3. PICK h \in Seq(AnyPiece) : h = c \o g
    <3>1. c \o g \in Seq(AnyPiece)
      OBVIOUS
    <3> QED
      BY <3>1
  <2>4. PICK k : k = [t EXCEPT !.wbio = g]
    OBVIOUS
  <2>5. /\ DOMAIN k = {"done", "rbio", "wbio", "write_buf"} /\ k.done = t.done
        /\ k.rbio = t.rbio /\ k.wbio = g /\ k.write_buf = c
    BY <1>2, <1>3, <2>4 DEF Streams
  <2>6. PICK m : m = Queued(k)
    OBVIOUS
  <2>7. m = [k EXCEPT !.write_buf = h, !.wbio = <<>>]
    BY <2>3, <2>5, <2>6 DEF Queued
  <2>8. /\ DOMAIN m = {"done", "rbio", "wbio", "write_buf"} /\ m.done = t.done
        /\ m.rbio = t.rbio /\ m.wbio = <<>> /\ m.write_buf = h
    BY <2>5, <2>7
  <2>9. e.ssl = m /\ e.left = <<>>
    <3>1. [t EXCEPT !.wbio = @ \o Pieces(0, buf)] = k
      BY <1>2, <1>3, <2>1, <2>2, <2>4
    <3>2. e.ssl = Queued([t EXCEPT !.wbio = @ \o Pieces(0, buf)]) /\ e.left = <<>>
      BY <1>6
    <3> QED
      BY <2>6, <3>1, <3>2, Zenon
  <2>10. Streams(m)
    BY <1>2, <1>4, <2>8 DEF Streams
  <2>11. h \o <<>> = (c \o d) \o f
    <3>1. (c \o d) \o f = c \o (d \o f)
      <4>1. Associates(c, d, f)
        BY PiecesAssociate, Zenon
      <4> QED
        BY <4>1, Zenon DEF Associates
    <3>2. h \o <<>> = h
      OBVIOUS
    <3> QED
      BY <2>2, <2>3, <3>1, <3>2, Zenon
  <2>12. LinesOf(f) \o <<>> = buf
    <3>1. buf \o <<>> = buf
      OBVIOUS
    <3> QED
      BY <2>1, <3>1
  <2>13. m.write_buf \o m.wbio = (write_buf[p] \o wbio[p]) \o f
    BY <1>2, <1>3, <2>8, <2>11, Zenon
  <2>14. \E more \in Seq(AnyPiece) :
           /\ e.ssl.write_buf \o e.ssl.wbio = (write_buf[p] \o wbio[p]) \o more
           /\ Paired(more) /\ LinesOf(more) \o e.left = buf
    BY <2>1, <2>9, <2>12, <2>13, Zenon
  <2> QED
    BY <1>2, <1>4, <2>8, <2>9, <2>10, <2>14, Zenon DEF Encrypts
<1> QED
  <2>1. \/ e = [ssl |-> t, left |-> buf]
        \/ e = [ssl |-> Queued([t EXCEPT !.wbio = @ \o Pieces(0, buf)]), left |-> <<>>]
    BY <1>1, Zenon DEF do_encrypt
  <2> QED
    BY <1>5, <1>6, <2>1

LEMMA EncryptKeeps ==
  ASSUME BioInv, NEW p \in Side, stage[p] = "rest",
         IF "stdin" \in revents[p] THEN do_stdin_read(p) ELSE UNCHANGED <<taken, said>>,
         NEW e, e = do_encrypt(p, encrypt_buf[p] \o JustRead(p)),
         Holds(p, e.ssl), encrypt_buf' = [encrypt_buf EXCEPT ![p] = e.left],
         Goes(p, "poll"), revents' = [revents EXCEPT ![p] = {}],
         UNCHANGED socket, UNCHANGED <<client_prog, shown>>
  PROVE  BioInv'
<1>1. BioTypes
  BY DEF BioInv
<1>2. PICK new \in Seq(Nat), en \in Seq(Nat) : new = JustRead(p) /\ en = encrypt_buf[p]
  <2>1. <<taken[p] + 1>> \in Seq(Nat) /\ <<>> \in Seq(Nat)
    BY <1>1 DEF BioTypes
  <2> QED
    BY <1>1, <2>1 DEF BioTypes, JustRead
<1>3. taken' \in [Side -> Nat] /\ said' = [said EXCEPT ![p] = @ \o new]
  <2>1. CASE "stdin" \in revents[p]
    <3>1. taken' = [taken EXCEPT ![p] = @ + 1] /\ said' = [said EXCEPT ![p] = @ \o JustRead(p)]
      BY <2>1, Zenon DEF do_stdin_read
    <3>2. taken' \in [Side -> Nat]
      BY <1>1, <3>1 DEF BioTypes
    <3> QED
      BY <1>2, <3>1, <3>2, Zenon
  <2>2. CASE "stdin" \notin revents[p]
    <3>1. PICK sd \in Seq(Nat) : sd = said[p]
      BY <1>1 DEF BioTypes
    <3>2. sd \o <<>> = sd
      OBVIOUS
    <3>3. [said EXCEPT ![p] = @ \o new] = said
      BY <1>1, <1>2, <2>2, <3>1, <3>2 DEF BioTypes, JustRead
    <3> QED
      BY <1>1, <2>2, <3>3 DEF BioTypes
  <2> QED
    BY <2>1, <2>2
<1>4. said' \in [Side -> Seq(Nat)] /\ said'[p] = said[p] \o new
      /\ \A q \in Side : q # p => said'[q] = said[q]
  <2>1. said[p] \o new \in Seq(Nat)
    BY <1>1 DEF BioTypes
  <2> QED
    BY <1>1, <1>3, <2>1 DEF BioTypes
<1>5. PICK buf \in Seq(Nat) : buf = en \o new
  <2>1. en \o new \in Seq(Nat)
    OBVIOUS
  <2> QED
    BY <2>1
<1>6. e = do_encrypt(p, buf)
  BY <1>2, <1>5
<1>7. /\ Streams(e.ssl) /\ e.left \in Seq(Nat) /\ e.ssl.rbio = rbio[p]
      /\ \E more \in Seq(AnyPiece) :
           /\ e.ssl.write_buf \o e.ssl.wbio = (write_buf[p] \o wbio[p]) \o more
           /\ Paired(more) /\ LinesOf(more) \o e.left = buf
  <2>1. Encrypts(p, buf, e)
    BY <1>1, <1>6, EncryptHandles
  <2> QED
    BY <2>1, Zenon DEF Encrypts
<1>8. PICK more \in Seq(AnyPiece) :
        /\ e.ssl.write_buf \o e.ssl.wbio = (write_buf[p] \o wbio[p]) \o more
        /\ Paired(more) /\ LinesOf(more) \o e.left = buf
  BY <1>7
<1>9. /\ done' \in [Side -> Nat]
      /\ rbio' \in [Side -> Seq(AnyPiece)] /\ wbio' \in [Side -> Seq(AnyPiece)]
      /\ write_buf' \in [Side -> Seq(AnyPiece)]
      /\ rbio'[p] = rbio[p] /\ wbio'[p] = e.ssl.wbio /\ write_buf'[p] = e.ssl.write_buf
      /\ \A q \in Side : q # p => /\ rbio'[q] = rbio[q] /\ wbio'[q] = wbio[q]
                                  /\ write_buf'[q] = write_buf[q]
  BY <1>1, <1>7, HoldsIs
<1>10. /\ stage' \in [Side -> {"poll", "read", "write", "rest", "accept", "ended", "reads"}]
       /\ stage'[p] = "poll" /\ \A q \in Side : q # p => stage'[q] = stage[q]
       /\ stage'["server"] = "accept" <=> stage["server"] = "accept"
       /\ stage["server"] = "accept" => p = "client"
  BY <1>1, GoesIs
<1>11. /\ encrypt_buf' \in [Side -> Seq(Nat)] /\ encrypt_buf'[p] = e.left
       /\ \A q \in Side : q # p => encrypt_buf'[q] = encrypt_buf[q]
  BY <1>1, <1>7 DEF BioTypes
<1>12. /\ revents' \in [Side -> SUBSET {"in", "out", "err", "stdin"}]
       /\ \A q \in Side : q # p => revents'[q] = revents[q]
  BY <1>1 DEF BioTypes
<1>13. wire' = wire /\ closed' = closed /\ client_prog' = client_prog /\ shown' = shown
  BY DEF socket
<1>14. BioTypes'
  BY <1>1, <1>3, <1>4, <1>9, <1>10, <1>11, <1>12, <1>13 DEF BioTypes
<1>15. HasOut'
  <2>1. ASSUME NEW q \in Side, stage'[q] \in {"read", "write"}, "out" \in revents'[q]
        PROVE  write_buf'[q] # <<>>
    <3>1. q # p
      BY <1>10, <2>1
    <3> QED
      BY <1>9, <1>10, <1>12, <2>1, <3>1 DEF BioInv, HasOut
  <2> QED
    BY <2>1 DEF HasOut
<1>16. Emptied'
  BY <1>9, <1>10 DEF BioInv, Emptied, Side
<1>17. rbio' = rbio
  BY <1>1, <1>9 DEF BioTypes
<1>18. Flows(p) => Flows(p)'
  <2>1. LinesOf(more) \o encrypt_buf'[p] = encrypt_buf[p] \o new
    BY <1>2, <1>5, <1>8, <1>11, Zenon
  <2>2. write_buf'[p] \o wbio'[p] = (write_buf[p] \o wbio[p]) \o more
    BY <1>8, <1>9, Zenon
  <2>3. rbio'[Other(p)] = rbio[Other(p)] /\ wire'[p] = wire[p] /\ shown'[Other(p)] = shown[Other(p)]
    BY <1>13, <1>17, Zenon
  <2> QED
    BY <1>1, <1>4, <1>8, <1>14, <2>1, <2>2, <2>3, FlowsGrows, Zenon
<1>19. ASSUME NEW q \in Side, q # p, Flows(q) PROVE Flows(q)'
  BY <1>4, <1>9, <1>11, <1>13, <1>17, <1>19, FlowsOn
<1>20. InTouch' => AllFlows'
  <2>1. SUFFICES ASSUME InTouch PROVE AllFlows'
    BY <1>13 DEF InTouch
  <2>2. AllFlows
    BY <2>1 DEF BioInv
  <2> QED
    BY <1>4, <1>10, <1>13, <1>17, <1>18, <1>19, <2>2 DEF AllFlows, Unheard, Side
<1> QED
  BY <1>14, <1>15, <1>16, <1>20 DEF BioInv

LEMMA RestKeeps ==
  ASSUME BioInv, NEW p \in Side, Rest(p)
  PROVE  BioInv'
<1>1. stage[p] = "rest" /\ UNCHANGED <<client_prog, shown>>
  BY DEF Rest, At
<1>2. CASE Leave(p) /\ UNCHANGED <<taken, said>>
  BY <1>1, <1>2, LeaveKeeps
<1>3. CASE /\ IF "stdin" \in revents[p] THEN do_stdin_read(p) ELSE UNCHANGED <<taken, said>>
           /\ \E e \in {do_encrypt(p, encrypt_buf[p] \o JustRead(p))} :
                Holds(p, e.ssl) /\ encrypt_buf' = [encrypt_buf EXCEPT ![p] = e.left]
           /\ Goes(p, "poll")
           /\ revents' = [revents EXCEPT ![p] = {}]
           /\ UNCHANGED socket
  BY <1>1, <1>3, EncryptKeeps
<1> QED
  BY <1>2, <1>3, Zenon DEF Rest

LEMMA TlsClientKeeps ==
  ASSUME BioInv, NEW d, bio_tls_client(d)
  PROVE  BioInv'
<1>1. PICK t : t = [done |-> 1, rbio |-> <<>>, wbio |-> <<>>, write_buf |-> Pieces(1, <<>>)]
  OBVIOUS
<1>2. /\ <<>> \in Seq(AnyPiece) /\ <<>> \in Seq(Nat) /\ "client" \in Side /\ "server" \in Side
      /\ Other("client") = "server" /\ Other("server") = "client"
  BY DEF Side, Other
<1>3. PICK f \in Seq(AnyPiece) : f = Pieces(1, <<>>) /\ Paired(f) /\ LinesOf(f) = <<>>
  BY <1>2, PiecesAre, PairedPieces
<1>4. Streams(t) /\ t.rbio = <<>> /\ t.wbio = <<>> /\ t.write_buf = f
  BY <1>1, <1>2, <1>3 DEF Streams
<1>5. /\ stage["client"] = "ended" /\ stage["server"] = "accept"
      /\ stage' = [stage EXCEPT !["client"] = "poll"] /\ revents' = revents /\ taken' = taken
      /\ said' = Both(<<>>) /\ shown' = Both(<<>>) /\ wire' = Both(<<>>)
      /\ encrypt_buf' = [encrypt_buf EXCEPT !["client"] = <<>>] /\ Holds("client", t)
  BY <1>1 DEF bio_tls_client, Connect, Goes
<1>6. BioTypes
  BY DEF BioInv
<1>7. /\ done' \in [Side -> Nat]
      /\ rbio' \in [Side -> Seq(AnyPiece)] /\ wbio' \in [Side -> Seq(AnyPiece)]
      /\ write_buf' \in [Side -> Seq(AnyPiece)]
      /\ rbio'["client"] = <<>> /\ wbio'["client"] = <<>> /\ write_buf'["client"] = f
      /\ \A q \in Side : q # "client" => /\ rbio'[q] = rbio[q] /\ wbio'[q] = wbio[q]
                                         /\ write_buf'[q] = write_buf[q]
  BY <1>2, <1>4, <1>5, <1>6, HoldsIs
<1>8. /\ stage' \in [Side -> {"poll", "read", "write", "rest", "accept", "ended", "reads"}]
      /\ stage'["client"] = "poll" /\ stage'["server"] = "accept"
  BY <1>2, <1>5, <1>6 DEF BioTypes
<1>9. encrypt_buf' \in [Side -> Seq(Nat)] /\ encrypt_buf'["client"] = <<>>
  BY <1>2, <1>5, <1>6 DEF BioTypes
<1>10. /\ said' \in [Side -> Seq(Nat)] /\ shown' \in [Side -> Seq(Nat)]
       /\ wire' \in [Side -> Seq(AnyPiece)]
       /\ \A q \in Side : said'[q] = <<>> /\ shown'[q] = <<>> /\ wire'[q] = <<>>
  BY <1>2, <1>5 DEF Both
<1>11. BioTypes'
  BY <1>5, <1>6, <1>7, <1>8, <1>9, <1>10 DEF BioTypes
<1>12. HasOut' /\ rbio["server"] = <<>> /\ wbio["server"] = <<>>
  BY <1>5, <1>8 DEF BioInv, HasOut, Emptied, Side
<1>13. Emptied'
  BY <1>2, <1>7, <1>12 DEF Emptied
<1>14. OnTheWay("client")' = f
  <2>1. rbio'["server"] = <<>> /\ wire'["client"] = <<>> /\ write_buf'["client"] = f /\ wbio'["client"] = <<>>
    BY <1>2, <1>7, <1>10, <1>12
  <2>2. <<>> \o <<>> \o f \o <<>> = f
    <3>1. <<>> \o <<>> = <<>>
      OBVIOUS
    <3>2. <<>> \o f = f
      OBVIOUS
    <3>3. f \o <<>> = f
      OBVIOUS
    <3> QED
      BY <3>1, <3>2, <3>3, Zenon
  <2> QED
    BY <1>2, <2>1, <2>2, Zenon DEF OnTheWay
<1>15. Flows("client")'
  <2>1. said'["client"] = <<>> /\ shown'["server"] = <<>> /\ encrypt_buf'["client"] = <<>>
    BY <1>2, <1>9, <1>10
  <2>2. <<>> = <<>> \o <<>> \o <<>>
    OBVIOUS
  <2> QED
    BY <1>2, <1>3, <1>14, <2>1, <2>2, Zenon DEF Flows
<1>16. Unheard'
  BY <1>2, <1>7, <1>10 DEF Unheard
<1>17. AllFlows'
  BY <1>8, <1>15, <1>16 DEF AllFlows
<1> QED
  BY <1>11, <1>12, <1>13, <1>17 DEF BioInv

LEMMA TcpClientKeeps ==
  ASSUME BioInv, NEW d, bio_tcp_client(d)
  PROVE  BioInv'
<1>1. /\ stage["client"] = "ended" /\ stage' = [stage EXCEPT !["client"] = "reads"]
      /\ client_prog' = "bio_tcp_client" /\ revents' = revents /\ taken' = taken
      /\ said' = Both(<<>>) /\ shown' = Both(<<>>)
      /\ wire' = [Both(<<>>) EXCEPT !["client"] = Junk]
      /\ UNCHANGED <<done, rbio, wbio, write_buf, encrypt_buf>>
  BY DEF bio_tcp_client, Connect, Goes, ssl_client
<1>2. <<>> \in Seq(AnyPiece) /\ <<>> \in Seq(Nat) /\ Junk \in Seq(AnyPiece)
  <2>1. <<>> \in Seq(AnyPiece) /\ <<>> \in Seq(Nat)
    OBVIOUS
  <2>2. Junk \in Seq(AnyPiece)
    BY <2>1, PiecesAre DEF Junk
  <2> QED
    BY <2>1, <2>2
<1>3. BioTypes'
  <2>1. wire' \in [Side -> Seq(AnyPiece)]
    BY <1>1, <1>2 DEF Both
  <2>2. said' \in [Side -> Seq(Nat)] /\ shown' \in [Side -> Seq(Nat)]
    BY <1>1, <1>2 DEF Both
  <2>3. stage' \in [Side -> {"poll", "read", "write", "rest", "accept", "ended", "reads"}]
    BY <1>1 DEF BioInv, BioTypes
  <2> QED
    BY <1>1, <2>1, <2>2, <2>3 DEF BioInv, BioTypes
<1>4. HasOut'
  BY <1>1 DEF BioInv, BioTypes, HasOut
<1>5. Emptied'
  <2>1. stage'["server"] = stage["server"]
    BY <1>1 DEF BioInv, BioTypes, Side
  <2> QED
    BY <1>1, <2>1 DEF BioInv, Emptied
<1>6. ~ InTouch'
  BY <1>1 DEF InTouch
<1> QED
  BY <1>3, <1>4, <1>5, <1>6 DEF BioInv

\* What the server had for its last client is gone with it.
LEMMA AcceptBioKeeps ==
  ASSUME BioInv, Accept
  PROVE  BioInv'
<1>1. /\ stage["server"] = "accept" /\ stage' = [stage EXCEPT !["server"] = "poll"]
      /\ revents' = revents /\ taken' = taken /\ said' = said /\ shown' = shown /\ wire' = wire
      /\ closed' = closed /\ client_prog' = client_prog
      /\ encrypt_buf' = [encrypt_buf EXCEPT !["server"] = <<>>] /\ Holds("server", NoSsl)
  BY DEF Accept, Goes, ssl_client_init, socket, users
<1>2. /\ <<>> \in Seq(AnyPiece) /\ <<>> \in Seq(Nat) /\ "client" \in Side /\ "server" \in Side
      /\ Other("client") = "server" /\ Other("server") = "client"
  BY DEF Side, Other
<1>3. BioTypes /\ NoSsl.rbio = <<>> /\ NoSsl.wbio = <<>> /\ NoSsl.write_buf = <<>>
  BY DEF BioInv, NoSsl
<1>4. /\ done' \in [Side -> Nat]
      /\ rbio' \in [Side -> Seq(AnyPiece)] /\ wbio' \in [Side -> Seq(AnyPiece)]
      /\ write_buf' \in [Side -> Seq(AnyPiece)]
      /\ rbio'["server"] = <<>> /\ wbio'["server"] = <<>> /\ write_buf'["server"] = <<>>
      /\ \A q \in Side : q # "server" => /\ rbio'[q] = rbio[q] /\ wbio'[q] = wbio[q]
                                         /\ write_buf'[q] = write_buf[q]
  BY <1>1, <1>2, <1>3, NoSslIs, HoldsIs
<1>5. /\ stage' \in [Side -> {"poll", "read", "write", "rest", "accept", "ended", "reads"}]
      /\ stage'["server"] = "poll" /\ \A q \in Side : q # "server" => stage'[q] = stage[q]
  BY <1>1, <1>2, <1>3 DEF BioTypes
<1>6. /\ encrypt_buf' \in [Side -> Seq(Nat)] /\ encrypt_buf'["server"] = <<>>
      /\ encrypt_buf'["client"] = encrypt_buf["client"]
  BY <1>1, <1>2, <1>3 DEF BioTypes
<1>7. BioTypes'
  BY <1>1, <1>3, <1>4, <1>5, <1>6 DEF BioTypes
<1>8. HasOut'
  BY <1>1, <1>4, <1>5 DEF BioInv, HasOut
<1>9. Emptied'
  BY <1>5 DEF Emptied
<1>10. InTouch' => AllFlows'
  <2>1. SUFFICES ASSUME InTouch PROVE AllFlows'
    BY <1>1 DEF InTouch
  <2>2. Flows("client") /\ Unheard /\ rbio["server"] = <<>>
    BY <1>1, <2>1 DEF BioInv, AllFlows, Emptied
  <2>3. Flows("client")'
    BY <1>1, <1>2, <1>4, <1>6, <2>2, FlowsOn
  <2>4. OnTheWay("server")' = <<>>
    <3>1. rbio'["client"] = <<>> /\ wire'["server"] = <<>> /\ write_buf'["server"] = <<>> /\ wbio'["server"] = <<>>
      BY <1>1, <1>2, <1>4, <2>2 DEF Unheard
    <3>2. <<>> \o <<>> \o <<>> \o <<>> = <<>>
      OBVIOUS
    <3> QED
      BY <1>2, <3>1, <3>2, Zenon DEF OnTheWay
  <2>5. Flows("server")'
    <3>1. said'["server"] = <<>> /\ shown'["client"] = <<>> /\ encrypt_buf'["server"] = <<>>
      BY <1>1, <1>6, <2>2 DEF Unheard
    <3>2. <<>> = <<>> \o <<>> \o <<>>
      OBVIOUS
    <3>3. Paired(<<>>)
      BY <1>2, PairedPieces
    <3> QED
      BY <1>2, <2>4, <3>1, <3>2, <3>3, LinesOfNone, Zenon DEF Flows
  <2> QED
    BY <1>5, <2>3, <2>5 DEF AllFlows
<1> QED
  BY <1>7, <1>8, <1>9, <1>10 DEF BioInv

LEMMA BioUnchanged ==
  ASSUME BioInv,
         UNCHANGED <<stage, client_prog, ssl_client, revents, socket, taken, said, shown>>
  PROVE  BioInv'
<1>1. UNCHANGED <<done, rbio, wbio, write_buf, encrypt_buf, wire, closed>>
  BY DEF ssl_client, socket
<1>2. BioTypes' /\ HasOut' /\ Emptied'
  BY <1>1 DEF BioInv, BioTypes, HasOut, Emptied
<1>3. ASSUME NEW q \in Side, Flows(q) PROVE Flows(q)'
  BY <1>1, <1>3, FlowsOn
<1>4. InTouch' => AllFlows'
  BY <1>1, <1>3 DEF BioInv, InTouch, AllFlows, Unheard, Side
<1> QED
  BY <1>2, <1>4 DEF BioInv

LEMMA BioNextKeeps ==
  ASSUME BioInv, BioNext
  PROVE  BioInv'
<1>1. ASSUME NEW p \in Side, Loop(p) PROVE BioInv'
  BY <1>1, PollKeeps, SockReadKeeps, SockWriteKeeps, RestKeeps DEF Loop
<1>2. ASSUME NEW p \in Side, Type(p) PROVE BioInv'
  BY <1>2, BioUnchanged DEF Type
<1>3. ASSUME NEW d \in Handshakes, bio_tls_client(d) \/ bio_tcp_client(d) PROVE BioInv'
  BY <1>3, TlsClientKeeps, TcpClientKeeps
<1>4. CASE bio_tcp_client_reads \/ InterruptBio
  <2>1. "client" \in Side /\ Leave("client") /\ UNCHANGED <<taken, said, shown>>
    BY <1>4 DEF bio_tcp_client_reads, InterruptBio, users, Side
  <2> QED
    BY <2>1, LeaveKeeps
<1> QED
  BY <1>1, <1>2, <1>3, <1>4, AcceptBioKeeps DEF BioNext

(***************************************************************************)
(* Neither user's words are lost: while both ends are open, every line     *)
(* that was read from one keyboard is at one place on its way to the other *)
(* screen, in order, and nothing of an earlier connection is among them,   *)
(* whatever the handshake and the round of the loop, for any number of     *)
(* lines, of connections, and of pieces that a socket takes.               *)
(***************************************************************************)
THEOREM TlsNothingLost == Spec => []NothingLost
<1>1. Init => BioInv
  BY InitBioInv DEF Init
<1>2. BioInv /\ [Next]_vars => BioInv'
  <2> SUFFICES ASSUME BioInv, [Next]_vars PROVE BioInv'
    OBVIOUS
  <2>1. CASE BioNext
    BY <2>1, BioNextKeeps
  <2>2. CASE UNCHANGED bioVars
    BY <2>2, BioUnchanged DEF bioVars, users
  <2> QED
    BY <2>1, <2>2 DEF Next, vars
<1>3. BioInv => NothingLost
  <2> SUFFICES ASSUME BioInv, Talking, NEW p \in Side
               PROVE  said[p] = shown[Other(p)] \o LinesOf(OnTheWay(p)) \o encrypt_buf[p]
    BY DEF NothingLost
  <2>1. Flows(p)
    BY DEF BioInv, Talking, InTouch, AllFlows, Side
  <2> QED
    BY <2>1, Zenon DEF Flows
<1> QED
  BY <1>1, <1>2, <1>3, PTL DEF Spec
=============================================================================
