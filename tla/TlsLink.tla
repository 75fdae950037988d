------------------------------ MODULE TlsLink ------------------------------
(***************************************************************************)
(* What the TLS samples stand on and the repository does not contain: TCP  *)
(* connections between a client and a server, and the TLS library of each  *)
(* side.  A handshake is a sequence of flights, the odd ones sent by the   *)
(* client: the server sends the last, which the client waits for when      *)
(* there are four (TLS 1.2) and does not when there are three (TLS 1.3,    *)
(* where the last are the server's session tickets).  A call of the        *)
(* library has as its result the connection as the call leaves it and the  *)
(* call's outcome; Handshake is the set of its possible results.           *)
(***************************************************************************)
EXTENDS Naturals, Sequences

Side == {"client", "server"}

Other(s) == IF s = "client" THEN "server" ELSE "client"

Flight == <<"hello", "certificate", "finished", "last">>

Data == {"request", "response"}

Message == Data \union {"notify", "alert", "junk"} \union {Flight[n] : n \in 1..4}

Outcome == {"ok", "again", "notify", "eof", "reset", "error"}

(***************************************************************************)
(* open: the sides that have not closed it; sent: what each side has sent  *)
(* and the other has not taken; done: the flights each side is through     *)
(* with; reset: a RST has reached the side that is left; lost: the network *)
(* is gone and every call fails; cut: only a part of a message is there    *)
(* when it is read for the first time; full: the sender's buffers take no more,  *)
(* which the network may do to a connection once (filled); refuser: the    *)
(* side that will not accept the other's certificate.                      *)
(***************************************************************************)
Link ==
  [ open : SUBSET Side, sent : [Side -> Seq(Message)], done : [Side -> 0..4],
    flights : {0, 3, 4}, refuser : Side \union {"nobody"},
    reset : BOOLEAN, lost : BOOLEAN, cut : BOOLEAN, full : BOOLEAN, filled : BOOLEAN ]

Fresh(flights, refuser) ==
  [ open |-> {}, sent |-> [s \in Side |-> <<>>], done |-> [s \in Side |-> 0],
    flights |-> flights, refuser |-> refuser,
    reset |-> FALSE, lost |-> FALSE, cut |-> FALSE, full |-> FALSE, filled |-> FALSE ]

Connected(l) == [l EXCEPT !.open = Side]

Inbox(l, s) == l.sent[Other(s)]

Taken(l, s) == [l EXCEPT !.sent[Other(s)] = Tail(@)]

Secure(l, s) ==
  l.done[s] = IF s = "server" /\ l.flights = 3 THEN 4 ELSE l.flights

(***************************************************************************)
(* close.  Data that was not read turns the FIN into a RST.  Nothing is    *)
(* kept of a connection that neither side has open.                        *)
(***************************************************************************)
Close(l, s) ==
  IF Other(s) \in l.open
    THEN [l EXCEPT !.open = @ \ {s}, !.reset = @ \/ Inbox(l, s) # <<>>,
                   !.sent[Other(s)] = <<>>]
    ELSE [Fresh(l.flights, l.refuser) EXCEPT !.filled = l.filled]

(* A close with a RST at once. *)
Abort(l, s) ==
  IF Other(s) \in l.open
    THEN [l EXCEPT !.open = @ \ {s}, !.reset = TRUE, !.sent = [t \in Side |-> <<>>]]
    ELSE Close(l, s)

(* What a read of the socket gives when no message is waiting. *)
Silence(l, s) ==
  IF l.lost THEN "error"
  ELSE IF l.reset THEN "reset"
  ELSE IF Other(s) \notin l.open THEN "eof"
  ELSE "again"

Result(l, out) == [link |-> l, out |-> out]

(* A write of the socket: a peer that has closed answers it with a RST. *)
Put(l, s, m) ==
  IF l.lost THEN Result(l, "error")
  ELSE IF l.reset THEN Result(l, "reset")
  ELSE IF Other(s) \notin l.open THEN Result([l EXCEPT !.reset = TRUE], "ok")
  ELSE IF l.full THEN Result(l, "again")
  ELSE Result([l EXCEPT !.sent[s] = Append(@, m)], "ok")

(***************************************************************************)
(* SSL_do_handshake, SSL_accept, SSL_connect, mbedtls_ssl_handshake: takes *)
(* the flight that is due from the peer, if it is there, sends the one     *)
(* that is due from this side, and says what it waits for.  writing tells  *)
(* WANT_WRITE from WANT_READ.                                              *)
(***************************************************************************)
IsMine(n, s) == (n % 2 = 1) <=> (s = "client")

Due(l, s) == l.done[s] + 1

Took(l, s) ==
  IF ~Secure(l, s) /\ ~IsMine(Due(l, s), s) /\ Inbox(l, s) # <<>>
       /\ Head(Inbox(l, s)) = Flight[Due(l, s)] /\ ~l.lost
    THEN [Taken(l, s) EXCEPT !.done[s] = @ + 1] ELSE l

(* The flight with the certificate of the other side is one of the peer's. *)
Refuses(l, s) == l.refuser = s /\ l.done[s] >= 2 /\ ~IsMine(l.done[s], s)

Alerted(l, s) == Put(l, s, "alert").link

Gave(l, s) ==
  IF ~Secure(l, s) /\ IsMine(Due(l, s), s) /\ Put(l, s, Flight[Due(l, s)]).out = "ok"
    THEN [Put(l, s, Flight[Due(l, s)]).link EXCEPT !.done[s] = @ + 1] ELSE l

HandshakeOutcome(l, s) ==
  IF Secure(l, s) THEN "ok"
  ELSE IF IsMine(Due(l, s), s) THEN Put(l, s, Flight[Due(l, s)]).out
  ELSE IF Inbox(l, s) # <<>> THEN "error"
  ELSE Silence(l, s)

Progress(l, s) ==
  LET outcome == HandshakeOutcome(l, s)
  IN  IF outcome = "error" /\ Inbox(l, s) # <<>>
        THEN Result(Alerted(Taken(l, s), s), "error")
        ELSE Result(l, outcome)

Handshake(l, s) ==
  UNION { IF Refuses(took, s)
            THEN {Result(Alerted([took EXCEPT !.done[s] = @ - 1], s), "error")}
            ELSE {Progress(left, s) : left \in {Gave(took, s)}}
          : took \in {Took(l, s)} }

Writing(l, s) == ~Secure(l, s) /\ IsMine(Due(l, s), s)

(* SSL_write, mbedtls_ssl_write, SSL_shutdown, mbedtls_ssl_close_notify. *)
Write(l, s, m) == IF Secure(l, s) THEN Put(l, s, m) ELSE Result(l, "error")

(* SSL_read, mbedtls_ssl_read: session tickets are read on the way. *)
Untaken(l, s) ==
  IF Inbox(l, s) # <<>> /\ Head(Inbox(l, s)) = "last" THEN Taken(l, s) ELSE l

FirstMessage(l, s) ==
  IF Inbox(l, s) = <<>> THEN Result(l, Silence(l, s))
  ELSE IF l.cut THEN Result([l EXCEPT !.cut = FALSE], "again")
  ELSE Result(Taken(l, s),
              IF Head(Inbox(l, s)) \in Data THEN "ok"
              ELSE IF Head(Inbox(l, s)) = "notify" THEN "notify"
              ELSE "error")

Read(l, s) ==
  IF ~Secure(l, s) \/ l.lost THEN Result(l, "error") ELSE FirstMessage(Untaken(l, s), s)

(* What epoll and poll report of a connection. *)
Readable(l, s) == Inbox(l, s) # <<>> \/ Silence(l, s) # "again"
Writable(l) == ~l.full \/ l.reset \/ l.lost
Broken(l) == l.reset \/ l.lost

(* What the network may do to a connection, and how it recovers. *)
Lose(l) == [l EXCEPT !.lost = TRUE]
Cut(l) == [l EXCEPT !.cut = TRUE]
Fill(l) == [l EXCEPT !.full = TRUE, !.filled = TRUE]
Drain(l) == [l EXCEPT !.full = FALSE]
============================================================================
