------------------------------ MODULE BioPeers ------------------------------
(***************************************************************************)
(* openssl_bio_hello: bio_tls_server and bio_tls_client, two users who     *)
(* type lines to each other.  TLS runs on a pair of memory BIOs; the       *)
(* program itself carries what is encrypted between them and a socket that *)
(* blocks, in one poll loop (common.h).  A message on the wire is a flight *)
(* of the handshake or a record with lines, in two pieces, as many as a    *)
(* read of 64 bytes may cut it into.                                       *)
(***************************************************************************)
EXTENDS TlsLink, SequencesExt

CONSTANTS
  Handshakes, \* the handshakes that are made: a subset of {3, 4}
  Lines,      \* how many lines the users type
  Capacity,   \* how many pieces a socket takes before it is full
  Runs        \* how often a client is started

VARIABLES
  stage,        \* [Side -> where in its loop]
  client_prog,  \* the program that the client's user has started
  flights,      \* flights of this connection's handshake
  done,         \* [Side -> flights it is through with]
  rbio, wbio,   \* [Side -> Seq(Piece)]: struct ssl_client
  write_buf,
  encrypt_buf,  \* [Side -> Seq(line)]
  revents,      \* [Side -> what poll has reported]
  wire,         \* [Side -> Seq(Piece)]: sent by it and not read
  closed,       \* the sides that have closed the socket
  refused,      \* data was not read when the socket was closed
  typed,        \* [Side -> lines its user has typed]
  taken,        \* [Side -> lines it has read from stdin]
  said,         \* [Side -> Seq(line)]: read from stdin in this connection
  shown,        \* [Side -> Seq(line)]: printed in this connection
  runs          \* clients started

ssl_client == <<done, rbio, wbio, write_buf, encrypt_buf>>
socket == <<wire, closed, refused>>
users == <<typed, taken, said, shown>>
bioVars == <<stage, client_prog, flights, ssl_client, revents, socket, users, runs>>

Programs == {"bio_tls_client", "bio_tcp_client"}

Piece == [flight : 0..4, lines : Seq(1..Lines), part : {1, 2}]

Pieces(flight, lines) ==
  <<[flight |-> flight, lines |-> lines, part |-> 1],
    [flight |-> flight, lines |-> lines, part |-> 2]>>

Junk == Pieces(0, <<>>)

Both(x) == [s \in Side |-> x]

BioInit ==
  /\ stage = [server |-> "accept", client |-> "ended"]
  /\ client_prog = "bio_tls_client"
  /\ flights = 0
  /\ done = Both(0)
  /\ rbio = Both(<<>>) /\ wbio = Both(<<>>)
  /\ write_buf = Both(<<>>) /\ encrypt_buf = Both(<<>>)
  /\ revents = Both({})
  /\ wire = Both(<<>>) /\ closed = Side /\ refused = FALSE
  /\ typed = Both(0) /\ taken = Both(0) /\ said = Both(<<>>) /\ shown = Both(<<>>)
  /\ runs = 0

----------------------------------------------------------------------------
(* The TLS library on its BIOs: external. *)

is_init_finished(d, p) ==
  d = IF p = "server" /\ flights = 3 THEN 4 ELSE flights

(* [done, rbio, wbio] after SSL_do_handshake. *)
TakeFlight(t, p) ==
  IF /\ ~is_init_finished(t.done, p) /\ ~IsMine(t.done + 1, p)
     /\ IsPrefix(Pieces(t.done + 1, <<>>), t.rbio)
    THEN [t EXCEPT !.done = @ + 1, !.rbio = SubSeq(@, 3, Len(@))] ELSE t

GiveFlight(t, p) ==
  IF ~is_init_finished(t.done, p) /\ IsMine(t.done + 1, p)
    THEN [t EXCEPT !.done = @ + 1, !.wbio = @ \o Pieces(t.done + 1, <<>>)] ELSE t

SSL_do_handshake(t, p) == GiveFlight(TakeFlight(t, p), p)

(* What is not a flight of this handshake is an error. *)
Garbled(t, p) ==
  ~is_init_finished(t.done, p) /\ t.rbio # <<>> /\ t.rbio[1].flight # t.done + 1

(* SSL_read until there is no whole message left: the lines and the rest. *)
SSL_read(t) ==
  IF Len(t.rbio) < 2 THEN [lines |-> <<>>, rest |-> t.rbio]
  ELSE [lines |-> t.rbio[1].lines, rest |-> SubSeq(t.rbio, 3, Len(t.rbio))]

----------------------------------------------------------------------------
(* common.h *)

(* BIO_read of wbio and queue_encrypted_bytes until it is empty. *)
Queued(t) == [t EXCEPT !.write_buf = @ \o t.wbio, !.wbio = <<>>]

(* The handshake's output is queued only while the handshake goes on. *)
do_ssl_handshake(t, p) ==
  LET after == SSL_do_handshake(t, p)
  IN  IF is_init_finished(after.done, p) THEN after ELSE Queued(after)

Of(p) == [done |-> done[p], rbio |-> rbio[p], wbio |-> wbio[p], write_buf |-> write_buf[p]]

(* Mutant: what SSL_read leaves to be written is not queued. *)
ReadAndNotQueue(t) ==
  [ssl |-> [t EXCEPT !.rbio = SSL_read(t).rest], lines |-> SSL_read(t).lines, failed |-> FALSE]

(* The lower half of on_read_cb: lines are printed, output is queued. *)
ReadAndQueue(t) ==
  [ssl |-> Queued([t EXCEPT !.rbio = SSL_read(t).rest]),
   lines |-> SSL_read(t).lines, failed |-> FALSE]

on_read_cb(p, piece) ==
  LET fed  == [Of(p) EXCEPT !.rbio = Append(@, piece)]
      next == IF is_init_finished(fed.done, p) THEN fed ELSE do_ssl_handshake(fed, p)
  IN  CASE Garbled(fed, p) -> [ssl |-> fed, lines |-> <<>>, failed |-> TRUE]
        [] ~Garbled(fed, p) /\ is_init_finished(next.done, p) -> ReadAndQueue(next)
        [] OTHER -> [ssl |-> next, lines |-> <<>>, failed |-> FALSE]

Holds(p, t) ==
  /\ done' = [done EXCEPT ![p] = t.done]
  /\ rbio' = [rbio EXCEPT ![p] = t.rbio]
  /\ wbio' = [wbio EXCEPT ![p] = t.wbio]
  /\ write_buf' = [write_buf EXCEPT ![p] = t.write_buf]

NoSsl == [done |-> 0, rbio |-> <<>>, wbio |-> <<>>, write_buf |-> <<>>]

(* Mutant: encrypt_buf is what it was for the last client. *)
InitButForEncryptBuf ==
  /\ Holds("server", NoSsl)
  /\ UNCHANGED encrypt_buf

(* ssl_client_cleanup frees the buffers; ssl_client_init forgets them. *)
ssl_client_init ==
  /\ Holds("server", NoSsl)
  /\ encrypt_buf' = [encrypt_buf EXCEPT !["server"] = <<>>]

----------------------------------------------------------------------------
(* The event loop, which is the same in both programs. *)

At(p, s) == stage[p] = s /\ (p = "client" => client_prog = "bio_tls_client")

Goes(p, s) == stage' = [stage EXCEPT ![p] = s]

(***************************************************************************)
(* close and ssl_client_cleanup.  In the server encrypt_buf and write_buf  *)
(* are freed, and still hold what they held: that they are used no more is *)
(* ssl_client_init's doing.                                                *)
(***************************************************************************)
LeaveFor(p, s) ==
  /\ Goes(p, s)
  /\ closed' = closed \union {p}
  /\ refused' = (refused \/ wire[Other(p)] # <<>>)
  /\ wire' = [wire EXCEPT ![Other(p)] = <<>>]
  /\ revents' = [revents EXCEPT ![p] = {}]
  /\ Holds(p, IF p = "server" THEN [NoSsl EXCEPT !.write_buf = write_buf[p]] ELSE NoSsl)
  /\ encrypt_buf' = IF p = "server" THEN encrypt_buf ELSE [encrypt_buf EXCEPT ![p] = <<>>]

(* A client's process ends with its connection. *)
Leave(p) == LeaveFor(p, IF p = "server" THEN "accept" ELSE "ended")

Gone(p) == Other(p) \in closed

Ready(p) ==
  (IF wire[Other(p)] # <<>> \/ Gone(p) THEN {"in"} ELSE {})
  \union (IF write_buf[p] # <<>> /\ (Len(wire[p]) < Capacity \/ Gone(p)) THEN {"out"} ELSE {})
  \union (IF refused THEN {"err"} ELSE {})
  \union (IF taken[p] < typed[p] THEN {"stdin"} ELSE {})

Poll(p) ==
  /\ At(p, "poll")
  /\ Ready(p) # {}
  /\ revents' = [revents EXCEPT ![p] = Ready(p)]
  /\ Goes(p, "read")
  /\ UNCHANGED <<client_prog, flights, ssl_client, socket, users, runs>>

do_sock_read(p) ==
  /\ At(p, "read")
  /\ \/ /\ "in" \notin revents[p]
        /\ Goes(p, "write")
        /\ UNCHANGED <<ssl_client, revents, socket, shown>>
     \/ /\ "in" \in revents[p]
        /\ wire[Other(p)] # <<>>
        /\ \E r \in {on_read_cb(p, Head(wire[Other(p)]))} :
             \/ /\ ~r.failed
                /\ Holds(p, r.ssl)
                /\ shown' = [shown EXCEPT ![p] = @ \o r.lines]
                /\ wire' = [wire EXCEPT ![Other(p)] = Tail(@)]
                /\ Goes(p, "write")
                /\ UNCHANGED <<encrypt_buf, revents, closed, refused>>
             \/ /\ r.failed
                /\ Leave(p)
                /\ UNCHANGED shown
     \/ /\ "in" \in revents[p]
        /\ wire[Other(p)] = <<>>
        /\ Leave(p)
        /\ UNCHANGED shown
  /\ UNCHANGED <<client_prog, flights, typed, taken, said, runs>>

(***************************************************************************)
(* The socket blocks, so write returns when all of write_buf is taken, or  *)
(* when the peer has closed: what it writes then is lost.  After a reset   *)
(* write fails, or raises SIGPIPE, which neither program ignores.          *)
(***************************************************************************)
WroteAll(p) ==
  Goes(p, "rest") /\ write_buf' = [write_buf EXCEPT ![p] = <<>>]

do_sock_write(p) ==
  /\ At(p, "write")
  /\ \/ /\ "out" \notin revents[p]
        /\ Goes(p, "rest")
        /\ UNCHANGED <<ssl_client, revents, socket>>
     \/ /\ "out" \in revents[p]
        /\ ~Gone(p)
        /\ Len(wire[p]) < Capacity
        /\ wire' = [wire EXCEPT ![p] = Append(@, Head(write_buf[p]))]
        /\ IF Len(write_buf[p]) = 1 THEN WroteAll(p)
           ELSE write_buf' = [write_buf EXCEPT ![p] = Tail(@)] /\ UNCHANGED stage
        /\ UNCHANGED <<done, rbio, wbio, encrypt_buf, revents, closed, refused>>
     \/ /\ "out" \in revents[p]
        /\ Gone(p) /\ ~refused
        /\ refused' = TRUE
        /\ WroteAll(p)
        /\ UNCHANGED <<done, rbio, wbio, encrypt_buf, revents, wire, closed>>
     \/ /\ "out" \in revents[p]
        /\ refused
        /\ Leave(p) \/ LeaveFor(p, "ended")
  /\ UNCHANGED <<client_prog, flights, users, runs>>

(* Mutant: what was encrypted stays to be encrypted. *)
EncryptAndKeep(p, buf) ==
  IF buf = <<>> \/ ~is_init_finished(done[p], p) THEN [ssl |-> Of(p), left |-> buf]
  ELSE [ssl |-> Queued([Of(p) EXCEPT !.wbio = @ \o Pieces(0, buf)]), left |-> buf]

(* All that waits is encrypted to one record, once the handshake is done. *)
do_encrypt(p, buf) ==
  IF buf = <<>> \/ ~is_init_finished(done[p], p) THEN [ssl |-> Of(p), left |-> buf]
  ELSE [ssl |-> Queued([Of(p) EXCEPT !.wbio = @ \o Pieces(0, buf)]), left |-> <<>>]

JustRead(p) == IF "stdin" \in revents[p] THEN <<taken[p] + 1>> ELSE <<>>

do_stdin_read(p) ==
  /\ taken' = [taken EXCEPT ![p] = @ + 1]
  /\ said' = [said EXCEPT ![p] = @ \o JustRead(p)]

(* The end of a round: errors, the keyboard, and what waits to be encrypted. *)
Rest(p) ==
  /\ At(p, "rest")
  /\ \/ /\ "err" \in revents[p]
        /\ Leave(p)
        /\ UNCHANGED <<taken, said>>
     \/ /\ "err" \notin revents[p]
        /\ IF "stdin" \in revents[p] THEN do_stdin_read(p) ELSE UNCHANGED <<taken, said>>
        /\ \E e \in {do_encrypt(p, encrypt_buf[p] \o JustRead(p))} :
             Holds(p, e.ssl) /\ encrypt_buf' = [encrypt_buf EXCEPT ![p] = e.left]
        /\ Goes(p, "poll")
        /\ revents' = [revents EXCEPT ![p] = {}]
        /\ UNCHANGED socket
  /\ UNCHANGED <<client_prog, flights, typed, shown, runs>>

----------------------------------------------------------------------------
(* A user starts one of the clients of the directory. *)
Connect(prog, d) ==
  /\ stage["client"] = "ended" /\ stage["server"] = "accept" /\ "server" \in closed
  /\ runs < Runs
  /\ runs' = runs + 1
  /\ client_prog' = prog
  /\ flights' = d
  /\ closed' = {} /\ refused' = FALSE
  /\ said' = Both(<<>>) /\ shown' = Both(<<>>)
  /\ UNCHANGED <<revents, typed, taken>>

bio_tls_client(d) ==
  /\ Connect("bio_tls_client", d)
  /\ Goes("client", "poll")
  /\ wire' = Both(<<>>)
  /\ Holds("client", [done |-> 1, rbio |-> <<>>, wbio |-> <<>>, write_buf |-> Pieces(1, <<>>)])
  /\ encrypt_buf' = [encrypt_buf EXCEPT !["client"] = <<>>]

(* Without TLS: it writes a line of HTTP and reads to the end. *)
bio_tcp_client(d) ==
  /\ Connect("bio_tcp_client", d)
  /\ Goes("client", "reads")
  /\ wire' = [Both(<<>>) EXCEPT !["client"] = Junk]
  /\ UNCHANGED ssl_client

bio_tcp_client_reads ==
  /\ stage["client"] = "reads"
  /\ "server" \in closed
  /\ Leave("client")
  /\ UNCHANGED <<client_prog, flights, users, runs>>

Accept ==
  /\ stage["server"] = "accept"
  /\ "server" \notin closed
  /\ ssl_client_init
  /\ Goes("server", "poll")
  /\ UNCHANGED <<client_prog, flights, revents, socket, users, runs>>

InterruptBio ==
  /\ stage["client"] # "ended"
  /\ Leave("client")
  /\ UNCHANGED <<client_prog, flights, users, runs>>

Type(p) ==
  /\ typed.server + typed.client < Lines
  /\ typed' = [typed EXCEPT ![p] = @ + 1]
  /\ UNCHANGED <<stage, client_prog, flights, ssl_client, revents, socket, taken, said, shown, runs>>

----------------------------------------------------------------------------
Loop(p) == Poll(p) \/ do_sock_read(p) \/ do_sock_write(p) \/ Rest(p)

BioNext ==
  \/ \E p \in Side : Loop(p) \/ Type(p)
  \/ \E d \in Handshakes : bio_tls_client(d) \/ bio_tcp_client(d)
  \/ bio_tcp_client_reads \/ Accept \/ InterruptBio

----------------------------------------------------------------------------
(***************************************************************************)
(* While both ends are open, every line that was read from one keyboard is *)
(* at one place on its way to the other screen, in order: printed, in the  *)
(* BIO read from, on the wire, in write_buf, in the BIO written to, or in  *)
(* encrypt_buf.  Nothing of an earlier connection is among them.           *)
(***************************************************************************)
LinesOf(pieces) ==
  FlattenSeq([i \in 1..Len(pieces) |-> IF pieces[i].part = 2 THEN pieces[i].lines ELSE <<>>])

OnTheWay(p) ==
  rbio[Other(p)] \o wire[p] \o write_buf[p] \o wbio[p]

Talking ==
  closed = {} /\ client_prog = "bio_tls_client" /\ stage["server"] # "accept"

NothingLost ==
  Talking =>
    \A p \in Side :
      said[p] = shown[Other(p)] \o LinesOf(OnTheWay(p)) \o encrypt_buf[p]

(***************************************************************************)
(* What was read from the keyboards is printed in the end, unless one of   *)
(* the two goes away or both stand in write, each on a socket that is full *)
(* because the other does not read.                                        *)
(***************************************************************************)
Jammed ==
  \A p \in Side : stage[p] = "write" /\ write_buf[p] # <<>> /\ Len(wire[p]) = Capacity

LinesArrive ==
  []<>(Talking => Jammed \/ \A p \in Side : shown[Other(p)] = said[p])
=============================================================================
