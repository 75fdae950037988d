------------------------------ MODULE HttpClient ------------------------------
(***************************************************************************)
(* http_client.c: one HTTP_INFO handle and the connection it keeps from    *)
(* one request to the next.  http_get and http_post do a whole request;    *)
(* http_open, http_write_header, http_write, http_write_end and            *)
(* http_read_chunked do it in pieces.  http_parse is called after each     *)
(* read; a step of its loop is one action.                                 *)
(*                                                                         *)
(* The server is external: it answers a request that has arrived whole,    *)
(* and it may close, die in the middle of an answer or reset.  A read      *)
(* returns any part of what has been sent.                                 *)
(***************************************************************************)
EXTENDS HttpMessage, FiniteSets

CONSTANTS
  Url,        \* what callers ask for: [https, host, port, path]
  Reply,      \* what servers answer
  Fd,         \* descriptors socket() may return
  ReadSize,   \* H_READ_SIZE
  BodySize,   \* the size of the caller's response buffer
  ErrorSize,  \* 256: bytes of the text that says why a request failed
  Byte,       \* 256: values of a byte
  MaxBody,    \* bound: bytes of a request sent with http_write
  MaxLeft     \* bound: tokens of earlier responses a server adds to

NoFd  == -1
NULL  == [code |-> 0]

ASSUME ClientAssumption ==
  /\ Url \subseteq [https : BOOLEAN, host : Seq(STRING) \ {<<>>},
                    port : Seq(0..9), path : Seq(STRING)]
  /\ Url # {}
  /\ Fd \subseteq Nat /\ ReadSize \in Nat \ {0} /\ BodySize \in Nat \ {0}
  /\ MaxBody \in Nat /\ MaxLeft \in Nat
  /\ ErrorSize \in Nat \ {0} /\ Byte \in Nat \ {0} /\ ReadSize % Byte = 0

\* A body that neither header announces is not among the answers: it would go
\* on to the end of the connection, and http_parse takes it to be empty.
ASSUME ReplyAssumption ==
  \A r \in Reply :
    /\ r \in [code : Nat, framing : Framings, sizes : Seq(Nat), close : BOOLEAN, other : Nat]
    /\ r.framing = "length" => Len(r.sizes) = 1
    /\ r.framing = "none" => r.sizes = <<>>
    /\ r.framing = "chunked" => \A i \in DOMAIN r.sizes : r.sizes[i] > 0

VARIABLES
  fd,          \* tls.ssl_fd.fd
  url,         \* hi->url: the address the connection is kept for
  res,         \* hi->response
  header_end,
  length,      \* bytes of the body or chunk to come, -1 when a size is due
  r_buf,       \* r_buf from p1 on: read and not yet parsed
  body,        \* the first body_len bytes of the caller's buffer
  past,        \* how far past its end the last write to each buffer went
  pc,          \* where the call is
  call,        \* [op, u]: the function called and the URL given to it
  left,        \* bytes of the request to be written, -1 for chunks
  outcome,     \* how the last response ended
  server,      \* for each open descriptor the address it is connected to
  wire,        \* tokens sent by the server and not read
  peer,        \* "up", "fin" when it has closed, "rst" when it has reset
  asked,       \* a whole request has arrived that is not yet answered
  reply,       \* the answer to the current request
  stale        \* the connection was reused with tokens of an earlier answer

vars == <<fd, url, res, header_end, length, r_buf, body, past, pc, call, left,
          outcome, server, wire, peer, asked, reply, stale>>
parser == <<res, header_end, length, r_buf, body>>
net    == <<wire, peer, asked, reply>>

Response == [status : Nat, content_length : Nat, chunked : BOOLEAN, close : BOOLEAN]
\* http_post differs from http_get in what it sends only.
Ops      == {"get", "open"}
Outcomes == {"none", "whole", "cut", "closed", "error"}

\* parse_url: the port is cut to the four characters that fit in five.
parse_url(u) ==
  [u EXCEPT !.port = IF @ # <<>> THEN Take(@, 4)
                     ELSE IF u.https THEN <<4, 4, 3>> ELSE <<8, 0>>]

\* The address the caller means.
Meant(u) == [https |-> u.https, host |-> u.host,
             port  |-> IF u.port # <<>> THEN u.port ELSE parse_url(u).port]

target == parse_url(call.u)
Address(u) == [https |-> u.https, host |-> u.host, port |-> u.port]
Blank(https) == [https |-> https, host |-> <<>>, port |-> <<>>, path |-> <<>>]
NothingPast == [r_buf |-> 0, response |-> 0]
NoResponse == [status |-> 0, content_length |-> 0, chunked |-> FALSE, close |-> FALSE]

Init ==
  /\ fd = NoFd /\ url = Blank(FALSE) /\ res = NoResponse
  /\ header_end = FALSE /\ length = 0 /\ r_buf = <<>> /\ body = <<>> /\ past = NothingPast
  /\ pc = "idle" /\ call = [op |-> "get", u |-> CHOOSE u \in Url : TRUE] /\ left = 0 /\ outcome = "none"
  /\ server = << >> /\ wire = <<>> /\ peer = "up" /\ asked = FALSE
  /\ reply = NULL /\ stale = FALSE

-----------------------------------------------------------------------------
(* The connection.                                                        *)

\* Mutant: https_close forgets the descriptor and leaves the socket open.
ForgottenOnly(d) == server

Without(d) == [e \in DOMAIN server \ {d} |-> server[e]]

\* mbedtls_net_free, after which nothing more is read from the server.
https_close ==
  /\ fd' = NoFd
  /\ server' = Without(fd)
  /\ wire' = <<>> /\ peer' = "up" /\ asked' = FALSE

\* memset of the handle, but for the address, which the caller sets.
https_init ==
  /\ res' = NoResponse
  /\ header_end' = FALSE /\ length' = 0 /\ r_buf' = <<>> /\ body' = <<>>

Begin(op, u) ==
  /\ pc = "idle"
  /\ call' = [op |-> op, u |-> u]
  /\ pc' = "check" /\ outcome' = "none" /\ reply' = NULL /\ past' = NothingPast
  /\ UNCHANGED <<fd, url, parser, left, server, wire, peer, asked, stale>>

\* Mutant: a connection is reused for any port and scheme of its host.
SameHost   == fd # NoFd /\ url.host = target.host

SameServer == fd # NoFd /\ Address(url) = Address(target)

Connected == pc' = IF call.op = "open" THEN "opened" ELSE "send"

\* Mutant: the path of an earlier request is kept.
KeepHostAndPort == [url EXCEPT !.host = Overwrite(url.host, target.host),
                               !.port = Overwrite(url.port, target.port)]

\* strncpy of host, port and path.
KeepUrl == [https |-> url.https,
            host  |-> Overwrite(url.host, target.host),
            port  |-> Overwrite(url.port, target.port),
            path  |-> Overwrite(url.path, target.path)]

\* getsockopt finds no error on the socket.
Reuse ==
  /\ pc = "check" /\ SameServer /\ peer # "rst"
  /\ stale' = (stale \/ wire # <<>>)
  /\ url' = IF call.op = "open" THEN KeepUrl ELSE url
  /\ Connected
  /\ UNCHANGED <<fd, parser, past, call, left, outcome, server, net>>

\* A new socket gets the lowest descriptor that is free once the handle's
\* own is closed.
mbedtls_net_connect_timeout ==
  \E d \in Fd \ DOMAIN Without(fd) :
     /\ \A e \in Fd \ DOMAIN Without(fd) : d <= e
     /\ fd' = d
     /\ server' = [e \in DOMAIN Without(fd) \cup {d} |->
                     IF e = d THEN Address(target) ELSE server[e]]

\* Close, clear the handle and connect; only http_open writes the address
\* now.
Reconnect ==
  /\ pc = "check" /\ (SameServer => peer = "rst")
  /\ mbedtls_net_connect_timeout
  /\ wire' = <<>> /\ peer' = "up" /\ asked' = FALSE /\ reply' = NULL /\ stale' = FALSE
  /\ https_init
  /\ url' = IF call.op = "open" THEN target ELSE Blank(target.https)
  /\ Connected
  /\ UNCHANGED <<past, call, left, outcome>>

\* What n bytes from its start write past the end of a buffer.
PastEnd(n, size) == IF n > size THEN n - size ELSE 0

\* The text of an error goes to the caller's buffer, whatever its size, over
\* what the body had there; a request in pieces returns a number only.
ErrorText ==
  IF call.op = "get"
  THEN \E n \in 1..ErrorSize : past' = [past EXCEPT !.response = PastEnd(n, BodySize)]
  ELSE UNCHANGED past

\* No connection, a failed handshake or a certificate that is not valid.
ConnectFails ==
  /\ pc = "check" /\ (SameServer => peer = "rst")
  /\ https_close /\ https_init /\ url' = Blank(target.https)
  /\ pc' = "idle" /\ outcome' = "error" /\ stale' = FALSE
  /\ ErrorText
  /\ UNCHANGED <<call, left, reply>>
-----------------------------------------------------------------------------
(* The request.                                                           *)

\* What http_get, http_post and http_read_chunked do before they read.
\* response.chunked is not among the fields they clear.
ReadResponse ==
  /\ res' = [res EXCEPT !.status = 0, !.content_length = 0, !.close = FALSE]
  /\ r_buf' = <<>> /\ header_end' = FALSE /\ body' = <<>>
  /\ pc' = "read"
  /\ UNCHANGED length

\* A whole request gets to a server that has not closed.
Arrives == asked' = (peer = "up")

http_get ==
  /\ pc = "send" /\ peer # "rst"
  /\ ReadResponse /\ Arrives
  /\ UNCHANGED <<fd, url, past, call, left, outcome, server, wire, peer, reply, stale>>

\* n bytes will follow, or chunks.
http_write_header(n) ==
  /\ pc = "opened" /\ peer # "rst"
  /\ left' = n /\ pc' = "headed"
  /\ IF n = 0 THEN Arrives ELSE UNCHANGED asked
  /\ UNCHANGED <<fd, url, parser, past, call, outcome, server, wire, peer, reply, stale>>

http_write(n) ==
  /\ pc = "headed" /\ peer # "rst" /\ 0 < n /\ n <= left
  /\ left' = left - n
  /\ IF left' = 0 THEN Arrives ELSE UNCHANGED asked
  /\ UNCHANGED <<fd, url, parser, past, pc, call, outcome, server, wire, peer, reply, stale>>

\* The last chunk, or an empty line no server waits for.
http_write_end ==
  /\ pc = "headed" /\ peer # "rst" /\ left \in {0, -1}
  /\ pc' = "ended"
  /\ IF left = -1 THEN Arrives ELSE UNCHANGED asked
  /\ UNCHANGED <<fd, url, parser, past, call, left, outcome, server, wire, peer, reply, stale>>

WriteFails ==
  /\ pc \in {"send", "opened", "headed"} /\ peer = "rst"
  /\ https_close
  /\ pc' = "idle" /\ outcome' = "error"
  /\ ErrorText
  /\ UNCHANGED <<url, parser, call, left, reply, stale>>

http_read_chunked ==
  /\ pc = "ended"
  /\ ReadResponse
  /\ UNCHANGED <<fd, url, past, call, left, outcome, server, net, stale>>

-----------------------------------------------------------------------------
(* Reading the response.                                                  *)

Room == ReadSize - Len(r_buf)

\* The zero behind what is there.  Behind a full buffer it is the lowest byte
\* of r_len, the next field, which holds the number of bytes that are there.
\* (http_parse writes it again to the same place for a line that does not end.)
Terminate(b) == IF Len(b) < ReadSize THEN b ELSE Take(b, Len(b) - (Len(b) % Byte))

Read(n) ==
  /\ pc = "read" /\ peer # "rst" /\ 0 < n /\ n <= Room /\ n <= Len(wire)
  /\ r_buf' = Terminate(r_buf \o Take(wire, n))
  /\ past' = [past EXCEPT !.r_buf = PastEnd(Len(r_buf) + n + 1, ReadSize)]
  /\ wire' = Drop(wire, n)
  /\ pc' = "parse"
  /\ UNCHANGED <<fd, url, res, header_end, length, body, call, left, outcome,
                 server, peer, asked, reply, stale>>

\* Mutant: a read of no bytes is tried again.
Closed  == peer = "fin" /\ wire = <<>>

\* A read returns 0 when the server has closed, and when it is asked for
\* no bytes because a line fills the buffer.
Nothing == Room = 0 \/ Closed

ReadNothing ==
  /\ pc = "read" /\ peer # "rst" /\ Nothing
  /\ https_close
  /\ pc' = "finish" /\ outcome' = "closed"
  /\ UNCHANGED <<url, parser, past, call, left, reply, stale>>

\* A reset, or five seconds with nothing to read.
ReadFails ==
  /\ pc = "read"
  /\ peer = "rst" \/ (peer = "up" /\ wire = <<>> /\ Room > 0)
  /\ https_close
  /\ pc' = "idle" /\ outcome' = "error"
  /\ ErrorText
  /\ UNCHANGED <<url, parser, call, left, reply, stale>>

\* A step of http_parse touches only the parser's fields; it goes on, asks
\* for more or is done.
Parses(next) ==
  /\ pc = "parse" /\ pc' = next
  /\ UNCHANGED <<fd, url, call, left, server, net, stale>>

GoOn(next) == Parses(next) /\ UNCHANGED outcome
Done(how)  == Parses("finish") /\ outcome' = how

HeaderLine ==
  /\ ~header_end /\ HasLine(r_buf) /\ FirstLine(r_buf) # <<>>
  /\ res' = http_header(res, FirstLine(r_buf))
  /\ r_buf' = AfterLine(r_buf)
  /\ GoOn("parse")
  /\ UNCHANGED <<header_end, length, body, past>>

\* The size of a first chunk is read as that of any other.
HeaderEnd ==
  /\ ~header_end /\ HasLine(r_buf) /\ FirstLine(r_buf) = <<>>
  /\ header_end' = TRUE
  /\ length' = IF res.chunked THEN -1 ELSE res.content_length
  /\ r_buf' = AfterLine(r_buf)
  /\ GoOn("parse")
  /\ UNCHANGED <<res, body, past>>

SizeDue == header_end /\ res.chunked /\ length = -1

SizeLine ==
  /\ SizeDue /\ HasLine(r_buf)
  /\ length' = Hexadecimal(FirstLine(r_buf))
  /\ res' = IF length' = 0 THEN [res EXCEPT !.chunked = FALSE]
                           ELSE [res EXCEPT !.content_length = @ + length']
  /\ r_buf' = AfterLine(r_buf)
  /\ GoOn("parse")
  /\ UNCHANGED <<header_end, body, past>>

\* The part of a line that is there is kept at the start of r_buf.
LineDue ==
  /\ ~header_end \/ SizeDue
  /\ ~HasLine(r_buf)
  /\ GoOn("read")
  /\ UNCHANGED <<parser, past>>

\* Mutants: no place is kept for the terminator, and each part of the body
\* is written to the start of the buffer.
StoredToTheEnd(data) == Take(body \o data, BodySize)
StoredAtStart(data)  == Take(data, BodySize - 1)

\* The end of the caller's buffer is kept for the terminator.
Stored(data) == Take(body \o data, BodySize - 1)

\* The body grows and is terminated.
Store(data) ==
  /\ body' = Stored(data)
  /\ past' = [past EXCEPT !.response = PastEnd(Len(body') + 1, BodySize)]

BodyDue == header_end /\ ~SizeDue

\* Mutant: a chunk that ends with the read is taken for one cut short.
LineEndAndMore == Len(r_buf) > length + 2

LineEndThere == Len(r_buf) >= length + 2

\* More is there than the body or the chunk takes.
Beyond ==
  /\ BodyDue /\ 0 < length /\ length < Len(r_buf)
  /\ Store(Take(r_buf, length))
  /\ UNCHANGED <<res, header_end>>
  /\ IF res.chunked /\ LineEndThere
     THEN /\ r_buf' = Drop(r_buf, length + 2) /\ length' = -1
          /\ GoOn("parse")
     ELSE /\ r_buf' = Drop(r_buf, length) /\ UNCHANGED length
          /\ Done("cut")

\* Mutant: a body is complete with the first part that is read.
CompleteAtOnce(rest) == ~res.chunked

Complete(rest) == ~res.chunked /\ rest = 0

Within ==
  /\ BodyDue /\ Len(r_buf) <= length /\ 0 < length
  /\ Store(r_buf)
  /\ length' = length - Len(r_buf)
  /\ r_buf' = <<>>
  /\ IF Complete(length') THEN Done("whole") ELSE GoOn("read")
  /\ UNCHANGED <<res, header_end>>

BodyEnd ==
  /\ BodyDue /\ length <= 0 /\ ~res.chunked
  /\ Done("whole")
  /\ UNCHANGED <<parser, past>>

\* Mutant: the end of the chunk is left for the next size line.
SkipNothing(b) == b

\* A chunk ended with the last read: its CR and LF come first in this one,
\* and when nothing else does, all is dropped.
SkipLineEnd(b) == IF Len(b) > 2 /\ EndsAt(b, 1) THEN Drop(b, 2) ELSE <<>>

ChunkEnd ==
  /\ BodyDue /\ length <= 0 /\ res.chunked
  /\ r_buf' = SkipLineEnd(r_buf)
  /\ length' = -1
  /\ GoOn("parse")
  /\ UNCHANGED <<res, header_end, body, past>>

http_parse ==
  \/ HeaderLine \/ HeaderEnd \/ LineDue \/ SizeLine
  \/ Beyond \/ Within \/ BodyEnd \/ ChunkEnd

\* What follows the loop; http_read_chunked leaves the address as it is.
Finish ==
  /\ pc = "finish" /\ pc' = "idle"
  /\ IF res.close THEN https_close /\ UNCHANGED url
     ELSE /\ url' = IF call.op = "open" THEN url ELSE KeepUrl
          /\ UNCHANGED <<fd, server, wire, peer, asked>>
  /\ UNCHANGED <<parser, past, call, left, outcome, reply, stale>>

http_close ==
  /\ pc = "idle" /\ fd # NoFd
  /\ https_close
  /\ UNCHANGED <<url, parser, past, pc, call, left, outcome, reply, stale>>

-----------------------------------------------------------------------------
(* The server.                                                            *)

client == <<fd, url, parser, past, pc, call, left, outcome, server, stale>>

Answer(r) ==
  /\ asked /\ peer = "up" /\ reply = NULL /\ Len(wire) <= MaxLeft
  /\ wire' = wire \o Sent(r)
  /\ reply' = r /\ asked' = FALSE
  /\ UNCHANGED <<client, peer>>

\* It closes, or dies before all it wanted to send has left.
Closes(n) ==
  /\ fd # NoFd /\ peer = "up"
  /\ wire' = Take(wire, n) /\ peer' = "fin" /\ asked' = FALSE
  /\ UNCHANGED <<client, reply>>

Resets ==
  /\ fd # NoFd /\ peer # "rst"
  /\ wire' = <<>> /\ peer' = "rst" /\ asked' = FALSE
  /\ UNCHANGED <<client, reply>>

-----------------------------------------------------------------------------
\* The steps of a call that has begun.
Continue ==
  \/ Reuse \/ Reconnect \/ ConnectFails
  \/ http_get \/ WriteFails
  \/ \E n \in 1..ReadSize : Read(n)
  \/ ReadNothing \/ ReadFails \/ http_parse \/ Finish

\* What the caller does.
Caller ==
  \/ \E op \in Ops, u \in Url : Begin(op, u)
  \/ \E n \in -1..MaxBody : http_write_header(n)
  \/ \E n \in 1..MaxBody : http_write(n)
  \/ http_write_end \/ http_read_chunked \/ http_close

Server ==
  \/ \E r \in Reply : Answer(r)
  \/ \E n \in 0..Len(wire) : Closes(n)
  \/ Resets

Next == Continue \/ Caller \/ Server

Spec == Init /\ [][Next]_vars

\* The thread runs on inside a call, and reads and connects time out.
FairSpec == Spec /\ WF_vars(Continue)
-----------------------------------------------------------------------------
(* Properties.                                                            *)

(* Every socket is closed, also when a connection is given up between two *)
(* requests or in the middle of one: none is open but the handle's.       *)
NoLeak == DOMAIN server = {fd} \ {NoFd}

Talking == pc \in {"send", "opened", "headed", "ended", "read", "parse"}

(* A request is only ever sent over a connection to the scheme, host and  *)
(* port of its URL, whatever the handle was used for before.  A port of   *)
(* five digits is excepted: parse_url drops its last digit.               *)
RightServer ==
  Talking /\ Len(call.u.port) <= 4 => fd # NoFd /\ server[fd] = Meant(call.u)

(* http_write_header takes the request line and Host from hi->url: they   *)
(* are the URL's, unless an earlier path on this connection was longer,   *)
(* of which strncpy leaves the end.                                       *)
RightRequestLine ==
  [][pc = "check" /\ pc' = "opened" =>
       /\ url'.host = target.host /\ url'.port = target.port
       /\ \/ url'.path = target.path
          \/ SameServer /\ Len(url.path) > Len(target.path)]_vars

(* However a response is cut into reads, the caller's buffer never holds  *)
(* anything but a prefix of the body: no framing, no byte twice or lost.  *)
BodyIsPrefix ==
  reply # NULL /\ ~stale /\ pc \in {"read", "parse", "finish"} =>
    body = Take(Payload(reply), Len(body))

(* How far the client writes past its buffers, in whatever pieces and     *)
(* over however many requests on a connection: a body never goes past the *)
(* caller's buffer, and a response never past r_buf but for the zero that *)
(* ends a buffer which a read has filled.  Only the text of an error may  *)
(* go past the caller's buffer, if that is shorter than ErrorSize.        *)
WritesWithin ==
  /\ past.r_buf <= 1
  /\ past.response > 0 =>
       /\ call.op = "get" /\ outcome = "error" /\ pc = "idle"
       /\ past.response <= ErrorSize - BodySize

(* When http_parse says the response is complete it is: the status, the   *)
(* length added up from the chunks and the body, as far as the buffer     *)
(* takes it, are those the server sent.  It gives a response up (-1) in   *)
(* one case only: the data of a chunk and its CR came with one read, the  *)
(* LF did not.                                                            *)
WholeResponse ==
  pc = "finish" /\ ~stale =>
    /\ outcome = "whole" =>
         /\ reply # NULL
         /\ res.status = reply.code
         /\ res.content_length = Len(Payload(reply))
         /\ body = Take(Payload(reply), BodySize - 1)
    /\ outcome = "cut" => reply.framing = "chunked" /\ r_buf = <<CR>>

(* A connection kept for the next request has nothing of this response    *)
(* left in it, except the empty line behind the last chunk, and the rest  *)
(* of a response that was given up.                                       *)
KeptInStep ==
  pc = "idle" /\ fd # NoFd /\ outcome = "whole" /\ ~stale =>
    \/ wire = <<>>
    \/ reply.framing = "chunked" /\ wire \in {<<CR, LF>>, <<LF>>, <<CR>>}

(* Every call comes back, although the server may be silent, die or send  *)
(* in any pieces, and whatever is left from an earlier response.          *)
CallReturns ==
  pc \in {"check", "send", "read", "parse", "finish"} ~> pc \in {"idle", "opened"}
=============================================================================
