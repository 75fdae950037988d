----------------------------- MODULE HttpMessage -----------------------------
(***************************************************************************)
(* HTTP responses as http_client.c meets them: what a server sends, as a   *)
(* sequence of tokens, and the string functions the client reads it with.  *)
(*                                                                         *)
(* CR and LF are tokens of their own, because a read may end between them. *)
(* A header line, a chunk size and a byte of the body are one token each:  *)
(* the client looks at no part of them, and a line that has not arrived    *)
(* whole is kept in any case.                                              *)
(***************************************************************************)
EXTENDS Integers, Sequences, SequencesExt

Token(k, n) == [k |-> k, n |-> n]
CR == Token("CR", 0)
LF == Token("LF", 0)

Take(s, n) == SubSeq(s, 1, IF n < Len(s) THEN n ELSE Len(s))
Drop(s, n) == SubSeq(s, n + 1, Len(s))

-----------------------------------------------------------------------------
(* A reply: its status, how its body is framed ("length", "chunked", or   *)
(* "none" for neither header), the lengths of its chunks (one for          *)
(* "length"), whether it says Connection: close, and further headers.      *)
Framings == {"length", "chunked", "none"}

Line(tokens) == tokens \o <<CR, LF>>

\* The bytes of one chunk; n tells the places of the body apart.
ChunkData(reply, i) == [j \in 1..reply.sizes[i] |-> Token("data", 10 * i + j)]

Payload(reply) ==
  FlattenSeq([i \in 1..Len(reply.sizes) |-> ChunkData(reply, i)])

Headers(reply) ==
  Line(<<Token("status", reply.code)>>)
  \o (IF reply.framing = "length" THEN Line(<<Token("length", reply.sizes[1])>>)
      ELSE IF reply.framing = "chunked" THEN Line(<<Token("chunked", 0)>>)
      ELSE <<>>)
  \o (IF reply.close THEN Line(<<Token("close", 0)>>) ELSE <<>>)
  \o (IF reply.other > 0 THEN Line([i \in 1..reply.other |-> Token("other", 0)]) ELSE <<>>)
  \o Line(<<>>)

Chunk(reply, i) == Line(<<Token("size", reply.sizes[i])>>) \o Line(ChunkData(reply, i))
LastChunk == Line(<<Token("size", 0)>>) \o Line(<<>>)

Sent(reply) ==
  Headers(reply)
  \o (IF reply.framing = "chunked"
      THEN FlattenSeq([i \in 1..Len(reply.sizes) |-> Chunk(reply, i)]) \o LastChunk
      ELSE Payload(reply))

-----------------------------------------------------------------------------
\* strstr(b, "\r\n"): the line it finds and what is behind the line's end.
EndsAt(b, i)  == i + 1 \in DOMAIN b /\ b[i] = CR /\ b[i + 1] = LF
HasLine(b)    == \E i \in DOMAIN b : EndsAt(b, i)
LineEnd(b)    == CHOOSE i \in DOMAIN b :
                   EndsAt(b, i) /\ \A j \in 1..(i - 1) : ~EndsAt(b, j)
FirstLine(b)  == SubSeq(b, 1, LineEnd(b) - 1)
AfterLine(b)  == Drop(b, LineEnd(b) + 1)

\* strtol(line, NULL, 16): leading white space is skipped; of the names of
\* headers those that begin with a C begin with a digit.  A byte of the
\* body stands for a character that is none.
Hexadecimal(line) ==
  LET solid == {i \in DOMAIN line : line[i] \notin {CR, LF}}
      first == line[CHOOSE i \in solid : \A j \in solid : i <= j]
  IN  IF solid = {} THEN 0
      ELSE IF first.k = "size" THEN first.n
      ELSE IF first.k \in {"length", "close"} THEN 12
      ELSE 0

\* The first word of a line, which tells what the header is.
strtoken(line) == line[1]

http_header(res, line) ==
  LET w == strtoken(line)
  IN  IF w.k = "status"  THEN [res EXCEPT !.status = w.n]
      ELSE IF w.k = "length"  THEN [res EXCEPT !.content_length = w.n]
      ELSE IF w.k = "chunked" THEN [res EXCEPT !.chunked = TRUE]
      ELSE IF w.k = "close"   THEN [res EXCEPT !.close = TRUE]
      ELSE res

\* strncpy(to, from, strlen(from)), which writes no terminator.
Overwrite(to, from) == from \o Drop(to, Len(from))
=============================================================================
