------------------------------ MODULE HttpWire ------------------------------
(***************************************************************************)
(* What peers put on a connection: bytes, the lines of a message, and what *)
(* a message means when each of its lines is read as a whole.  HttpParser  *)
(* reads the same bytes one at a time; the meaning given here is what its  *)
(* reading is compared with.                                               *)
(*                                                                         *)
(* A byte is a string.  A word is spelled with two letters, the one or the *)
(* few that tell it from the others and one that stands for its rest, so   *)
(* that a buffer can still end inside it: Content-Length is c t.           *)
(***************************************************************************)
EXTENDS Integers, Sequences, FiniteSets, Folds

CONSTANTS ULLONG_MAX      \* the largest content_length, which stands for none

ASSUME WireAssumption == ULLONG_MAX \in Nat /\ ULLONG_MAX > 2

Digit  == {"0", "1", "2"}
Upper  == {"G", "T", "C", "N", "P", "O", "U", "H", "E"}
Lower  == {"c", "n", "t", "e", "u", "p", "k", "a", "s", "d", "x", "b"}
Alpha  == Upper \cup Lower
\* Bytes that may be in a name, in a URL, in a value.
Token      == Alpha \cup Digit
UserInfo   == Token \cup {":", ",", ";", "."}
UrlChar    == UserInfo \cup {"/", "@"}
HeaderChar == Token \cup {" ", "/", ":", ",", ";", ".", "?", "#", "@"}

ValueOf(digit) == CHOOSE n \in 0 .. 2 : digit = <<"0", "1", "2">>[n + 1]

CRLF == <<"CR", "LF">>

\* Names and values the parser knows.
Connection       == <<"c", "n">>
ProxyConnection  == <<"p", "n">>
ContentLength    == <<"c", "t">>
TransferEncoding == <<"t", "e">>
Upgrade          == <<"u", "p">>
Chunked          == <<"c", "d">>
KeepAlive        == <<"k", "a">>
Close            == <<"c", "s">>
-----------------------------------------------------------------------------
(* A value read as a whole. *)

Blank(v) == \A i \in DOMAIN v : v[i] = " "

\* v without the spaces around it.
Trim(v) ==
  LET solid == {i \in DOMAIN v : v[i] # " "}
      first == CHOOSE i \in solid : \A j \in solid : i <= j
      last  == CHOOSE i \in solid : \A j \in solid : j <= i
  IN  IF solid = {} THEN <<>> ELSE SubSeq(v, first, last)

\* The elements of a list with commas.
Elements(v) ==
  {Trim(SubSeq(v, ij[1], ij[2])) : ij \in
     {ij \in (1 .. Len(v)) \X (1 .. Len(v)) :
        /\ ij[1] <= ij[2]
        /\ \A k \in ij[1] .. ij[2] : v[k] # ","
        /\ ij[1] = 1 \/ v[ij[1] - 1] = ","
        /\ ij[2] = Len(v) \/ v[ij[2] + 1] = ","}}

\* The number v spells, with a base.
Number(v, base) == MapThenFoldSet(LAMBDA x, y : x + y, 0,
                     LAMBDA i : ValueOf(v[i]) * base ^ (Len(v) - i),
                     LAMBDA S : CHOOSE i \in S : TRUE, DOMAIN v)

IsNumber(v, base) ==
  v # <<>> /\ (\A i \in DOMAIN v : v[i] \in Digit) /\ Number(v, base) < ULLONG_MAX
-----------------------------------------------------------------------------
(* Lines. *)

\* A header line: its name, the blanks before the value, the value, its end.
Header(field, lead, value, end) ==
  [field |-> field, value |-> value, folded |-> FALSE,
   bytes |-> field \o <<":">> \o lead \o value \o end]

\* A header line continued on a second one, which begins with a space.
Folded(field, value, more) ==
  [field |-> field, value |-> value \o <<" ">> \o more, folded |-> TRUE,
   bytes |-> field \o <<":">> \o value \o CRLF \o <<" ">> \o more \o CRLF]

\* What the head of a message has said so far.
Silent == [request |-> TRUE, major |-> 1, minor |-> 1, connect |-> FALSE,
           bodiless |-> FALSE, switching |-> FALSE, length |-> ULLONG_MAX, chunked |-> FALSE,
           tokens |-> {}, upgrade |-> FALSE, bad |-> FALSE]

\* A start line: the element the user is to get, its bytes, what it says.
Start(kind, data, bytes, says) ==
  [kind |-> kind, data |-> data, bytes |-> bytes, says |-> says]

ItsBytes(v) == {v[i] : i \in DOMAIN v}

\* What the head says after one more header line.  An obsolete fold is a space
\* for a length and makes any other value unknown, unless a list goes on after
\* a comma; the lines below fold no list.
Saying(m, h) ==
  LET v == Trim(h.value) IN
  IF ~ ItsBytes(h.field) \subseteq Token \/ ~ ItsBytes(h.value) \subseteq HeaderChar
  THEN [m EXCEPT !.bad = TRUE]
  ELSE IF h.field = ContentLength
  THEN IF \/ ~ IsNumber(v, 10) \/ m.length # ULLONG_MAX
       THEN [m EXCEPT !.bad = TRUE]
       ELSE [m EXCEPT !.length = Number(v, 10)]
  ELSE IF h.folded \/ Blank(h.value)
  THEN m
  ELSE IF h.field = TransferEncoding
  THEN [m EXCEPT !.chunked = @ \/ v = Chunked]
  ELSE IF h.field \in {Connection, ProxyConnection}
  THEN [m EXCEPT !.tokens = @ \cup (Elements(v) \cap {KeepAlive, Close, Upgrade})]
  ELSE IF h.field = Upgrade
  THEN [m EXCEPT !.upgrade = TRUE]
  ELSE m

\* A head that must be refused: RFC 7230 allows no length next to chunks.
Refused(m) == m.bad \/ (m.chunked /\ m.length # ULLONG_MAX)
-----------------------------------------------------------------------------
(* What follows a head, when the user takes a body from it or skips it. *)

HasBody(m) == m.chunked \/ m.length \notin {0, ULLONG_MAX}

\* The peers go on in another protocol after this message.
Leaves(m, asked) ==
  \/ asked
  \/ IF m.upgrade /\ Upgrade \in m.tokens THEN m.request \/ m.switching
     ELSE m.connect

Framing(m, skip, asked) ==
  IF skip THEN "none"
  ELSE IF Leaves(m, asked) /\ (m.connect \/ ~ HasBody(m)) THEN "none"
  ELSE IF m.chunked THEN "chunked"
  ELSE IF m.length = 0 THEN "none"
  ELSE IF m.length # ULLONG_MAX THEN "length"
  ELSE IF m.request \/ m.bodiless THEN "none" ELSE "eof"

\* No other message follows this one on the connection.
IsLast(m, skip, asked) ==
  \/ Leaves(m, asked)
  \/ Framing(m, skip, asked) = "eof"
  \/ IF m.major > 0 /\ m.minor > 0 THEN Close \in m.tokens ELSE KeepAlive \notin m.tokens
=============================================================================
