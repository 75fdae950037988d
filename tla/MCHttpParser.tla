--------------------------- MODULE MCHttpParser ---------------------------
(***************************************************************************)
(* One parser of each type.  The first message has any start line; those   *)
(* that are not odd in themselves go with any header, and a header with    *)
(* the ones it matters to.  The second message meets what the first left.  *)
(***************************************************************************)
EXTENDS HttpParser

Http(minor) == <<"H", "T", "T", "P", "/", "1", ".", minor>>

Request(method, url, says) ==
  Start("url", url, method \o <<" ">> \o url \o <<" ">> \o Http("1") \o CRLF, says)
\* A start line with another version, that goes with few headers.
Plain(line) ==
  [line EXCEPT !.bytes = [i \in DOMAIN @ |-> IF @[i] = "1" /\ @[i - 1] = "." THEN "2" ELSE @[i]],
               !.says.minor = 2]
Response(minor, code, text, end, says) ==
  Start("status", text, Http(minor) \o <<" ">> \o code \o text \o end, says)

Asks == Silent
Says == [Silent EXCEPT !.request = FALSE]
Bad(says) == [says EXCEPT !.bad = TRUE]

Get == Request(<<"G", "T">>, <<"/">>, Asks)
Requests ==
  { Get,
    Request(<<"C", "N">>, <<"n", "@", "1">>, [Asks EXCEPT !.connect = TRUE]),
    Request(<<"P", "O">>, <<"/", "?", "a", "#", "b">>, Asks) }
OddRequests ==
  { Start("url", <<"p", ":", "/", "/", "n", "/", "#">>,
          CRLF \o <<"P", "U", " ", " ", "p", ":", "/", "/", "n", "/", "#">> \o CRLF,
          [Asks EXCEPT !.major = 0, !.minor = 2]),
    Start("url", <<"/">>, <<"G", "T", " ", "/", "LF">>, [Asks EXCEPT !.major = 0, !.minor = 2]),
    Request(<<"G", "T", "N">>, <<"/">>, Bad(Asks)),
    Request(<<"P", "T">>, <<"/">>, Bad(Asks)),
    Request(<<"P", "U">>, <<"p", "/">>, Bad(Asks)) }
Head_ == Request(<<"H", "E">>, <<"/">>, Asks)
BadHead == Request(<<"H", "N">>, <<"/">>, Bad(Asks))

Ok == Response("1", <<"0", " ">>, <<"x">>, CRLF, Says)
Responses ==
  { Ok,
    Response("0", <<"0">>, <<>>, CRLF, [Says EXCEPT !.minor = 0]),
    Response("1", <<"1", " ">>, <<>>, CRLF, [Says EXCEPT !.bodiless = TRUE, !.switching = TRUE]),
    Response("1", <<"2">>, <<>>, <<"LF">>, [Says EXCEPT !.bodiless = TRUE]) }
OddResponses ==
  { Response("1", <<"1", "1">>, <<>>, CRLF, Bad(Says)),
    Response("1", <<" ", "0", " ">>, <<"x", "x">>, <<"LF">>, Says) }

MCStartLines(type, n) ==
  IF n = 2 THEN {IF type = "HTTP_REQUEST" THEN Get ELSE Ok}
  ELSE IF type = "HTTP_REQUEST" THEN Requests \cup OddRequests
  ELSE IF type = "HTTP_RESPONSE" THEN Responses \cup OddResponses
  ELSE {Plain(line) : line \in {Get, Head_, BadHead, Ok}}

Length(v) == Header(ContentLength, <<" ">>, v, CRLF)
Coding    == Header(TransferEncoding, <<" ">>, Chunked, CRLF)
Lengths   == { Length(<<"2">>), Length(<<"0", " ">>), Length(<<>>), Length(<<"1", "x">>),
               Length(<<"1", "2", "1">>), Length(<<"1", " ", "1">>),
               Folded(ContentLength, <<"1">>, <<>>), Folded(ContentLength, <<"1">>, <<"1">>) }
Codings   == { Coding, Header(TransferEncoding, <<>>, <<"c", "d", " ">>, <<"LF">>),
               Header(TransferEncoding, <<>>, <<"c", "d", "x">>, CRLF),
               Folded(TransferEncoding, <<"x">>, Chunked) }
Tokens    == { Header(Connection, <<>>, Close, CRLF),
               Header(Connection, CRLF \o <<" ">>, KeepAlive \o <<" ", ",">> \o Close, CRLF),
               Header(ProxyConnection, <<>>, <<"x", ",", " ">> \o Upgrade \o <<",">> \o KeepAlive, CRLF),
               Header(Connection, <<>>, <<"c", "s", "x">>, CRLF) }
Others    == { Header(Upgrade, <<>>, <<"x">>, CRLF), Header(<<"t", "x">>, <<>>, <<>>, CRLF),
               Header(<<"c", "t", "x">>, <<>>, <<>>, <<"LF">>),
               Header(<<"x">>, <<>>, <<"a", "!">>, CRLF), Header(<<"a", "@">>, <<>>, <<>>, CRLF) }

MCHeaderLines(n, lines, says) ==
  IF n = 2 \/ says.minor = 2 \/ says.bad THEN {Length(<<"1">>)}
  ELSE IF lines = 0 THEN Lengths \cup Codings \cup Tokens \cup Others
  ELSE IF says.length # ULLONG_MAX \/ says.chunked
  THEN {Length(<<"1">>), Coding}
  ELSE IF says.upgrade
  THEN {Header(Connection, <<>>, Upgrade, CRLF)}
  ELSE {Length(<<"1">>)}

MCTrailerLines == { Header(<<"x">>, <<>>, <<>>, CRLF), Header(Connection, <<>>, Close, CRLF) }
MCEnds == {CRLF, <<"LF">>}

Chunk(bytes, size) == [bytes |-> bytes \o CRLF, size |-> size, bad |-> FALSE]
MCChunkLines ==
  { Chunk(<<"2">>, 2), Chunk(<<"0", "1", ";", "x">>, 1), Chunk(<<"0">>, 0),
    [Chunk(<<"2", "0">>, 2) EXCEPT !.bad = TRUE], [Chunk(<<"x">>, 2) EXCEPT !.bad = TRUE] }
MCTypes == {"HTTP_REQUEST", "HTTP_RESPONSE", "HTTP_BOTH"}

\* The count saved before a call is lost when the call returns, unless the
\* user pauses it.
View ==
  <<[parser EXCEPT !.nread = IF call.open /\ user.pauses = 0 THEN 0 ELSE @],
    call, rest, event, got, user, peer>>
=============================================================================
