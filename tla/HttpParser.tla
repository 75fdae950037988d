----------------------------- MODULE HttpParser -----------------------------
(***************************************************************************)
(* http_parser.c: http_parser_execute() reads a connection byte by byte,   *)
(* over as many calls as the bytes come in buffers, and tells the user of  *)
(* each element of a message through callbacks.                            *)
(*                                                                         *)
(* An action is one pass of the switch, for one byte; Execute and Cut are  *)
(* the ends of a call.  The user may pause the parser in any callback, or  *)
(* fail it; the peer may stop anywhere.  A list of bytes behind a mark     *)
(* stands for a pointer into the buffer, and one byte after the other for  *)
(* the loops that run ahead over a name, a value or a body.                *)
(***************************************************************************)
EXTENDS HttpWire

CONSTANTS Types,           \* the types a parser is made for
          MaxHeaderSize,   \* max_header_size
          StatusLimit,     \* the largest status code
          MaxPauses,       \* bound: how often the user pauses
          MaxMessages,     \* bound: messages on the connection
          MaxHeaders,      \* bound: header lines in a head
          MaxChunks,       \* bound: chunks before the last
          StartLines(_, _),  \* start lines of a type, for the n-th message
          HeaderLines(_, _, _),  \* header lines: the message, how many before, what they say
          TrailerLines,    \* header lines behind the last chunk
          Ends,            \* how a head may end
          ChunkLines       \* chunk headers: [bytes, size]

VARIABLES parser,   \* struct http_parser
          call,     \* http_parser_execute's own variables
          rest,     \* bytes the peer sent that are not consumed
          event,    \* the last callback
          got,      \* what the user has put together for this message
          user,     \* pauses left, and what on_headers_complete returned
          peer      \* what the peer has sent

vars == <<parser, call, rest, event, got, user, peer>>

Closed == [open |-> FALSE, nread |-> 0, run |-> 0, mark |-> <<>>, again |-> FALSE, fresh |-> TRUE]

\* States beyond s_headers_done: their bytes are not counted.
BodyStates == {"s_chunk_data", "s_chunk_data_almost_done", "s_chunk_data_done",
               "s_body_identity", "s_body_identity_eof", "s_message_done"}

start_state(p) == IF p.type = "HTTP_REQUEST" THEN "s_start_req" ELSE "s_start_res"

http_parser_init(t) ==
  [type |-> t,
   state |-> IF t = "HTTP_BOTH" THEN "s_start_req_or_res"
             ELSE start_state([type |-> t]),
   header_state |-> "h_general", index |-> 0, nread |-> 0, flags |-> {},
   content_length |-> 0, http_major |-> 0, http_minor |-> 0, status_code |-> 0,
   method |-> "DELETE", upgrade |-> FALSE, http_errno |-> "OK"]

Init ==
  /\ \E t \in Types : parser = http_parser_init(t)
  /\ call = Closed
  /\ rest = <<>> /\ event = "none" /\ got = <<>>
  /\ user = [pauses |-> MaxPauses, answer |-> 0]
  /\ peer = [turn |-> "start", says |-> Silent, sent |-> <<>>, lines |-> 0,
             left |-> 0, head |-> 0, messages |-> 0, last |-> FALSE]
-----------------------------------------------------------------------------
(* One pass: the byte, what it counts, and the ways the pass ends. *)

ch == Head(rest)

\* COUNT_HEADER_SIZE(1) at the top of the loop: neither after a REEXECUTE nor
\* inside the loop over a name or a value, which counts its own bytes.
Here == [call EXCEPT !.nread =
           @ + IF parser.state \in BodyStates \/ call.again \/ call.run > 0 THEN 0 ELSE 1]

\* A pass in one of the states S.
At(S) ==
  /\ call.open /\ rest # <<>> /\ parser.state \in S /\ Here.nread <= MaxHeaderSize
  /\ UNCHANGED peer

To(s) == [parser EXCEPT !.state = s]
Quiet == UNCHANGED <<event, got, user>>

MARK(kind, c) ==
  [c EXCEPT !.mark = [k \in DOMAIN @ \cup {kind} |-> IF k \in DOMAIN @ THEN @[k] ELSE <<>>]]
Unmarked(kind, c) ==
  [c EXCEPT !.mark = [k \in DOMAIN @ \ {kind} |-> @[k]]]

\* break: the next byte.
Move(p, c) ==
  /\ parser' = p
  /\ call' = [c EXCEPT !.again = FALSE, !.fresh = FALSE,
                       !.mark = [k \in DOMAIN @ |-> Append(@[k], ch)]]
  /\ rest' = Tail(rest)
REEXECUTE(p, c) == parser' = p /\ call' = [c EXCEPT !.again = TRUE] /\ rest' = rest
RETURN(p, c, r) == parser' = [p EXCEPT !.nread = c.nread] /\ call' = Closed /\ rest' = r

Fail(e) == RETURN([parser EXCEPT !.http_errno = e], Here, rest) /\ Quiet
Goto(s) == Move(To(s), Here) /\ Quiet
Again(s) == REEXECUTE(To(s), Here) /\ Quiet

HeaderOverflow ==
  /\ call.open /\ rest # <<>> /\ Here.nread > MaxHeaderSize
  /\ Fail("HEADER_OVERFLOW") /\ UNCHANGED peer
-----------------------------------------------------------------------------
(* Callbacks.  The user keeps the data as the README of the parser tells   *)
(* it to: data of the same kind as the last goes on with it.               *)

DataKinds == {"url", "status", "header_field", "header_value", "body"}

Collected(all, kind, bytes) ==
  IF all # <<>> /\ all[Len(all)][1] = kind
  THEN [all EXCEPT ![Len(all)] = <<kind, @[2] \o bytes>>]
  ELSE Append(all, <<kind, bytes>>)

Told(what, bytes) ==
  /\ event' = what
  /\ got' = IF what \in DataKinds THEN Collected(got, what, bytes)
            ELSE IF what = "message_begin" THEN <<>> ELSE got

\* The callback pauses the parser, which leaves the count of the call unsaved,
\* or fails, and the call returns.  r is what it has not consumed.
Interrupted(p, c, r) ==
  /\ call' = Closed /\ rest' = r
  /\ \/ user.pauses > 0
        /\ parser' = [p EXCEPT !.http_errno = "PAUSED"]
        /\ user' = [user EXCEPT !.pauses = @ - 1]
     \/ /\ parser' = [p EXCEPT !.http_errno = "CB", !.nread = c.nread]
        /\ user' = user

\* Notify the user; Proceed is what follows when the callback returns 0.
CALLBACK(what, bytes, p, c, r, Proceed) ==
  /\ Told(what, bytes)
  /\ (Proceed /\ user' = user) \/ Interrupted(p, c, r)

CALLBACK_NOTIFY(what, p) == CALLBACK(what, <<>>, p, Here, Tail(rest), Move(p, Here))
CALLBACK_NOTIFY_NOADVANCE(what, p) == CALLBACK(what, <<>>, p, Here, rest, REEXECUTE(p, Here))

\* Only if the mark is set; the mark goes away.
CALLBACK_DATA_(kind, p, c, r, Proceed) ==
  IF kind \notin DOMAIN c.mark THEN Proceed /\ Quiet
  ELSE CALLBACK(kind, c.mark[kind], p, c, r, Proceed)

\* Mutant: the mark stays.
KeptMark(kind, p, c) == CALLBACK_DATA_(kind, p, c, Tail(rest), Move(p, c))
CALLBACK_DATA(kind, p, c) ==
  CALLBACK_DATA_(kind, p, c, Tail(rest), Move(p, Unmarked(kind, c)))
CALLBACK_DATA_NOADVANCE(kind, p, c) ==
  CALLBACK_DATA_(kind, p, c, rest, REEXECUTE(p, Unmarked(kind, c)))
-----------------------------------------------------------------------------
(* What the parser says of a message. *)

http_message_needs_eof(p) ==
  /\ p.type # "HTTP_REQUEST"
  /\ p.status_code \notin {1, 2} /\ "SKIPBODY" \notin p.flags
  /\ "CHUNKED" \notin p.flags /\ p.content_length = ULLONG_MAX

http_should_keep_alive(p) ==
  /\ IF p.http_major > 0 /\ p.http_minor > 0
     THEN "CLOSE" \notin p.flags ELSE "KEEP_ALIVE" \in p.flags
  /\ ~ http_message_needs_eof(p)

\* Mutant: the parser is not strict about it.
NotStrict(p) == [p EXCEPT !.state = start_state(p)]
NEW_MESSAGE(p) ==
  [p EXCEPT !.state = IF http_should_keep_alive(p) THEN start_state(p) ELSE "s_dead"]
-----------------------------------------------------------------------------
(* Start lines. *)

\* Between messages: blank lines are skipped, anything else after a last
\* message is an error.
Dead ==
  /\ At({"s_dead"})
  /\ IF ch \in {"CR", "LF"} THEN Goto("s_dead") ELSE Fail("CLOSED_CONNECTION")

BlankBefore ==
  /\ At({"s_start_req_or_res", "s_start_res", "s_start_req"}) /\ ch \in {"CR", "LF"}
  /\ Goto(parser.state)

\* Mutant: what the last message said is kept.
NotReset(s) == To(s)
Reset(s) == [To(s) EXCEPT !.flags = {}, !.content_length = ULLONG_MAX]

StartReqOrRes ==
  /\ At({"s_start_req_or_res"}) /\ ch \notin {"CR", "LF"}
  /\ IF ch = "H" THEN CALLBACK_NOTIFY("message_begin", Reset("s_res_or_resp_H"))
     ELSE REEXECUTE([Reset("s_start_req") EXCEPT !.type = "HTTP_REQUEST"], Here) /\ Quiet

ResOrRespH ==
  /\ At({"s_res_or_resp_H"})
  /\ IF ch = "T" THEN Move([To("s_res_HT") EXCEPT !.type = "HTTP_RESPONSE"], Here) /\ Quiet
     ELSE IF ch = "E"
     THEN /\ Move([To("s_req_method") EXCEPT !.type = "HTTP_REQUEST", !.method = "HEAD",
                                             !.index = 2], Here)
          /\ Quiet
     ELSE Fail("INVALID_CONSTANT")

StartRes ==
  /\ At({"s_start_res"}) /\ ch \notin {"CR", "LF"}
  /\ IF ch = "H" THEN CALLBACK_NOTIFY("message_begin", Reset("s_res_H"))
     ELSE Fail("INVALID_CONSTANT")

\* What a table says of x, or else.
Listed(table, x) == \E m \in table : m[1] = x
Known(table, x, else) ==
  IF Listed(table, x) THEN (CHOOSE m \in table : m[1] = x)[2] ELSE else

\* States that take one byte: STRICT_CHECK, and the next state.
Constants ==
  { <<"s_res_H", "T", "s_res_HT">>, <<"s_res_HT", "T", "s_res_HTT">>,
    <<"s_res_HTT", "P", "s_res_HTTP">>, <<"s_res_HTTP", "/", "s_res_http_major">>,
    <<"s_req_http_H", "T", "s_req_http_HT">>, <<"s_req_http_HT", "T", "s_req_http_HTT">>,
    <<"s_req_http_HTT", "P", "s_req_http_HTTP">>, <<"s_req_http_HTTP", "/", "s_req_http_major">>,
    <<"s_res_line_almost_done", "LF", "s_header_field_start">>,
    <<"s_req_line_almost_done", "LF", "s_header_field_start">>,
    <<"s_header_almost_done", "LF", "s_header_value_lws">>,
    <<"s_header_value_discard_ws_almost_done", "LF", "s_header_value_discard_lws">> }

Constant ==
  \E m \in Constants :
    /\ At({m[1]})
    /\ IF ch = m[2] THEN Goto(m[3])
       ELSE Fail(IF m[1] \in {"s_req_line_almost_done", "s_header_almost_done"}
                 THEN "LF_EXPECTED" ELSE "STRICT")

ResVersion ==
  \/ /\ At({"s_res_http_major"})
     /\ IF ch \in Digit
        THEN Move([To("s_res_http_dot") EXCEPT !.http_major = ValueOf(ch)], Here) /\ Quiet
        ELSE Fail("INVALID_VERSION")
  \/ /\ At({"s_res_http_dot"})
     /\ IF ch = "." THEN Goto("s_res_http_minor") ELSE Fail("INVALID_VERSION")
  \/ /\ At({"s_res_http_minor"})
     /\ IF ch \in Digit
        THEN Move([To("s_res_http_end") EXCEPT !.http_minor = ValueOf(ch)], Here) /\ Quiet
        ELSE Fail("INVALID_VERSION")
  \/ /\ At({"s_res_http_end"})
     /\ IF ch = " " THEN Goto("s_res_first_status_code") ELSE Fail("INVALID_VERSION")

\* The code of a status: 1 stands for 101, 2 for 204, 0 for any that has a body.
StatusCode ==
  \/ /\ At({"s_res_first_status_code"})
     /\ IF ch \in Digit
        THEN Move([To("s_res_status_code") EXCEPT !.status_code = ValueOf(ch)], Here) /\ Quiet
        ELSE IF ch = " " THEN Goto(parser.state) ELSE Fail("INVALID_STATUS")
  \/ /\ At({"s_res_status_code"})
     /\ LET code == 10 * parser.status_code + ValueOf(ch) IN
        IF ch \in Digit
        THEN IF code > StatusLimit THEN Fail("INVALID_STATUS")
             ELSE Move([parser EXCEPT !.status_code = code], Here) /\ Quiet
        ELSE IF ch = " " THEN Goto("s_res_status_start")
        ELSE IF ch \in {"CR", "LF"} THEN Again("s_res_status_start")
        ELSE Fail("INVALID_STATUS")

StatusText ==
  \/ /\ At({"s_res_status_start"}) /\ Quiet
     /\ IF ch \in {"CR", "LF"} THEN REEXECUTE(To("s_res_status"), MARK("status", Here))
        ELSE Move(To("s_res_status"), MARK("status", Here))
  \/ /\ At({"s_res_status"})
     /\ IF ch = "CR" THEN CALLBACK_DATA("status", To("s_res_line_almost_done"), Here)
        ELSE IF ch = "LF" THEN CALLBACK_DATA("status", To("s_header_field_start"), Here)
        ELSE Goto(parser.state)

\* Methods by their first letter, and the letter that makes each one.
First  == { <<"G", "GET">>, <<"C", "CONNECT">>, <<"P", "POST">>, <<"H", "HEAD">> }
Second == { <<"GET", "T">>, <<"CONNECT", "N">>, <<"POST", "O">>, <<"PUT", "U">>, <<"HEAD", "E">> }

StartReq ==
  /\ At({"s_start_req"}) /\ ch \notin {"CR", "LF"}
  /\ IF Listed(First, ch)
     THEN CALLBACK_NOTIFY("message_begin",
            [Reset("s_req_method") EXCEPT !.method = Known(First, ch, @), !.index = 1])
     ELSE Fail("INVALID_METHOD")

ReqMethod ==
  /\ At({"s_req_method"})
  /\ LET next == [parser EXCEPT !.index = 2] IN
     IF parser.index = 2
     THEN IF ch = " " THEN Goto("s_req_spaces_before_url") ELSE Fail("INVALID_METHOD")
     ELSE IF <<parser.method, ch>> \in Second THEN Move(next, Here) /\ Quiet
     ELSE IF parser.method = "POST" /\ ch = "U"
     THEN Move([next EXCEPT !.method = "PUT"], Here) /\ Quiet
     ELSE Fail("INVALID_METHOD")

\* One byte of a URL: the bytes a state takes, and the state each leads to.
UrlMoves(s) ==
  LET Server == {<<{"/"}, "s_req_path">>, <<{"?"}, "s_req_query_string_start">>,
                 <<UserInfo, "s_req_server">>}
  IN
  CASE s = "s_req_spaces_before_url"  -> {<<{"/"}, "s_req_path">>, <<Alpha, "s_req_schema">>}
    [] s = "s_req_schema"             -> {<<Alpha, "s_req_schema">>, <<{":"}, "s_req_schema_slash">>}
    [] s = "s_req_schema_slash"       -> {<<{"/"}, "s_req_schema_slash_slash">>}
    [] s = "s_req_schema_slash_slash" -> {<<{"/"}, "s_req_server_start">>}
    [] s \in {"s_req_server_start", "s_req_server"} ->
         Server \cup {<<{"@"}, "s_req_server_with_at">>}
    [] s = "s_req_server_with_at"     -> Server
    [] s = "s_req_path" -> {<<UrlChar, "s_req_path">>, <<{"?"}, "s_req_query_string_start">>,
                            <<{"#"}, "s_req_fragment_start">>}
    [] s \in {"s_req_query_string_start", "s_req_query_string"} ->
         {<<UrlChar \cup {"?"}, "s_req_query_string">>, <<{"#"}, "s_req_fragment_start">>}
    [] s = "s_req_fragment_start" -> {<<UrlChar \cup {"?"}, "s_req_fragment">>,
                                      <<{"#"}, "s_req_fragment_start">>}
    [] s = "s_req_fragment" -> {<<UrlChar \cup {"?", "#"}, "s_req_fragment">>}

parse_url_char(s, c) ==
  LET moves == {m \in UrlMoves(s) : c \in m[1]} IN
  IF moves = {} THEN "s_dead" ELSE (CHOOSE m \in moves : TRUE)[2]

UrlByte(s, c) ==
  IF parse_url_char(s, ch) = "s_dead" THEN Fail("INVALID_URL")
  ELSE Move(To(parse_url_char(s, ch)), c) /\ Quiet

SpacesBeforeUrl ==
  /\ At({"s_req_spaces_before_url"})
  /\ IF ch = " " THEN Goto(parser.state)
     ELSE UrlByte(IF parser.method = "CONNECT" THEN "s_req_server_start" ELSE parser.state,
                  MARK("url", Here))

\* No end of a URL here.
UrlStart == {"s_req_schema", "s_req_schema_slash", "s_req_schema_slash_slash", "s_req_server_start"}
UrlRest  == {"s_req_server", "s_req_server_with_at", "s_req_path", "s_req_query_string_start",
             "s_req_query_string", "s_req_fragment_start", "s_req_fragment"}

Url ==
  \/ At(UrlStart) /\ UrlByte(parser.state, Here)
  \/ /\ At(UrlRest)
     /\ IF ch = " " THEN CALLBACK_DATA("url", To("s_req_http_start"), Here)
        ELSE IF ch \in {"CR", "LF"}
        THEN CALLBACK_DATA("url",
               [To(IF ch = "CR" THEN "s_req_line_almost_done" ELSE "s_header_field_start")
                  EXCEPT !.http_major = 0, !.http_minor = 9], Here)
        ELSE UrlByte(parser.state, Here)

HttpStart ==
  /\ At({"s_req_http_start"})
  /\ IF ch = " " THEN Goto(parser.state)
     ELSE IF ch = "H" THEN Goto("s_req_http_H") ELSE Fail("INVALID_CONSTANT")

ReqVersion ==
  \/ /\ At({"s_req_http_major"})
     /\ IF ch \in Digit
        THEN Move([To("s_req_http_dot") EXCEPT !.http_major = ValueOf(ch)], Here) /\ Quiet
        ELSE Fail("INVALID_VERSION")
  \/ /\ At({"s_req_http_dot"})
     /\ IF ch = "." THEN Goto("s_req_http_minor") ELSE Fail("INVALID_VERSION")
  \/ /\ At({"s_req_http_minor"})
     /\ IF ch \in Digit
        THEN Move([To("s_req_http_end") EXCEPT !.http_minor = ValueOf(ch)], Here) /\ Quiet
        ELSE Fail("INVALID_VERSION")
  \/ /\ At({"s_req_http_end"})
     /\ IF ch = "CR" THEN Goto("s_req_line_almost_done")
        ELSE IF ch = "LF" THEN Goto("s_header_field_start") ELSE Fail("INVALID_VERSION")
-----------------------------------------------------------------------------
(* Header lines.  Two letters tell the names the parser knows. *)

FieldStart ==
  { <<"c", "h_C">>, <<"p", "h_matching_proxy_connection">>,
    <<"t", "h_matching_transfer_encoding">>, <<"u", "h_matching_upgrade">> }

FieldNext ==
  { <<<<"h_C", "n">>, "h_connection">>, <<<<"h_C", "t">>, "h_content_length">>,
    <<<<"h_matching_proxy_connection", "n">>, "h_connection">>,
    <<<<"h_matching_transfer_encoding", "e">>, "h_transfer_encoding">>,
    <<<<"h_matching_upgrade", "p">>, "h_upgrade">> }

HeaderFieldStart ==
  /\ At({"s_header_field_start"})
  /\ IF ch = "CR" THEN Goto("s_headers_almost_done")
     ELSE IF ch = "LF" THEN Again("s_headers_almost_done")
     ELSE IF ch \in Token
     THEN /\ Move([To("s_header_field") EXCEPT !.header_state = Known(FieldStart, ch, "h_general")],
                  MARK("header_field", Here))
          /\ Quiet
     ELSE Fail("INVALID_HEADER_TOKEN")

\* COUNT_HEADER_SIZE(p - start), as the loop is left.
\* Mutant: the loop's bytes are not counted.
Uncounted(c) == [c EXCEPT !.run = 0]
Counted(c) == [c EXCEPT !.nread = @ + c.run, !.run = 0]

HeaderField ==
  /\ At({"s_header_field"})
  /\ IF ch \in Token
     THEN /\ Move([parser EXCEPT !.header_state = Known(FieldNext, <<@, ch>>, "h_general")],
                  [Here EXCEPT !.run = @ + 1])
          /\ Quiet
     ELSE IF Counted(Here).nread > MaxHeaderSize THEN Fail("HEADER_OVERFLOW")
     ELSE IF ch = ":"
     THEN CALLBACK_DATA("header_field", To("s_header_value_discard_ws"), Counted(Here))
     ELSE Fail("INVALID_HEADER_TOKEN")

\* A token of Connection, by its first byte.
ConnectionToken ==
  { <<"k", "h_matching_connection_keep_alive">>, <<"c", "h_matching_connection_close">>,
    <<"u", "h_matching_connection_upgrade">> }

\* Mutant: a second length takes the place of the first.
LastLength(p) ==
  Move([p EXCEPT !.flags = @ \cup {"CONTENTLENGTH"}, !.content_length = ValueOf(ch),
                 !.header_state = "h_content_length_num"], MARK("header_value", Here))
  /\ Quiet
FirstLength(p) ==
  IF "CONTENTLENGTH" \in parser.flags THEN Fail("UNEXPECTED_CONTENT_LENGTH")
  ELSE /\ Move([p EXCEPT !.flags = @ \cup {"CONTENTLENGTH"}, !.content_length = ValueOf(ch),
                         !.header_state = "h_content_length_num"], MARK("header_value", Here))
       /\ Quiet

ValueStart ==
  LET h == parser.header_state
      p == To("s_header_value")
      Becomes(q) == Move(q, MARK("header_value", Here)) /\ Quiet
  IN
  IF h = "h_content_length"
  THEN IF ch \in Digit THEN FirstLength(p) ELSE Fail("INVALID_CONTENT_LENGTH")
  ELSE IF h = "h_upgrade"
  THEN Becomes([p EXCEPT !.flags = @ \cup {"UPGRADE"}, !.header_state = "h_general"])
  ELSE IF h \in {"h_content_length_ws", "h_matching_connection_token_start"} THEN Becomes(p)
  ELSE Becomes([p EXCEPT !.header_state =
         IF h = "h_transfer_encoding" /\ ch = "c" THEN "h_matching_transfer_encoding_chunked"
         ELSE IF h = "h_connection"
         THEN Known(ConnectionToken, ch, "h_matching_connection_token")
         ELSE "h_general"])

DiscardWs ==
  /\ At({"s_header_value_discard_ws"})
  /\ IF ch = " " THEN Goto(parser.state)
     ELSE IF ch = "CR" THEN Goto("s_header_value_discard_ws_almost_done")
     ELSE IF ch = "LF" THEN Goto("s_header_value_discard_lws")
     ELSE ValueStart

HeaderValueStart == At({"s_header_value_start"}) /\ ValueStart

\* What a header that ends in this state has said.
Flag ==
  { <<"h_connection_keep_alive", "KEEP_ALIVE">>, <<"h_connection_close", "CLOSE">>,
    <<"h_transfer_encoding_chunked", "CHUNKED">>, <<"h_connection_upgrade", "CONNECTION_UPGRADE">> }
FlagOf(h) == {m[2] : m \in {x \in Flag : x[1] = h}}

\* One byte of a value that is neither a length nor a list of tokens.
CodingNext(h) ==
  IF h = "h_matching_transfer_encoding_chunked" /\ ch = "d" THEN "h_transfer_encoding_chunked"
  ELSE IF h = "h_transfer_encoding_chunked" /\ ch = " " THEN h
  ELSE "h_general"

\* One byte of the value of Connection.
TokenEnd ==
  { <<<<"h_matching_connection_keep_alive", "a">>, "h_connection_keep_alive">>,
    <<<<"h_matching_connection_close", "s">>, "h_connection_close">>,
    <<<<"h_matching_connection_upgrade", "p">>, "h_connection_upgrade">> }

TokenNext(h) ==
  IF h = "h_matching_connection_token_start"
  THEN IF ch = " " THEN h
       ELSE Known(ConnectionToken, ch, IF ch \in Token THEN "h_matching_connection_token" ELSE "h_general")
  ELSE IF Listed(Flag, h) /\ ch = " " THEN h
  ELSE IF (Listed(Flag, h) \/ h = "h_matching_connection_token") /\ ch = ","
  THEN "h_matching_connection_token_start"
  ELSE Known(TokenEnd, <<h, ch>>, "h_matching_connection_token")

\* One more digit, if the limit before it is kept.
Digits(base) ==
  IF (ULLONG_MAX - base) \div base >= parser.content_length
  THEN Move([parser EXCEPT !.content_length = @ * base + ValueOf(ch)],
            IF base = 10 THEN [Here EXCEPT !.run = @ + 1] ELSE Here) /\ Quiet
  ELSE Fail("INVALID_CONTENT_LENGTH")

Further(h) ==
  Move([parser EXCEPT !.header_state = h], [Here EXCEPT !.run = @ + 1]) /\ Quiet

\* Behind a length, only spaces.
LengthByte ==
  IF ch = " " THEN Further("h_content_length_ws")
  ELSE IF ch \in Digit /\ parser.header_state = "h_content_length_num" THEN Digits(10)
  ELSE Fail("INVALID_CONTENT_LENGTH")

ValueByte ==
  LET h == parser.header_state IN
  IF ch \notin HeaderChar THEN Fail("INVALID_HEADER_TOKEN")
  ELSE IF h \in {"h_content_length_num", "h_content_length_ws"} THEN LengthByte
  ELSE IF h \in {"h_general", "h_matching_transfer_encoding_chunked",
                 "h_transfer_encoding_chunked"} THEN Further(CodingNext(h))
  ELSE /\ Move([parser EXCEPT !.header_state = TokenNext(h),
                              !.flags = @ \cup IF ch = "," THEN FlagOf(h) ELSE {}],
               [Here EXCEPT !.run = @ + 1])
       /\ Quiet

\* The value ends: the callback comes before the count at a CR, after it at an LF.
ValueCR ==
  LET p == To("s_header_almost_done")
      c == Unmarked("header_value", Counted(Here))
  IN CALLBACK_DATA_("header_value", p, Here, Tail(rest),
              IF c.nread > MaxHeaderSize
              THEN RETURN([p EXCEPT !.http_errno = "HEADER_OVERFLOW"], c, rest) ELSE Move(p, c))
ValueLF ==
  IF Counted(Here).nread > MaxHeaderSize THEN Fail("HEADER_OVERFLOW")
  ELSE CALLBACK_DATA_NOADVANCE("header_value", To("s_header_almost_done"), Counted(Here))

HeaderValue ==
  /\ At({"s_header_value"})
  /\ IF ch = "CR" THEN ValueCR ELSE IF ch = "LF" THEN ValueLF ELSE ValueByte

\* The next line goes on with the value, or the header is over.
HeaderValueLws ==
  /\ At({"s_header_value_lws"})
  /\ IF ch = " "
     THEN REEXECUTE([To("s_header_value_start") EXCEPT !.header_state =
                       IF @ = "h_content_length_num" THEN "h_content_length_ws" ELSE @], Here)
     ELSE REEXECUTE([To("s_header_field_start") EXCEPT
                       !.flags = @ \cup FlagOf(parser.header_state)], Here)
  /\ Quiet

\* The same for a value that has not begun: it is empty.
DiscardLws ==
  /\ At({"s_header_value_discard_lws"})
  /\ IF ch = " " THEN Goto("s_header_value_discard_ws")
     ELSE IF parser.header_state = "h_content_length" THEN Fail("INVALID_CONTENT_LENGTH")
     ELSE CALLBACK_DATA_NOADVANCE("header_value",
            [To("s_header_field_start") EXCEPT !.flags = @ \cup FlagOf(parser.header_state)],
            MARK("header_value", Here))
-----------------------------------------------------------------------------
(* The end of a head, and the body. *)

Upgrades(p) ==
  IF {"UPGRADE", "CONNECTION_UPGRADE"} \subseteq p.flags
  THEN p.type = "HTTP_REQUEST" \/ p.status_code = 1
  ELSE p.method = "CONNECT"

\* What the user returned: 0, 1 for no body, 2 for another protocol.
Answered(p, a) ==
  [p EXCEPT !.upgrade = @ \/ a = 2, !.flags = @ \cup IF a = 0 THEN {} ELSE {"SKIPBODY"}]

\* A pause here is found behind the callback, and the count is saved.
HeadersComplete(p) ==
  /\ Told("headers_complete", <<>>)
  /\ \/ \E a \in 0 .. 2 :
          \/ REEXECUTE(Answered(p, a), Here) /\ user' = [user EXCEPT !.answer = a]
          \/ /\ user.pauses > 0
             /\ RETURN([Answered(p, a) EXCEPT !.http_errno = "PAUSED"], Here, rest)
             /\ user' = [pauses |-> user.pauses - 1, answer |-> a]
     \/ RETURN([p EXCEPT !.http_errno = "CB"], Here, rest) /\ user' = user

HeadersAlmostDone ==
  /\ At({"s_headers_almost_done"})
  /\ IF ch # "LF" THEN Fail("STRICT")
     ELSE IF "TRAILING" \in parser.flags
     THEN CALLBACK_NOTIFY_NOADVANCE("chunk_complete", To("s_message_done"))
     ELSE IF {"CHUNKED", "CONTENTLENGTH"} \subseteq parser.flags
     THEN Fail("UNEXPECTED_CONTENT_LENGTH")
     ELSE HeadersComplete([To("s_headers_done") EXCEPT !.upgrade = Upgrades(parser)])

hasBody(p) == "CHUNKED" \in p.flags \/ p.content_length \notin {0, ULLONG_MAX}

\* The message ends with this byte; the call too, if the rest is not HTTP.
MessageComplete(p, c) ==
  CALLBACK("message_complete", <<>>, NEW_MESSAGE(p), c, Tail(rest),
           IF p.upgrade THEN RETURN(NEW_MESSAGE(p), c, Tail(rest)) ELSE Move(NEW_MESSAGE(p), c))

\* Where the bytes behind the head belong.
\* Mutant: a response without a length has no body.
NeverToEof(p) ==
  IF "SKIPBODY" \in p.flags THEN "none"
  ELSE IF "CHUNKED" \in p.flags THEN "s_chunk_size_start"
  ELSE IF p.content_length \in {0, ULLONG_MAX} THEN "none" ELSE "s_body_identity"
BodyState(p) ==
  IF "SKIPBODY" \in p.flags THEN "none"
  ELSE IF "CHUNKED" \in p.flags THEN "s_chunk_size_start"
  ELSE IF p.content_length = 0 THEN "none"
  ELSE IF p.content_length # ULLONG_MAX THEN "s_body_identity"
  ELSE IF http_message_needs_eof(p) THEN "s_body_identity_eof" ELSE "none"

HeadersDone ==
  /\ At({"s_headers_done"})
  /\ LET p == [parser EXCEPT !.nread = 0]
         c == [Here EXCEPT !.nread = 0]
         leaves == p.upgrade /\ (p.method = "CONNECT" \/ "SKIPBODY" \in p.flags \/ ~ hasBody(p))
     IN
     IF ch # "LF" THEN Fail("STRICT")
     ELSE IF leaves THEN MessageComplete(p, c)
     ELSE IF BodyState(p) = "none"
     THEN CALLBACK("message_complete", <<>>, NEW_MESSAGE(p), c, Tail(rest), Move(NEW_MESSAGE(p), c))
     ELSE Move([p EXCEPT !.state = BodyState(p)], c) /\ Quiet

\* One byte of a body that is owed.
Less == [parser EXCEPT !.content_length = @ - 1]

\* The last byte is handed over with the others and looked at again.
BodyIdentity ==
  /\ At({"s_body_identity"})
  /\ LET c == MARK("body", Here) IN
     IF parser.content_length > 1
     THEN Move(Less, c) /\ Quiet
     ELSE LET p == [Less EXCEPT !.state = "s_message_done"] IN
          CALLBACK("body", Append(c.mark["body"], ch), p, c, rest,
                   REEXECUTE(p, Unmarked("body", c)))

BodyIdentityEof ==
  At({"s_body_identity_eof"}) /\ Move(parser, MARK("body", Here)) /\ Quiet

MessageDone == At({"s_message_done"}) /\ MessageComplete(parser, Here)
-----------------------------------------------------------------------------
(* Chunks. *)

ChunkSizeStart ==
  /\ At({"s_chunk_size_start"})
  /\ IF ch \in Digit
     THEN Move([To("s_chunk_size") EXCEPT !.content_length = ValueOf(ch)], Here) /\ Quiet
     ELSE Fail("INVALID_CHUNK_SIZE")

ChunkSize ==
  /\ At({"s_chunk_size"})
  /\ IF ch = "CR" THEN Goto("s_chunk_size_almost_done")
     ELSE IF ch \in Digit THEN Digits(16)
     ELSE IF ch \in {";", " "} THEN Goto("s_chunk_parameters")
     ELSE Fail("INVALID_CHUNK_SIZE")

ChunkParameters ==
  /\ At({"s_chunk_parameters"})
  /\ Goto(IF ch = "CR" THEN "s_chunk_size_almost_done" ELSE parser.state)

ChunkSizeAlmostDone ==
  /\ At({"s_chunk_size_almost_done"})
  /\ IF ch # "LF" THEN Fail("STRICT")
     ELSE LET p == IF parser.content_length = 0
                   THEN [To("s_header_field_start") EXCEPT !.nread = 0, !.flags = @ \cup {"TRAILING"}]
                   ELSE [To("s_chunk_data") EXCEPT !.nread = 0]
              c == [Here EXCEPT !.nread = 0]
          IN CALLBACK("chunk_header", <<>>, p, c, Tail(rest), Move(p, c))

ChunkData ==
  /\ At({"s_chunk_data"})
  /\ Move(IF parser.content_length = 1 THEN [Less EXCEPT !.state = "s_chunk_data_almost_done"]
          ELSE Less, MARK("body", Here))
  /\ Quiet

ChunkDataAlmostDone ==
  /\ At({"s_chunk_data_almost_done"})
  /\ IF ch = "CR" THEN CALLBACK_DATA("body", To("s_chunk_data_done"), Here) ELSE Fail("STRICT")

ChunkDataDone ==
  /\ At({"s_chunk_data_done"})
  /\ IF ch # "LF" THEN Fail("STRICT")
     ELSE LET p == [To("s_chunk_size_start") EXCEPT !.nread = 0]
              c == [Here EXCEPT !.nread = 0]
          IN CALLBACK("chunk_complete", <<>>, p, c, Tail(rest), Move(p, c))
-----------------------------------------------------------------------------
(* Calls. *)

\* Which element goes on in the next buffer.
\* Mutant: a value that was cut is not taken up.
MarksButValue(s) ==
  IF s = "s_header_field" THEN {"header_field"}
  ELSE IF s \in UrlStart \cup UrlRest THEN {"url"}
  ELSE IF s = "s_res_status" THEN {"status"} ELSE {}
EntryMarks(s) ==
  IF s = "s_header_field" THEN {"header_field"}
  ELSE IF s = "s_header_value" THEN {"header_value"}
  ELSE IF s \in UrlStart \cup UrlRest THEN {"url"}
  ELSE IF s = "s_res_status" THEN {"status"} ELSE {}

\* The rest of the connection is the user's after a message that upgrades it.
Left == event = "message_complete" /\ parser.upgrade

http_parser_execute ==
  /\ ~ call.open /\ rest # <<>> /\ parser.http_errno = "OK" /\ ~ Left
  /\ call' = [Closed EXCEPT !.open = TRUE, !.nread = parser.nread,
                            !.mark = [k \in EntryMarks(parser.state) |-> <<>>]]
  /\ UNCHANGED <<parser, rest, peer>> /\ Quiet

\* The buffer ends behind any byte: what is marked is handed over.
BufferEnds ==
  /\ call.open /\ ~ call.again /\ ~ call.fresh /\ UNCHANGED peer
  /\ LET c == [call EXCEPT !.nread = @ + IF call.run = 0 THEN 0 ELSE call.run - 1, !.run = 0] IN
     IF c.nread > MaxHeaderSize
     THEN RETURN([parser EXCEPT !.http_errno = "HEADER_OVERFLOW"], c, rest) /\ Quiet
     ELSE IF c.mark = <<>> THEN RETURN(parser, c, rest) /\ Quiet
     ELSE \E k \in DOMAIN c.mark :
            CALLBACK_DATA_(k, parser, c, rest, RETURN(parser, c, rest))

\* A call with no bytes: the connection is at its end, wherever the peer was.
EndOfFile ==
  /\ ~ call.open /\ parser.http_errno = "OK" /\ peer.turn # "left" /\ ~ Left
  /\ IF parser.state = "s_body_identity_eof"
     THEN CALLBACK("message_complete", <<>>, parser, [call EXCEPT !.nread = parser.nread], <<>>,
                   UNCHANGED <<parser, call>> /\ rest' = <<>>)
     ELSE IF parser.state \in {"s_dead", "s_start_req_or_res", "s_start_res", "s_start_req"}
     THEN UNCHANGED <<parser, call>> /\ rest' = <<>> /\ Quiet
     ELSE parser' = [parser EXCEPT !.http_errno = "INVALID_EOF_STATE"]
          /\ call' = call /\ rest' = <<>> /\ Quiet
  /\ peer' = [peer EXCEPT !.turn = "left"]

\* http_parser_pause(parser, 0)
http_parser_pause ==
  /\ parser.http_errno = "PAUSED"
  /\ parser' = [parser EXCEPT !.http_errno = "OK"]
  /\ UNCHANGED <<call, rest, peer>> /\ Quiet

Pass ==
  \/ HeaderOverflow
  \/ Dead \/ BlankBefore \/ StartReqOrRes \/ ResOrRespH \/ StartRes \/ Constant \/ ResVersion
  \/ StatusCode \/ StatusText \/ StartReq \/ ReqMethod \/ SpacesBeforeUrl \/ Url \/ HttpStart
  \/ ReqVersion \/ HeaderFieldStart \/ HeaderField \/ DiscardWs \/ HeaderValueStart
  \/ HeaderValue \/ HeaderValueLws \/ DiscardLws \/ HeadersAlmostDone \/ HeadersDone
  \/ BodyIdentity \/ BodyIdentityEof \/ MessageDone \/ ChunkSizeStart \/ ChunkSize
  \/ ChunkParameters \/ ChunkSizeAlmostDone \/ ChunkData \/ ChunkDataAlmostDone \/ ChunkDataDone
-----------------------------------------------------------------------------
(* The peer sends a line or a body at a time; the buffers cut it anywhere. *)

Skips == user.answer # 0
Frames == Framing(peer.says, Skips, user.answer = 2)

\* The message sent is at its end.
Over ==
  \/ peer.turn = "start" /\ peer.messages > 0
  \/ peer.turn = "after" /\ Frames = "none"

Ready == rest = <<>> /\ parser.http_errno = "OK" /\ ~ Left
Sends(bytes) == rest' = bytes /\ UNCHANGED <<parser, call, event, got, user>>

SendStart ==
  /\ Ready /\ (Over \/ peer.messages = 0) /\ peer.turn # "headers" /\ peer.turn # "left"
  /\ peer.messages < MaxMessages
  /\ \E l \in StartLines(parser.type, peer.messages + 1) :
       /\ Sends(l.bytes)
       /\ peer' = [turn |-> "headers", says |-> l.says, sent |-> <<<<l.kind, l.data>>>>,
                   lines |-> 0, left |-> 0, messages |-> peer.messages + 1,
                   head |-> Len(l.bytes) + IF peer.turn = "start" THEN peer.head ELSE 0,
                   last |-> peer.last \/
                     (peer.messages > 0 /\ IsLast(peer.says, Skips, user.answer = 2))]

WithHeader(h) ==
  [peer EXCEPT !.says = Saying(@, h), !.lines = @ + 1, !.head = @ + Len(h.bytes),
     !.sent = Collected(Collected(@, "header_field", h.field), "header_value", h.value)]

SendHeader ==
  /\ Ready /\ peer.turn = "headers" /\ peer.lines < MaxHeaders
  /\ \E h \in HeaderLines(peer.messages, peer.lines, peer.says) : Sends(h.bytes) /\ peer' = WithHeader(h)

SendEnd ==
  /\ Ready /\ peer.turn = "headers"
  /\ \E end \in Ends :
       Sends(end) /\ peer' = [peer EXCEPT !.turn = "after", !.lines = 0, !.head = @ + Len(end)]

\* Two kinds of bytes, so that none is given twice or out of order.
Bytes(n) == [i \in 1 .. n |-> IF i % 2 = 1 THEN "x" ELSE "b"]

SendBody ==
  /\ Ready /\ peer.turn = "after"
  /\ \/ /\ Frames = "length"
        /\ Sends(Bytes(peer.says.length))
        /\ peer' = [peer EXCEPT !.turn = "start", !.head = 0,
                                !.sent = Collected(@, "body", Bytes(peer.says.length))]
     \/ /\ Frames = "eof" /\ peer.lines < MaxChunks
        /\ Sends(Bytes(2))
        /\ peer' = [peer EXCEPT !.lines = @ + 1, !.sent = Collected(@, "body", Bytes(2))]

SendChunk ==
  /\ Ready
  /\ peer.turn = "chunk" \/ (peer.turn = "after" /\ Frames = "chunked")
  /\ \E l \in ChunkLines :
       /\ l.size > 0 => peer.lines < MaxChunks
       /\ Sends(l.bytes)
       /\ peer' = [peer EXCEPT !.head = Len(l.bytes),
                     !.turn = IF l.size = 0 THEN "trailer" ELSE "data", !.left = l.size,
                     !.says.bad = @ \/ l.bad, !.lines = IF l.size = 0 THEN 0 ELSE @ + 1]

SendData ==
  /\ Ready /\ peer.turn = "data"
  /\ Sends(Bytes(peer.left) \o CRLF)
  /\ peer' = [peer EXCEPT !.turn = "chunk", !.sent = Collected(@, "body", Bytes(peer.left))]

SendTrailer ==
  /\ Ready /\ peer.turn = "trailer"
  /\ LET p == IF peer.lines = 0 THEN [peer EXCEPT !.head = 0] ELSE peer IN
     \/ /\ peer.lines < 1
        /\ \E h \in TrailerLines :
             Sends(h.bytes) /\ peer' = [WithHeader(h) EXCEPT !.head = p.head + Len(h.bytes)]
     \/ Sends(CRLF) /\ peer' = [peer EXCEPT !.turn = "start", !.head = p.head + 2]

Peer == SendStart \/ SendHeader \/ SendEnd \/ SendBody \/ SendChunk \/ SendData \/ SendTrailer

Next ==
  \/ http_parser_execute \/ Pass \/ BufferEnds \/ http_parser_pause \/ EndOfFile
  \/ Peer

Spec == Init /\ [][Next]_vars
-----------------------------------------------------------------------------
(* Properties. *)

\* What the user has put together is what the peer sent: whenever a call has
\* returned with everything consumed, each element is there, whole and once,
\* wherever the buffers were cut and the parser was paused.  (An empty value
\* is told of with the first byte behind its line.)
ElementsWhole ==
  (~ call.open /\ rest = <<>> /\ parser.http_errno \in {"OK", "PAUSED"}
     /\ peer.turn # "left" /\ parser.state # "s_header_value_discard_lws")
  => got = peer.sent

\* on_message_complete comes with the last byte of a message, not before it and
\* not with the next: the parser and the peer agree on where a message ends,
\* whatever its length, chunks, status, method and the user's answer make of it.
\* Nothing is told of a message that follows the last one (http_parser.h:377),
\* unless the rest of the connection is the user's own.
InStep ==
  /\ (rest = <<>> /\ parser.http_errno = "OK" /\ peer.turn # "left")
     => (event = "message_complete") = Over
  /\ peer.last => event = "message_complete"

\* The parser stops only at what must not be taken: bad bytes, two lengths, a
\* length next to chunks, a head over the limit, bytes behind a last message,
\* an end within a message (a byte that a pause left is counted again); and no
\* head or chunk of that kind is read to its end.
StopsAtTheBad ==
  /\ parser.http_errno \notin {"OK", "PAUSED", "CB"} =>
       \/ Refused(peer.says)
       \/ /\ parser.http_errno = "HEADER_OVERFLOW"
          /\ peer.head + (MaxPauses - user.pauses) > MaxHeaderSize
       \/ parser.http_errno = "CLOSED_CONNECTION" /\ peer.last
       \/ parser.http_errno = "INVALID_EOF_STATE" /\ peer.turn = "left"
  /\ (rest = <<>> /\ parser.http_errno = "OK" /\ peer.turn \in {"after", "data", "trailer"})
       => ~ Refused(peer.says)

\* No head is longer than max_header_size when its end is told of (the comment
\* at COUNT_HEADER_SIZE), however it came in; a pause loses the count.
HeadBounded ==
  (event = "headers_complete" /\ parser.http_errno = "OK" /\ user.pauses = MaxPauses
     /\ peer.turn = "after")
  => peer.head <= MaxHeaderSize

\* The assertions of http_parser_execute: at most one mark, a count of one at
\* the first byte of a chunk size, a length that is there and not used up in a
\* body, no header state that the start of a value should have left.
AssertsHold ==
  LET s == parser.state IN
  call.open =>
    /\ Cardinality(DOMAIN call.mark) <= 1
    /\ (s = "s_chunk_size_start" /\ rest # <<>>) => Here.nread = 1
    /\ s \in {"s_chunk_size_start", "s_chunk_size", "s_chunk_parameters",
              "s_chunk_size_almost_done", "s_chunk_data", "s_chunk_data_almost_done",
              "s_chunk_data_done"} => "CHUNKED" \in parser.flags
    /\ s \in {"s_chunk_data", "s_body_identity"} =>
         parser.content_length \notin {0, ULLONG_MAX}
    /\ s = "s_chunk_data_almost_done" => parser.content_length = 0
    /\ s = "s_header_value" => parser.header_state \notin {"h_connection", "h_transfer_encoding"}
-----------------------------------------------------------------------------
(* The order of the callbacks, and the bytes they announce and deliver. *)

Held == IF "body" \in DOMAIN call.mark THEN Len(call.mark["body"]) ELSE 0

Running == parser.http_errno \in {"OK", "PAUSED"}

Announced(p) ==
  IF p.upgrade /\ (p.method = "CONNECT" \/ "SKIPBODY" \in p.flags \/ ~ hasBody(p)) THEN 0
  ELSE IF BodyState(p) = "s_body_identity" THEN p.content_length
  ELSE IF BodyState(p) = "s_body_identity_eof" THEN ULLONG_MAX ELSE 0

Owed ==
  IF ~ Running \/ event = "message_complete" THEN 0
  ELSE IF parser.state = "s_headers_done" THEN Announced(parser)
  ELSE IF parser.state \in {"s_body_identity", "s_chunk_data"} THEN parser.content_length + Held
  ELSE IF parser.state = "s_chunk_data_almost_done" THEN Held
  ELSE IF parser.state = "s_body_identity_eof" THEN ULLONG_MAX ELSE 0

Callbacks == INSTANCE HttpCallbacks WITH
  heard <- event, owed <- Owed, running <- Running,
  trailing <- Running /\ event # "message_complete" /\ "TRAILING" \in parser.flags,
  Unbounded <- ULLONG_MAX

\* The callbacks come in the order of the parts of a message, chunks and
\* trailers too, with exactly the bytes of body that were announced, and none
\* comes after an error.
ImplementsCallbacks == Callbacks!Spec
=============================================================================
