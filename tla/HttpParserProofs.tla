-------------------------- MODULE HttpParserProofs --------------------------
(***************************************************************************)
(* For all bytes and messages, all cuts into buffers, any pauses and       *)
(* failures of the user: the assertions of http_parser_execute hold, and   *)
(* its callbacks come in the order, and with the bytes of body, that       *)
(* HttpCallbacks promises.                                                 *)
(*                                                                         *)
(* The parser does not keep which callback was the last: its state implies *)
(* it.  Fits says so, class of states by class of states; with the marks,  *)
(* which tell what the next callback will be, and the counts, it is        *)
(* inductive.  Each action is then one lemma, of the invariant and of the  *)
(* order of the callbacks at once.                                         *)
(***************************************************************************)
EXTENDS HttpParser, FiniteSetTheorems, TLAPS

\* The states of the parser by what the user has heard when it is in them.
Begins == {"s_start_req_or_res", "s_start_res", "s_start_req"}
InLine == {"s_res_or_resp_H", "s_res_H", "s_res_HT", "s_res_HTT", "s_res_HTTP", "s_res_http_major",
           "s_res_http_dot", "s_res_http_minor", "s_res_http_end", "s_res_first_status_code",
           "s_res_status_code", "s_res_status_start", "s_req_method", "s_req_spaces_before_url"}
InUrl == UrlStart \cup UrlRest
LineEnds == {"s_req_http_start", "s_req_http_H", "s_req_http_HT", "s_req_http_HTT", "s_req_http_HTTP",
             "s_req_http_major", "s_req_http_dot", "s_req_http_minor", "s_req_http_end",
             "s_req_line_almost_done", "s_res_line_almost_done"}
AtHeader == {"s_header_field_start", "s_headers_almost_done"}
AtValue == {"s_header_value_discard_ws", "s_header_value_discard_ws_almost_done",
            "s_header_value_discard_lws", "s_header_value_start", "s_header_value"}
ValueEnds == {"s_header_almost_done", "s_header_value_lws"}
InSize == {"s_chunk_size_start", "s_chunk_size", "s_chunk_parameters", "s_chunk_size_almost_done"}
InData == {"s_chunk_data", "s_chunk_data_almost_done"}
InBody == {"s_body_identity", "s_body_identity_eof"}

Trailing(p) == "TRAILING" \in p.flags

\* Behind a start line, behind a header, or behind the last chunk.
Lines(p) == IF Trailing(p) THEN {"chunk_header", "header_value"}
            ELSE {"url", "status", "header_value"}

\* What the user hears last before a state, and what the parser knows in it.
Fits(p, e, turn) ==
  LET s == p.state IN
  /\ s \in Begins => e = "message_complete" \/ (e = "none" /\ ~ Trailing(p))
  /\ s = "s_dead" => e = "message_complete"
  /\ s \in InLine => e = "message_begin"
  /\ s \in InUrl => e \in {"message_begin", "url"}
  /\ s = "s_res_status" => e \in {"message_begin", "status"}
  /\ s \in LineEnds => e \in {"url", "status"}
  /\ s \in InLine \cup InUrl \cup {"s_res_status"} \cup LineEnds => ~ Trailing(p)
  /\ s \in AtHeader => e \in Lines(p)
  /\ s = "s_header_field" => e \in Lines(p) \cup {"header_field"}
  /\ s \in AtValue => e \in {"header_field", "header_value"}
  /\ s = "s_header_value" => p.header_state \notin {"h_connection", "h_transfer_encoding"}
  /\ s \in ValueEnds => e = "header_value"
  /\ s = "s_headers_done" => e = "headers_complete" /\ ~ Trailing(p)
  /\ s \in InSize => e \in {"headers_complete", "chunk_complete"} /\ ~ Trailing(p)
  /\ s \in InSize \ {"s_chunk_size_start"} => p.content_length # ULLONG_MAX
  /\ s \in InData => e \in {"chunk_header", "body"} /\ ~ Trailing(p)
  /\ s = "s_chunk_data_done" => e = "body" /\ ~ Trailing(p)
  /\ s \in InSize \cup InData \cup {"s_chunk_data_done"} => "CHUNKED" \in p.flags
  /\ s \in {"s_chunk_data", "s_body_identity"} => p.content_length \notin {0, ULLONG_MAX}
  /\ s = "s_chunk_data_almost_done" => p.content_length = 0
  /\ s \in InBody => /\ ~ Trailing(p)
                     /\ \/ e \in {"headers_complete", "body"}
                        \/ s = "s_body_identity_eof" /\ e = "message_complete" /\ turn = "left"
  /\ s = "s_message_done" => e = IF Trailing(p) THEN "chunk_complete" ELSE "body"

IsSequence(s) == Len(s) \in Nat /\ s = [i \in 1 .. Len(s) |-> s[i]]

\* What is marked, in a call.
Delivers == InData \cup InBody
Marked(s, m) ==
  IF s \in Delivers
  THEN DOMAIN m \subseteq {"body"} /\ ("body" \in DOMAIN m => IsSequence(m["body"]) /\ Len(m["body"]) > 0)
  ELSE DOMAIN m = EntryMarks(s)

Counts == {"s_header_field", "s_header_value"}

ParserFields == {"type", "state", "header_state", "index", "nread", "flags", "content_length",
                 "http_major", "http_minor", "status_code", "method", "upgrade", "http_errno"}
CallFields == {"open", "nread", "run", "mark", "again", "fresh"}

IsParser(p) == ParserFields \subseteq DOMAIN p /\ p.content_length \in 0 .. ULLONG_MAX

Open(p, c, e) ==
  /\ CallFields \subseteq DOMAIN c /\ c.open = TRUE
  /\ Marked(p.state, c.mark)
  /\ p.state \notin Counts => c.run = 0
  /\ p.state = "s_chunk_size_start" => c.nread = 0 /\ ~ c.again
  /\ p.state = "s_chunk_data_almost_done" => e = "body" \/ "body" \in DOMAIN c.mark

Shut(p, e) ==
  /\ p.state = "s_chunk_size_start" => p.nread = 0
  /\ p.state = "s_chunk_data_almost_done" => e = "body"

IInv ==
  /\ IsParser(parser)
  /\ "turn" \in DOMAIN peer
  /\ peer.turn = "left" => rest = <<>> /\ ~ call.open
  /\ Running => Fits(parser, event, peer.turn)
  /\ IF call.open THEN parser.http_errno = "OK" /\ Open(parser, call, event)
     ELSE call = Closed /\ (Running => Shut(parser, event))

-----------------------------------------------------------------------------
(***************************************************************************)
(* Operators.                                                              *)
(***************************************************************************)

\* Append to any sequence, whatever is in it.
LEMMA AppendIs ==
  ASSUME NEW s, IsSequence(s), NEW e
  PROVE  IsSequence(Append(s, e)) /\ Len(Append(s, e)) = Len(s) + 1
<1> DEFINE S == {s[i] : i \in 1 .. Len(s)} \cup {e}
<1>1. s \in Seq(S)
  BY DEF IsSequence
<1>2. e \in S
  OBVIOUS
<1> HIDE DEF S
<1>3. Append(s, e) \in Seq(S) /\ Len(Append(s, e)) = Len(s) + 1 /\ Len(Append(s, e)) \in Nat
  BY <1>1, <1>2
<1>4. PICK x \in Seq(S) : x = Append(s, e)
  BY <1>3
<1>5. x = [i \in 1 .. Len(x) |-> x[i]]
  OBVIOUS
<1> QED BY <1>3, <1>4, <1>5 DEF IsSequence

\* The empty sequence.
LEMMA EmptyIs == IsSequence(<<>>) /\ Len(<<>>) = 0 /\ DOMAIN <<>> = {}
BY DEF IsSequence

\* What a table says is in it.
LEMMA KnownIs ==
  ASSUME NEW table, NEW x, NEW else
  PROVE  Known(table, x, else) = else \/ \E m \in table : m[1] = x /\ Known(table, x, else) = m[2]
BY DEF Known, Listed

\* To changes the state alone.
LEMMA ToIs ==
  ASSUME IsParser(parser), NEW s
  PROVE  /\ IsParser(To(s)) /\ To(s).state = s
         /\ To(s).flags = parser.flags /\ To(s).content_length = parser.content_length
         /\ To(s).header_state = parser.header_state /\ To(s).http_errno = parser.http_errno
         /\ To(s).nread = parser.nread
BY DEF To, IsParser, ParserFields

\* A byte is counted, and nothing else.
LEMMA HereIs ==
  ASSUME CallFields \subseteq DOMAIN call
  PROVE  /\ CallFields \subseteq DOMAIN Here /\ Here.open = call.open /\ Here.run = call.run
         /\ Here.mark = call.mark /\ Here.again = call.again /\ Here.fresh = call.fresh
         /\ parser.state = "s_chunk_size_start" /\ call.nread = 0 /\ ~ call.again /\ call.run = 0
              => Here.nread = 1
BY DEF Here, CallFields, BodyStates

\* MARK adds a mark with no bytes behind it, unless it is there.
LEMMA MarkIs ==
  ASSUME NEW c, CallFields \subseteq DOMAIN c, NEW kind
  PROVE  /\ CallFields \subseteq DOMAIN MARK(kind, c) /\ MARK(kind, c).open = c.open
         /\ MARK(kind, c).run = c.run /\ MARK(kind, c).nread = c.nread
         /\ MARK(kind, c).again = c.again
         /\ DOMAIN MARK(kind, c).mark = DOMAIN c.mark \cup {kind}
         /\ \A k \in DOMAIN c.mark : MARK(kind, c).mark[k] = c.mark[k]
         /\ kind \notin DOMAIN c.mark => MARK(kind, c).mark[kind] = <<>>
BY DEF MARK, CallFields

\* Unmarked takes one away.
LEMMA UnmarkedIs ==
  ASSUME NEW c, CallFields \subseteq DOMAIN c, NEW kind
  PROVE  /\ CallFields \subseteq DOMAIN Unmarked(kind, c) /\ Unmarked(kind, c).open = c.open
         /\ Unmarked(kind, c).run = c.run /\ Unmarked(kind, c).nread = c.nread
         /\ DOMAIN Unmarked(kind, c).mark = DOMAIN c.mark \ {kind}
         /\ \A k \in DOMAIN c.mark \ {kind} : Unmarked(kind, c).mark[k] = c.mark[k]
BY DEF Unmarked, CallFields

\* Counted leaves the loop over a name or a value.
LEMMA CountedIs ==
  ASSUME NEW c, CallFields \subseteq DOMAIN c
  PROVE  /\ CallFields \subseteq DOMAIN Counted(c) /\ Counted(c).open = c.open
         /\ Counted(c).run = 0 /\ Counted(c).mark = c.mark
BY DEF Counted, CallFields

\* No call.
LEMMA ClosedIs ==
  /\ CallFields \subseteq DOMAIN Closed /\ Closed.open = FALSE /\ DOMAIN Closed.mark = {}
BY EmptyIs DEF Closed, CallFields

\* The ways a pass ends.
LEMMA MoveIs ==
  ASSUME NEW p, NEW c, CallFields \subseteq DOMAIN c, Move(p, c)
  PROVE  /\ parser' = p /\ CallFields \subseteq DOMAIN call' /\ call'.open = c.open
         /\ call'.run = c.run /\ call'.nread = c.nread /\ ~ call'.again
         /\ DOMAIN call'.mark = DOMAIN c.mark
         /\ \A k \in DOMAIN c.mark : call'.mark[k] = Append(c.mark[k], ch)
BY DEF Move, CallFields

\* REEXECUTE.
LEMMA ReexecuteIs ==
  ASSUME NEW p, NEW c, CallFields \subseteq DOMAIN c, REEXECUTE(p, c)
  PROVE  /\ parser' = p /\ CallFields \subseteq DOMAIN call' /\ call'.open = c.open
         /\ call'.run = c.run /\ call'.nread = c.nread
         /\ call'.mark = c.mark
BY DEF REEXECUTE, CallFields

-----------------------------------------------------------------------------
(***************************************************************************)
(* Steps in general.                                                       *)
(***************************************************************************)

\* The states in which bytes of a body are owed, and those of which the
\* invariant says more than which callback was the last.
Owing   == Delivers \cup {"s_headers_done"}
Special == Owing \cup {"s_chunk_size_start"}

Trails == Running /\ event # "message_complete" /\ Trailing(parser)

Order == [Callbacks!Next]_(Callbacks!vars)

Step == IInv' /\ Order

\* Two parsers that the invariant does not tell apart.
Alike(q, p) ==
  /\ q.state = p.state /\ q.flags = p.flags /\ q.content_length = p.content_length
  /\ q.header_state = p.header_state /\ q.nread = p.nread /\ q.upgrade = p.upgrade
  /\ q.method = p.method /\ q.type = p.type /\ q.status_code = p.status_code

\* What was heard last fits the one as it fits the other.
LEMMA FitsAlike ==
  ASSUME NEW p, NEW q, Alike(q, p), NEW e, NEW turn, Fits(p, e, turn)
  PROVE  Fits(q, e, turn)
BY DEF Fits, Alike, Trailing, Lines

\* Nothing is owed outside a body, after an error or after a message.
LEMMA NoneOwed ==
  ASSUME parser.state \notin Owing \/ ~ Running \/ event = "message_complete"
  PROVE  Owed = 0
BY DEF Owed, Owing, Delivers, InData, InBody

\* The same after a step.
LEMMA NoneOwedNext ==
  ASSUME parser'.state \notin Owing \/ ~ Running' \/ event' = "message_complete"
  PROVE  Owed' = 0
BY DEF Owed, Owing, Delivers, InData, InBody

\* A step of which the user notices nothing.
LEMMA Stutters ==
  ASSUME event' = event, Running' <=> Running, Owed' = Owed, Trails' <=> Trails
  PROVE  Order
<1>1. Running' = Running
  BY DEF Running
<1>2. (Running /\ event # "message_complete" /\ "TRAILING" \in parser.flags)'
      = (Running /\ event # "message_complete" /\ "TRAILING" \in parser.flags)
  BY DEF Trails, Trailing
<1> QED BY <1>1, <1>2 DEF Order, Callbacks!vars

\* An error, of which no callback tells.
LEMMA Errs ==
  ASSUME Running, ~ Running', event' = event
  PROVE  Order
<1>1. Owed' = 0
  BY NoneOwedNext
<1> QED BY <1>1 DEF Order, Callbacks!Next, Callbacks!Error

\* The call goes on.
LEMMA Going ==
  ASSUME IInv, call.open, UNCHANGED peer, IsParser(parser'), parser'.http_errno = "OK",
         Fits(parser', event', peer.turn), Open(parser', call', event')
  PROVE  IInv' /\ Running'
BY DEF IInv, Open, Running

\* The call returns.
LEMMA Closing ==
  ASSUME IInv, call.open, UNCHANGED peer, call' = Closed, IsParser(parser'),
         parser'.http_errno \in {"OK", "PAUSED"} =>
           Fits(parser', event', peer.turn) /\ Shut(parser', event')
  PROVE  IInv'
BY ClosedIs DEF IInv, Running

\* What the invariant says within a call.
LEMMA InCall ==
  ASSUME IInv, call.open
  PROVE  /\ IsParser(parser) /\ parser.http_errno = "OK" /\ Running
         /\ Fits(parser, event, peer.turn) /\ Open(parser, call, event)
         /\ CallFields \subseteq DOMAIN call /\ CallFields \subseteq DOMAIN Here
         /\ call.open = TRUE /\ Here.open = TRUE /\ Here.mark = call.mark /\ Here.run = call.run
         /\ Here.again = call.again /\ peer.turn # "left"
<1>1. /\ IsParser(parser) /\ parser.http_errno = "OK" /\ Running
      /\ Fits(parser, event, peer.turn) /\ Open(parser, call, event) /\ peer.turn # "left"
  BY DEF IInv, Running
<1>2. CallFields \subseteq DOMAIN call /\ call.open = TRUE
  BY <1>1 DEF Open
<1> QED BY <1>1, <1>2, HereIs

\* The parser stops at a byte.
LEMMA FailIs ==
  ASSUME IInv, call.open, UNCHANGED peer, NEW e, e \notin {"OK", "PAUSED"}, Fail(e)
  PROVE  Step
<1>1. IsParser(parser) /\ Running
  BY InCall
<1>2. parser' = [[parser EXCEPT !.http_errno = e] EXCEPT !.nread = Here.nread]
      /\ call' = Closed /\ event' = event
  BY DEF Fail, RETURN, Quiet
<1>3. IsParser(parser') /\ parser'.http_errno = e
  BY <1>1, <1>2 DEF IsParser, ParserFields
<1>4. IInv'
  BY <1>2, <1>3, Closing
<1>5. ~ Running'
  BY <1>3 DEF Running
<1> QED BY <1>1, <1>2, <1>4, <1>5, Errs DEF Step

\* No callback, nothing owed before or after.
LEMMA QuietGo ==
  ASSUME IInv, call.open, UNCHANGED peer, Quiet, NEW p, NEW c, Move(p, c) \/ REEXECUTE(p, c),
         CallFields \subseteq DOMAIN c, c.open = TRUE,
         IsParser(p), p.http_errno = "OK", Fits(p, event, peer.turn),
         p.state \notin Special, parser.state \notin Owing,
         DOMAIN c.mark = EntryMarks(p.state), p.state \in Counts \/ c.run = 0,
         (Trailing(p) <=> Trailing(parser)) \/ event = "message_complete"
  PROVE  Step
<1>1. Running
  BY InCall
<1>2. /\ parser' = p /\ CallFields \subseteq DOMAIN call' /\ call'.open = TRUE
      /\ call'.run = c.run /\ DOMAIN call'.mark = DOMAIN c.mark /\ event' = event
  BY MoveIs, ReexecuteIs DEF Quiet
<1>3. Marked(p.state, call'.mark)
  BY <1>2 DEF Marked, Special, Owing
<1>4. Open(p, call', event)
  BY <1>2, <1>3 DEF Open, Special, Owing, Delivers, InData
<1>5. IInv' /\ Running'
  BY <1>2, <1>4, Going
<1>6. Owed' = 0 /\ Owed = 0
  BY <1>2, NoneOwed, NoneOwedNext DEF Special
<1>7. Trails' <=> Trails
  BY <1>1, <1>2, <1>5 DEF Trails
<1> QED BY <1>1, <1>2, <1>5, <1>6, <1>7, Stutters DEF Step

\* A byte that changes the state alone.
LEMMA GotoIs ==
  ASSUME IInv, call.open, UNCHANGED peer, NEW s, Goto(s) \/ Again(s),
         s \notin Special, parser.state \notin Owing, EntryMarks(s) = EntryMarks(parser.state),
         s \in Counts \/ parser.state \notin Counts,
         Fits(To(s), event, peer.turn)
  PROVE  Step
<1>1. /\ IsParser(To(s)) /\ To(s).state = s /\ To(s).http_errno = "OK"
      /\ (Trailing(To(s)) <=> Trailing(parser))
  BY InCall, ToIs DEF Trailing
<1>2. CallFields \subseteq DOMAIN Here /\ Here.open = TRUE /\ Here.mark = call.mark /\ Here.run = call.run
  BY InCall
<1>3. DOMAIN Here.mark = EntryMarks(s)
  BY <1>2, InCall DEF Open, Marked, Owing
<1>4. s \in Counts \/ Here.run = 0
  BY <1>2, InCall DEF Open
<1> QED BY <1>1, <1>2, <1>3, <1>4, QuietGo DEF Goto, Again

\* A callback pauses or fails the parser.
LEMMA InterruptedIs ==
  ASSUME NEW p, NEW c, NEW r, Interrupted(p, c, r), IsParser(p)
  PROVE  /\ call' = Closed /\ IsParser(parser')
         /\ \/ parser'.http_errno = "PAUSED" /\ Alike(parser', p)
            \/ parser'.http_errno = "CB"
<1>1. CASE parser' = [p EXCEPT !.http_errno = "PAUSED"]
  BY <1>1 DEF Interrupted, IsParser, ParserFields, Alike
<1>2. CASE parser' = [p EXCEPT !.http_errno = "CB", !.nread = c.nread]
  BY <1>2 DEF Interrupted, IsParser, ParserFields, Alike
<1> QED BY <1>1, <1>2 DEF Interrupted

\* A call that returns saves its count and changes nothing else.
LEMMA ReturnIs ==
  ASSUME NEW p, NEW c, NEW r, RETURN(p, c, r), IsParser(p)
  PROVE  /\ call' = Closed /\ IsParser(parser') /\ parser'.http_errno = p.http_errno
         /\ parser'.nread = c.nread
         /\ \A e, turn : Fits(p, e, turn) => Fits(parser', e, turn)
         /\ parser'.state = p.state /\ parser'.flags = p.flags /\ parser'.content_length = p.content_length
<1>1. /\ parser' = [p EXCEPT !.nread = c.nread] /\ call' = Closed
      /\ IsParser(parser') /\ parser'.http_errno = p.http_errno /\ parser'.nread = c.nread
  BY DEF RETURN, IsParser, ParserFields
<1>2. /\ parser'.state = p.state /\ parser'.flags = p.flags /\ parser'.content_length = p.content_length
      /\ parser'.header_state = p.header_state
  BY <1>1 DEF IsParser, ParserFields
<1>3. ASSUME NEW e, NEW turn, Fits(p, e, turn) PROVE Fits(parser', e, turn)
  BY <1>2, <1>3 DEF Fits, Trailing, Lines
<1> QED BY <1>1, <1>2, <1>3

\* A callback is told of in a state that owes nothing: what the parser goes on
\* as, whether it does, pauses or fails.
LEMMA Hears ==
  ASSUME IInv, call.open, UNCHANGED peer, NEW what, event' = what,
         NEW p, NEW c, NEW r, NEW d, NEW q,
         Interrupted(p, c, r) \/ Move(p, d) \/ REEXECUTE(p, d) \/ RETURN(p, d, q),
         IsParser(p), p.http_errno = "OK", Fits(p, what, peer.turn),
         p.state \notin Special,
         CallFields \subseteq DOMAIN d, d.open = TRUE, DOMAIN d.mark = EntryMarks(p.state),
         p.state \in Counts \/ d.run = 0
  PROVE  IInv' /\ Callbacks!Unless(0, Trailing(p) /\ what # "message_complete")
<1>1. CASE Interrupted(p, c, r)
  <2>1. /\ call' = Closed /\ IsParser(parser')
        /\ \/ parser'.http_errno = "PAUSED" /\ Alike(parser', p)
           \/ parser'.http_errno = "CB"
    BY <1>1, InterruptedIs
  <2>2. CASE parser'.http_errno = "PAUSED" /\ Alike(parser', p)
    <3>1. Fits(parser', what, peer.turn) /\ parser'.state = p.state /\ (Trailing(parser') <=> Trailing(p))
      BY <2>2, FitsAlike DEF Alike, Trailing
    <3>2. IInv'
      BY <2>1, <3>1, Closing DEF Shut, Special, Owing, Delivers, InData
    <3>3. Owed' = 0 /\ Running'
      BY <2>2, <3>1, NoneOwedNext DEF Special, Running
    <3>4. (Running /\ event # "message_complete" /\ "TRAILING" \in parser.flags)'
          = (Trailing(p) /\ what # "message_complete")
      BY <3>1, <3>3 DEF Trailing
    <3> QED BY <3>2, <3>3, <3>4 DEF Callbacks!Unless, Running
  <2>3. CASE parser'.http_errno = "CB"
    <3>1. IInv'
      BY <2>1, <2>3, Closing
    <3>2. ~ Running' /\ Owed' = 0
      BY <2>3, NoneOwedNext DEF Running
    <3> QED BY <3>1, <3>2 DEF Callbacks!Unless, Running
  <2> QED BY <2>1, <2>2, <2>3
<1>2. ASSUME IInv', parser'.http_errno = "OK", parser'.state = p.state, parser'.flags = p.flags
      PROVE  IInv' /\ Callbacks!Unless(0, Trailing(p) /\ what # "message_complete")
  <2>1. Owed' = 0 /\ Running'
    BY <1>2, NoneOwedNext DEF Special, Running
  <2>2. (Running /\ event # "message_complete" /\ "TRAILING" \in parser.flags)'
        = (Trailing(p) /\ what # "message_complete")
    BY <2>1, <1>2 DEF Trailing
  <2> QED BY <1>2, <2>1, <2>2 DEF Callbacks!Unless, Running
<1>3. CASE Move(p, d) \/ REEXECUTE(p, d)
  <2>1. /\ parser' = p /\ CallFields \subseteq DOMAIN call' /\ call'.open = TRUE
        /\ call'.run = d.run /\ DOMAIN call'.mark = DOMAIN d.mark
    BY <1>3, MoveIs, ReexecuteIs
  <2>2. Open(p, call', what)
    BY <2>1 DEF Open, Marked, Special, Owing, Delivers, InData
  <2>3. IInv'
    BY <2>1, <2>2, Going
  <2> QED BY <2>1, <2>3, <1>2
<1>4. CASE RETURN(p, d, q)
  <2>1. /\ call' = Closed /\ IsParser(parser') /\ parser'.http_errno = "OK"
        /\ Fits(parser', what, peer.turn) /\ parser'.state = p.state /\ parser'.flags = p.flags
    BY <1>4, ReturnIs
  <2>2. IInv'
    BY <2>1, Closing DEF Shut, Special, Owing, Delivers, InData
  <2> QED BY <2>1, <2>2, <1>2
<1> QED BY <1>1, <1>3, <1>4

\* The callback of a mark.
LEMMA MarkHears ==
  ASSUME IInv, call.open, NEW kind, NEW p, NEW c, NEW r, kind \in DOMAIN c.mark,
         CALLBACK_DATA_(kind, p, c, r, Move(p, Unmarked(kind, c)))
         \/ CALLBACK_DATA_(kind, p, c, r, REEXECUTE(p, Unmarked(kind, c)))
  PROVE  /\ event' = kind
         /\ Interrupted(p, c, r) \/ Move(p, Unmarked(kind, c)) \/ REEXECUTE(p, Unmarked(kind, c))
BY DEF CALLBACK_DATA_, CALLBACK, Told

\* Within a call, outside a body.
LEMMA Runs ==
  ASSUME IInv, call.open, parser.state \notin Owing
  PROVE  Running /\ Owed = 0
BY InCall, NoneOwed

-----------------------------------------------------------------------------
(***************************************************************************)
(* Start lines.                                                            *)
(***************************************************************************)

\* A byte that leads from one state of a class to another.
LEMMA Within ==
  ASSUME IInv, call.open, UNCHANGED peer, NEW s, Goto(s) \/ Again(s),
         \/ s \in Begins /\ parser.state = s
         \/ s \in InLine /\ parser.state \in InLine
         \/ s \in InUrl /\ parser.state \in InUrl
         \/ s = "s_res_status" /\ parser.state = s
         \/ s \in LineEnds /\ parser.state \in LineEnds
         \/ s = "s_headers_almost_done" /\ parser.state \in AtHeader
         \/ s = "s_header_field_start" /\ parser.state \in LineEnds
         \/ s \in AtValue \ Counts /\ parser.state \in AtValue \ Counts
         \/ s \in ValueEnds /\ parser.state \in ValueEnds
         \/ s = "s_dead" /\ parser.state = s
  PROVE  Step
<1>1. /\ To(s).state = s /\ To(s).flags = parser.flags /\ To(s).content_length = parser.content_length
      /\ To(s).header_state = parser.header_state /\ Fits(parser, event, peer.turn)
  BY InCall, ToIs
<1>2. Fits(To(s), event, peer.turn)
  BY <1>1 DEF Fits, Trailing, Lines, Begins, InLine, InUrl, UrlStart, UrlRest, LineEnds, AtHeader, AtValue,
              ValueEnds, InSize, InData, InBody, Counts
<1>3. /\ s \notin Special /\ parser.state \notin Owing /\ EntryMarks(s) = EntryMarks(parser.state)
      /\ parser.state \notin Counts
  BY DEF Special, Owing, Delivers, EntryMarks, Begins, InLine, InUrl, UrlStart, UrlRest, LineEnds, AtHeader,
         AtValue, ValueEnds, InData, InBody, Counts
<1> QED BY <1>2, <1>3, GotoIs

\* The head is too long.
LEMMA OverflowStep == ASSUME IInv, HeaderOverflow PROVE Step
BY FailIs DEF HeaderOverflow

\* Behind a last message.
LEMMA DeadStep == ASSUME IInv, Dead PROVE Step
BY Within, FailIs DEF Dead, At

\* Blank lines before a message.
LEMMA BlankStep == ASSUME IInv, BlankBefore PROVE Step
BY Within DEF BlankBefore, At, Begins

\* A message begins.
LEMMA ResetIs ==
  ASSUME IsParser(parser), NEW s
  PROVE  /\ IsParser(Reset(s)) /\ Reset(s).state = s /\ Reset(s).flags = {}
         /\ Reset(s).http_errno = parser.http_errno
BY ToIs, WireAssumption DEF Reset, IsParser, ParserFields

\* on_message_begin.
LEMMA BeginsStep ==
  ASSUME IInv, call.open, UNCHANGED peer, parser.state \in Begins, NEW p,
         CALLBACK_NOTIFY("message_begin", p),
         IsParser(p), p.state \in InLine, p.flags = {}, p.http_errno = "OK"
  PROVE  Step
<1>1. /\ event' = "message_begin"
      /\ Interrupted(p, Here, Tail(rest)) \/ Move(p, Here)
  BY DEF CALLBACK_NOTIFY, CALLBACK, Told
<1>2. /\ CallFields \subseteq DOMAIN Here /\ Here.open = TRUE /\ Here.mark = call.mark /\ Here.run = call.run
      /\ Fits(parser, event, peer.turn) /\ Open(parser, call, event)
  BY InCall
<1>3. /\ p.state \notin Special /\ parser.state \notin Owing /\ EntryMarks(p.state) = {}
      /\ EntryMarks(parser.state) = {} /\ parser.state \notin Delivers
      /\ p.state \notin Counts /\ parser.state \notin Counts
  BY DEF Special, Owing, Delivers, EntryMarks, Begins, InLine, UrlStart, UrlRest, InData, InBody, Counts
<1>4. DOMAIN Here.mark = EntryMarks(p.state) /\ Here.run = 0
  BY <1>2, <1>3 DEF Open, Marked
<1>5. ~ Trailing(p)
  BY DEF Trailing
<1>6. Fits(p, "message_begin", peer.turn)
  BY <1>5 DEF Fits, Begins, InLine, InUrl, UrlStart, UrlRest, LineEnds, AtHeader, AtValue,
              ValueEnds, InSize, InData, InBody
<1>7. IInv' /\ Callbacks!Unless(0, Trailing(p) /\ "message_begin" # "message_complete")
  BY <1>1, <1>2, <1>3, <1>4, <1>6, Hears
<1>8. event \in {"none", "message_complete"} /\ Running
  BY <1>2, InCall DEF Fits
<1>9. Callbacks!MessageBegin
  BY <1>1, <1>5, <1>7, <1>8 DEF Callbacks!MessageBegin, Callbacks!Tell, Callbacks!Unless
<1> QED BY <1>7, <1>9 DEF Step, Order, Callbacks!Next

\* The first byte tells a response, perhaps, or a request.
LEMMA StartReqOrResStep == ASSUME IInv, StartReqOrRes PROVE Step
<1> USE DEF StartReqOrRes, At
<1>1. IsParser(parser) /\ parser.http_errno = "OK" /\ call.open
  BY InCall
<1>2. CASE ch = "H"
  BY <1>1, <1>2, ResetIs, BeginsStep DEF Begins, InLine
<1>3. CASE ch # "H"
  <2> DEFINE p == [Reset("s_start_req") EXCEPT !.type = "HTTP_REQUEST"]
  <2>1. REEXECUTE(p, Here) /\ Quiet
    BY <1>3
  <2>2. IsParser(p) /\ p.state = "s_start_req" /\ p.flags = {} /\ p.http_errno = "OK"
    BY <1>1, ResetIs DEF IsParser, ParserFields
  <2> HIDE DEF p
  <2>3. event = "message_complete" \/ (event = "none" /\ ~ Trailing(parser))
    BY InCall DEF Fits, Begins
  <2>4. ~ Trailing(p)
    BY <2>2 DEF Trailing
  <2>5. Fits(p, event, peer.turn)
    BY <2>2, <2>3, <2>4 DEF Fits, Begins, InLine, InUrl, UrlStart, UrlRest, LineEnds, AtHeader, AtValue,
              ValueEnds, InSize, InData, InBody
  <2>6. /\ p.state \notin Special /\ parser.state \notin Owing /\ p.state \notin Counts
        /\ EntryMarks(p.state) = {} /\ EntryMarks(parser.state) = {}
        /\ parser.state \notin Counts /\ parser.state \notin Delivers
    BY <2>2 DEF Special, Owing, Delivers, EntryMarks, UrlStart, UrlRest, InData, InBody, Counts
  <2>7. CallFields \subseteq DOMAIN Here /\ Here.open = TRUE /\ DOMAIN Here.mark = {} /\ Here.run = 0
    BY <2>6, InCall DEF Open, Marked
  <2> QED BY <1>1, <2>1, <2>2, <2>3, <2>4, <2>5, <2>6, <2>7, QuietGo
<1> QED BY <1>2, <1>3


\* The same when other fields change that the invariant does not speak of.
LEMMA WithinLine ==
  ASSUME IInv, call.open, UNCHANGED peer, NEW p, Move(p, Here), Quiet,
         IsParser(p), p.flags = parser.flags, p.http_errno = "OK",
         \/ p.state \in InLine /\ parser.state \in InLine
         \/ p.state \in LineEnds /\ parser.state \in LineEnds
  PROVE  Step
<1>1. /\ CallFields \subseteq DOMAIN Here /\ Here.open = TRUE /\ Here.mark = call.mark /\ Here.run = call.run
      /\ Fits(parser, event, peer.turn) /\ Open(parser, call, event)
  BY InCall
<1>2. /\ p.state \notin Special /\ parser.state \notin Owing /\ p.state \notin Counts
      /\ EntryMarks(p.state) = {} /\ EntryMarks(parser.state) = {}
      /\ parser.state \notin Counts /\ parser.state \notin Delivers
  BY DEF Special, Owing, Delivers, EntryMarks, InLine, LineEnds, UrlStart, UrlRest, InData, InBody, Counts
<1>3. DOMAIN Here.mark = EntryMarks(p.state) /\ Here.run = 0
  BY <1>1, <1>2 DEF Open, Marked
<1>4. Trailing(p) <=> Trailing(parser)
  BY DEF Trailing
<1>5. Fits(p, event, peer.turn)
  BY <1>1, <1>4 DEF Fits, Begins, InLine, InUrl, UrlStart, UrlRest, LineEnds, AtHeader, AtValue,
              ValueEnds, InSize, InData, InBody
<1> QED BY <1>1, <1>2, <1>3, <1>4, <1>5, QuietGo

\* HTTP or HEAD.
LEMMA ResOrRespHStep == ASSUME IInv, ResOrRespH PROVE Step
<1> USE DEF ResOrRespH, At
<1>1. IsParser(parser) /\ parser.http_errno = "OK" /\ call.open /\ UNCHANGED peer
  BY InCall
<1>2. CASE ch = "T"
  <2> DEFINE p == [To("s_res_HT") EXCEPT !.type = "HTTP_RESPONSE"]
  <2>1. Move(p, Here) /\ Quiet
    BY <1>2
  <2>2. IsParser(p) /\ p.state = "s_res_HT" /\ p.flags = parser.flags /\ p.http_errno = "OK"
    BY <1>1, ToIs DEF IsParser, ParserFields
  <2> HIDE DEF p
  <2> QED BY <1>1, <2>1, <2>2, WithinLine DEF InLine
<1>3. CASE ch = "E"
  <2> DEFINE p == [To("s_req_method") EXCEPT !.type = "HTTP_REQUEST", !.method = "HEAD", !.index = 2]
  <2>1. Move(p, Here) /\ Quiet
    BY <1>3
  <2>2. IsParser(p) /\ p.state = "s_req_method" /\ p.flags = parser.flags /\ p.http_errno = "OK"
    BY <1>1, ToIs DEF IsParser, ParserFields
  <2> HIDE DEF p
  <2> QED BY <1>1, <2>1, <2>2, WithinLine DEF InLine
<1>4. CASE ch \notin {"T", "E"}
  BY <1>1, <1>4, FailIs
<1> QED BY <1>2, <1>3, <1>4

\* The first byte of a response.
LEMMA StartResStep == ASSUME IInv, StartRes PROVE Step
<1> USE DEF StartRes, At
<1>1. IsParser(parser) /\ parser.http_errno = "OK" /\ call.open /\ UNCHANGED peer
  BY InCall
<1>2. CASE ch = "H"
  BY <1>1, <1>2, ResetIs, BeginsStep DEF Begins, InLine
<1>3. CASE ch # "H"
  BY <1>1, <1>3, FailIs
<1> QED BY <1>2, <1>3

\* The digit of a version.
LEMMA VersionIs ==
  ASSUME IsParser(parser), NEW s, NEW n
  PROVE  /\ IsParser([To(s) EXCEPT !.http_major = n]) /\ IsParser([To(s) EXCEPT !.http_minor = n])
         /\ [To(s) EXCEPT !.http_major = n].state = s /\ [To(s) EXCEPT !.http_minor = n].state = s
         /\ [To(s) EXCEPT !.http_major = n].flags = parser.flags
         /\ [To(s) EXCEPT !.http_minor = n].flags = parser.flags
         /\ [To(s) EXCEPT !.http_major = n].http_errno = parser.http_errno
         /\ [To(s) EXCEPT !.http_minor = n].http_errno = parser.http_errno
BY ToIs DEF IsParser, ParserFields

\* The version of a response.
LEMMA ResVersionStep == ASSUME IInv, ResVersion PROVE Step
<1>1. IsParser(parser) /\ parser.http_errno = "OK" /\ call.open /\ UNCHANGED peer
  BY InCall DEF ResVersion, At
<1>2. CASE At({"s_res_http_major"})
  <2>1. CASE Fail("INVALID_VERSION")
    BY <1>1, <2>1, FailIs
  <2>2. CASE Move([To("s_res_http_dot") EXCEPT !.http_major = ValueOf(ch)], Here) /\ Quiet
    <3>1. PICK p : p = [To("s_res_http_dot") EXCEPT !.http_major = ValueOf(ch)]
      OBVIOUS
    <3>2. IsParser(p) /\ p.state = "s_res_http_dot" /\ p.flags = parser.flags /\ p.http_errno = "OK"
      BY <1>1, <3>1, VersionIs
    <3> QED BY <1>1, <1>2, <2>2, <3>1, <3>2, WithinLine DEF At, InLine
  <2> QED BY <1>2, <2>1, <2>2 DEF ResVersion, At
<1>3. CASE At({"s_res_http_dot"})
  BY <1>1, <1>3, Within, FailIs DEF ResVersion, At, InLine
<1>4. CASE At({"s_res_http_minor"})
  <2>1. CASE Fail("INVALID_VERSION")
    BY <1>1, <2>1, FailIs
  <2>2. CASE Move([To("s_res_http_end") EXCEPT !.http_minor = ValueOf(ch)], Here) /\ Quiet
    <3>1. PICK p : p = [To("s_res_http_end") EXCEPT !.http_minor = ValueOf(ch)]
      OBVIOUS
    <3>2. IsParser(p) /\ p.state = "s_res_http_end" /\ p.flags = parser.flags /\ p.http_errno = "OK"
      BY <1>1, <3>1, VersionIs
    <3> QED BY <1>1, <1>4, <2>2, <3>1, <3>2, WithinLine DEF At, InLine
  <2> QED BY <1>4, <2>1, <2>2 DEF ResVersion, At
<1>5. CASE At({"s_res_http_end"})
  BY <1>1, <1>5, Within, FailIs DEF ResVersion, At, InLine
<1> QED BY <1>2, <1>3, <1>4, <1>5 DEF ResVersion

\* The code of a status.
LEMMA StatusCodeStep == ASSUME IInv, StatusCode PROVE Step
<1>1. IsParser(parser) /\ parser.http_errno = "OK" /\ call.open /\ UNCHANGED peer
  BY InCall DEF StatusCode, At
<1>2. \A n : /\ IsParser([To("s_res_status_code") EXCEPT !.status_code = n])
             /\ [To("s_res_status_code") EXCEPT !.status_code = n].state = "s_res_status_code"
             /\ [To("s_res_status_code") EXCEPT !.status_code = n].flags = parser.flags
             /\ [To("s_res_status_code") EXCEPT !.status_code = n].http_errno = "OK"
  BY <1>1, ToIs DEF IsParser, ParserFields
<1>3. \A n : /\ IsParser([parser EXCEPT !.status_code = n])
             /\ [parser EXCEPT !.status_code = n].state = parser.state
             /\ [parser EXCEPT !.status_code = n].flags = parser.flags
             /\ [parser EXCEPT !.status_code = n].http_errno = "OK"
  BY <1>1 DEF IsParser, ParserFields
<1>4. CASE /\ At({"s_res_first_status_code"})
           /\ IF ch \in Digit
              THEN Move([To("s_res_status_code") EXCEPT !.status_code = ValueOf(ch)], Here) /\ Quiet
              ELSE IF ch = " " THEN Goto(parser.state) ELSE Fail("INVALID_STATUS")
  BY <1>1, <1>2, <1>4, Within, WithinLine, FailIs DEF At, InLine
<1>5. CASE /\ At({"s_res_status_code"})
           /\ LET code == 10 * parser.status_code + ValueOf(ch) IN
              IF ch \in Digit
              THEN IF code > StatusLimit THEN Fail("INVALID_STATUS")
                   ELSE Move([parser EXCEPT !.status_code = code], Here) /\ Quiet
              ELSE IF ch = " " THEN Goto("s_res_status_start")
              ELSE IF ch \in {"CR", "LF"} THEN Again("s_res_status_start")
              ELSE Fail("INVALID_STATUS")
  BY <1>1, <1>3, <1>5, Within, WithinLine, FailIs DEF At, InLine
<1> QED BY <1>4, <1>5 DEF StatusCode

\* The text of a status, which may be empty.
LEMMA StatusTextStep == ASSUME IInv, StatusText PROVE Step
<1>1. /\ IsParser(parser) /\ parser.http_errno = "OK" /\ call.open /\ UNCHANGED peer
      /\ CallFields \subseteq DOMAIN Here /\ Here.open = TRUE /\ Here.mark = call.mark /\ Here.run = call.run
      /\ Fits(parser, event, peer.turn) /\ Open(parser, call, event) /\ Running
  BY InCall DEF StatusText, At
<1>2. CASE parser.state = "s_res_status_start" /\ (\/ REEXECUTE(To("s_res_status"), MARK("status", Here))
                                                   \/ Move(To("s_res_status"), MARK("status", Here))) /\ Quiet
  <2>1. /\ IsParser(To("s_res_status")) /\ To("s_res_status").state = "s_res_status"
        /\ To("s_res_status").http_errno = "OK" /\ (Trailing(To("s_res_status")) <=> Trailing(parser))
    BY <1>1, ToIs DEF Trailing
  <2>2. DOMAIN call.mark = {} /\ call.run = 0
    BY <1>1, <1>2 DEF Open, Marked, Delivers, InData, InBody, EntryMarks, UrlStart, UrlRest, Counts
  <2>3. /\ CallFields \subseteq DOMAIN MARK("status", Here) /\ MARK("status", Here).open = TRUE
        /\ MARK("status", Here).run = 0 /\ DOMAIN MARK("status", Here).mark = {"status"}
    BY <1>1, <2>2, MarkIs
  <2>4. event = "message_begin" /\ ~ Trailing(parser)
    BY <1>1, <1>2 DEF Fits, InLine
  <2>5. Fits(To("s_res_status"), event, peer.turn)
    BY <2>1, <2>4 DEF Fits, Begins, InLine, InUrl, UrlStart, UrlRest, LineEnds, AtHeader, AtValue,
              ValueEnds, InSize, InData, InBody
  <2>6. "s_res_status" \notin Special /\ parser.state \notin Owing /\ EntryMarks("s_res_status") = {"status"}
    BY <1>2 DEF Special, Owing, Delivers, InData, InBody, EntryMarks, UrlStart, UrlRest
  <2> QED BY <1>1, <1>2, <2>1, <2>3, <2>5, <2>6, QuietGo
<1>3. ASSUME parser.state = "s_res_status", NEW s \in {"s_res_line_almost_done", "s_header_field_start"},
             CALLBACK_DATA("status", To(s), Here)
      PROVE  Step
  <2>1. DOMAIN Here.mark = {"status"} /\ Here.run = 0
    BY <1>1, <1>3 DEF Open, Marked, Delivers, InData, InBody, EntryMarks, UrlStart, UrlRest, Counts
  <2>2. /\ event' = "status"
        /\ \/ Interrupted(To(s), Here, Tail(rest))
           \/ Move(To(s), Unmarked("status", Here))
    BY <1>3, <2>1 DEF CALLBACK_DATA, CALLBACK_DATA_, CALLBACK, Told
  <2>3. /\ IsParser(To(s)) /\ To(s).state = s /\ To(s).http_errno = "OK" /\ (Trailing(To(s)) <=> Trailing(parser))
    BY <1>1, ToIs DEF Trailing
  <2>4. event \in {"message_begin", "status"} /\ ~ Trailing(parser)
    BY <1>1, <1>3 DEF Fits
  <2>5. Fits(To(s), "status", peer.turn)
    BY <2>3, <2>4 DEF Fits, Lines, Begins, InLine, InUrl, UrlStart, UrlRest, LineEnds, AtHeader, AtValue,
              ValueEnds, InSize, InData, InBody
  <2>6. s \notin Special /\ parser.state \notin Owing /\ EntryMarks(s) = {}
    BY <1>3 DEF Special, Owing, Delivers, InData, InBody, EntryMarks, UrlStart, UrlRest
  <2>7. /\ CallFields \subseteq DOMAIN Unmarked("status", Here) /\ Unmarked("status", Here).open = TRUE
        /\ Unmarked("status", Here).run = 0 /\ DOMAIN Unmarked("status", Here).mark = {}
    BY <1>1, <2>1, UnmarkedIs
  <2>8. IInv' /\ Callbacks!Unless(0, Trailing(To(s)) /\ "status" # "message_complete")
    BY <1>1, <2>2, <2>3, <2>5, <2>6, <2>7, Hears
  <2>9. Owed = 0
    BY <2>6, NoneOwed
  <2>10. Callbacks!StartLine
    BY <1>1, <2>2, <2>3, <2>4, <2>8, <2>9 DEF Callbacks!StartLine, Callbacks!Tell, Callbacks!Unless, Trailing
  <2> QED BY <2>8, <2>10 DEF Step, Order, Callbacks!Next
<1>4. CASE At({"s_res_status_start"})
  BY <1>2, <1>4 DEF StatusText, At
<1>5. CASE At({"s_res_status"})
  BY <1>1, <1>3, <1>5, Within DEF StatusText, At
<1> QED BY <1>4, <1>5 DEF StatusText

\* The first letter of a method.
LEMMA StartReqStep == ASSUME IInv, StartReq PROVE Step
<1> USE DEF StartReq, At
<1>1. IsParser(parser) /\ parser.http_errno = "OK" /\ call.open /\ UNCHANGED peer
  BY InCall
<1>2. CASE Listed(First, ch)
  <2>1. PICK m : CALLBACK_NOTIFY("message_begin", [Reset("s_req_method") EXCEPT !.method = m, !.index = 1])
    BY <1>2
  <2> DEFINE p == [Reset("s_req_method") EXCEPT !.method = m, !.index = 1]
  <2>2. IsParser(p) /\ p.state = "s_req_method" /\ p.flags = {} /\ p.http_errno = "OK"
    BY <1>1, ResetIs DEF IsParser, ParserFields
  <2> HIDE DEF p
  <2> QED BY <1>1, <2>1, <2>2, BeginsStep DEF Begins, InLine, p
<1>3. CASE ~ Listed(First, ch)
  BY <1>1, <1>3, FailIs
<1> QED BY <1>2, <1>3

\* The other letters of a method.
LEMMA ReqMethodStep == ASSUME IInv, ReqMethod PROVE Step
<1>1. IsParser(parser) /\ parser.http_errno = "OK" /\ call.open /\ UNCHANGED peer
      /\ parser.state \in InLine
  BY InCall DEF ReqMethod, At, InLine
<1>2. PICK p : p = [parser EXCEPT !.index = 2]
  OBVIOUS
<1>3. PICK q : q = [p EXCEPT !.method = "PUT"]
  OBVIOUS
<1>4. /\ IsParser(p) /\ p.state = parser.state /\ p.flags = parser.flags /\ p.http_errno = "OK"
      /\ IsParser(q) /\ q.state = parser.state /\ q.flags = parser.flags /\ q.http_errno = "OK"
  BY <1>1, <1>2, <1>3 DEF IsParser, ParserFields
<1>5. \/ Goto("s_req_spaces_before_url") \/ Fail("INVALID_METHOD")
      \/ (Move(p, Here) /\ Quiet) \/ (Move(q, Here) /\ Quiet)
  BY <1>2, <1>3 DEF ReqMethod
<1>6. CASE Goto("s_req_spaces_before_url")
  BY <1>1, <1>6, Within DEF InLine
<1>7. CASE Fail("INVALID_METHOD")
  BY <1>1, <1>7, FailIs
<1> QED BY <1>1, <1>4, <1>5, <1>6, <1>7, WithinLine

\* Where a byte of a URL leads to.
LEMMA UrlMovesIs ==
  ASSUME NEW s \in InUrl \cup {"s_req_spaces_before_url"}
  PROVE  \A m \in UrlMoves(s) : m[2] \in InUrl
<1> DEFINE Server == {<<{"/"}, "s_req_path">>, <<{"?"}, "s_req_query_string_start">>,
                      <<UserInfo, "s_req_server">>}
<1>1. \A m \in Server \cup {<<{"@"}, "s_req_server_with_at">>} : m[2] \in InUrl
  BY DEF InUrl, UrlStart, UrlRest
<1>2. UrlMoves(s) \in
        { {<<{"/"}, "s_req_path">>, <<Alpha, "s_req_schema">>},
          {<<Alpha, "s_req_schema">>, <<{":"}, "s_req_schema_slash">>},
          {<<{"/"}, "s_req_schema_slash_slash">>}, {<<{"/"}, "s_req_server_start">>},
          Server \cup {<<{"@"}, "s_req_server_with_at">>}, Server,
          {<<UrlChar, "s_req_path">>, <<{"?"}, "s_req_query_string_start">>, <<{"#"}, "s_req_fragment_start">>},
          {<<UrlChar \cup {"?"}, "s_req_query_string">>, <<{"#"}, "s_req_fragment_start">>},
          {<<UrlChar \cup {"?"}, "s_req_fragment">>, <<{"#"}, "s_req_fragment_start">>},
          {<<UrlChar \cup {"?", "#"}, "s_req_fragment">>} }
  BY DEF UrlMoves, InUrl, UrlStart, UrlRest
<1> QED BY <1>1, <1>2 DEF InUrl, UrlStart, UrlRest

\* A byte of a URL leads on within it, or is an error.
LEMMA ParseUrlIs ==
  ASSUME NEW s \in InUrl \cup {"s_req_spaces_before_url"}, NEW c
  PROVE  parse_url_char(s, c) \in InUrl \cup {"s_dead"}
<1> DEFINE moves == {m \in UrlMoves(s) : c \in m[1]}
<1>1. CASE moves = {}
  BY <1>1 DEF parse_url_char
<1>2. CASE moves # {}
  <2>1. (CHOOSE m \in moves : TRUE) \in moves
    BY <1>2
  <2>2. (CHOOSE m \in moves : TRUE)[2] \in InUrl
    BY <2>1, UrlMovesIs
  <2> QED BY <1>2, <2>2 DEF parse_url_char
<1> QED BY <1>1, <1>2

\* The first byte of a URL.
LEMMA SpacesBeforeUrlStep == ASSUME IInv, SpacesBeforeUrl PROVE Step
<1>1. /\ IsParser(parser) /\ parser.http_errno = "OK" /\ call.open /\ UNCHANGED peer
      /\ CallFields \subseteq DOMAIN Here /\ Here.open = TRUE /\ Here.mark = call.mark /\ Here.run = call.run
      /\ Fits(parser, event, peer.turn) /\ Open(parser, call, event) /\ parser.state = "s_req_spaces_before_url"
  BY InCall DEF SpacesBeforeUrl, At
<1>2. PICK s \in InUrl \cup {"s_req_spaces_before_url"} :
        Goto(parser.state) \/ UrlByte(s, MARK("url", Here))
  BY <1>1 DEF SpacesBeforeUrl, InUrl, UrlStart
<1>3. PICK t \in InUrl \cup {"s_dead"} : t = parse_url_char(s, ch)
  BY ParseUrlIs
<1>4. CASE Goto(parser.state)
  BY <1>1, <1>4, Within DEF InLine
<1>5. CASE Fail("INVALID_URL")
  BY <1>1, <1>5, FailIs
<1>6. CASE t \in InUrl /\ Move(To(t), MARK("url", Here)) /\ Quiet
  <2>1. /\ IsParser(To(t)) /\ To(t).state = t /\ To(t).http_errno = "OK" /\ (Trailing(To(t)) <=> Trailing(parser))
    BY <1>1, ToIs DEF Trailing
  <2>2. DOMAIN call.mark = {} /\ call.run = 0
    BY <1>1 DEF Open, Marked, Delivers, InData, InBody, EntryMarks, UrlStart, UrlRest, Counts
  <2>3. /\ CallFields \subseteq DOMAIN MARK("url", Here) /\ MARK("url", Here).open = TRUE
        /\ MARK("url", Here).run = 0 /\ DOMAIN MARK("url", Here).mark = {"url"}
    BY <1>1, <2>2, MarkIs
  <2>4. event = "message_begin" /\ ~ Trailing(parser)
    BY <1>1 DEF Fits, InLine
  <2>5. Fits(To(t), event, peer.turn)
    BY <1>6, <2>1, <2>4 DEF Fits, Begins, InLine, InUrl, UrlStart, UrlRest, LineEnds, AtHeader, AtValue,
              ValueEnds, InSize, InData, InBody
  <2>6. t \notin Special /\ parser.state \notin Owing /\ EntryMarks(t) = {"url"}
    BY <1>1, <1>6 DEF Special, Owing, Delivers, InData, InBody, EntryMarks, InUrl, UrlStart, UrlRest
  <2> QED BY <1>1, <1>6, <2>1, <2>3, <2>5, <2>6, QuietGo
<1> QED BY <1>2, <1>3, <1>4, <1>5, <1>6 DEF UrlByte

\* The end of a URL.
LEMMA UrlEnds ==
  ASSUME IInv, call.open, UNCHANGED peer, parser.state \in InUrl, NEW p, CALLBACK_DATA("url", p, Here),
         IsParser(p), p.state \in LineEnds \cup {"s_header_field_start"}, p.flags = parser.flags,
         p.http_errno = "OK"
  PROVE  Step
<1>1. /\ CallFields \subseteq DOMAIN Here /\ Here.open = TRUE /\ Here.mark = call.mark /\ Here.run = call.run
      /\ Fits(parser, event, peer.turn) /\ Open(parser, call, event) /\ Running
  BY InCall
<1>2. DOMAIN Here.mark = {"url"} /\ Here.run = 0
  BY <1>1 DEF Open, Marked, Delivers, InData, InBody, EntryMarks, InUrl, UrlStart, UrlRest, Counts
<1>3. /\ event' = "url"
      /\ Interrupted(p, Here, Tail(rest)) \/ Move(p, Unmarked("url", Here))
  BY <1>2 DEF CALLBACK_DATA, CALLBACK_DATA_, CALLBACK, Told
<1>4. event \in {"message_begin", "url"} /\ ~ Trailing(parser) /\ ~ Trailing(p)
  BY <1>1 DEF Fits, Trailing
<1>5. Fits(p, "url", peer.turn)
  BY <1>4 DEF Fits, Lines, Begins, InLine, InUrl, UrlStart, UrlRest, LineEnds, AtHeader, AtValue,
            ValueEnds, InSize, InData, InBody
<1>6. p.state \notin Special /\ parser.state \notin Owing /\ EntryMarks(p.state) = {}
  BY DEF Special, Owing, Delivers, InData, InBody, EntryMarks, InUrl, UrlStart, UrlRest, LineEnds
<1>7. /\ CallFields \subseteq DOMAIN Unmarked("url", Here) /\ Unmarked("url", Here).open = TRUE
      /\ Unmarked("url", Here).run = 0 /\ DOMAIN Unmarked("url", Here).mark = {}
  BY <1>1, <1>2, UnmarkedIs
<1>8. IInv' /\ Callbacks!Unless(0, Trailing(p) /\ "url" # "message_complete")
  BY <1>3, <1>5, <1>6, <1>7, Hears
<1>9. Owed = 0
  BY <1>6, NoneOwed
<1>10. Callbacks!StartLine
  BY <1>1, <1>3, <1>4, <1>8, <1>9 DEF Callbacks!StartLine, Callbacks!Tell, Callbacks!Unless, Trailing
<1> QED BY <1>8, <1>10 DEF Step, Order, Callbacks!Next

\* A URL.
LEMMA UrlStep == ASSUME IInv, Url PROVE Step
<1>1. /\ IsParser(parser) /\ parser.http_errno = "OK" /\ call.open /\ UNCHANGED peer
      /\ parser.state \in InUrl
  BY InCall DEF Url, At, InUrl
<1>2. ASSUME UrlByte(parser.state, Here) PROVE Step
  BY <1>1, <1>2, ParseUrlIs, Within, FailIs DEF UrlByte, Goto
<1>3. CASE ch = " " /\ CALLBACK_DATA("url", To("s_req_http_start"), Here)
  BY <1>1, <1>3, ToIs, UrlEnds DEF LineEnds
<1>4. ASSUME NEW s \in {"s_req_line_almost_done", "s_header_field_start"},
             CALLBACK_DATA("url", [To(s) EXCEPT !.http_major = 0, !.http_minor = 9], Here)
      PROVE  Step
  <2>1. PICK p : p = [To(s) EXCEPT !.http_major = 0, !.http_minor = 9]
    OBVIOUS
  <2>2. IsParser(p) /\ p.state = s /\ p.flags = parser.flags /\ p.http_errno = "OK"
    BY <1>1, <2>1, ToIs DEF IsParser, ParserFields
  <2> QED BY <1>1, <1>4, <2>1, <2>2, UrlEnds DEF LineEnds
<1> QED BY <1>2, <1>3, <1>4 DEF Url

\* The blanks behind a URL.
LEMMA HttpStartStep == ASSUME IInv, HttpStart PROVE Step
BY Within, FailIs DEF HttpStart, At, LineEnds

\* The version of a request.
LEMMA ReqVersionStep == ASSUME IInv, ReqVersion PROVE Step
<1>1. IsParser(parser) /\ parser.http_errno = "OK" /\ call.open /\ UNCHANGED peer
  BY InCall DEF ReqVersion, At
<1>2. CASE At({"s_req_http_major"})
  <2>1. CASE Fail("INVALID_VERSION")
    BY <1>1, <2>1, FailIs
  <2>2. CASE Move([To("s_req_http_dot") EXCEPT !.http_major = ValueOf(ch)], Here) /\ Quiet
    <3>1. PICK p : p = [To("s_req_http_dot") EXCEPT !.http_major = ValueOf(ch)]
      OBVIOUS
    <3>2. IsParser(p) /\ p.state = "s_req_http_dot" /\ p.flags = parser.flags /\ p.http_errno = "OK"
      BY <1>1, <3>1, VersionIs
    <3> QED BY <1>1, <1>2, <2>2, <3>1, <3>2, WithinLine DEF At, LineEnds
  <2> QED BY <1>2, <2>1, <2>2 DEF ReqVersion, At
<1>3. CASE At({"s_req_http_dot"})
  BY <1>1, <1>3, Within, FailIs DEF ReqVersion, At, LineEnds
<1>4. CASE At({"s_req_http_minor"})
  <2>1. CASE Fail("INVALID_VERSION")
    BY <1>1, <2>1, FailIs
  <2>2. CASE Move([To("s_req_http_end") EXCEPT !.http_minor = ValueOf(ch)], Here) /\ Quiet
    <3>1. PICK p : p = [To("s_req_http_end") EXCEPT !.http_minor = ValueOf(ch)]
      OBVIOUS
    <3>2. IsParser(p) /\ p.state = "s_req_http_end" /\ p.flags = parser.flags /\ p.http_errno = "OK"
      BY <1>1, <3>1, VersionIs
    <3> QED BY <1>1, <1>4, <2>2, <3>1, <3>2, WithinLine DEF At, LineEnds
  <2> QED BY <1>4, <2>1, <2>2 DEF ReqVersion, At
<1>5. CASE At({"s_req_http_end"})
  BY <1>1, <1>5, Within, FailIs DEF ReqVersion, At, LineEnds
<1> QED BY <1>2, <1>3, <1>4, <1>5 DEF ReqVersion

\* The bytes that only one byte may follow.
LEMMA ConstantStep == ASSUME IInv, Constant PROVE Step
<1>1. PICK m \in Constants :
        /\ At({m[1]})
        /\ Goto(m[3]) \/ Fail("LF_EXPECTED") \/ Fail("STRICT")
  BY DEF Constant
<1>2. call.open /\ UNCHANGED peer /\ parser.state = m[1]
  BY <1>1 DEF At
<1>3. CASE Fail("LF_EXPECTED") \/ Fail("STRICT")
  BY <1>2, <1>3, FailIs
<1>4. CASE Goto(m[3])
  <2>1. \/ m[1] \in InLine /\ m[3] \in InLine
        \/ m[1] \in LineEnds /\ m[3] \in LineEnds \cup {"s_header_field_start"}
        \/ m[1] \in ValueEnds /\ m[3] \in ValueEnds
        \/ m[1] \in AtValue \ Counts /\ m[3] \in AtValue \ Counts
    BY DEF Constants, InLine, LineEnds, ValueEnds, AtValue, Counts
  <2> QED BY <1>2, <1>4, <2>1, Within
<1> QED BY <1>1, <1>3, <1>4

-----------------------------------------------------------------------------
(***************************************************************************)
(* Headers.                                                                *)
(***************************************************************************)

\* The value of a digit.
LEMMA ValueOfIs ==
  ASSUME NEW d \in Digit
  PROVE  ValueOf(d) \in 0 .. 2
<1>1. \E n \in 0 .. 2 : d = <<"0", "1", "2">>[n + 1]
  <2>1. <<"0", "1", "2">>[0 + 1] = "0" /\ <<"0", "1", "2">>[1 + 1] = "1" /\ <<"0", "1", "2">>[2 + 1] = "2"
    OBVIOUS
  <2> QED BY <2>1 DEF Digit
<1> QED BY <1>1 DEF ValueOf

\* A name, a value or another element that is marked is told of.
LEMMA MarkEnds ==
  ASSUME IInv, call.open, UNCHANGED peer, parser.state \notin Owing, NEW kind, NEW p, NEW c, NEW r,
         CALLBACK_DATA_(kind, p, c, r, Move(p, Unmarked(kind, c)))
         \/ CALLBACK_DATA_(kind, p, c, r, REEXECUTE(p, Unmarked(kind, c))),
         CallFields \subseteq DOMAIN c, c.open = TRUE, c.run = 0, DOMAIN c.mark = {kind},
         IsParser(p), p.http_errno = "OK", p.state \notin Special, EntryMarks(p.state) = {},
         Fits(p, kind, peer.turn)
  PROVE  /\ IInv' /\ event' = kind /\ Running /\ Owed = 0
         /\ Callbacks!Unless(0, Trailing(p) /\ kind # "message_complete")
<1>1. /\ event' = kind
      /\ Interrupted(p, c, r) \/ Move(p, Unmarked(kind, c)) \/ REEXECUTE(p, Unmarked(kind, c))
  BY MarkHears
<1>2. /\ CallFields \subseteq DOMAIN Unmarked(kind, c) /\ Unmarked(kind, c).open = TRUE
      /\ Unmarked(kind, c).run = 0 /\ DOMAIN Unmarked(kind, c).mark = {}
  BY UnmarkedIs
<1>3. IInv' /\ Callbacks!Unless(0, Trailing(p) /\ kind # "message_complete")
  BY <1>1, <1>2, Hears
<1> QED BY <1>1, <1>3, Runs

\* One more byte of a name or a value.
LEMMA OnIs ==
  ASSUME NEW c, CallFields \subseteq DOMAIN c
  PROVE  LET d == [c EXCEPT !.run = @ + 1] IN
         CallFields \subseteq DOMAIN d /\ d.open = c.open /\ d.mark = c.mark
BY DEF CallFields

\* The first byte of a line in a head or a trailer.
LEMMA HeaderFieldStartStep == ASSUME IInv, HeaderFieldStart PROVE Step
<1>1. /\ IsParser(parser) /\ parser.http_errno = "OK" /\ call.open /\ UNCHANGED peer
      /\ CallFields \subseteq DOMAIN Here /\ Here.open = TRUE /\ Here.mark = call.mark /\ Here.run = call.run
      /\ Fits(parser, event, peer.turn) /\ Open(parser, call, event) /\ parser.state = "s_header_field_start"
  BY InCall DEF HeaderFieldStart, At
<1>2. CASE Goto("s_headers_almost_done") \/ Again("s_headers_almost_done")
  BY <1>1, <1>2, Within DEF AtHeader
<1>3. CASE Fail("INVALID_HEADER_TOKEN")
  BY <1>1, <1>3, FailIs
<1>4. ASSUME NEW h, Move([To("s_header_field") EXCEPT !.header_state = h], MARK("header_field", Here)), Quiet
      PROVE  Step
  <2>1. PICK p : p = [To("s_header_field") EXCEPT !.header_state = h]
    OBVIOUS
  <2>2. /\ IsParser(p) /\ p.state = "s_header_field" /\ p.http_errno = "OK" /\ p.flags = parser.flags
    BY <1>1, <2>1, ToIs DEF IsParser, ParserFields
  <2>3. DOMAIN call.mark = {}
    BY <1>1 DEF Open, Marked, Delivers, InData, InBody, EntryMarks, UrlStart, UrlRest
  <2>4. /\ CallFields \subseteq DOMAIN MARK("header_field", Here) /\ MARK("header_field", Here).open = TRUE
        /\ DOMAIN MARK("header_field", Here).mark = {"header_field"}
    BY <1>1, <2>3, MarkIs
  <2>5. Fits(p, event, peer.turn)
    BY <1>1, <2>2 DEF Fits, Trailing, Lines, Begins, InLine, InUrl, UrlStart, UrlRest, LineEnds, AtHeader, AtValue,
              ValueEnds, InSize, InData, InBody
  <2>6. p.state \notin Special /\ parser.state \notin Owing /\ EntryMarks(p.state) = {"header_field"}
        /\ p.state \in Counts
    BY <1>1, <2>2 DEF Special, Owing, Delivers, InData, InBody, EntryMarks, UrlStart, UrlRest, Counts
  <2>7. Trailing(p) <=> Trailing(parser)
    BY <2>2 DEF Trailing
  <2> QED BY <1>1, <1>4, <2>1, <2>2, <2>4, <2>5, <2>6, <2>7, QuietGo
<1> QED BY <1>2, <1>3, <1>4 DEF HeaderFieldStart

\* A name.
LEMMA HeaderFieldStep == ASSUME IInv, HeaderField PROVE Step
<1>1. /\ IsParser(parser) /\ parser.http_errno = "OK" /\ call.open /\ UNCHANGED peer
      /\ CallFields \subseteq DOMAIN Here /\ Here.open = TRUE /\ Here.mark = call.mark
      /\ Fits(parser, event, peer.turn) /\ Open(parser, call, event) /\ parser.state = "s_header_field"
  BY InCall DEF HeaderField, At
<1>2. /\ DOMAIN Here.mark = {"header_field"} /\ parser.state \notin Owing
      /\ parser.state \in Counts /\ parser.state \notin Special
      /\ EntryMarks(parser.state) = {"header_field"}
  BY <1>1 DEF Open, Marked, Special, Owing, Delivers, InData, InBody, EntryMarks, UrlStart, UrlRest, Counts
<1>3. CASE Fail("HEADER_OVERFLOW") \/ Fail("INVALID_HEADER_TOKEN")
  BY <1>1, <1>3, FailIs
<1>4. ASSUME NEW h, Move([parser EXCEPT !.header_state = h], [Here EXCEPT !.run = @ + 1]), Quiet
      PROVE  Step
  <2>1. PICK p : p = [parser EXCEPT !.header_state = h]
    OBVIOUS
  <2>2. /\ IsParser(p) /\ p.state = "s_header_field" /\ p.http_errno = "OK" /\ p.flags = parser.flags
    BY <1>1, <2>1 DEF IsParser, ParserFields
  <2>3. PICK c : c = [Here EXCEPT !.run = @ + 1]
    OBVIOUS
  <2>4. CallFields \subseteq DOMAIN c /\ c.open = TRUE /\ DOMAIN c.mark = {"header_field"}
    BY <1>1, <1>2, <2>3, OnIs
  <2>5. Trailing(p) <=> Trailing(parser)
    BY <2>2 DEF Trailing
  <2>6. Fits(p, event, peer.turn)
    BY <1>1, <2>2 DEF Fits, Trailing, Lines, Begins, InLine, InUrl, UrlStart, UrlRest, LineEnds, AtHeader, AtValue,
              ValueEnds, InSize, InData, InBody
  <2> QED BY <1>1, <1>2, <1>4, <2>1, <2>2, <2>3, <2>4, <2>5, <2>6, QuietGo
<1>5. CASE CALLBACK_DATA("header_field", To("s_header_value_discard_ws"), Counted(Here))
  <2>1. PICK p : p = To("s_header_value_discard_ws")
    OBVIOUS
  <2>2. PICK c : c = Counted(Here)
    OBVIOUS
  <2>3. /\ CallFields \subseteq DOMAIN c /\ c.open = TRUE /\ c.run = 0 /\ DOMAIN c.mark = {"header_field"}
    BY <1>1, <1>2, <2>2, CountedIs
  <2>4. /\ IsParser(p) /\ p.state = "s_header_value_discard_ws" /\ p.http_errno = "OK" /\ p.flags = parser.flags
    BY <1>1, <2>1, ToIs
  <2>5. Fits(p, "header_field", peer.turn)
    BY <2>4 DEF Fits, Trailing, Lines, Begins, InLine, InUrl, UrlStart, UrlRest, LineEnds, AtHeader, AtValue,
              ValueEnds, InSize, InData, InBody
  <2>6. p.state \notin Special /\ EntryMarks(p.state) = {}
    BY <2>4 DEF Special, Owing, Delivers, InData, InBody, EntryMarks, UrlStart, UrlRest
  <2>7. CALLBACK_DATA_("header_field", p, c, Tail(rest), Move(p, Unmarked("header_field", c)))
    BY <1>5, <2>1, <2>2 DEF CALLBACK_DATA
  <2>8. /\ IInv' /\ event' = "header_field" /\ Running /\ Owed = 0
        /\ Callbacks!Unless(0, Trailing(p) /\ "header_field" # "message_complete")
    BY <1>1, <1>2, <2>3, <2>4, <2>5, <2>6, <2>7, MarkEnds
  <2>9. event \in Lines(parser) \cup {"header_field"} /\ (Trailing(p) <=> Trailing(parser))
    BY <1>1, <2>4 DEF Fits, Trailing
  <2>10. Callbacks!HeaderField
    BY <2>8, <2>9 DEF Callbacks!HeaderField, Callbacks!Tell, Callbacks!Unless, Trailing, Lines
  <2> QED BY <2>8, <2>10 DEF Step, Order, Callbacks!Next
<1> QED BY <1>3, <1>4, <1>5 DEF HeaderField

\* A byte that begins a value.
LEMMA ValueBegins ==
  ASSUME IInv, call.open, UNCHANGED peer, parser.state \in AtValue \ Counts,
         NEW p, Move(p, MARK("header_value", Here)), Quiet,
         IsParser(p), p.state = "s_header_value", p.http_errno = "OK", Trailing(p) <=> Trailing(parser),
         p.header_state \notin {"h_connection", "h_transfer_encoding"}
  PROVE  Step
<1>1. /\ CallFields \subseteq DOMAIN Here /\ Here.open = TRUE /\ Here.mark = call.mark
      /\ Fits(parser, event, peer.turn) /\ Open(parser, call, event)
  BY InCall
<1>2. DOMAIN Here.mark = {}
  BY <1>1 DEF Open, Marked, Delivers, InData, InBody, EntryMarks, UrlStart, UrlRest, AtValue, Counts
<1>3. /\ CallFields \subseteq DOMAIN MARK("header_value", Here) /\ MARK("header_value", Here).open = TRUE
      /\ DOMAIN MARK("header_value", Here).mark = {"header_value"}
  BY <1>1, <1>2, MarkIs
<1>4. event \in {"header_field", "header_value"}
  BY <1>1 DEF Fits
<1>5. Fits(p, event, peer.turn)
  BY <1>4 DEF Fits, Lines, Begins, InLine, InUrl, UrlStart, UrlRest, LineEnds, AtHeader, AtValue,
              ValueEnds, InSize, InData, InBody
<1>6. p.state \notin Special /\ parser.state \notin Owing /\ EntryMarks(p.state) = {"header_value"}
      /\ p.state \in Counts
  BY DEF Special, Owing, Delivers, InData, InBody, EntryMarks, UrlStart, UrlRest, Counts, AtValue
<1> QED BY <1>1, <1>3, <1>5, <1>6, QuietGo

\* A first byte of a token leads to no state that ValueStart should have left.
LEMMA ConnectionTokenIs ==
  ASSUME NEW x, NEW else, else \notin {"h_connection", "h_transfer_encoding"}
  PROVE  Known(ConnectionToken, x, else) \notin {"h_connection", "h_transfer_encoding"}
BY KnownIs DEF ConnectionToken

\* The first byte of a value: what the name was is no longer the header state.
LEMMA ValueStartStep ==
  ASSUME IInv, call.open, UNCHANGED peer, parser.state \in AtValue \ Counts, ValueStart
  PROVE  Step
<1>1. IsParser(parser) /\ parser.http_errno = "OK"
  BY InCall
<1>2. PICK p : p = To("s_header_value")
  OBVIOUS
<1>3. /\ IsParser(p) /\ p.state = "s_header_value" /\ p.http_errno = "OK" /\ p.flags = parser.flags
      /\ p.header_state = parser.header_state
  BY <1>1, <1>2, ToIs
<1>4. CASE \E e : Fail(e) /\ e \notin {"OK", "PAUSED"}
  BY <1>4, FailIs
<1>5. CASE /\ ch \in Digit /\ Quiet
           /\ Move([p EXCEPT !.flags = @ \cup {"CONTENTLENGTH"}, !.content_length = ValueOf(ch),
                             !.header_state = "h_content_length_num"], MARK("header_value", Here))
  <2>1. PICK q : q = [p EXCEPT !.flags = @ \cup {"CONTENTLENGTH"}, !.content_length = ValueOf(ch),
                               !.header_state = "h_content_length_num"]
    OBVIOUS
  <2>2. ValueOf(ch) \in 0 .. ULLONG_MAX
    BY <1>5, ValueOfIs, WireAssumption
  <2>3. /\ IsParser(q) /\ q.state = "s_header_value" /\ q.http_errno = "OK"
        /\ q.flags = parser.flags \cup {"CONTENTLENGTH"} /\ q.header_state = "h_content_length_num"
    BY <1>3, <2>1, <2>2 DEF IsParser, ParserFields
  <2>4. Trailing(q) <=> Trailing(parser)
    BY <2>3 DEF Trailing
  <2> QED BY <1>5, <2>1, <2>3, <2>4, ValueBegins
<1>6. CASE /\ Quiet
           /\ Move([p EXCEPT !.flags = @ \cup {"UPGRADE"}, !.header_state = "h_general"],
                   MARK("header_value", Here))
  <2>1. PICK q : q = [p EXCEPT !.flags = @ \cup {"UPGRADE"}, !.header_state = "h_general"]
    OBVIOUS
  <2>2. /\ IsParser(q) /\ q.state = "s_header_value" /\ q.http_errno = "OK"
        /\ q.flags = parser.flags \cup {"UPGRADE"} /\ q.header_state = "h_general"
    BY <1>3, <2>1 DEF IsParser, ParserFields
  <2>3. Trailing(q) <=> Trailing(parser)
    BY <2>2 DEF Trailing
  <2> QED BY <1>6, <2>1, <2>2, <2>3, ValueBegins
<1>7. CASE /\ parser.header_state \in {"h_content_length_ws", "h_matching_connection_token_start"}
           /\ Move(p, MARK("header_value", Here)) /\ Quiet
  <2>1. Trailing(p) <=> Trailing(parser)
    BY <1>3 DEF Trailing
  <2> QED BY <1>3, <1>7, <2>1, ValueBegins
<1>8. ASSUME NEW h, h \notin {"h_connection", "h_transfer_encoding"}, Quiet,
             Move([p EXCEPT !.header_state = h], MARK("header_value", Here))
      PROVE  Step
  <2>1. PICK q : q = [p EXCEPT !.header_state = h]
    OBVIOUS
  <2>2. /\ IsParser(q) /\ q.state = "s_header_value" /\ q.http_errno = "OK"
        /\ q.flags = parser.flags /\ q.header_state = h
    BY <1>3, <2>1 DEF IsParser, ParserFields
  <2>3. Trailing(q) <=> Trailing(parser)
    BY <2>2 DEF Trailing
  <2> QED BY <1>8, <2>1, <2>2, <2>3, ValueBegins
<1>9. CASE parser.header_state = "h_content_length"
  BY <1>2, <1>4, <1>5, <1>9 DEF ValueStart, FirstLength
<1>10. CASE parser.header_state = "h_upgrade"
  BY <1>2, <1>6, <1>10 DEF ValueStart
<1>11. CASE parser.header_state \in {"h_content_length_ws", "h_matching_connection_token_start"}
  BY <1>2, <1>7, <1>11 DEF ValueStart
<1>12. CASE parser.header_state \notin {"h_content_length", "h_upgrade", "h_content_length_ws",
                                        "h_matching_connection_token_start"}
  <2>1. PICK h : /\ h = IF parser.header_state = "h_transfer_encoding" /\ ch = "c"
                        THEN "h_matching_transfer_encoding_chunked"
                        ELSE IF parser.header_state = "h_connection"
                        THEN Known(ConnectionToken, ch, "h_matching_connection_token")
                        ELSE "h_general"
    OBVIOUS
  <2>2. h \notin {"h_connection", "h_transfer_encoding"}
    BY <2>1, ConnectionTokenIs
  <2>3. Quiet /\ Move([p EXCEPT !.header_state = h], MARK("header_value", Here))
    BY <1>2, <1>3, <1>12, <2>1 DEF ValueStart
  <2> QED BY <1>8, <2>2, <2>3
<1> QED BY <1>9, <1>10, <1>11, <1>12

\* The blanks before a value.
LEMMA DiscardWsStep == ASSUME IInv, DiscardWs PROVE Step
<1>1. call.open /\ UNCHANGED peer /\ parser.state = "s_header_value_discard_ws"
  BY DEF DiscardWs, At
<1>2. CASE Goto(parser.state) \/ Goto("s_header_value_discard_ws_almost_done")
           \/ Goto("s_header_value_discard_lws")
  BY <1>1, <1>2, Within DEF AtValue, Counts
<1>3. CASE ValueStart
  BY <1>1, <1>3, ValueStartStep DEF AtValue, Counts
<1> QED BY <1>2, <1>3 DEF DiscardWs

\* The first byte of a value that goes on in the next line.
LEMMA HeaderValueStartStep == ASSUME IInv, HeaderValueStart PROVE Step
BY ValueStartStep DEF HeaderValueStart, At, AtValue, Counts

\* A byte with which a value goes on.
LEMMA ValueGoes ==
  ASSUME IInv, call.open, UNCHANGED peer, parser.state = "s_header_value",
         NEW p, NEW c, Move(p, c), Quiet, c = Here \/ c = [Here EXCEPT !.run = @ + 1],
         IsParser(p), p.state = "s_header_value", p.http_errno = "OK", Trailing(p) <=> Trailing(parser),
         p.header_state \notin {"h_connection", "h_transfer_encoding"}
  PROVE  Step
<1>1. /\ CallFields \subseteq DOMAIN Here /\ Here.open = TRUE /\ Here.mark = call.mark
      /\ Fits(parser, event, peer.turn) /\ Open(parser, call, event)
  BY InCall
<1>2. DOMAIN Here.mark = {"header_value"}
  BY <1>1 DEF Open, Marked, Delivers, InData, InBody, EntryMarks, UrlStart, UrlRest
<1>3. CallFields \subseteq DOMAIN c /\ c.open = TRUE /\ DOMAIN c.mark = {"header_value"}
  BY <1>1, <1>2, OnIs
<1>4. event \in {"header_field", "header_value"}
  BY <1>1 DEF Fits, AtValue
<1>5. Fits(p, event, peer.turn)
  BY <1>4 DEF Fits, Lines, Begins, InLine, InUrl, UrlStart, UrlRest, LineEnds, AtHeader, AtValue,
              ValueEnds, InSize, InData, InBody
<1>6. p.state \notin Special /\ parser.state \notin Owing /\ EntryMarks(p.state) = {"header_value"}
      /\ p.state \in Counts
  BY DEF Special, Owing, Delivers, InData, InBody, EntryMarks, UrlStart, UrlRest, Counts
<1> QED BY <1>1, <1>3, <1>5, <1>6, QuietGo

\* No header says that a trailer follows.
LEMMA FlagOfIs == \A h : "TRAILING" \notin FlagOf(h)
BY DEF FlagOf, Flag

\* Nor does a further byte lead to one.
LEMMA TokenNextIs ==
  ASSUME NEW h, h \notin {"h_connection", "h_transfer_encoding"}
  PROVE  TokenNext(h) \notin {"h_connection", "h_transfer_encoding"}
<1>1. \A x, else : else \notin {"h_connection", "h_transfer_encoding"}
        => Known(TokenEnd, x, else) \notin {"h_connection", "h_transfer_encoding"}
  BY KnownIs DEF TokenEnd
<1> QED BY <1>1, ConnectionTokenIs DEF TokenNext

\* One more digit of a number.
LEMMA DigitFits ==
  ASSUME NEW n \in 0 .. ULLONG_MAX, NEW base \in {10, 16}, NEW d \in 0 .. 2,
         (ULLONG_MAX - base) \div base >= n
  PROVE  n * base + d \in 0 .. ULLONG_MAX - 1
<1>1. ULLONG_MAX \in Nat
  BY WireAssumption
<1>2. CASE base = 10
  <2>1. (ULLONG_MAX - 10) \div 10 >= n /\ n \in Nat
    BY <1>2
  <2>2. n * 10 <= ULLONG_MAX - 10
    BY <1>1, <2>1
  <2> QED BY <1>1, <1>2, <2>1, <2>2
<1>3. CASE base = 16
  <2>1. (ULLONG_MAX - 16) \div 16 >= n /\ n \in Nat
    BY <1>3
  <2>2. n * 16 <= ULLONG_MAX - 16
    BY <1>1, <2>1
  <2> QED BY <1>1, <1>3, <2>1, <2>2
<1> QED BY <1>2, <1>3

\* A byte of a value.
LEMMA ValueByteStep ==
  ASSUME IInv, call.open, UNCHANGED peer, parser.state = "s_header_value", ValueByte
  PROVE  Step
<1>1. /\ IsParser(parser) /\ parser.http_errno = "OK"
      /\ parser.header_state \notin {"h_connection", "h_transfer_encoding"}
  BY InCall DEF Fits
<1>2. CASE \E e : Fail(e) /\ e \notin {"OK", "PAUSED"}
  BY <1>2, FailIs
<1>3. ASSUME NEW h, h \notin {"h_connection", "h_transfer_encoding"}, NEW f, "TRAILING" \notin f, Quiet,
             Move([parser EXCEPT !.header_state = h, !.flags = @ \cup f], [Here EXCEPT !.run = @ + 1])
      PROVE  Step
  <2>1. PICK p : p = [parser EXCEPT !.header_state = h, !.flags = @ \cup f]
    OBVIOUS
  <2>2. /\ IsParser(p) /\ p.state = "s_header_value" /\ p.http_errno = "OK"
        /\ p.flags = parser.flags \cup f /\ p.header_state = h
    BY <1>1, <2>1 DEF IsParser, ParserFields
  <2>3. Trailing(p) <=> Trailing(parser)
    BY <1>3, <2>2 DEF Trailing
  <2>4. Move(p, [Here EXCEPT !.run = @ + 1])
    BY <1>3, <2>1
  <2> QED BY <1>3, <2>2, <2>3, <2>4, ValueGoes
<1>4. ASSUME NEW h, h \notin {"h_connection", "h_transfer_encoding"}, Further(h)
      PROVE  Step
  <2>1. PICK p : p = [parser EXCEPT !.header_state = h]
    OBVIOUS
  <2>2. /\ IsParser(p) /\ p.state = "s_header_value" /\ p.http_errno = "OK"
        /\ p.flags = parser.flags /\ p.header_state = h
    BY <1>1, <2>1 DEF IsParser, ParserFields
  <2>3. Trailing(p) <=> Trailing(parser)
    BY <2>2 DEF Trailing
  <2>4. Move(p, [Here EXCEPT !.run = @ + 1]) /\ Quiet
    BY <1>4, <2>1 DEF Further
  <2> QED BY <1>4, <2>2, <2>3, <2>4, ValueGoes
<1>5. CASE ch \in Digit /\ Digits(10)
  <2>1. CASE Fail("INVALID_CONTENT_LENGTH")
    BY <1>2, <2>1
  <2>2. CASE (ULLONG_MAX - 10) \div 10 >= parser.content_length
    <3>1. PICK n : n = parser.content_length * 10 + ValueOf(ch)
      OBVIOUS
    <3>2. n \in 0 .. ULLONG_MAX
      <4>1. parser.content_length \in 0 .. ULLONG_MAX /\ ValueOf(ch) \in 0 .. 2
        BY <1>1, <1>5, ValueOfIs DEF IsParser
      <4>2. n \in 0 .. ULLONG_MAX - 1
        BY <2>2, <3>1, <4>1, DigitFits
      <4> QED BY <4>2, WireAssumption
    <3>3. PICK p : p = [parser EXCEPT !.content_length = n]
      OBVIOUS
    <3>4. /\ IsParser(p) /\ p.state = "s_header_value" /\ p.http_errno = "OK"
          /\ p.flags = parser.flags /\ p.header_state = parser.header_state
      BY <1>1, <3>2, <3>3 DEF IsParser, ParserFields
    <3>5. Trailing(p) <=> Trailing(parser)
      BY <3>4 DEF Trailing
    <3>6. Move(p, [Here EXCEPT !.run = @ + 1]) /\ Quiet
      BY <1>5, <2>2, <3>1, <3>3 DEF Digits
    <3> QED BY <1>1, <3>4, <3>5, <3>6, ValueGoes
  <2> QED BY <1>5, <2>1, <2>2 DEF Digits
<1>6. CASE ch \notin HeaderChar
  BY <1>2, <1>6 DEF ValueByte
<1>7. CASE ch \in HeaderChar /\ parser.header_state \in {"h_content_length_num", "h_content_length_ws"}
  <2>1. LengthByte
    BY <1>7 DEF ValueByte
  <2>2. CASE Further("h_content_length_ws")
    BY <1>4, <2>2
  <2>3. CASE Fail("INVALID_CONTENT_LENGTH")
    BY <1>2, <2>3
  <2> QED BY <1>5, <2>1, <2>2, <2>3 DEF LengthByte
<1>8. CASE ch \in HeaderChar /\ parser.header_state \in {"h_general", "h_matching_transfer_encoding_chunked",
                                                        "h_transfer_encoding_chunked"}
  <2>1. CodingNext(parser.header_state) \notin {"h_connection", "h_transfer_encoding"}
    BY <1>8 DEF CodingNext
  <2>2. Further(CodingNext(parser.header_state))
    BY <1>8 DEF ValueByte
  <2> QED BY <1>4, <2>1, <2>2
<1>9. CASE /\ ch \in HeaderChar
           /\ parser.header_state \notin {"h_content_length_num", "h_content_length_ws", "h_general",
                "h_matching_transfer_encoding_chunked", "h_transfer_encoding_chunked"}
  <2>1. TokenNext(parser.header_state) \notin {"h_connection", "h_transfer_encoding"}
    BY <1>1, TokenNextIs
  <2>2. PICK f : f = IF ch = "," THEN FlagOf(parser.header_state) ELSE {}
    OBVIOUS
  <2>3. "TRAILING" \notin f
    BY <2>2, FlagOfIs
  <2>4. Quiet /\ Move([parser EXCEPT !.header_state = TokenNext(parser.header_state), !.flags = @ \cup f],
                      [Here EXCEPT !.run = @ + 1])
    BY <1>9, <2>2 DEF ValueByte
  <2> QED BY <1>3, <2>1, <2>3, <2>4
<1> QED BY <1>6, <1>7, <1>8, <1>9

\* Where a value may end.
LEMMA AtValueEnd ==
  ASSUME IInv, call.open, parser.state = "s_header_value"
  PROVE  /\ CallFields \subseteq DOMAIN Here /\ Here.open = TRUE /\ DOMAIN Here.mark = {"header_value"}
         /\ parser.state \notin Owing /\ Running /\ Owed = 0 /\ event \in {"header_field", "header_value"}
         /\ \E p : p = To("s_header_almost_done") /\ IsParser(p) /\ p.state = "s_header_almost_done"
              /\ p.http_errno = "OK" /\ p.flags = parser.flags
              /\ p.state \notin Special /\ EntryMarks(p.state) = {} /\ Fits(p, "header_value", peer.turn)
              /\ (Trailing(p) <=> Trailing(parser))
<1>1. /\ IsParser(parser) /\ parser.http_errno = "OK"
      /\ CallFields \subseteq DOMAIN Here /\ Here.open = TRUE /\ Here.mark = call.mark
      /\ Fits(parser, event, peer.turn) /\ Open(parser, call, event)
  BY InCall
<1>2. DOMAIN Here.mark = {"header_value"} /\ parser.state \notin Owing /\ event \in {"header_field", "header_value"}
  BY <1>1 DEF Open, Marked, Owing, Delivers, InData, InBody, EntryMarks, UrlStart, UrlRest, Fits, AtValue
<1>3. PICK p : p = To("s_header_almost_done")
  OBVIOUS
<1>4. /\ IsParser(p) /\ p.state = "s_header_almost_done" /\ p.http_errno = "OK" /\ p.flags = parser.flags
  BY <1>1, <1>3, ToIs
<1>5. Fits(p, "header_value", peer.turn)
  BY <1>4 DEF Fits, Lines, Begins, InLine, InUrl, UrlStart, UrlRest, LineEnds, AtHeader, AtValue,
              ValueEnds, InSize, InData, InBody
<1>6. p.state \notin Special /\ EntryMarks(p.state) = {} /\ (Trailing(p) <=> Trailing(parser))
  BY <1>4 DEF Special, Owing, Delivers, InData, InBody, EntryMarks, UrlStart, UrlRest, Trailing
<1> QED BY <1>1, <1>2, <1>3, <1>4, <1>5, <1>6, Runs

\* on_header_value.
LEMMA ValueTold ==
  ASSUME Running, Owed = 0, event \in {"header_field", "header_value"}, event' = "header_value",
         NEW p, Callbacks!Unless(0, Trailing(p) /\ "header_value" # "message_complete"),
         Trailing(p) <=> Trailing(parser)
  PROVE  Order
<1>1. Callbacks!HeaderValue
  BY DEF Callbacks!HeaderValue, Callbacks!Tell, Callbacks!Unless, Trailing
<1> QED BY <1>1 DEF Order, Callbacks!Next

\* A value and its end, before or after which its bytes are counted.
LEMMA HeaderValueStep == ASSUME IInv, HeaderValue PROVE Step
<1>1. call.open /\ UNCHANGED peer /\ parser.state = "s_header_value"
  BY DEF HeaderValue, At
<1>2. /\ CallFields \subseteq DOMAIN Here /\ Here.open = TRUE /\ DOMAIN Here.mark = {"header_value"}
      /\ parser.state \notin Owing /\ Running /\ Owed = 0 /\ event \in {"header_field", "header_value"}
  BY <1>1, AtValueEnd
<1>3. PICK p : /\ p = To("s_header_almost_done") /\ IsParser(p) /\ p.state = "s_header_almost_done"
               /\ p.http_errno = "OK" /\ p.flags = parser.flags
               /\ p.state \notin Special /\ EntryMarks(p.state) = {} /\ Fits(p, "header_value", peer.turn)
               /\ (Trailing(p) <=> Trailing(parser))
  BY <1>1, AtValueEnd
<1>4. PICK c : c = Counted(Here)
  OBVIOUS
<1>5. /\ CallFields \subseteq DOMAIN c /\ c.open = TRUE /\ c.run = 0 /\ DOMAIN c.mark = {"header_value"}
  BY <1>2, <1>4, CountedIs
<1>6. PICK d : d = Unmarked("header_value", c)
  OBVIOUS
<1>7. /\ CallFields \subseteq DOMAIN d /\ d.open = TRUE /\ d.run = 0 /\ DOMAIN d.mark = {}
  BY <1>5, <1>6, UnmarkedIs
<1>8. CASE ValueCR
  <2>1. CALLBACK_DATA_("header_value", p, Here, Tail(rest),
              IF d.nread > MaxHeaderSize
              THEN RETURN([p EXCEPT !.http_errno = "HEADER_OVERFLOW"], d, rest) ELSE Move(p, d))
    BY <1>3, <1>4, <1>6, <1>8 DEF ValueCR
  <2>2. /\ event' = "header_value"
        /\ \/ Interrupted(p, Here, Tail(rest))
           \/ RETURN([p EXCEPT !.http_errno = "HEADER_OVERFLOW"], d, rest)
           \/ Move(p, d)
    BY <1>2, <2>1 DEF CALLBACK_DATA_, CALLBACK, Told
  <2>3. CASE Interrupted(p, Here, Tail(rest)) \/ Move(p, d)
    <3>1. IInv' /\ Callbacks!Unless(0, Trailing(p) /\ "header_value" # "message_complete")
      BY <1>1, <1>3, <1>7, <2>2, <2>3, Hears
    <3> QED BY <1>2, <1>3, <2>2, <3>1, ValueTold DEF Step
  <2>4. CASE RETURN([p EXCEPT !.http_errno = "HEADER_OVERFLOW"], d, rest)
    <3>1. PICK q : q = [p EXCEPT !.http_errno = "HEADER_OVERFLOW"]
      OBVIOUS
    <3>2. IsParser(q) /\ q.http_errno = "HEADER_OVERFLOW"
      BY <1>3, <3>1 DEF IsParser, ParserFields
    <3>3. call' = Closed /\ IsParser(parser') /\ parser'.http_errno = "HEADER_OVERFLOW"
      BY <2>4, <3>1, <3>2, ReturnIs
    <3>4. IInv'
      BY <1>1, <3>3, Closing
    <3>5. ~ Running' /\ Owed' = 0
      BY <3>3, NoneOwedNext DEF Running
    <3>6. Callbacks!HeaderValue
      BY <1>2, <2>2, <3>5 DEF Callbacks!HeaderValue, Callbacks!Tell, Callbacks!Unless
    <3> QED BY <3>4, <3>6 DEF Step, Order, Callbacks!Next
  <2> QED BY <2>2, <2>3, <2>4
<1>9. CASE ValueLF
  <2>1. CASE Fail("HEADER_OVERFLOW")
    BY <1>1, <2>1, FailIs
  <2>2. CASE CALLBACK_DATA_NOADVANCE("header_value", To("s_header_almost_done"), Counted(Here))
    <3>1. CALLBACK_DATA_("header_value", p, c, rest, REEXECUTE(p, Unmarked("header_value", c)))
      BY <1>3, <1>4, <2>2 DEF CALLBACK_DATA_NOADVANCE
    <3>2. /\ IInv' /\ event' = "header_value"
          /\ Callbacks!Unless(0, Trailing(p) /\ "header_value" # "message_complete")
      BY <1>1, <1>2, <1>3, <1>5, <3>1, MarkEnds
    <3> QED BY <1>2, <1>3, <3>2, ValueTold DEF Step
  <2> QED BY <1>9, <2>1, <2>2 DEF ValueLF
<1>10. CASE ValueByte
  BY <1>1, <1>10, ValueByteStep
<1> QED BY <1>8, <1>9, <1>10 DEF HeaderValue

\* The parser behind a value: what the header said is flagged.
LEMMA FlaggedIs ==
  ASSUME IsParser(parser)
  PROVE  \E p : /\ p = [To("s_header_field_start") EXCEPT !.flags = @ \cup FlagOf(parser.header_state)]
                /\ IsParser(p) /\ p.state = "s_header_field_start" /\ p.http_errno = parser.http_errno
                /\ (Trailing(p) <=> Trailing(parser))
                /\ p.state \notin Special /\ EntryMarks(p.state) = {}
                /\ \A turn : Fits(p, "header_value", turn)
<1>1. PICK p : p = [To("s_header_field_start") EXCEPT !.flags = @ \cup FlagOf(parser.header_state)]
  OBVIOUS
<1>2. /\ IsParser(p) /\ p.state = "s_header_field_start" /\ p.http_errno = parser.http_errno
      /\ p.flags = parser.flags \cup FlagOf(parser.header_state)
  BY <1>1, ToIs DEF IsParser, ParserFields
<1>3. Trailing(p) <=> Trailing(parser)
  BY <1>2, FlagOfIs DEF Trailing
<1>4. \A turn : Fits(p, "header_value", turn)
  BY <1>2 DEF Fits, Lines, Begins, InLine, InUrl, UrlStart, UrlRest, LineEnds, AtHeader, AtValue,
              ValueEnds, InSize, InData, InBody
<1>5. p.state \notin Special /\ EntryMarks(p.state) = {}
  BY <1>2 DEF Special, Owing, Delivers, InData, InBody, EntryMarks, UrlStart, UrlRest
<1> QED BY <1>1, <1>2, <1>3, <1>4, <1>5

\* Behind a value.
LEMMA HeaderValueLwsStep == ASSUME IInv, HeaderValueLws PROVE Step
<1>1. /\ IsParser(parser) /\ parser.http_errno = "OK" /\ call.open /\ UNCHANGED peer
      /\ CallFields \subseteq DOMAIN Here /\ Here.open = TRUE /\ Here.mark = call.mark /\ Here.run = call.run
      /\ Fits(parser, event, peer.turn) /\ Open(parser, call, event) /\ parser.state = "s_header_value_lws"
      /\ Quiet
  BY InCall DEF HeaderValueLws, At
<1>2. /\ DOMAIN Here.mark = {} /\ Here.run = 0 /\ parser.state \notin Owing /\ event = "header_value"
  BY <1>1 DEF Open, Marked, Owing, Delivers, InData, InBody, EntryMarks, UrlStart, UrlRest, Counts, Fits, ValueEnds
<1>3. CASE ch = " "
  <2>1. PICK h : h = IF parser.header_state = "h_content_length_num" THEN "h_content_length_ws"
                     ELSE parser.header_state
    OBVIOUS
  <2>2. PICK p : p = [To("s_header_value_start") EXCEPT !.header_state = h]
    OBVIOUS
  <2>3. /\ IsParser(p) /\ p.state = "s_header_value_start" /\ p.http_errno = "OK" /\ p.flags = parser.flags
    BY <1>1, <2>2, ToIs DEF IsParser, ParserFields
  <2>4. To("s_header_value_start").header_state = parser.header_state
        /\ "header_state" \in DOMAIN To("s_header_value_start")
    BY <1>1, ToIs DEF IsParser, ParserFields
  <2>5. p = [To("s_header_value_start") EXCEPT !.header_state =
                       IF @ = "h_content_length_num" THEN "h_content_length_ws" ELSE @]
    BY <2>1, <2>2, <2>4
  <2>6. REEXECUTE(p, Here)
    BY <1>3, <2>5 DEF HeaderValueLws
  <2>7. Trailing(p) <=> Trailing(parser)
    BY <2>3 DEF Trailing
  <2>8. Fits(p, event, peer.turn)
    BY <1>2, <2>3 DEF Fits, Lines, Begins, InLine, InUrl, UrlStart, UrlRest, LineEnds, AtHeader, AtValue,
              ValueEnds, InSize, InData, InBody
  <2>9. p.state \notin Special /\ EntryMarks(p.state) = {}
    BY <2>3 DEF Special, Owing, Delivers, InData, InBody, EntryMarks, UrlStart, UrlRest
  <2> QED BY <1>1, <1>2, <2>3, <2>6, <2>7, <2>8, <2>9, QuietGo
<1>4. CASE ch # " "
  <2>1. PICK p : /\ p = [To("s_header_field_start") EXCEPT !.flags = @ \cup FlagOf(parser.header_state)]
                 /\ IsParser(p) /\ p.state = "s_header_field_start" /\ p.http_errno = parser.http_errno
                 /\ (Trailing(p) <=> Trailing(parser))
                 /\ p.state \notin Special /\ EntryMarks(p.state) = {}
                 /\ \A turn : Fits(p, "header_value", turn)
    BY <1>1, FlaggedIs
  <2>2. REEXECUTE(p, Here)
    BY <1>4, <2>1 DEF HeaderValueLws
  <2> QED BY <1>1, <1>2, <2>1, <2>2, QuietGo
<1> QED BY <1>3, <1>4

\* Behind a value that has no bytes.
LEMMA DiscardLwsStep == ASSUME IInv, DiscardLws PROVE Step
<1>1. /\ IsParser(parser) /\ parser.http_errno = "OK" /\ call.open /\ UNCHANGED peer
      /\ CallFields \subseteq DOMAIN Here /\ Here.open = TRUE /\ Here.mark = call.mark /\ Here.run = call.run
      /\ Fits(parser, event, peer.turn) /\ Open(parser, call, event)
      /\ parser.state = "s_header_value_discard_lws"
  BY InCall DEF DiscardLws, At
<1>2. /\ DOMAIN Here.mark = {} /\ Here.run = 0 /\ parser.state \notin Owing
      /\ event \in {"header_field", "header_value"}
  BY <1>1 DEF Open, Marked, Owing, Delivers, InData, InBody, EntryMarks, UrlStart, UrlRest, Counts, Fits, AtValue
<1>3. CASE Goto("s_header_value_discard_ws")
  BY <1>1, <1>3, Within DEF AtValue, Counts
<1>4. CASE Fail("INVALID_CONTENT_LENGTH")
  BY <1>1, <1>4, FailIs
<1>5. CASE CALLBACK_DATA_NOADVANCE("header_value",
             [To("s_header_field_start") EXCEPT !.flags = @ \cup FlagOf(parser.header_state)],
             MARK("header_value", Here))
  <2>1. PICK p : /\ p = [To("s_header_field_start") EXCEPT !.flags = @ \cup FlagOf(parser.header_state)]
                 /\ IsParser(p) /\ p.state = "s_header_field_start" /\ p.http_errno = parser.http_errno
                 /\ (Trailing(p) <=> Trailing(parser))
                 /\ p.state \notin Special /\ EntryMarks(p.state) = {}
                 /\ \A turn : Fits(p, "header_value", turn)
    BY <1>1, FlaggedIs
  <2>2. PICK c : c = MARK("header_value", Here)
    OBVIOUS
  <2>3. CallFields \subseteq DOMAIN c /\ c.open = TRUE /\ c.run = 0 /\ DOMAIN c.mark = {"header_value"}
    BY <1>1, <1>2, <2>2, MarkIs
  <2>4. CALLBACK_DATA_("header_value", p, c, rest, REEXECUTE(p, Unmarked("header_value", c)))
    BY <1>5, <2>1, <2>2 DEF CALLBACK_DATA_NOADVANCE
  <2>5. /\ IInv' /\ event' = "header_value" /\ Running /\ Owed = 0
        /\ Callbacks!Unless(0, Trailing(p) /\ "header_value" # "message_complete")
    BY <1>1, <1>2, <2>1, <2>3, <2>4, MarkEnds
  <2> QED BY <1>2, <2>1, <2>5, ValueTold DEF Step
<1> QED BY <1>3, <1>4, <1>5 DEF DiscardLws

-----------------------------------------------------------------------------
(***************************************************************************)
(* The end of a head, and of a message.                                    *)
(***************************************************************************)

\* What a head announces is a length, or a body without an end.
LEMMA AnnouncedIs ==
  ASSUME NEW p, IsParser(p)
  PROVE  Announced(p) \in 0 .. ULLONG_MAX
BY WireAssumption DEF Announced, IsParser

\* What the user returns at the end of a head.
LEMMA AnsweredIs ==
  ASSUME NEW p, IsParser(p), NEW a
  PROVE  /\ IsParser(Answered(p, a)) /\ Answered(p, a).state = p.state
         /\ Answered(p, a).http_errno = p.http_errno
         /\ "TRAILING" \in Answered(p, a).flags <=> "TRAILING" \in p.flags
BY DEF Answered, IsParser, ParserFields

\* The parser behind a head: in the state s_headers_done, whatever happened.
LEMMA HeadTold ==
  ASSUME IInv, call.open, UNCHANGED peer, parser.state = "s_headers_almost_done", ~ Trailing(parser),
         event' = "headers_complete", IInv',
         \/ IsParser(parser') /\ parser'.state = "s_headers_done" /\ Running' /\ ~ Trailing(parser')
         \/ ~ Running'
  PROVE  Order
<1>1. Running /\ event \in {"url", "status", "header_value"}
  BY InCall DEF Fits, AtHeader, Lines
<1>2. CASE IsParser(parser') /\ parser'.state = "s_headers_done" /\ Running' /\ ~ Trailing(parser')
  <2>1. Owed' = Announced(parser')
    BY <1>2 DEF Owed, Running
  <2>2. Owed' \in 0 .. ULLONG_MAX
    BY <1>2, <2>1, AnnouncedIs
  <2>3. Callbacks!Unless(Owed', FALSE)
    BY <1>2 DEF Callbacks!Unless, Trailing, Running
  <2>4. Callbacks!HeadersComplete
    BY <1>1, <2>2, <2>3 DEF Callbacks!HeadersComplete, Callbacks!Tell, Trailing
  <2> QED BY <2>4 DEF Order, Callbacks!Next
<1>3. CASE ~ Running'
  <2>1. Owed' = 0
    BY <1>3, NoneOwedNext
  <2>2. Callbacks!Unless(0, FALSE)
    BY <1>3, <2>1 DEF Callbacks!Unless
  <2>3. 0 \in 0 .. ULLONG_MAX
    BY WireAssumption
  <2>4. \E n \in 0 .. ULLONG_MAX : Callbacks!Unless(n, FALSE)
    BY <2>2, <2>3
  <2>5. Callbacks!HeadersComplete
    BY <1>1, <2>4 DEF Callbacks!HeadersComplete, Callbacks!Tell, Trailing
  <2> QED BY <2>5 DEF Order, Callbacks!Next
<1> QED BY <1>2, <1>3

\* on_headers_complete, with any answer, and with a pause behind it.
LEMMA HeadersCompleteStep ==
  ASSUME IInv, call.open, UNCHANGED peer, parser.state = "s_headers_almost_done", ~ Trailing(parser),
         NEW p, HeadersComplete(p),
         IsParser(p), p.state = "s_headers_done", p.http_errno = "OK", p.flags = parser.flags
  PROVE  Step
<1>1. /\ CallFields \subseteq DOMAIN Here /\ Here.open = TRUE /\ Here.mark = call.mark /\ Here.run = call.run
      /\ Open(parser, call, event)
  BY InCall
<1>2. DOMAIN Here.mark = {} /\ Here.run = 0
  BY <1>1 DEF Open, Marked, Delivers, InData, InBody, EntryMarks, UrlStart, UrlRest, Counts
<1>3. event' = "headers_complete"
  BY DEF HeadersComplete, Told
<1>4. ASSUME NEW q, q.state = "s_headers_done", ~ Trailing(q)
      PROVE  Fits(q, "headers_complete", peer.turn) /\ Shut(q, "headers_complete")
  BY <1>4 DEF Fits, Shut, Lines, Begins, InLine, InUrl, UrlStart, UrlRest, LineEnds, AtHeader, AtValue,
              ValueEnds, InSize, InData, InBody
<1>5. ASSUME NEW a, REEXECUTE(Answered(p, a), Here) PROVE Step
  <2>1. PICK q : q = Answered(p, a)
    OBVIOUS
  <2>2. IsParser(q) /\ q.state = "s_headers_done" /\ q.http_errno = "OK" /\ ~ Trailing(q)
    BY <2>1, AnsweredIs DEF Trailing
  <2>3. /\ parser' = q /\ CallFields \subseteq DOMAIN call' /\ call'.open = TRUE
        /\ call'.run = 0 /\ DOMAIN call'.mark = {}
    BY <1>1, <1>2, <1>5, <2>1, ReexecuteIs
  <2>4. Open(q, call', "headers_complete")
    BY <2>2, <2>3 DEF Open, Marked, Delivers, InData, InBody, EntryMarks, UrlStart, UrlRest
  <2>5. IInv' /\ Running'
    BY <1>3, <1>4, <2>2, <2>3, <2>4, Going
  <2> QED BY <1>3, <2>2, <2>3, <2>5, HeadTold DEF Step
<1>6. ASSUME NEW a, RETURN([Answered(p, a) EXCEPT !.http_errno = "PAUSED"], Here, rest) PROVE Step
  <2>1. PICK q : q = [Answered(p, a) EXCEPT !.http_errno = "PAUSED"]
    OBVIOUS
  <2>2. IsParser(q) /\ q.state = "s_headers_done" /\ q.http_errno = "PAUSED" /\ ~ Trailing(q)
    BY <2>1, AnsweredIs DEF Trailing, IsParser, ParserFields
  <2>3. /\ call' = Closed /\ IsParser(parser') /\ parser'.http_errno = "PAUSED"
        /\ parser'.state = "s_headers_done" /\ parser'.flags = q.flags
    BY <1>6, <2>1, <2>2, ReturnIs
  <2>4. ~ Trailing(parser') /\ Running'
    BY <2>2, <2>3 DEF Trailing, Running
  <2>5. IInv'
    BY <1>3, <1>4, <2>3, <2>4, Closing
  <2> QED BY <1>3, <2>3, <2>4, <2>5, HeadTold DEF Step
<1>7. CASE RETURN([p EXCEPT !.http_errno = "CB"], Here, rest)
  <2>1. PICK q : q = [p EXCEPT !.http_errno = "CB"]
    OBVIOUS
  <2>2. IsParser(q) /\ q.http_errno = "CB"
    BY <2>1 DEF IsParser, ParserFields
  <2>3. /\ call' = Closed /\ IsParser(parser') /\ parser'.http_errno = "CB"
    BY <1>7, <2>1, <2>2, ReturnIs
  <2>4. ~ Running' /\ IInv'
    BY <2>3, Closing DEF Running
  <2> QED BY <1>3, <2>4, HeadTold DEF Step
<1> QED BY <1>5, <1>6, <1>7 DEF HeadersComplete

\* The end of a head or of a trailer.
LEMMA HeadersAlmostDoneStep == ASSUME IInv, HeadersAlmostDone PROVE Step
<1>1. /\ IsParser(parser) /\ parser.http_errno = "OK" /\ call.open /\ UNCHANGED peer
      /\ CallFields \subseteq DOMAIN Here /\ Here.open = TRUE /\ Here.mark = call.mark /\ Here.run = call.run
      /\ Fits(parser, event, peer.turn) /\ Open(parser, call, event)
      /\ parser.state = "s_headers_almost_done"
  BY InCall DEF HeadersAlmostDone, At
<1>2. CASE Fail("STRICT") \/ Fail("UNEXPECTED_CONTENT_LENGTH")
  BY <1>1, <1>2, FailIs
<1>3. CASE Trailing(parser) /\ CALLBACK_NOTIFY_NOADVANCE("chunk_complete", To("s_message_done"))
  <2>1. PICK p : p = To("s_message_done")
    OBVIOUS
  <2>2. /\ IsParser(p) /\ p.state = "s_message_done" /\ p.http_errno = "OK" /\ p.flags = parser.flags
        /\ Trailing(p)
    BY <1>1, <1>3, <2>1, ToIs DEF Trailing
  <2>3. event' = "chunk_complete" /\ (Interrupted(p, Here, rest) \/ REEXECUTE(p, Here))
    BY <1>3, <2>1 DEF CALLBACK_NOTIFY_NOADVANCE, CALLBACK, Told
  <2>4. /\ DOMAIN Here.mark = {} /\ Here.run = 0 /\ parser.state \notin Owing
        /\ event \in {"chunk_header", "header_value"}
    BY <1>1, <1>3 DEF Open, Marked, Owing, Delivers, InData, InBody, EntryMarks, UrlStart, UrlRest, Counts,
                      Fits, AtHeader, Lines
  <2>5. Fits(p, "chunk_complete", peer.turn)
    BY <2>2 DEF Fits, Lines, Begins, InLine, InUrl, UrlStart, UrlRest, LineEnds, AtHeader, AtValue,
                ValueEnds, InSize, InData, InBody
  <2>6. p.state \notin Special /\ EntryMarks(p.state) = {}
    BY <2>2 DEF Special, Owing, Delivers, InData, InBody, EntryMarks, UrlStart, UrlRest
  <2>7. IInv' /\ Callbacks!Unless(0, Trailing(p) /\ "chunk_complete" # "message_complete")
    BY <1>1, <2>2, <2>3, <2>4, <2>5, <2>6, Hears
  <2>8. Running /\ Owed = 0
    BY <1>1, <2>4, Runs
  <2>9. Callbacks!ChunkComplete
    BY <1>3, <2>2, <2>3, <2>4, <2>7, <2>8 DEF Callbacks!ChunkComplete, Callbacks!Tell, Callbacks!Unless, Trailing
  <2> QED BY <2>7, <2>9 DEF Step, Order, Callbacks!Next
<1>4. CASE ~ Trailing(parser) /\ HeadersComplete([To("s_headers_done") EXCEPT !.upgrade = Upgrades(parser)])
  <2>1. PICK p : p = [To("s_headers_done") EXCEPT !.upgrade = Upgrades(parser)]
    OBVIOUS
  <2>2. /\ IsParser(p) /\ p.state = "s_headers_done" /\ p.http_errno = "OK" /\ p.flags = parser.flags
    BY <1>1, <2>1, ToIs DEF IsParser, ParserFields
  <2> QED BY <1>1, <1>4, <2>1, <2>2, HeadersCompleteStep
<1> QED BY <1>2, <1>3, <1>4 DEF HeadersAlmostDone, Trailing

\* The parser behind a message.
LEMMA NewMessageIs ==
  ASSUME NEW p, IsParser(p)
  PROVE  /\ IsParser(NEW_MESSAGE(p)) /\ NEW_MESSAGE(p).state \in Begins \cup {"s_dead"}
         /\ NEW_MESSAGE(p).http_errno = p.http_errno
         /\ NEW_MESSAGE(p).flags = p.flags
BY DEF NEW_MESSAGE, start_state, Begins, IsParser, ParserFields

\* The end of a message.
LEMMA MessageEnds ==
  ASSUME IInv, call.open, UNCHANGED peer, Owed = 0,
         \/ event \in {"headers_complete", "body"}
         \/ event = "chunk_complete" /\ Trailing(parser),
         NEW p, NEW c, IsParser(p), p.http_errno = "OK",
         CallFields \subseteq DOMAIN c, c.open = TRUE, c.run = 0, DOMAIN c.mark = {},
         NEW Proceed, CALLBACK("message_complete", <<>>, NEW_MESSAGE(p), c, Tail(rest), Proceed),
         Proceed => Move(NEW_MESSAGE(p), c) \/ RETURN(NEW_MESSAGE(p), c, Tail(rest))
  PROVE  Step
<1>1. PICK q : q = NEW_MESSAGE(p)
  OBVIOUS
<1>2. IsParser(q) /\ q.state \in Begins \cup {"s_dead"} /\ q.http_errno = "OK"
  BY <1>1, NewMessageIs
<1>3. event' = "message_complete"
      /\ (Interrupted(q, c, Tail(rest)) \/ Move(q, c) \/ RETURN(q, c, Tail(rest)))
  BY <1>1 DEF CALLBACK, Told
<1>4. q.state \notin Special /\ EntryMarks(q.state) = {}
  BY <1>2 DEF Begins, Special, Owing, Delivers, InData, InBody, EntryMarks, UrlStart, UrlRest
<1>5. Fits(q, "message_complete", peer.turn)
  BY <1>2 DEF Fits, Lines, Begins, InLine, InUrl, UrlStart, UrlRest, LineEnds, AtHeader, AtValue,
              ValueEnds, InSize, InData, InBody
<1>6. IInv' /\ Callbacks!Unless(0, Trailing(q) /\ "message_complete" # "message_complete")
  BY <1>2, <1>3, <1>4, <1>5, Hears
<1>7. Running
  BY InCall
<1>8. Callbacks!MessageComplete
  BY <1>3, <1>6, <1>7 DEF Callbacks!MessageComplete, Callbacks!Tell, Callbacks!Unless, Trailing
<1> QED BY <1>6, <1>8 DEF Step, Order, Callbacks!Next

\* The end of a message that had a body.
LEMMA MessageDoneStep == ASSUME IInv, MessageDone PROVE Step
<1>1. /\ IsParser(parser) /\ parser.http_errno = "OK" /\ call.open /\ UNCHANGED peer
      /\ CallFields \subseteq DOMAIN Here /\ Here.open = TRUE /\ Here.mark = call.mark /\ Here.run = call.run
      /\ Fits(parser, event, peer.turn) /\ Open(parser, call, event)
      /\ parser.state = "s_message_done" /\ MessageComplete(parser, Here)
  BY InCall DEF MessageDone, At
<1>2. /\ DOMAIN Here.mark = {} /\ Here.run = 0 /\ parser.state \notin Owing
      /\ event = IF Trailing(parser) THEN "chunk_complete" ELSE "body"
  BY <1>1 DEF Open, Marked, Owing, Delivers, InData, InBody, EntryMarks, UrlStart, UrlRest, Counts, Fits
<1>3. PICK Proceed : Proceed = IF parser.upgrade THEN RETURN(NEW_MESSAGE(parser), Here, Tail(rest))
                               ELSE Move(NEW_MESSAGE(parser), Here)
  OBVIOUS
<1>4. CALLBACK("message_complete", <<>>, NEW_MESSAGE(parser), Here, Tail(rest), Proceed)
  BY <1>1, <1>3 DEF MessageComplete
<1>5. Proceed => Move(NEW_MESSAGE(parser), Here) \/ RETURN(NEW_MESSAGE(parser), Here, Tail(rest))
  BY <1>3
<1>6. Owed = 0
  BY <1>2, NoneOwed
<1> QED BY <1>1, <1>2, <1>4, <1>5, <1>6, MessageEnds

-----------------------------------------------------------------------------
(***************************************************************************)
(* Bodies and chunks.                                                      *)
(***************************************************************************)

\* What is announced is what is owed in the states a body is read in.
LEMMA AnnouncedAlike ==
  ASSUME NEW p, NEW q, Alike(q, p)
  PROVE  Announced(q) = Announced(p) /\ BodyState(q) = BodyState(p) /\ hasBody(q) = hasBody(p)
<1>1. hasBody(q) = hasBody(p)
  BY DEF hasBody, Alike
<1>2. http_message_needs_eof(q) <=> http_message_needs_eof(p)
  BY DEF http_message_needs_eof, Alike
<1>3. BodyState(q) = BodyState(p)
  BY <1>2 DEF BodyState, Alike
<1> QED BY <1>1, <1>3 DEF Announced, Alike

\* What is owed, by state.
LEMMA OwedIs ==
  ASSUME Running, event # "message_complete"
  PROVE  /\ parser.state = "s_headers_done" => Owed = Announced(parser)
         /\ parser.state \in {"s_body_identity", "s_chunk_data"} => Owed = parser.content_length + Held
         /\ parser.state = "s_chunk_data_almost_done" => Owed = Held
         /\ parser.state = "s_body_identity_eof" => Owed = ULLONG_MAX
BY DEF Owed

\* The same after a step.
LEMMA OwedNextIs ==
  ASSUME Running', event' # "message_complete"
  PROVE  /\ parser'.state = "s_headers_done" => Owed' = Announced(parser')
         /\ parser'.state \in {"s_body_identity", "s_chunk_data"} => Owed' = parser'.content_length + Held'
         /\ parser'.state = "s_chunk_data_almost_done" => Owed' = Held'
         /\ parser'.state = "s_body_identity_eof" => Owed' = ULLONG_MAX
BY DEF Owed

\* What is behind the mark of a body.
LEMMA HeldIs ==
  ASSUME Marked(parser.state, call.mark), parser.state \in Delivers
  PROVE  /\ Held \in Nat /\ DOMAIN call.mark \subseteq {"body"}
         /\ "body" \in DOMAIN call.mark => Held > 0 /\ Held = Len(call.mark["body"]) /\ IsSequence(call.mark["body"])
         /\ "body" \notin DOMAIN call.mark => Held = 0
BY DEF Marked, Held, IsSequence

\* One more byte behind the mark.
LEMMA BodyByte ==
  ASSUME IInv, call.open, parser.state \in Delivers, NEW p, Move(p, MARK("body", Here))
  PROVE  /\ parser' = p /\ CallFields \subseteq DOMAIN call' /\ call'.open = TRUE /\ call'.run = 0
         /\ DOMAIN call'.mark = {"body"} /\ IsSequence(call'.mark["body"])
         /\ Held \in Nat /\ Held' = Held + 1 /\ Len(call'.mark["body"]) > 0
<1>1. /\ CallFields \subseteq DOMAIN Here /\ Here.open = TRUE /\ Here.mark = call.mark /\ Here.run = call.run
      /\ Open(parser, call, event)
  BY InCall
<1>2. /\ Held \in Nat /\ DOMAIN call.mark \subseteq {"body"}
      /\ "body" \in DOMAIN call.mark => Held = Len(call.mark["body"]) /\ IsSequence(call.mark["body"])
      /\ "body" \notin DOMAIN call.mark => Held = 0
  BY <1>1, HeldIs DEF Open
<1>3. call.run = 0
  BY <1>1 DEF Open, Delivers, InData, InBody, Counts
<1>4. PICK c : c = MARK("body", Here)
  OBVIOUS
<1>5. /\ CallFields \subseteq DOMAIN c /\ c.open = TRUE /\ c.run = 0 /\ DOMAIN c.mark = {"body"}
      /\ "body" \in DOMAIN call.mark => c.mark["body"] = call.mark["body"]
      /\ "body" \notin DOMAIN call.mark => c.mark["body"] = <<>>
  BY <1>1, <1>2, <1>3, <1>4, MarkIs
<1>6. IsSequence(c.mark["body"]) /\ Len(c.mark["body"]) = Held
  BY <1>2, <1>5, EmptyIs
<1>7. /\ parser' = p /\ CallFields \subseteq DOMAIN call' /\ call'.open = TRUE /\ call'.run = 0
      /\ DOMAIN call'.mark = {"body"} /\ call'.mark["body"] = Append(c.mark["body"], ch)
  BY <1>4, <1>5, MoveIs
<1>8. IsSequence(call'.mark["body"]) /\ Len(call'.mark["body"]) = Held + 1
  BY <1>6, <1>7, AppendIs
<1>9. Held' = Len(call'.mark["body"])
  BY <1>7 DEF Held
<1> QED BY <1>2, <1>7, <1>8, <1>9

\* The byte is kept, and owed as before.
LEMMA BodyKept ==
  ASSUME IInv, call.open, UNCHANGED peer, Quiet, parser.state \in Delivers,
         NEW p, Move(p, MARK("body", Here)), IsParser(p), p.http_errno = "OK", p.flags = parser.flags,
         p.state \in Delivers, Fits(p, event, peer.turn), event # "message_complete",
         parser.state = "s_body_identity_eof" => p.state = "s_body_identity_eof",
         parser.state # "s_body_identity_eof" =>
           /\ parser.state \in {"s_body_identity", "s_chunk_data"} /\ p.state # "s_body_identity_eof"
           /\ p.content_length = parser.content_length - 1,
         p.state = "s_chunk_data_almost_done" => p.content_length = 0
  PROVE  Step
<1>1. /\ parser' = p /\ CallFields \subseteq DOMAIN call' /\ call'.open = TRUE /\ call'.run = 0
      /\ DOMAIN call'.mark = {"body"} /\ IsSequence(call'.mark["body"])
      /\ Held \in Nat /\ Held' = Held + 1 /\ Len(call'.mark["body"]) > 0
  BY BodyByte
<1>2. event' = event
  BY DEF Quiet
<1>3. Open(p, call', event)
  BY <1>1 DEF Open, Marked, Delivers, InData, InBody
<1>4. IInv' /\ Running'
  BY <1>1, <1>2, <1>3, Going
<1>5. Running /\ IsParser(parser)
  BY InCall
<1>6. Owed' = Owed
  <2>1. parser.content_length \in Int /\ p.content_length \in Int
    BY <1>5, WireAssumption DEF IsParser
  <2>2. CASE parser.state = "s_body_identity_eof"
    BY <1>1, <1>2, <1>4, <1>5, <2>2, OwedIs, OwedNextIs
  <2>3. CASE parser.state # "s_body_identity_eof"
    <3>1. Owed = parser.content_length + Held
      BY <1>5, <2>3, OwedIs
    <3>2. Owed' = p.content_length + Held'
      <4>1. CASE p.state \in {"s_body_identity", "s_chunk_data"}
        BY <1>1, <1>2, <1>4, <4>1, OwedNextIs
      <4>2. CASE p.state = "s_chunk_data_almost_done"
        <5>1. Owed' = Held'
          BY <1>1, <1>2, <1>4, <4>2, OwedNextIs
        <5> QED BY <1>1, <4>2, <5>1
      <4> QED BY <2>3, <4>1, <4>2 DEF Delivers, InData, InBody
    <3> QED BY <1>1, <2>1, <2>3, <3>1, <3>2
  <2> QED BY <2>2, <2>3
<1>7. Trails' <=> Trails
  BY <1>1, <1>2, <1>4, <1>5 DEF Trails, Trailing
<1> QED BY <1>2, <1>4, <1>5, <1>6, <1>7, Stutters DEF Step

\* A length with one byte less.
LEMMA LessIs ==
  ASSUME IsParser(parser), parser.content_length \notin {0, ULLONG_MAX}, NEW s
  PROVE  /\ IsParser(Less) /\ Less.state = parser.state /\ Less.flags = parser.flags
         /\ Less.http_errno = parser.http_errno /\ Less.content_length = parser.content_length - 1
         /\ Less.content_length # ULLONG_MAX
         /\ IsParser([Less EXCEPT !.state = s]) /\ [Less EXCEPT !.state = s].state = s
         /\ [Less EXCEPT !.state = s].flags = parser.flags
         /\ [Less EXCEPT !.state = s].http_errno = parser.http_errno
         /\ [Less EXCEPT !.state = s].content_length = parser.content_length - 1
<1>1. parser.content_length \in 1 .. ULLONG_MAX - 1
  BY WireAssumption DEF IsParser
<1>2. PICK n : n = parser.content_length - 1
  OBVIOUS
<1>3. n \in 0 .. ULLONG_MAX /\ n # ULLONG_MAX
  BY <1>1, <1>2, WireAssumption
<1>4. Less = [parser EXCEPT !.content_length = n]
  BY <1>2 DEF Less
<1>5. PICK p : p = Less
  OBVIOUS
<1>6. /\ IsParser(p) /\ p.state = parser.state /\ p.flags = parser.flags
      /\ p.http_errno = parser.http_errno /\ p.content_length = n
  BY <1>3, <1>4, <1>5 DEF IsParser, ParserFields
<1>7. PICK q : q = [p EXCEPT !.state = s]
  OBVIOUS
<1>8. /\ IsParser(q) /\ q.state = s /\ q.flags = parser.flags
      /\ q.http_errno = parser.http_errno /\ q.content_length = n
  BY <1>6, <1>7 DEF IsParser, ParserFields
<1> QED BY <1>2, <1>3, <1>5, <1>6, <1>7, <1>8

\* A body without an end.
LEMMA BodyIdentityEofStep == ASSUME IInv, BodyIdentityEof PROVE Step
<1>1. /\ IsParser(parser) /\ parser.http_errno = "OK" /\ call.open /\ UNCHANGED peer
      /\ Fits(parser, event, peer.turn) /\ parser.state = "s_body_identity_eof" /\ peer.turn # "left"
      /\ Move(parser, MARK("body", Here)) /\ Quiet
  BY InCall DEF BodyIdentityEof, At
<1>2. parser.state \in Delivers /\ event # "message_complete"
  BY <1>1 DEF Delivers, InBody, Fits
<1> QED BY <1>1, <1>2, BodyKept

\* The bytes of a chunk.
LEMMA ChunkDataStep == ASSUME IInv, ChunkData PROVE Step
<1>1. /\ IsParser(parser) /\ parser.http_errno = "OK" /\ call.open /\ UNCHANGED peer
      /\ Fits(parser, event, peer.turn) /\ parser.state = "s_chunk_data" /\ peer.turn # "left"
  BY InCall DEF ChunkData, At
<1>2. PICK p : p = IF parser.content_length = 1 THEN [Less EXCEPT !.state = "s_chunk_data_almost_done"] ELSE Less
  OBVIOUS
<1>3. Move(p, MARK("body", Here)) /\ Quiet
  BY <1>2 DEF ChunkData
<1>4. /\ parser.state \in Delivers /\ event \in {"chunk_header", "body"} /\ ~ Trailing(parser)
      /\ "CHUNKED" \in parser.flags /\ parser.content_length \notin {0, ULLONG_MAX}
  BY <1>1 DEF Delivers, InData, InSize, Fits
<1>5. /\ IsParser(p) /\ p.http_errno = "OK" /\ p.flags = parser.flags
      /\ p.content_length = parser.content_length - 1 /\ p.content_length # ULLONG_MAX
      /\ p.state = IF parser.content_length = 1 THEN "s_chunk_data_almost_done" ELSE "s_chunk_data"
  <2>1. CASE parser.content_length = 1
    BY <1>1, <1>2, <1>4, <2>1, LessIs, WireAssumption
  <2>2. CASE parser.content_length # 1
    BY <1>1, <1>2, <1>4, <2>2, LessIs
  <2> QED BY <2>1, <2>2
<1>6. /\ p.state = "s_chunk_data_almost_done" => p.content_length = 0
      /\ p.state = "s_chunk_data" => p.content_length # 0
  <2>1. parser.content_length \in Int
    BY <1>1, WireAssumption DEF IsParser
  <2> QED BY <1>5, <2>1
<1>7. p.state \in InData /\ ~ Trailing(p)
  BY <1>4, <1>5 DEF InData, Trailing
<1>8. Fits(p, event, peer.turn)
  BY <1>4, <1>5, <1>6, <1>7 DEF Fits, Lines, Begins, InLine, InUrl, UrlStart, UrlRest, LineEnds, AtHeader, AtValue,
              ValueEnds, InSize, InData, InBody
<1> QED BY <1>1, <1>3, <1>4, <1>5, <1>6, <1>7, <1>8, BodyKept DEF Delivers, InData

\* A body with a length: the last byte is delivered with those before it.
LEMMA BodyIdentityStep == ASSUME IInv, BodyIdentity PROVE Step
<1>1. /\ IsParser(parser) /\ parser.http_errno = "OK" /\ call.open /\ UNCHANGED peer
      /\ CallFields \subseteq DOMAIN Here /\ Here.open = TRUE /\ Here.mark = call.mark /\ Here.run = call.run
      /\ Open(parser, call, event) /\ Running
      /\ Fits(parser, event, peer.turn) /\ parser.state = "s_body_identity" /\ peer.turn # "left"
  BY InCall DEF BodyIdentity, At
<1>2. /\ parser.state \in Delivers /\ event \in {"headers_complete", "body"} /\ ~ Trailing(parser)
      /\ parser.content_length \notin {0, ULLONG_MAX}
  BY <1>1 DEF Delivers, InBody, Fits
<1>3. parser.content_length \in 1 .. ULLONG_MAX
  BY <1>1, <1>2, WireAssumption DEF IsParser
<1>4. CASE parser.content_length > 1
  <2>1. Move(Less, MARK("body", Here)) /\ Quiet
    BY <1>4 DEF BodyIdentity
  <2>2. PICK p : p = Less
    OBVIOUS
  <2>3. /\ IsParser(p) /\ p.http_errno = "OK" /\ p.flags = parser.flags /\ p.state = "s_body_identity"
        /\ p.content_length = parser.content_length - 1 /\ p.content_length # ULLONG_MAX
    BY <1>1, <1>2, <2>2, LessIs
  <2>4. p.content_length # 0 /\ ~ Trailing(p)
    BY <1>2, <1>3, <1>4, <2>3 DEF Trailing
  <2>5. Fits(p, event, peer.turn)
    BY <1>2, <2>3, <2>4 DEF Fits, Lines, Begins, InLine, InUrl, UrlStart, UrlRest, LineEnds, AtHeader, AtValue,
                ValueEnds, InSize, InData, InBody
  <2> QED BY <1>1, <1>2, <2>1, <2>2, <2>3, <2>5, BodyKept
<1>5. CASE ~ parser.content_length > 1
  <2>1. PICK p : p = [Less EXCEPT !.state = "s_message_done"]
    OBVIOUS
  <2>2. PICK c : c = MARK("body", Here)
    OBVIOUS
  <2>3. parser.content_length = 1
    BY <1>3, <1>5
  <2>4. /\ IsParser(p) /\ p.http_errno = "OK" /\ p.flags = parser.flags /\ p.state = "s_message_done"
    BY <1>1, <1>2, <2>1, LessIs
  <2>5. event' = "body" /\ (Interrupted(p, c, rest) \/ REEXECUTE(p, Unmarked("body", c)))
    BY <1>5, <2>1, <2>2 DEF BodyIdentity, CALLBACK, Told
  <2>6. Held \in Nat /\ DOMAIN call.mark \subseteq {"body"} /\ call.run = 0
    BY <1>1, <1>2, HeldIs DEF Open, Counts
  <2>7. /\ CallFields \subseteq DOMAIN c /\ c.open = TRUE /\ c.run = 0 /\ DOMAIN c.mark = {"body"}
    BY <1>1, <2>2, <2>6, MarkIs
  <2>8. /\ CallFields \subseteq DOMAIN Unmarked("body", c) /\ Unmarked("body", c).open = TRUE
        /\ Unmarked("body", c).run = 0 /\ DOMAIN Unmarked("body", c).mark = {}
    BY <2>7, UnmarkedIs
  <2>9. ~ Trailing(p)
    BY <1>2, <2>4 DEF Trailing
  <2>10. Fits(p, "body", peer.turn)
    BY <2>4, <2>9 DEF Fits, Lines, Begins, InLine, InUrl, UrlStart, UrlRest, LineEnds, AtHeader, AtValue,
                ValueEnds, InSize, InData, InBody
  <2>11. p.state \notin Special /\ EntryMarks(p.state) = {}
    BY <2>4 DEF Special, Owing, Delivers, InData, InBody, EntryMarks, UrlStart, UrlRest
  <2>12. IInv' /\ Callbacks!Unless(0, Trailing(p) /\ "body" # "message_complete")
    BY <1>1, <2>4, <2>5, <2>8, <2>10, <2>11, Hears
  <2>13. Owed = 1 + Held
    BY <1>1, <1>2, <2>3, OwedIs
  <2>14. Owed \in 1 .. Owed /\ Owed - Owed = 0
    BY <2>6, <2>13
  <2>15. Callbacks!Unless(0, FALSE)
    BY <2>9, <2>12 DEF Callbacks!Unless
  <2>16. \E n \in 1 .. Owed : Callbacks!Unless(Owed - n, FALSE)
    BY <2>14, <2>15
  <2>17. Callbacks!Body
    BY <1>1, <1>2, <2>5, <2>16 DEF Callbacks!Body, Callbacks!Tell
  <2> QED BY <2>12, <2>17 DEF Step, Order, Callbacks!Next
<1> QED BY <1>4, <1>5

\* The last byte of a head: the message is over, or a body follows.
LEMMA HeadersDoneStep == ASSUME IInv, HeadersDone PROVE Step
<1>1. /\ IsParser(parser) /\ parser.http_errno = "OK" /\ call.open /\ UNCHANGED peer
      /\ CallFields \subseteq DOMAIN Here /\ Here.open = TRUE /\ Here.mark = call.mark /\ Here.run = call.run
      /\ Open(parser, call, event) /\ Running
      /\ Fits(parser, event, peer.turn) /\ parser.state = "s_headers_done"
  BY InCall DEF HeadersDone, At
<1>2. /\ DOMAIN Here.mark = {} /\ Here.run = 0 /\ event = "headers_complete" /\ ~ Trailing(parser)
  BY <1>1 DEF Open, Marked, Delivers, InData, InBody, EntryMarks, UrlStart, UrlRest, Counts, Fits
<1>3. PICK p : p = [parser EXCEPT !.nread = 0]
  OBVIOUS
<1>4. PICK c : c = [Here EXCEPT !.nread = 0]
  OBVIOUS
<1>5. /\ IsParser(p) /\ p.http_errno = "OK" /\ Alike(p, [parser EXCEPT !.nread = 0])
      /\ p.flags = parser.flags /\ p.content_length = parser.content_length
      /\ p.upgrade = parser.upgrade /\ p.method = parser.method /\ p.type = parser.type
      /\ p.status_code = parser.status_code
  BY <1>1, <1>3 DEF IsParser, ParserFields, Alike
<1>6. /\ CallFields \subseteq DOMAIN c /\ c.open = TRUE /\ c.run = 0 /\ DOMAIN c.mark = {} /\ c.nread = 0
  BY <1>1, <1>2, <1>4 DEF CallFields
<1>7. hasBody(p) = hasBody(parser) /\ BodyState(p) = BodyState(parser)
  BY <1>5 DEF hasBody, BodyState, http_message_needs_eof
<1>8. PICK leaves : leaves = (p.upgrade /\ (p.method = "CONNECT" \/ "SKIPBODY" \in p.flags \/ ~ hasBody(p)))
  OBVIOUS
<1>9. Announced(parser) = IF leaves THEN 0 ELSE IF BodyState(p) = "s_body_identity" THEN p.content_length
                          ELSE IF BodyState(p) = "s_body_identity_eof" THEN ULLONG_MAX ELSE 0
  BY <1>5, <1>7, <1>8 DEF Announced
<1>10. Owed = Announced(parser)
  BY <1>1, <1>2, OwedIs
<1>11. CASE Fail("STRICT")
  BY <1>1, <1>11, FailIs
<1>12. CASE leaves /\ MessageComplete(p, c)
  <2>1. PICK Proceed : Proceed = IF p.upgrade THEN RETURN(NEW_MESSAGE(p), c, Tail(rest)) ELSE Move(NEW_MESSAGE(p), c)
    OBVIOUS
  <2>2. CALLBACK("message_complete", <<>>, NEW_MESSAGE(p), c, Tail(rest), Proceed)
    BY <1>12, <2>1 DEF MessageComplete
  <2>3. Proceed => Move(NEW_MESSAGE(p), c) \/ RETURN(NEW_MESSAGE(p), c, Tail(rest))
    BY <2>1
  <2>4. Owed = 0
    BY <1>9, <1>10, <1>12
  <2> QED BY <1>1, <1>2, <1>5, <1>6, <2>2, <2>3, <2>4, MessageEnds
<1>13. CASE /\ BodyState(p) = "none"
            /\ CALLBACK("message_complete", <<>>, NEW_MESSAGE(p), c, Tail(rest), Move(NEW_MESSAGE(p), c))
  <2>1. Owed = 0
    BY <1>9, <1>10, <1>13
  <2> QED BY <1>1, <1>2, <1>5, <1>6, <1>13, <2>1, MessageEnds
<1>14. CASE /\ ~ leaves /\ BodyState(p) # "none"
            /\ Move([p EXCEPT !.state = BodyState(p)], c) /\ Quiet
  <2>1. PICK q : q = [p EXCEPT !.state = BodyState(p)]
    OBVIOUS
  <2>2. /\ IsParser(q) /\ q.state = BodyState(p) /\ q.http_errno = "OK" /\ q.flags = parser.flags
        /\ q.content_length = parser.content_length /\ ~ Trailing(q)
    BY <1>2, <1>5, <2>1 DEF IsParser, ParserFields, Trailing
  <2>3. /\ q.state \in {"s_chunk_size_start", "s_body_identity", "s_body_identity_eof"}
        /\ q.state = "s_chunk_size_start" => "CHUNKED" \in q.flags
        /\ q.state = "s_body_identity" => q.content_length \notin {0, ULLONG_MAX}
    BY <1>5, <1>14, <2>2 DEF BodyState
  <2>4. Fits(q, event, peer.turn)
    BY <1>2, <2>2, <2>3 DEF Fits, Lines, Begins, InLine, InUrl, UrlStart, UrlRest, LineEnds, AtHeader, AtValue,
                ValueEnds, InSize, InData, InBody
  <2>5. /\ parser' = q /\ CallFields \subseteq DOMAIN call' /\ call'.open = TRUE
        /\ call'.run = 0 /\ call'.nread = 0 /\ ~ call'.again /\ DOMAIN call'.mark = {} /\ event' = event
    BY <1>6, <1>14, <2>1, MoveIs DEF Quiet
  <2>6. Open(q, call', event)
    BY <2>3, <2>5 DEF Open, Marked, Delivers, InData, InBody, EntryMarks, UrlStart, UrlRest
  <2>7. IInv' /\ Running'
    BY <1>1, <2>2, <2>4, <2>5, <2>6, Going
  <2>8. Owed' = Owed
    <3>1. Held' = 0
      BY <2>5 DEF Held
    <3>2. CASE q.state = "s_chunk_size_start"
      <4>1. Owed' = 0
        BY <2>5, <3>2, NoneOwedNext DEF Owing, Delivers, InData, InBody
      <4> QED BY <1>9, <1>10, <1>14, <2>2, <3>2, <4>1
    <3>3. CASE q.state = "s_body_identity"
      <4>1. Owed' = q.content_length + Held'
        BY <1>2, <2>5, <2>7, <3>3, OwedNextIs
      <4>2. q.content_length \in Int
        BY <2>2, WireAssumption DEF IsParser
      <4> QED BY <1>5, <1>9, <1>10, <1>14, <2>2, <3>1, <3>3, <4>1, <4>2
    <3>4. CASE q.state = "s_body_identity_eof"
      <4>1. Owed' = ULLONG_MAX
        BY <1>2, <2>5, <2>7, <3>4, OwedNextIs
      <4> QED BY <1>9, <1>10, <1>14, <2>2, <3>4, <4>1
    <3> QED BY <2>3, <3>2, <3>3, <3>4
  <2>9. Trails' <=> Trails
    BY <1>1, <1>2, <2>2, <2>5, <2>7 DEF Trails
  <2> QED BY <1>1, <2>5, <2>7, <2>8, <2>9, Stutters DEF Step
<1> QED BY <1>3, <1>4, <1>8, <1>11, <1>12, <1>13, <1>14 DEF HeadersDone

\* Within the line of a chunk.
LEMMA InSizeGoes ==
  ASSUME IInv, call.open, UNCHANGED peer, parser.state \in InSize,
         NEW p, Move(p, Here), Quiet, IsParser(p), p.http_errno = "OK", p.flags = parser.flags,
         p.state \in InSize \ {"s_chunk_size_start"}, p.content_length # ULLONG_MAX
  PROVE  Step
<1>1. /\ CallFields \subseteq DOMAIN Here /\ Here.open = TRUE /\ Here.mark = call.mark /\ Here.run = call.run
      /\ Fits(parser, event, peer.turn) /\ Open(parser, call, event)
  BY InCall
<1>2. /\ DOMAIN Here.mark = {} /\ Here.run = 0 /\ parser.state \notin Owing
      /\ event \in {"headers_complete", "chunk_complete"} /\ ~ Trailing(parser)
      /\ "CHUNKED" \in parser.flags
  BY <1>1 DEF Open, Marked, Owing, Delivers, InData, InBody, EntryMarks, UrlStart, UrlRest, Counts, Fits, InSize
<1>3. ~ Trailing(p)
  BY <1>2 DEF Trailing
<1>4. Fits(p, event, peer.turn)
  BY <1>2, <1>3 DEF Fits, Lines, Begins, InLine, InUrl, UrlStart, UrlRest, LineEnds, AtHeader, AtValue,
              ValueEnds, InSize, InData, InBody
<1>5. p.state \notin Special /\ EntryMarks(p.state) = {}
  BY DEF Special, Owing, Delivers, InData, InBody, EntryMarks, UrlStart, UrlRest, InSize
<1> QED BY <1>1, <1>2, <1>3, <1>4, <1>5, QuietGo

\* The same for a byte that changes the state alone.
LEMMA InSizeGoto ==
  ASSUME IInv, call.open, UNCHANGED peer, parser.state \in InSize \ {"s_chunk_size_start"},
         NEW s \in InSize \ {"s_chunk_size_start"}, Goto(s)
  PROVE  Step
<1>1. PICK p : p = To(s)
  OBVIOUS
<1>2. IsParser(parser) /\ parser.http_errno = "OK" /\ parser.content_length # ULLONG_MAX
  BY InCall DEF Fits
<1>3. /\ IsParser(p) /\ p.http_errno = "OK" /\ p.flags = parser.flags /\ p.state = s
      /\ p.content_length # ULLONG_MAX
  BY <1>1, <1>2, ToIs
<1>4. Move(p, Here) /\ Quiet
  BY <1>1 DEF Goto
<1> QED BY <1>3, <1>4, InSizeGoes

\* The first digit of a size.
LEMMA ChunkSizeStartStep == ASSUME IInv, ChunkSizeStart PROVE Step
<1>1. /\ IsParser(parser) /\ parser.http_errno = "OK" /\ call.open /\ UNCHANGED peer
      /\ parser.state = "s_chunk_size_start"
  BY InCall DEF ChunkSizeStart, At
<1>2. CASE Fail("INVALID_CHUNK_SIZE")
  BY <1>1, <1>2, FailIs
<1>3. CASE ch \in Digit /\ Move([To("s_chunk_size") EXCEPT !.content_length = ValueOf(ch)], Here) /\ Quiet
  <2>1. PICK n : n = ValueOf(ch)
    OBVIOUS
  <2>2. n \in 0 .. ULLONG_MAX /\ n # ULLONG_MAX
    BY <1>3, <2>1, ValueOfIs, WireAssumption
  <2>3. PICK p : p = [To("s_chunk_size") EXCEPT !.content_length = n]
    OBVIOUS
  <2>4. /\ IsParser(p) /\ p.http_errno = "OK" /\ p.flags = parser.flags /\ p.state = "s_chunk_size"
        /\ p.content_length # ULLONG_MAX
    BY <1>1, <2>2, <2>3, ToIs DEF IsParser, ParserFields
  <2>5. Move(p, Here) /\ Quiet
    BY <1>3, <2>1, <2>3
  <2> QED BY <1>1, <2>4, <2>5, InSizeGoes DEF InSize
<1> QED BY <1>2, <1>3 DEF ChunkSizeStart

\* A size.
LEMMA ChunkSizeStep == ASSUME IInv, ChunkSize PROVE Step
<1>1. /\ IsParser(parser) /\ parser.http_errno = "OK" /\ call.open /\ UNCHANGED peer
      /\ parser.state = "s_chunk_size"
  BY InCall DEF ChunkSize, At
<1>2. CASE Fail("INVALID_CHUNK_SIZE") \/ Fail("INVALID_CONTENT_LENGTH")
  BY <1>1, <1>2, FailIs
<1>3. CASE Goto("s_chunk_size_almost_done") \/ Goto("s_chunk_parameters")
  BY <1>1, <1>3, InSizeGoto DEF InSize
<1>4. CASE ch \in Digit /\ Digits(16)
  <2>1. CASE ~ (ULLONG_MAX - 16) \div 16 >= parser.content_length
    BY <1>2, <1>4, <2>1 DEF Digits
  <2>2. CASE (ULLONG_MAX - 16) \div 16 >= parser.content_length
    <3>1. PICK n : n = parser.content_length * 16 + ValueOf(ch)
      OBVIOUS
    <3>2. n \in 0 .. ULLONG_MAX /\ n # ULLONG_MAX
      <4>1. parser.content_length \in 0 .. ULLONG_MAX /\ ValueOf(ch) \in 0 .. 2
        BY <1>1, <1>4, ValueOfIs DEF IsParser
      <4>2. n \in 0 .. ULLONG_MAX - 1
        BY <2>2, <3>1, <4>1, DigitFits
      <4> QED BY <4>2, WireAssumption
    <3>3. PICK p : p = [parser EXCEPT !.content_length = n]
      OBVIOUS
    <3>4. /\ IsParser(p) /\ p.http_errno = "OK" /\ p.flags = parser.flags /\ p.state = "s_chunk_size"
          /\ p.content_length # ULLONG_MAX
      BY <1>1, <3>2, <3>3 DEF IsParser, ParserFields
    <3>5. Move(p, Here) /\ Quiet
      BY <1>4, <2>2, <3>1, <3>3 DEF Digits
    <3> QED BY <1>1, <3>4, <3>5, InSizeGoes DEF InSize
  <2> QED BY <2>1, <2>2
<1> QED BY <1>2, <1>3, <1>4 DEF ChunkSize

\* What follows a size is skipped.
LEMMA ChunkParametersStep == ASSUME IInv, ChunkParameters PROVE Step
<1>1. call.open /\ UNCHANGED peer /\ parser.state = "s_chunk_parameters"
      /\ (Goto("s_chunk_size_almost_done") \/ Goto("s_chunk_parameters"))
  BY DEF ChunkParameters, At
<1> QED BY <1>1, InSizeGoto DEF InSize

\* A callback before the bytes of a chunk, or before the next one.
LEMMA ChunkHears ==
  ASSUME IInv, call.open, UNCHANGED peer, NEW what, event' = what, what # "message_complete",
         NEW p, NEW c, NEW r, Interrupted(p, c, r) \/ Move(p, c),
         IsParser(p), p.http_errno = "OK", Fits(p, what, peer.turn), ~ Trailing(p), p.nread = 0,
         p.state \in {"s_chunk_data", "s_chunk_size_start"},
         CallFields \subseteq DOMAIN c, c.open = TRUE, c.run = 0, c.nread = 0, DOMAIN c.mark = {}
  PROVE  IInv' /\ Callbacks!Unless(IF p.state = "s_chunk_data" THEN p.content_length ELSE 0, FALSE)
<1>1. ASSUME Running', Held' = 0, Alike(parser', p)
      PROVE  Callbacks!Unless(IF p.state = "s_chunk_data" THEN p.content_length ELSE 0, FALSE)
  <2>1. /\ p.content_length \in Int /\ parser'.state = p.state
        /\ parser'.content_length = p.content_length /\ parser'.flags = p.flags
    BY <1>1, WireAssumption DEF IsParser, Alike
  <2>2. Owed' = IF p.state = "s_chunk_data" THEN p.content_length ELSE 0
    <3>1. CASE p.state = "s_chunk_data"
      <4>1. Owed' = parser'.content_length + Held'
        BY <1>1, <2>1, <3>1, OwedNextIs
      <4> QED BY <1>1, <2>1, <3>1, <4>1
    <3>2. CASE p.state = "s_chunk_size_start"
      BY <2>1, <3>2, NoneOwedNext DEF Owing, Delivers, InData, InBody
    <3> QED BY <3>1, <3>2
  <2>3. "TRAILING" \notin parser'.flags
    BY <2>1 DEF Trailing
  <2> QED BY <1>1, <2>2, <2>3 DEF Callbacks!Unless, Running
<1>2. CASE Interrupted(p, c, r)
  <2>1. /\ call' = Closed /\ IsParser(parser')
        /\ \/ parser'.http_errno = "PAUSED" /\ Alike(parser', p)
           \/ parser'.http_errno = "CB"
    BY <1>2, InterruptedIs
  <2>2. CASE parser'.http_errno = "PAUSED" /\ Alike(parser', p)
    <3>1. Fits(parser', what, peer.turn) /\ Shut(parser', what)
      BY <2>2, FitsAlike DEF Alike, Shut
    <3>2. IInv'
      BY <2>1, <3>1, Closing
    <3>3. Running' /\ Held' = 0
      BY <2>1, <2>2, ClosedIs DEF Running, Held
    <3> QED BY <1>1, <2>2, <3>2, <3>3
  <2>3. CASE parser'.http_errno = "CB"
    <3>1. IInv'
      BY <2>1, <2>3, Closing
    <3>2. ~ Running' /\ Owed' = 0
      BY <2>3, NoneOwedNext DEF Running
    <3> QED BY <3>1, <3>2 DEF Callbacks!Unless, Running
  <2> QED BY <2>1, <2>2, <2>3
<1>3. CASE Move(p, c)
  <2>1. /\ parser' = p /\ CallFields \subseteq DOMAIN call' /\ call'.open = TRUE /\ call'.run = 0
        /\ call'.nread = 0 /\ ~ call'.again /\ DOMAIN call'.mark = {}
    BY <1>3, MoveIs
  <2>2. Open(p, call', what)
    BY <2>1 DEF Open, Marked, Delivers, InData, InBody, EntryMarks, UrlStart, UrlRest
  <2>3. IInv' /\ Running'
    BY <2>1, <2>2, Going
  <2>4. Held' = 0 /\ Alike(parser', p)
    BY <2>1 DEF Held, Alike
  <2> QED BY <1>1, <2>3, <2>4
<1> QED BY <1>2, <1>3

\* on_chunk_header: a chunk follows, or the trailer.
LEMMA ChunkSizeAlmostDoneStep == ASSUME IInv, ChunkSizeAlmostDone PROVE Step
<1>1. /\ IsParser(parser) /\ parser.http_errno = "OK" /\ call.open /\ UNCHANGED peer
      /\ CallFields \subseteq DOMAIN Here /\ Here.open = TRUE /\ Here.mark = call.mark /\ Here.run = call.run
      /\ Open(parser, call, event) /\ Running
      /\ Fits(parser, event, peer.turn) /\ parser.state = "s_chunk_size_almost_done"
  BY InCall DEF ChunkSizeAlmostDone, At
<1>2. /\ DOMAIN Here.mark = {} /\ Here.run = 0 /\ parser.state \notin Owing
      /\ event \in {"headers_complete", "chunk_complete"} /\ ~ Trailing(parser)
      /\ "CHUNKED" \in parser.flags /\ parser.content_length # ULLONG_MAX
  BY <1>1 DEF Open, Marked, Owing, Delivers, InData, InBody, EntryMarks, UrlStart, UrlRest, Counts, Fits, InSize
<1>3. Owed = 0
  BY <1>2, NoneOwed
<1>4. PICK c : c = [Here EXCEPT !.nread = 0]
  OBVIOUS
<1>5. /\ CallFields \subseteq DOMAIN c /\ c.open = TRUE /\ c.run = 0 /\ c.nread = 0 /\ DOMAIN c.mark = {}
  BY <1>1, <1>2, <1>4 DEF CallFields
<1>6. parser.content_length \in 0 .. ULLONG_MAX - 1
  BY <1>1, <1>2, WireAssumption DEF IsParser
<1>7. CASE Fail("STRICT")
  BY <1>1, <1>7, FailIs
<1>8. ASSUME NEW p,
             p = IF parser.content_length = 0
                 THEN [To("s_header_field_start") EXCEPT !.nread = 0, !.flags = @ \cup {"TRAILING"}]
                 ELSE [To("s_chunk_data") EXCEPT !.nread = 0],
             CALLBACK("chunk_header", <<>>, p, c, Tail(rest), Move(p, c))
      PROVE  Step
  <2>1. event' = "chunk_header" /\ (Interrupted(p, c, Tail(rest)) \/ Move(p, c))
    BY <1>8 DEF CALLBACK, Told
  <2>2. CASE parser.content_length = 0
    <3>1. /\ IsParser(p) /\ p.state = "s_header_field_start" /\ p.http_errno = "OK"
          /\ p.flags = parser.flags \cup {"TRAILING"}
      BY <1>1, <1>8, <2>2, ToIs DEF IsParser, ParserFields
    <3>2. Trailing(p)
      BY <3>1 DEF Trailing
    <3>3. Fits(p, "chunk_header", peer.turn)
      BY <3>1, <3>2 DEF Fits, Lines, Begins, InLine, InUrl, UrlStart, UrlRest, LineEnds, AtHeader, AtValue,
                  ValueEnds, InSize, InData, InBody
    <3>4. p.state \notin Special /\ EntryMarks(p.state) = {}
      BY <3>1 DEF Special, Owing, Delivers, InData, InBody, EntryMarks, UrlStart, UrlRest
    <3>5. IInv' /\ Callbacks!Unless(0, Trailing(p) /\ "chunk_header" # "message_complete")
      BY <1>1, <1>5, <2>1, <3>1, <3>3, <3>4, Hears
    <3>6. Callbacks!Unless(0, 0 = 0)
      BY <3>2, <3>5 DEF Callbacks!Unless
    <3>7. \E n \in 0 .. ULLONG_MAX - 1 : Callbacks!Unless(n, n = 0)
      BY <1>6, <2>2, <3>6
    <3>8. Callbacks!ChunkHeader
      BY <1>1, <1>2, <1>3, <2>1, <3>7 DEF Callbacks!ChunkHeader, Callbacks!Tell, Trailing
    <3> QED BY <3>5, <3>8 DEF Step, Order, Callbacks!Next
  <2>3. CASE parser.content_length # 0
    <3>1. /\ IsParser(p) /\ p.state = "s_chunk_data" /\ p.http_errno = "OK" /\ p.nread = 0
          /\ p.flags = parser.flags /\ p.content_length = parser.content_length
      BY <1>1, <1>8, <2>3, ToIs DEF IsParser, ParserFields
    <3>2. ~ Trailing(p)
      BY <1>2, <3>1 DEF Trailing
    <3>3. Fits(p, "chunk_header", peer.turn)
      BY <1>2, <2>3, <3>1, <3>2 DEF Fits, Lines, Begins, InLine, InUrl, UrlStart, UrlRest, LineEnds, AtHeader, AtValue,
                  ValueEnds, InSize, InData, InBody
    <3>4. IInv' /\ Callbacks!Unless(IF p.state = "s_chunk_data" THEN p.content_length ELSE 0, FALSE)
      BY <1>1, <1>5, <2>1, <3>1, <3>2, <3>3, ChunkHears
    <3>5. Callbacks!Unless(parser.content_length, parser.content_length = 0)
      BY <2>3, <3>1, <3>4 DEF Callbacks!Unless
    <3>6. \E n \in 0 .. ULLONG_MAX - 1 : Callbacks!Unless(n, n = 0)
      BY <1>6, <3>5
    <3>7. Callbacks!ChunkHeader
      BY <1>1, <1>2, <1>3, <2>1, <3>6 DEF Callbacks!ChunkHeader, Callbacks!Tell, Trailing
    <3> QED BY <3>4, <3>7 DEF Step, Order, Callbacks!Next
  <2> QED BY <2>2, <2>3
<1> QED BY <1>4, <1>7, <1>8 DEF ChunkSizeAlmostDone

\* The end of a chunk: what was not delivered yet is.
LEMMA ChunkDataAlmostDoneStep == ASSUME IInv, ChunkDataAlmostDone PROVE Step
<1>1. /\ IsParser(parser) /\ parser.http_errno = "OK" /\ call.open /\ UNCHANGED peer
      /\ CallFields \subseteq DOMAIN Here /\ Here.open = TRUE /\ Here.mark = call.mark /\ Here.run = call.run
      /\ Open(parser, call, event) /\ Running
      /\ Fits(parser, event, peer.turn) /\ parser.state = "s_chunk_data_almost_done"
  BY InCall DEF ChunkDataAlmostDone, At
<1>2. /\ event \in {"chunk_header", "body"} /\ ~ Trailing(parser) /\ "CHUNKED" \in parser.flags
      /\ parser.state \in Delivers /\ Here.run = 0
      /\ event = "body" \/ "body" \in DOMAIN call.mark
  BY <1>1 DEF Fits, InData, InSize, Delivers, Open, Counts
<1>3. /\ Held \in Nat /\ DOMAIN call.mark \subseteq {"body"}
      /\ "body" \in DOMAIN call.mark => Held > 0
      /\ "body" \notin DOMAIN call.mark => Held = 0
  BY <1>1, <1>2, HeldIs DEF Open
<1>4. Owed = Held
  BY <1>1, <1>2, OwedIs
<1>5. PICK p : p = To("s_chunk_data_done")
  OBVIOUS
<1>6. /\ IsParser(p) /\ p.state = "s_chunk_data_done" /\ p.http_errno = "OK" /\ p.flags = parser.flags
      /\ ~ Trailing(p)
  BY <1>1, <1>2, <1>5, ToIs DEF Trailing
<1>7. Fits(p, "body", peer.turn)
  BY <1>2, <1>6 DEF Fits, Lines, Begins, InLine, InUrl, UrlStart, UrlRest, LineEnds, AtHeader, AtValue,
              ValueEnds, InSize, InData, InBody
<1>8. /\ CallFields \subseteq DOMAIN Unmarked("body", Here) /\ Unmarked("body", Here).open = TRUE
      /\ Unmarked("body", Here).run = 0 /\ DOMAIN Unmarked("body", Here).mark = {}
  BY <1>1, <1>2, <1>3, UnmarkedIs
<1>9. p.state \notin Special /\ EntryMarks(p.state) = {}
  BY <1>6 DEF Special, Owing, Delivers, InData, InBody, EntryMarks, UrlStart, UrlRest
<1>10. CASE Fail("STRICT")
  BY <1>1, <1>10, FailIs
<1>11. CASE CALLBACK_DATA("body", To("s_chunk_data_done"), Here)
  <2>1. CALLBACK_DATA_("body", p, Here, Tail(rest), Move(p, Unmarked("body", Here)))
    BY <1>5, <1>11 DEF CALLBACK_DATA
  <2>2. CASE "body" \in DOMAIN call.mark
    <3>1. event' = "body" /\ (Interrupted(p, Here, Tail(rest)) \/ Move(p, Unmarked("body", Here)))
      BY <1>1, <2>1, <2>2 DEF CALLBACK_DATA_, CALLBACK, Told
    <3>2. IInv' /\ Callbacks!Unless(0, Trailing(p) /\ "body" # "message_complete")
      BY <1>1, <1>6, <1>7, <1>8, <1>9, <3>1, Hears
    <3>3. Callbacks!Unless(0, FALSE)
      BY <1>6, <3>2 DEF Callbacks!Unless
    <3>4. Owed \in 1 .. Owed /\ Owed - Owed = 0
      BY <1>3, <1>4, <2>2
    <3>5. \E n \in 1 .. Owed : Callbacks!Unless(Owed - n, FALSE)
      BY <3>3, <3>4
    <3>6. Callbacks!Body
      BY <1>1, <1>2, <3>1, <3>5 DEF Callbacks!Body, Callbacks!Tell
    <3> QED BY <3>2, <3>6 DEF Step, Order, Callbacks!Next
  <2>3. CASE "body" \notin DOMAIN call.mark
    <3>1. Move(p, Unmarked("body", Here)) /\ Quiet /\ event = "body"
      BY <1>1, <1>2, <2>1, <2>3 DEF CALLBACK_DATA_
    <3>2. /\ parser' = p /\ CallFields \subseteq DOMAIN call' /\ call'.open = TRUE /\ call'.run = 0
          /\ DOMAIN call'.mark = {} /\ event' = event
      BY <1>8, <3>1, MoveIs DEF Quiet
    <3>3. Open(p, call', event)
      BY <1>6, <1>9, <3>2 DEF Open, Marked, Special, Owing
    <3>4. IInv' /\ Running'
      BY <1>1, <1>6, <1>7, <3>1, <3>2, <3>3, Going
    <3>5. Owed = 0 /\ Owed' = 0
      BY <1>3, <1>4, <1>9, <2>3, <3>2, NoneOwedNext DEF Special
    <3>6. Trails' <=> Trails
      BY <1>2, <1>6, <3>2 DEF Trails
    <3> QED BY <1>1, <3>2, <3>4, <3>5, <3>6, Stutters DEF Step
  <2> QED BY <2>2, <2>3
<1> QED BY <1>10, <1>11 DEF ChunkDataAlmostDone

\* on_chunk_complete.
LEMMA ChunkDataDoneStep == ASSUME IInv, ChunkDataDone PROVE Step
<1>1. /\ IsParser(parser) /\ parser.http_errno = "OK" /\ call.open /\ UNCHANGED peer
      /\ CallFields \subseteq DOMAIN Here /\ Here.open = TRUE /\ Here.mark = call.mark /\ Here.run = call.run
      /\ Open(parser, call, event) /\ Running
      /\ Fits(parser, event, peer.turn) /\ parser.state = "s_chunk_data_done"
  BY InCall DEF ChunkDataDone, At
<1>2. /\ DOMAIN Here.mark = {} /\ Here.run = 0 /\ parser.state \notin Owing
      /\ event = "body" /\ ~ Trailing(parser) /\ "CHUNKED" \in parser.flags
  BY <1>1 DEF Open, Marked, Owing, Delivers, InData, InBody, EntryMarks, UrlStart, UrlRest, Counts, Fits
<1>3. PICK c : c = [Here EXCEPT !.nread = 0]
  OBVIOUS
<1>4. /\ CallFields \subseteq DOMAIN c /\ c.open = TRUE /\ c.run = 0 /\ c.nread = 0 /\ DOMAIN c.mark = {}
  BY <1>1, <1>2, <1>3 DEF CallFields
<1>5. PICK p : p = [To("s_chunk_size_start") EXCEPT !.nread = 0]
  OBVIOUS
<1>6. /\ IsParser(p) /\ p.state = "s_chunk_size_start" /\ p.http_errno = "OK" /\ p.nread = 0
      /\ p.flags = parser.flags
  BY <1>1, <1>5, ToIs DEF IsParser, ParserFields
<1>7. CASE Fail("STRICT")
  BY <1>1, <1>7, FailIs
<1>8. CASE CALLBACK("chunk_complete", <<>>, p, c, Tail(rest), Move(p, c))
  <2>1. event' = "chunk_complete" /\ (Interrupted(p, c, Tail(rest)) \/ Move(p, c))
    BY <1>8 DEF CALLBACK, Told
  <2>2. ~ Trailing(p)
    BY <1>2, <1>6 DEF Trailing
  <2>3. Fits(p, "chunk_complete", peer.turn)
    BY <1>2, <1>6, <2>2 DEF Fits, Lines, Begins, InLine, InUrl, UrlStart, UrlRest, LineEnds, AtHeader, AtValue,
                ValueEnds, InSize, InData, InBody
  <2>4. IInv' /\ Callbacks!Unless(IF p.state = "s_chunk_data" THEN p.content_length ELSE 0, FALSE)
    BY <1>1, <1>4, <1>6, <2>1, <2>2, <2>3, ChunkHears
  <2>5. Owed = 0
    BY <1>2, NoneOwed
  <2>6. Callbacks!Unless(0, FALSE)
    BY <1>6, <2>4
  <2>7. Callbacks!ChunkComplete
    BY <1>1, <1>2, <2>1, <2>5, <2>6 DEF Callbacks!ChunkComplete, Callbacks!Tell, Callbacks!Unless, Trailing
  <2> QED BY <2>4, <2>7 DEF Step, Order, Callbacks!Next
<1> QED BY <1>3, <1>5, <1>7, <1>8 DEF ChunkDataDone

-----------------------------------------------------------------------------
(***************************************************************************)
(* Calls and the peer.                                                     *)
(***************************************************************************)

\* Parsers that the invariant does not tell apart owe the same.
LEMMA OwedAlike ==
  ASSUME Running, Running', event' = event, call' = call, Alike(parser', parser)
  PROVE  Owed' = Owed /\ (Trails' <=> Trails)
<1>1. Held' = Held
  BY DEF Held
<1>2. Announced(parser') = Announced(parser)
  BY AnnouncedAlike
<1>3. Owed' = Owed
  BY <1>1, <1>2 DEF Owed, Alike
<1> QED BY <1>3 DEF Trails, Trailing, Alike

\* What the invariant says between calls.
LEMMA OutOfCall ==
  ASSUME IInv, ~ call.open, Running
  PROVE  call = Closed /\ Fits(parser, event, peer.turn) /\ Shut(parser, event) /\ IsParser(parser)
BY DEF IInv

\* A call begins: an element that was cut is marked again.
LEMMA ExecuteStep == ASSUME IInv, http_parser_execute PROVE Step
<1>1. /\ ~ call.open /\ rest # <<>> /\ parser.http_errno = "OK"
      /\ call' = [Closed EXCEPT !.open = TRUE, !.nread = parser.nread,
                                !.mark = [k \in EntryMarks(parser.state) |-> <<>>]]
      /\ UNCHANGED <<parser, rest, peer, event>>
  BY DEF http_parser_execute, Quiet
<1>2. Running /\ Running'
  BY <1>1 DEF Running
<1>3. /\ call = Closed /\ Fits(parser, event, peer.turn) /\ Shut(parser, event) /\ IsParser(parser)
      /\ "turn" \in DOMAIN peer /\ peer.turn # "left"
  BY <1>1, <1>2, OutOfCall DEF IInv
<1>4. /\ CallFields \subseteq DOMAIN call' /\ call'.open = TRUE /\ call'.nread = parser.nread
      /\ call'.run = 0 /\ ~ call'.again /\ DOMAIN call'.mark = EntryMarks(parser.state)
  BY <1>1 DEF Closed, CallFields
<1>5. parser.state \in Delivers => EntryMarks(parser.state) = {}
  BY DEF Delivers, InData, InBody, EntryMarks, UrlStart, UrlRest
<1>6. Open(parser, call', event)
  BY <1>3, <1>4, <1>5 DEF Open, Marked, Shut
<1>7. IInv'
  BY <1>1, <1>3, <1>4, <1>6 DEF IInv
<1>8. Held = 0 /\ Held' = 0
  BY <1>3, <1>4, ClosedIs DEF Held, EntryMarks
<1>9. Owed' = Owed
  BY <1>1, <1>2, <1>8 DEF Owed
<1>10. Trails' <=> Trails
  BY <1>1, <1>2 DEF Trails
<1> QED BY <1>1, <1>2, <1>7, <1>9, <1>10, Stutters DEF Step

\* A buffer that ends within an element: what is there of it is told of.
LEMMA ElementEnds ==
  ASSUME IInv, call.open, UNCHANGED peer, parser.state \notin Delivers, NEW k \in EntryMarks(parser.state),
         event' = k, NEW c, Interrupted(parser, c, rest) \/ RETURN(parser, c, rest),
         CallFields \subseteq DOMAIN c, c.open = TRUE, c.run = 0, c.mark = call.mark
  PROVE  Step
<1>1. /\ IsParser(parser) /\ parser.http_errno = "OK" /\ Running
      /\ Open(parser, call, event) /\ Fits(parser, event, peer.turn)
  BY InCall
<1>2. DOMAIN c.mark = EntryMarks(parser.state)
  BY <1>1 DEF Open, Marked
<1>3. /\ \/ parser.state = "s_header_field" /\ k = "header_field"
         \/ parser.state = "s_header_value" /\ k = "header_value"
         \/ parser.state \in InUrl /\ k = "url"
         \/ parser.state = "s_res_status" /\ k = "status"
      /\ parser.state \notin Special
  BY DEF EntryMarks, InUrl, UrlStart, UrlRest, Special, Owing, Delivers, InData, InBody
<1>4. Fits(parser, k, peer.turn)
  <2>1. parser.state \in InUrl => ~ Trailing(parser)
    BY <1>1 DEF Fits
  <2>2. parser.state = "s_res_status" => ~ Trailing(parser)
    BY <1>1 DEF Fits
  <2>3. parser.state = "s_header_value" => parser.header_state \notin {"h_connection", "h_transfer_encoding"}
    BY <1>1 DEF Fits
  <2> QED BY <1>3, <2>1, <2>2, <2>3 DEF Fits, Lines, Begins, InLine, InUrl, UrlStart, UrlRest, LineEnds, AtHeader,
              AtValue, ValueEnds, InSize, InData, InBody
<1>5. IInv' /\ Callbacks!Unless(0, Trailing(parser) /\ k # "message_complete")
  BY <1>1, <1>2, <1>3, <1>4, Hears
<1>6. Owed = 0
  BY <1>3, NoneOwed DEF Special
<1>7. CASE parser.state = "s_header_field" /\ k = "header_field"
  <2>1. event \in Lines(parser) \cup {"header_field"}
    BY <1>1, <1>7 DEF Fits
  <2>2. Callbacks!HeaderField
    BY <1>1, <1>5, <1>6, <1>7, <2>1 DEF Callbacks!HeaderField, Callbacks!Tell, Callbacks!Unless, Trailing, Lines
  <2> QED BY <1>5, <2>2 DEF Step, Order, Callbacks!Next
<1>8. CASE parser.state = "s_header_value" /\ k = "header_value"
  <2>1. event \in {"header_field", "header_value"}
    BY <1>1, <1>8 DEF Fits, AtValue
  <2> QED BY <1>1, <1>5, <1>6, <1>8, <2>1, ValueTold DEF Step
<1>9. CASE (parser.state \in InUrl /\ k = "url") \/ (parser.state = "s_res_status" /\ k = "status")
  <2>1. event \in {"message_begin", k} /\ ~ Trailing(parser)
    BY <1>1, <1>9 DEF Fits
  <2>2. Callbacks!StartLine
    BY <1>1, <1>5, <1>6, <1>9, <2>1 DEF Callbacks!StartLine, Callbacks!Tell, Callbacks!Unless, Trailing
  <2> QED BY <1>5, <2>2 DEF Step, Order, Callbacks!Next
<1> QED BY <1>3, <1>7, <1>8, <1>9

\* A buffer that ends within a body: what is there of it is delivered.
LEMMA BodyEnds ==
  ASSUME IInv, call.open, UNCHANGED peer, parser.state \in Delivers, "body" \in DOMAIN call.mark,
         event' = "body", NEW c, Interrupted(parser, c, rest) \/ RETURN(parser, c, rest)
  PROVE  Step
<1>1. /\ IsParser(parser) /\ parser.http_errno = "OK" /\ Running /\ peer.turn # "left"
      /\ Open(parser, call, event) /\ Fits(parser, event, peer.turn)
  BY InCall
<1>2. Held \in Nat /\ Held > 0
  BY <1>1, HeldIs DEF Open
<1>3. event \in {"headers_complete", "chunk_header", "body"} /\ ~ Trailing(parser)
  BY <1>1 DEF Fits, Delivers, InData, InBody
<1>4. parser.content_length \in Nat /\ ULLONG_MAX \in Nat
  BY <1>1, WireAssumption DEF IsParser
<1>5. Fits(parser, "body", peer.turn) /\ Shut(parser, "body")
  BY <1>1, <1>3 DEF Fits, Shut, Lines, Begins, InLine, InUrl, UrlStart, UrlRest, LineEnds, AtHeader,
              AtValue, ValueEnds, InSize, InData, InBody, Delivers
<1>6. ASSUME IInv', Running', call' = Closed, parser'.state = parser.state,
             parser'.content_length = parser.content_length, parser'.flags = parser.flags
      PROVE  Step
  <2>1. Held' = 0
    BY <1>6, ClosedIs DEF Held
  <2>2. Callbacks!Unless(Owed', FALSE)
    BY <1>3, <1>6 DEF Callbacks!Unless, Trailing, Running
  <2>3. CASE parser.state = "s_body_identity_eof"
    <3>1. Owed = ULLONG_MAX /\ Owed' = ULLONG_MAX
      BY <1>1, <1>3, <1>6, <2>3, OwedIs, OwedNextIs
    <3>2. Callbacks!Body
      BY <1>1, <1>3, <2>2, <3>1 DEF Callbacks!Body, Callbacks!Tell
    <3> QED BY <1>6, <3>2 DEF Step, Order, Callbacks!Next
  <2>4. CASE parser.state # "s_body_identity_eof"
    <3>1. Owed - Held = Owed' /\ Held \in 1 .. Owed
      <4>1. CASE parser.state \in {"s_body_identity", "s_chunk_data"}
        <5>1. Owed = parser.content_length + Held /\ Owed' = parser.content_length + Held'
          BY <1>1, <1>3, <1>6, <4>1, OwedIs, OwedNextIs
        <5> QED BY <1>2, <1>4, <2>1, <5>1
      <4>2. CASE parser.state = "s_chunk_data_almost_done"
        <5>1. Owed = Held /\ Owed' = Held'
          BY <1>1, <1>3, <1>6, <4>2, OwedIs, OwedNextIs
        <5> QED BY <1>2, <2>1, <5>1
      <4> QED BY <2>4, <4>1, <4>2 DEF Delivers, InData, InBody
    <3>2. \E n \in 1 .. Owed : Callbacks!Unless(Owed - n, FALSE)
      BY <2>2, <3>1
    <3>3. Callbacks!Body
      BY <1>1, <1>3, <3>2 DEF Callbacks!Body, Callbacks!Tell
    <3> QED BY <1>6, <3>3 DEF Step, Order, Callbacks!Next
  <2> QED BY <2>3, <2>4
<1>7. CASE Interrupted(parser, c, rest)
  <2>1. /\ call' = Closed /\ IsParser(parser')
        /\ \/ parser'.http_errno = "PAUSED" /\ Alike(parser', parser)
           \/ parser'.http_errno = "CB"
    BY <1>1, <1>7, InterruptedIs
  <2>2. CASE parser'.http_errno = "PAUSED" /\ Alike(parser', parser)
    <3>1. Fits(parser', "body", peer.turn) /\ Shut(parser', "body")
      BY <1>5, <2>2, FitsAlike DEF Alike, Shut
    <3>2. IInv' /\ Running'
      BY <2>1, <2>2, <3>1, Closing DEF Running
    <3> QED BY <1>6, <2>1, <2>2, <3>2 DEF Alike
  <2>3. CASE parser'.http_errno = "CB"
    <3>1. IInv'
      BY <2>1, <2>3, Closing
    <3>2. ~ Running' /\ Owed' = 0
      BY <2>3, NoneOwedNext DEF Running
    <3>3. \A n : Callbacks!Unless(n, FALSE)
      BY <3>2 DEF Callbacks!Unless
    <3>4. 1 \in 1 .. Owed \/ Owed = ULLONG_MAX
      <4>1. CASE parser.state = "s_body_identity_eof"
        BY <1>1, <1>3, <4>1, OwedIs
      <4>2. CASE parser.state \in {"s_body_identity", "s_chunk_data"}
        <5>1. Owed = parser.content_length + Held
          BY <1>1, <1>3, <4>2, OwedIs
        <5> QED BY <1>2, <1>4, <5>1
      <4>3. CASE parser.state = "s_chunk_data_almost_done"
        <5>1. Owed = Held
          BY <1>1, <1>3, <4>3, OwedIs
        <5> QED BY <1>2, <5>1
      <4> QED BY <4>1, <4>2, <4>3 DEF Delivers, InData, InBody
    <3>5. Callbacks!Body
      BY <1>1, <1>3, <3>3, <3>4 DEF Callbacks!Body, Callbacks!Tell
    <3> QED BY <3>1, <3>5 DEF Step, Order, Callbacks!Next
  <2> QED BY <2>1, <2>2, <2>3
<1>8. CASE RETURN(parser, c, rest)
  <2>1. /\ call' = Closed /\ IsParser(parser') /\ parser'.http_errno = "OK"
        /\ Fits(parser', "body", peer.turn) /\ parser'.state = parser.state
        /\ parser'.flags = parser.flags /\ parser'.content_length = parser.content_length
    BY <1>1, <1>5, <1>8, ReturnIs
  <2>2. Shut(parser', "body")
    BY <2>1 DEF Shut, Delivers, InData, InBody
  <2>3. IInv' /\ Running'
    BY <2>1, <2>2, Closing DEF Running
  <2> QED BY <1>6, <2>1, <2>3
<1> QED BY <1>7, <1>8

\* A buffer ends, behind any byte.
LEMMA BufferEndsStep == ASSUME IInv, BufferEnds PROVE Step
<1>1. call.open /\ UNCHANGED peer
  BY DEF BufferEnds
<1>2. /\ IsParser(parser) /\ parser.http_errno = "OK" /\ Running /\ CallFields \subseteq DOMAIN call
      /\ call.open = TRUE /\ Open(parser, call, event) /\ Fits(parser, event, peer.turn)
  BY <1>1, InCall
<1>3. PICK c : c = [call EXCEPT !.nread = @ + IF call.run = 0 THEN 0 ELSE call.run - 1, !.run = 0]
  OBVIOUS
<1>4. /\ CallFields \subseteq DOMAIN c /\ c.open = TRUE /\ c.run = 0 /\ c.mark = call.mark
      /\ c.nread = call.nread + IF call.run = 0 THEN 0 ELSE call.run - 1
  BY <1>2, <1>3 DEF CallFields
<1>5. \/ RETURN([parser EXCEPT !.http_errno = "HEADER_OVERFLOW"], c, rest) /\ Quiet
      \/ c.mark = <<>> /\ RETURN(parser, c, rest) /\ Quiet
      \/ \E k \in DOMAIN c.mark : CALLBACK_DATA_(k, parser, c, rest, RETURN(parser, c, rest))
  BY <1>3 DEF BufferEnds
<1>6. CASE RETURN([parser EXCEPT !.http_errno = "HEADER_OVERFLOW"], c, rest) /\ Quiet
  <2>1. PICK p : p = [parser EXCEPT !.http_errno = "HEADER_OVERFLOW"]
    OBVIOUS
  <2>2. IsParser(p) /\ p.http_errno = "HEADER_OVERFLOW"
    BY <1>2, <2>1 DEF IsParser, ParserFields
  <2>3. call' = Closed /\ IsParser(parser') /\ parser'.http_errno = "HEADER_OVERFLOW" /\ event' = event
    BY <1>6, <2>1, <2>2, ReturnIs DEF Quiet
  <2>4. IInv' /\ ~ Running'
    BY <1>1, <2>3, Closing DEF Running
  <2> QED BY <1>2, <2>3, <2>4, Errs DEF Step
<1>7. CASE c.mark = <<>> /\ RETURN(parser, c, rest) /\ Quiet
  <2>1. /\ call' = Closed /\ IsParser(parser') /\ parser'.http_errno = "OK" /\ parser'.nread = c.nread
        /\ Fits(parser', event, peer.turn) /\ parser'.state = parser.state /\ event' = event
        /\ parser'.flags = parser.flags /\ parser'.content_length = parser.content_length
        /\ parser' = [parser EXCEPT !.nread = c.nread]
    BY <1>2, <1>7, ReturnIs DEF Quiet, RETURN
  <2>2. DOMAIN call.mark = {}
    BY <1>4, <1>7, EmptyIs
  <2>3. Shut(parser', event)
    <3>1. parser.state = "s_chunk_size_start" => call.run = 0 /\ call.nread = 0
      BY <1>2 DEF Open, Counts
    <3>2. parser.state = "s_chunk_data_almost_done" => event = "body"
      BY <1>2, <2>2 DEF Open
    <3> QED BY <1>4, <2>1, <3>1, <3>2 DEF Shut
  <2>4. IInv' /\ Running'
    BY <1>1, <2>1, <2>3, Closing DEF Running
  <2>5. Held = 0 /\ Held' = 0
    BY <2>1, <2>2, ClosedIs DEF Held
  <2>6. Announced(parser') = Announced(parser)
    <3>1. /\ parser'.upgrade = parser.upgrade /\ parser'.method = parser.method /\ parser'.type = parser.type
          /\ parser'.status_code = parser.status_code
      BY <1>2, <2>1 DEF IsParser, ParserFields
    <3> QED BY <2>1, <3>1 DEF Announced, hasBody, BodyState, http_message_needs_eof
  <2>7. Owed' = Owed
    BY <1>2, <2>1, <2>4, <2>5, <2>6 DEF Owed
  <2>8. Trails' <=> Trails
    BY <1>2, <2>1, <2>4 DEF Trails, Trailing
  <2> QED BY <1>2, <2>1, <2>4, <2>7, <2>8, Stutters DEF Step
<1>8. ASSUME NEW k \in DOMAIN c.mark, CALLBACK_DATA_(k, parser, c, rest, RETURN(parser, c, rest))
      PROVE  Step
  <2>1. event' = k /\ (Interrupted(parser, c, rest) \/ RETURN(parser, c, rest))
    BY <1>8 DEF CALLBACK_DATA_, CALLBACK, Told
  <2>2. CASE parser.state \in Delivers
    <3>1. k = "body"
      BY <1>2, <1>4, <2>2 DEF Open, Marked
    <3> QED BY <1>1, <1>4, <2>1, <2>2, <3>1, BodyEnds
  <2>3. CASE parser.state \notin Delivers
    <3>1. k \in EntryMarks(parser.state)
      BY <1>2, <1>4, <2>3 DEF Open, Marked
    <3> QED BY <1>1, <1>4, <2>1, <2>3, <3>1, ElementEnds
  <2> QED BY <2>2, <2>3
<1> QED BY <1>5, <1>6, <1>7, <1>8

\* The connection ends, within a message or between two.
LEMMA EndOfFileStep == ASSUME IInv, EndOfFile PROVE Step
<1>1. /\ ~ call.open /\ parser.http_errno = "OK" /\ peer.turn # "left" /\ rest' = <<>>
      /\ peer' = [peer EXCEPT !.turn = "left"]
  BY DEF EndOfFile, CALLBACK, Interrupted, Quiet
<1>2. Running /\ call = Closed /\ Fits(parser, event, peer.turn) /\ Shut(parser, event) /\ IsParser(parser)
  BY <1>1, OutOfCall DEF Running
<1>3. "turn" \in DOMAIN peer' /\ peer'.turn = "left"
  BY <1>1 DEF IInv
<1>4. ASSUME call' = Closed, IsParser(parser'),
             Running' => Fits(parser', event', "left") /\ Shut(parser', event')
      PROVE  IInv'
  BY <1>1, <1>3, <1>4, ClosedIs DEF IInv
<1>5. CASE /\ parser.state = "s_body_identity_eof"
           /\ CALLBACK("message_complete", <<>>, parser, [call EXCEPT !.nread = parser.nread], <<>>,
                       UNCHANGED <<parser, call>> /\ rest' = <<>>)
  <2>1. event \in {"headers_complete", "body"} /\ ~ Trailing(parser)
    BY <1>1, <1>2, <1>5 DEF Fits, InBody
  <2>2. Owed = ULLONG_MAX
    BY <1>2, <1>5, <2>1, OwedIs
  <2>3. Fits(parser, "message_complete", "left") /\ Shut(parser, "message_complete")
    BY <1>5, <2>1 DEF Fits, Shut, Lines, Begins, InLine, InUrl, UrlStart, UrlRest, LineEnds, AtHeader,
                AtValue, ValueEnds, InSize, InData, InBody
  <2>4. PICK c : Interrupted(parser, c, <<>>) \/ UNCHANGED <<parser, call>>
    BY <1>5 DEF CALLBACK
  <2>5. event' = "message_complete"
    BY <1>5 DEF CALLBACK, Told
  <2>6. Owed' = 0
    BY <2>5, NoneOwedNext
  <2>7. /\ call' = Closed /\ IsParser(parser')
        /\ Alike(parser', parser) \/ ~ Running'
    <3>1. CASE Interrupted(parser, c, <<>>)
      BY <1>2, <3>1, InterruptedIs DEF Running
    <3>2. CASE UNCHANGED <<parser, call>>
      BY <1>2, <3>2 DEF Alike
    <3> QED BY <2>4, <3>1, <3>2
  <2>8. Running' => Fits(parser', event', "left") /\ Shut(parser', event')
    BY <2>3, <2>5, <2>7, FitsAlike DEF Alike, Shut
  <2>9. IInv'
    BY <1>4, <2>7, <2>8
  <2>10. Callbacks!Unless(0, FALSE)
    BY <2>5, <2>6 DEF Callbacks!Unless, Running
  <2>11. Callbacks!MessageComplete
    BY <1>2, <2>1, <2>2, <2>5, <2>10 DEF Callbacks!MessageComplete, Callbacks!Tell
  <2> QED BY <2>9, <2>11 DEF Step, Order, Callbacks!Next
<1>6. CASE /\ parser.state \in Begins \cup {"s_dead"}
           /\ UNCHANGED <<parser, call>> /\ Quiet
  <2>1. Running' /\ event' = event /\ call' = call /\ parser' = parser
    BY <1>2, <1>6 DEF Running, Quiet
  <2>2. Fits(parser, event, "left")
    BY <1>2, <1>6 DEF Fits, Begins, InBody
  <2>3. IInv'
    BY <1>2, <1>4, <2>1, <2>2
  <2>4. Owed' = Owed /\ (Trails' <=> Trails)
    BY <1>2, <2>1, OwedAlike DEF Alike
  <2> QED BY <1>2, <2>1, <2>3, <2>4, Stutters DEF Step
<1>7. CASE /\ parser' = [parser EXCEPT !.http_errno = "INVALID_EOF_STATE"]
           /\ call' = call /\ Quiet
  <2>1. IsParser(parser') /\ parser'.http_errno = "INVALID_EOF_STATE"
    BY <1>2, <1>7 DEF IsParser, ParserFields
  <2>2. ~ Running' /\ event' = event
    BY <1>7, <2>1 DEF Running, Quiet
  <2>3. IInv'
    BY <1>2, <1>4, <1>7, <2>1, <2>2
  <2> QED BY <1>2, <2>2, <2>3, Errs DEF Step
<1> QED BY <1>5, <1>6, <1>7 DEF EndOfFile, Begins

\* The user lets the parser go on.
LEMMA PauseStep == ASSUME IInv, http_parser_pause PROVE Step
<1>1. /\ parser.http_errno = "PAUSED" /\ parser' = [parser EXCEPT !.http_errno = "OK"]
      /\ UNCHANGED <<call, rest, peer>> /\ event' = event
  BY DEF http_parser_pause, Quiet
<1>2. ~ call.open /\ Running
  BY <1>1 DEF IInv, Running
<1>3. call = Closed /\ Fits(parser, event, peer.turn) /\ Shut(parser, event) /\ IsParser(parser)
  BY <1>2, OutOfCall
<1>4. IsParser(parser') /\ parser'.http_errno = "OK" /\ Alike(parser', parser)
  BY <1>1, <1>3 DEF IsParser, ParserFields, Alike
<1>5. Running' /\ Fits(parser', event, peer.turn) /\ Shut(parser', event)
  BY <1>3, <1>4, FitsAlike DEF Running, Alike, Shut
<1>6. IInv'
  BY <1>1, <1>2, <1>3, <1>4, <1>5 DEF IInv
<1>7. Owed' = Owed /\ (Trails' <=> Trails)
  BY <1>1, <1>2, <1>4, <1>5, OwedAlike
<1> QED BY <1>1, <1>2, <1>5, <1>6, <1>7, Stutters DEF Step

\* A step that the parser has no part in.
LEMMA Idle ==
  ASSUME event' = event, call' = call, parser' = parser
  PROVE  Order
<1>1. Running' = Running /\ Held' = Held
  BY DEF Running, Held
<1>2. Owed' = Owed
  BY <1>1 DEF Owed
<1>3. Trails' <=> Trails
  BY <1>1 DEF Trails
<1> QED BY <1>1, <1>2, <1>3, Stutters

\* What the peer sends is not looked at yet.
LEMMA SendsStep ==
  ASSUME IInv, NEW bytes, Sends(bytes), peer.turn # "left", "turn" \in DOMAIN peer', peer'.turn # "left"
  PROVE  Step
<1>1. UNCHANGED <<parser, call, event>>
  BY DEF Sends
<1>2. Running => Fits(parser, event, peer'.turn)
  BY DEF IInv, Fits
<1>3. IInv'
  BY <1>1, <1>2 DEF IInv, Running
<1> QED BY <1>1, <1>3, Idle DEF Step

\* A header line is sent in its turn.
LEMMA WithHeaderIs ==
  ASSUME "turn" \in DOMAIN peer, NEW h
  PROVE  "turn" \in DOMAIN WithHeader(h) /\ WithHeader(h).turn = peer.turn
BY DEF WithHeader

\* The peer sends.
LEMMA PeerStep == ASSUME IInv, Peer PROVE Step
<1>1. "turn" \in DOMAIN peer
  BY DEF IInv
<1>2. CASE SendStart
  <2>1. PICK l : Sends(l.bytes) /\ "turn" \in DOMAIN peer' /\ peer'.turn = "headers"
    BY <1>2 DEF SendStart
  <2> QED BY <1>2, <2>1, SendsStep DEF SendStart
<1>3. CASE SendHeader
  <2>1. PICK h : Sends(h.bytes) /\ peer' = WithHeader(h)
    BY <1>3 DEF SendHeader
  <2>2. peer.turn = "headers"
    BY <1>3 DEF SendHeader
  <2> QED BY <1>1, <2>1, <2>2, WithHeaderIs, SendsStep
<1>4. CASE SendEnd
  <2>1. PICK end : Sends(end) /\ peer' = [peer EXCEPT !.turn = "after", !.lines = 0, !.head = @ + Len(end)]
    BY <1>4 DEF SendEnd
  <2>2. peer.turn = "headers" /\ "turn" \in DOMAIN peer' /\ peer'.turn = "after"
    BY <1>1, <1>4, <2>1 DEF SendEnd
  <2> QED BY <2>1, <2>2, SendsStep
<1>5. CASE SendBody
  <2>1. peer.turn = "after"
    BY <1>5 DEF SendBody
  <2>2. PICK bytes : /\ Sends(bytes)
                     /\ \/ peer' = [peer EXCEPT !.turn = "start", !.head = 0, !.sent = Collected(@, "body", bytes)]
                        \/ peer' = [peer EXCEPT !.lines = @ + 1, !.sent = Collected(@, "body", bytes)]
    BY <1>5 DEF SendBody
  <2>3. "turn" \in DOMAIN peer' /\ peer'.turn \in {"start", "after"}
    BY <1>1, <2>1, <2>2
  <2> QED BY <2>1, <2>2, <2>3, SendsStep
<1>6. CASE SendChunk
  <2>1. PICK l : /\ Sends(l.bytes)
                 /\ peer' = [peer EXCEPT !.head = Len(l.bytes),
                     !.turn = IF l.size = 0 THEN "trailer" ELSE "data", !.left = l.size,
                     !.says.bad = @ \/ l.bad, !.lines = IF l.size = 0 THEN 0 ELSE @ + 1]
    BY <1>6 DEF SendChunk
  <2>2. "turn" \in DOMAIN peer' /\ peer'.turn \in {"trailer", "data"}
    BY <1>1, <2>1
  <2>3. peer.turn \in {"chunk", "after"}
    BY <1>6 DEF SendChunk
  <2> QED BY <2>1, <2>2, <2>3, SendsStep
<1>7. CASE SendData
  <2>1. PICK bytes : Sends(bytes)
    BY <1>7 DEF SendData
  <2>2. peer.turn = "data" /\ "turn" \in DOMAIN peer' /\ peer'.turn = "chunk"
    BY <1>1, <1>7 DEF SendData
  <2> QED BY <2>1, <2>2, SendsStep
<1>8. CASE SendTrailer
  <2>1. peer.turn = "trailer"
    BY <1>8 DEF SendTrailer
  <2>2. PICK n : \/ \E h : Sends(h.bytes) /\ peer' = [WithHeader(h) EXCEPT !.head = n + Len(h.bytes)]
                 \/ Sends(CRLF) /\ peer' = [peer EXCEPT !.turn = "start", !.head = n + 2]
    BY <1>8 DEF SendTrailer
  <2>3. CASE Sends(CRLF) /\ peer' = [peer EXCEPT !.turn = "start", !.head = n + 2]
    <3>1. "turn" \in DOMAIN peer' /\ peer'.turn = "start"
      BY <1>1, <2>3
    <3> QED BY <2>1, <2>3, <3>1, SendsStep
  <2>4. ASSUME NEW h, Sends(h.bytes), peer' = [WithHeader(h) EXCEPT !.head = n + Len(h.bytes)]
        PROVE  Step
    <3>1. "turn" \in DOMAIN peer' /\ peer'.turn = "trailer"
      BY <1>1, <2>1, <2>4, WithHeaderIs
    <3> QED BY <2>1, <2>4, <3>1, SendsStep
  <2> QED BY <2>2, <2>3, <2>4
<1> QED BY <1>2, <1>3, <1>4, <1>5, <1>6, <1>7, <1>8 DEF Peer

-----------------------------------------------------------------------------
(***************************************************************************)
(* Theorems.                                                               *)
(***************************************************************************)

\* The first state.
LEMMA Starts == ASSUME Init PROVE IInv /\ Callbacks!Init
<1>1. PICK t \in Types : parser = http_parser_init(t)
  BY DEF Init
<1>2. PICK s : s = IF t = "HTTP_BOTH" THEN "s_start_req_or_res" ELSE start_state([type |-> t])
  OBVIOUS
<1>3. s \in Begins
  BY <1>2 DEF Begins, start_state
<1>4. /\ ParserFields \subseteq DOMAIN parser /\ parser.content_length = 0 /\ parser.state = s
      /\ parser.flags = {} /\ parser.http_errno = "OK"
  BY <1>1, <1>2 DEF http_parser_init, ParserFields
<1>5. call = Closed /\ event = "none" /\ peer.turn = "start" /\ "turn" \in DOMAIN peer
  BY DEF Init
<1>6. IsParser(parser) /\ Running /\ ~ Trailing(parser)
  BY <1>4, WireAssumption DEF IsParser, Running, Trailing
<1>7. Fits(parser, event, peer.turn) /\ Shut(parser, event)
  BY <1>3, <1>4, <1>5, <1>6 DEF Fits, Shut, Begins, InLine, InUrl, UrlStart, UrlRest, LineEnds, AtHeader,
              AtValue, ValueEnds, InSize, InData, InBody
<1>8. IInv
  BY <1>5, <1>6, <1>7, ClosedIs DEF IInv
<1>9. Owed = 0
  BY <1>3, <1>4, NoneOwed DEF Begins, Owing, Delivers, InData, InBody
<1> QED BY <1>4, <1>5, <1>6, <1>8, <1>9 DEF Callbacks!Init, Running

\* Every pass of the switch.
LEMMA PassStep == ASSUME IInv, Pass PROVE Step
BY OverflowStep, DeadStep, BlankStep, StartReqOrResStep, ResOrRespHStep, StartResStep, ConstantStep,
   ResVersionStep, StatusCodeStep, StatusTextStep, StartReqStep, ReqMethodStep, SpacesBeforeUrlStep,
   UrlStep, HttpStartStep, ReqVersionStep, HeaderFieldStartStep, HeaderFieldStep, DiscardWsStep,
   HeaderValueStartStep, HeaderValueStep, HeaderValueLwsStep, DiscardLwsStep, HeadersAlmostDoneStep,
   HeadersDoneStep, BodyIdentityStep, BodyIdentityEofStep, MessageDoneStep, ChunkSizeStartStep,
   ChunkSizeStep, ChunkParametersStep, ChunkSizeAlmostDoneStep, ChunkDataStep, ChunkDataAlmostDoneStep,
   ChunkDataDoneStep
DEF Pass

\* Every step keeps the invariant and is one that HttpCallbacks allows.
LEMMA NextStep == ASSUME IInv, [Next]_vars PROVE Step
<1>1. CASE Next
  BY <1>1, ExecuteStep, PassStep, BufferEndsStep, PauseStep, EndOfFileStep, PeerStep DEF Next
<1>2. CASE UNCHANGED vars
  <2>1. UNCHANGED <<parser, call, rest, event, peer>>
    BY <1>2 DEF vars
  <2>2. IInv'
    BY <2>1 DEF IInv, Running
  <2> QED BY <2>1, <2>2, Idle DEF Step
<1> QED BY <1>1, <1>2

\* In every state of the parser, what the user heard last is what may come
\* before it, what is marked is what is being read, and the lengths and
\* counts are what the state needs: for all bytes, cuts, pauses and errors.
THEOREM ParserInvariant == Spec => []IInv
<1>1. Init => IInv
  BY Starts
<1>2. IInv /\ [Next]_vars => IInv'
  BY NextStep DEF Step
<1> QED BY <1>1, <1>2, PTL DEF Spec

\* A set within one that has a single element.
LEMMA AtMostOne ==
  ASSUME NEW S, NEW x, S \subseteq {x}
  PROVE  Cardinality(S) <= 1
<1>1. S = {} \/ S = {x}
  OBVIOUS
<1>2. Cardinality({}) = 0 /\ Cardinality({x}) = 1
  BY FS_EmptySet, FS_Singleton
<1> QED BY <1>1, <1>2

\* The assertions of http_parser_execute hold, whatever bytes come, however
\* they are cut into buffers, and whatever the callbacks return.
THEOREM ParserAssertsHold == Spec => []AssertsHold
<1>1. ASSUME IInv PROVE AssertsHold
  <2>1. SUFFICES ASSUME call.open PROVE AssertsHold
    BY DEF AssertsHold
  <2>2. /\ Fits(parser, event, peer.turn) /\ Open(parser, call, event) /\ CallFields \subseteq DOMAIN call
    BY <1>1, <2>1, InCall
  <2>3. PICK x : DOMAIN call.mark \subseteq {x}
    BY <2>2 DEF Open, Marked, EntryMarks
  <2>4. Cardinality(DOMAIN call.mark) <= 1
    BY <2>3, AtMostOne
  <2>5. parser.state = "s_chunk_size_start" => Here.nread = 1
    BY <2>2, HereIs DEF Open, Counts
  <2>6. parser.state \in InSize \cup InData \cup {"s_chunk_data_done"} => "CHUNKED" \in parser.flags
    BY <2>2 DEF Fits
  <2>7. /\ parser.state \in {"s_chunk_data", "s_body_identity"} => parser.content_length \notin {0, ULLONG_MAX}
        /\ parser.state = "s_chunk_data_almost_done" => parser.content_length = 0
        /\ parser.state = "s_header_value" => parser.header_state \notin {"h_connection", "h_transfer_encoding"}
    BY <2>2 DEF Fits
  <2> QED BY <2>4, <2>5, <2>6, <2>7 DEF AssertsHold, InSize, InData
<1> QED BY <1>1, ParserInvariant, PTL

\* The callbacks come in the order of the parts of a message, with exactly
\* the bytes of body that the head or the chunk announced, and none comes
\* after an error: whatever the peer sends and wherever a buffer ends.
THEOREM ParserImplementsCallbacks == Spec => ImplementsCallbacks
<1>1. Init => Callbacks!Init
  BY Starts
<1>2. IInv /\ [Next]_vars => [Callbacks!Next]_(Callbacks!vars)
  BY NextStep DEF Step, Order
<1> QED BY <1>1, <1>2, ParserInvariant, PTL DEF Spec, ImplementsCallbacks, Callbacks!Spec
=============================================================================
