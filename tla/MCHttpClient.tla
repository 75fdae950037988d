---------------------------- MODULE MCHttpClient ----------------------------
(***************************************************************************)
(* An instance of HttpClient for TLC.                                      *)
(***************************************************************************)
EXTENDS HttpClient

MCUrl == {
  [https |-> FALSE, host |-> <<"a">>, port |-> <<8, 0, 8, 0>>, path |-> <<"x", "y">>],
  [https |-> FALSE, host |-> <<"a">>, port |-> <<8, 0, 8, 0>>, path |-> <<"z">>],
  [https |-> TRUE,  host |-> <<"a">>, port |-> <<>>, path |-> <<"z">>]}

MCReply == {
  [code |-> 200, framing |-> "length",  sizes |-> <<2>>,    close |-> FALSE, other |-> 0],
  [code |-> 404, framing |-> "length",  sizes |-> <<0>>,    close |-> TRUE,  other |-> 0],
  [code |-> 200, framing |-> "chunked", sizes |-> <<2, 1>>, close |-> FALSE, other |-> 0],
  [code |-> 204, framing |-> "none",    sizes |-> <<>>,     close |-> FALSE, other |-> 3]}

\* What the future depends on.  Of the parser's fields a call clears all but
\* response.chunked before it reads, and sets length at the header's end.
View ==
  <<fd, url, res.chunked, past, pc, outcome, server, net, stale,
    IF pc = "idle" THEN <<>> ELSE <<call, left>>,
    IF pc \in {"read", "parse", "finish"}
    THEN <<res, header_end, r_buf, body, IF header_end THEN length ELSE 0>>
    ELSE <<>> >>
=============================================================================
