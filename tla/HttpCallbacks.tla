--------------------------- MODULE HttpCallbacks ---------------------------
(***************************************************************************)
(* What a user of http_parser may rely on (README.md of the parser and the *)
(* comments of http_parser.h): which callback may follow which, and how    *)
(* many bytes of body the callbacks deliver.                               *)
(***************************************************************************)
EXTENDS Integers

CONSTANT Unbounded     \* owed, of a body that goes on to the end of the connection

VARIABLES heard,       \* the last callback
          owed,        \* bytes of body that are announced and not delivered
          trailing,    \* the last chunk is announced
          running      \* the parser has met no error

vars == <<heard, owed, trailing, running>>

Init == heard = "none" /\ owed = 0 /\ trailing = FALSE /\ running = TRUE

\* After an error nothing is owed.
Unless(n, t) ==
  \/ running' = TRUE /\ owed' = n /\ trailing' = t
  \/ running' = FALSE /\ owed' = 0 /\ trailing' = FALSE

Tell(what, after) == running /\ heard \in after /\ heard' = what

MessageBegin == Tell("message_begin", {"none", "message_complete"}) /\ Unless(0, FALSE)

StartLine ==
  \E what \in {"url", "status"} : Tell(what, {"message_begin", what}) /\ Unless(owed, trailing)

HeaderField ==
  /\ Tell("header_field", {"url", "status", "header_field", "header_value"} \cup
                          IF trailing THEN {"chunk_header"} ELSE {})
  /\ Unless(owed, trailing)

HeaderValue == Tell("header_value", {"header_field", "header_value"}) /\ Unless(owed, trailing)

HeadersComplete ==
  /\ Tell("headers_complete", {"url", "status", "header_value"}) /\ ~ trailing
  /\ \E n \in 0 .. Unbounded : Unless(n, FALSE)

Body ==
  /\ Tell("body", {"headers_complete", "chunk_header", "body"})
  /\ \/ owed = Unbounded /\ Unless(owed, FALSE)
     \/ \E n \in 1 .. owed : Unless(owed - n, FALSE)

\* Chunks follow a head that announced no body.
ChunkHeader ==
  /\ Tell("chunk_header", {"headers_complete", "chunk_complete"}) /\ owed = 0 /\ ~ trailing
  /\ \E n \in 0 .. Unbounded - 1 : Unless(n, n = 0)

ChunkComplete ==
  /\ Tell("chunk_complete", IF trailing THEN {"chunk_header", "header_value"} ELSE {"body"})
  /\ owed = 0 /\ Unless(0, trailing)

\* A body without an end is over with the connection.
MessageComplete ==
  /\ Tell("message_complete",
          {"headers_complete", "body"} \cup IF trailing THEN {"chunk_complete"} ELSE {})
  /\ owed \in {0, Unbounded} /\ Unless(0, FALSE)

Error == running /\ running' = FALSE /\ owed' = 0 /\ trailing' = FALSE /\ heard' = heard

Next ==
  \/ MessageBegin \/ StartLine \/ HeaderField \/ HeaderValue \/ HeadersComplete
  \/ Body \/ ChunkHeader \/ ChunkComplete \/ MessageComplete \/ Error

Spec == Init /\ [][Next]_vars
=============================================================================
