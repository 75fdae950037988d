----------------------------- MODULE PahoClient -----------------------------
(***************************************************************************)
(* The three MQTT subscribers (paho_async_modify, paho_async_origin,       *)
(* paho_tls_async): main waits for flags that the callbacks set, which the *)
(* threads of the library run.  A callback runs to its end; the library's  *)
(* part is modelled from the options and calls of the programs.            *)
(***************************************************************************)
VARIABLES
  program,       \* which of the three
  main,          \* where main is
  subscribed, finished, disc_finished,
  conn,          \* the library's connection
  armed,         \* connect's onSuccess and onFailure are still to be called
  sub,           \* what became of this connection's MQTTAsync_subscribe
  leaving,       \* what became of MQTTAsync_disconnect
  granted,       \* a subscribe has succeeded: history
  q              \* the user has typed Q

flags == <<subscribed, finished, disc_finished>>
library == <<conn, armed, sub, leaving, granted>>
vars == <<program, main, flags, library, q>>

Program == {"paho_async_modify", "paho_async_origin", "paho_tls_async"}

Ended == {"returned", "exited"}

Init ==
  /\ program \in Program
  /\ main = "connect"
  /\ subscribed = FALSE /\ finished = FALSE /\ disc_finished = FALSE
  /\ conn = "none" /\ armed = FALSE /\ sub = "none" /\ leaving = "no" /\ granted = FALSE
  /\ q = FALSE

Exit == main' = "exited" /\ UNCHANGED <<flags, library>>

----------------------------------------------------------------------------
(* main *)

(* MQTTAsync_connect, which may fail to start. *)
Connect ==
  /\ main = "connect"
  /\ \/ /\ main' = "subscribed?"
        /\ conn' = "connecting" /\ armed' = TRUE
        /\ UNCHANGED <<sub, leaving, granted, flags>>
     \/ Exit

(* finished is looked at once, and only when subscribed has been set. *)
WaitSubscribed ==
  /\ main = "subscribed?"
  /\ subscribed
  /\ main' = IF finished THEN "returned" ELSE "getchar"
  /\ UNCHANGED <<flags, library>>

(* Mutant: what MQTTAsync_disconnect returns is not looked at. *)
DisconnectAnyway ==
  /\ main = "getchar"
  /\ q
  /\ leaving' = IF conn = "up" THEN "started" ELSE "no"
  /\ main' = "disc_finished?"
  /\ UNCHANGED <<conn, armed, sub, granted, flags>>

(* Q ends the loop; without a connection the disconnect does not start. *)
Disconnect ==
  /\ main = "getchar"
  /\ q
  /\ \/ /\ conn = "up"
        /\ leaving' = "started"
        /\ main' = "disc_finished?"
        /\ UNCHANGED <<conn, armed, sub, granted, flags>>
     \/ /\ conn # "up"
        /\ Exit

WaitDisconnected ==
  /\ main = "disc_finished?"
  /\ disc_finished
  /\ main' = "returned"
  /\ UNCHANGED <<flags, library>>

Main ==
  /\ Connect \/ WaitSubscribed \/ Disconnect \/ WaitDisconnected
  /\ UNCHANGED <<program, q>>

TypeQ ==
  /\ main \notin Ended /\ ~q
  /\ q' = TRUE
  /\ UNCHANGED <<program, main, flags, library>>

----------------------------------------------------------------------------
(* The callbacks. *)

(* It may fail to start, and then ends the process. *)
MQTTAsync_subscribe ==
  \/ sub' = "asked" /\ UNCHANGED main
  \/ sub' = "none" /\ main' = "exited"

NoSubscribe == sub' = "none" /\ UNCHANGED main

(* In paho_async_modify it only prints; in the other two it subscribes. *)
onConnect == IF program = "paho_async_modify" THEN NoSubscribe ELSE MQTTAsync_subscribe

(* Mutant: a client that was subscribed once does not subscribe again. *)
connectedOnce == IF subscribed THEN NoSubscribe ELSE MQTTAsync_subscribe

(* Set with MQTTAsync_setConnected by paho_async_modify only. *)
connected == MQTTAsync_subscribe

(* A MQTTAsync_connect, which may fail to start too. *)
ConnectAgain(otherwise) ==
  \/ conn' = "connecting" /\ armed' = TRUE /\ UNCHANGED finished
  \/ conn' \in otherwise /\ armed' = FALSE /\ finished' = TRUE

NoConnect(otherwise) ==
  conn' \in otherwise /\ armed' = FALSE /\ UNCHANGED finished

(* Only paho_async_modify leaves it to the library to try again. *)
onConnectFailure(otherwise) ==
  IF program = "paho_async_modify" THEN NoConnect(otherwise) ELSE ConnectAgain(otherwise)

(* Mutant: as in paho_tls_async, where the call is a comment. *)
connlostPrints(otherwise) == NoConnect(otherwise)

connlost(otherwise) ==
  IF program = "paho_async_origin" THEN ConnectAgain(otherwise) ELSE NoConnect(otherwise)

----------------------------------------------------------------------------
(***************************************************************************)
(* The library.  A connection that was good is made anew by itself until   *)
(* the client disconnects; whether a first connect that failed is repeated *)
(* is left open.                                                           *)
(***************************************************************************)
Retrying ==
  IF leaving # "no" THEN {"none"} ELSE IF granted THEN {"retrying"} ELSE {"retrying", "none"}

(***************************************************************************)
(* onSuccess is called for a connect of the program, and not for the       *)
(* library's own; connected, if it is set, for each.  With cleansession    *)
(* the broker has forgotten the subscription.                              *)
(***************************************************************************)
ConnectSucceeds ==
  /\ conn \in {"connecting", "retrying"}
  /\ conn' = "up"
  /\ armed' = FALSE
  /\ IF program = "paho_async_modify" THEN connected
     ELSE IF armed THEN onConnect ELSE NoSubscribe
  /\ UNCHANGED <<flags, leaving, granted>>

(* onFailure is called once, too. *)
ConnectFails ==
  /\ conn \in {"connecting", "retrying"}
  /\ IF armed THEN onConnectFailure(Retrying) ELSE NoConnect(Retrying)
  /\ UNCHANGED <<main, subscribed, disc_finished, sub, leaving, granted>>

onSubscribe ==
  /\ conn = "up" /\ sub = "asked"
  /\ sub' = "granted" /\ granted' = TRUE
  /\ subscribed' = TRUE
  /\ UNCHANGED <<main, finished, disc_finished, conn, armed, leaving>>

onSubscribeFailure ==
  /\ conn = "up" /\ sub = "asked"
  /\ sub' = "refused"
  /\ finished' = TRUE
  /\ UNCHANGED <<main, subscribed, disc_finished, conn, armed, leaving, granted>>

(* What was asked for has failed first; then connlost is called. *)
ConnectionLost ==
  /\ conn = "up"
  /\ sub # "asked"
  /\ sub' = "none"
  /\ leaving' = IF leaving = "started" THEN "lost" ELSE leaving
  /\ connlost(Retrying)
  /\ UNCHANGED <<main, subscribed, disc_finished, granted>>

onDisconnect ==
  /\ conn = "up" /\ leaving = "started" /\ sub # "asked"
  /\ leaving' = "done" /\ conn' = "none" /\ sub' = "none"
  /\ disc_finished' = TRUE
  /\ UNCHANGED <<main, subscribed, finished, armed, granted>>

(* Its threads end with the process, or with MQTTAsync_destroy. *)
Library ==
  /\ main \notin Ended
  /\ \/ ConnectSucceeds \/ ConnectFails
     \/ onSubscribe \/ onSubscribeFailure \/ ConnectionLost \/ onDisconnect
  /\ UNCHANGED <<program, q>>

Next == Main \/ TypeQ \/ Library

Spec == Init /\ [][Next]_vars

(* The library answers: a request of it is granted or fails. *)
FairSpec ==
  /\ Spec
  /\ WF_vars(Main)
  /\ WF_vars(main \notin Ended /\ (onSubscribe \/ onSubscribeFailure) /\ UNCHANGED <<program, q>>)
  /\ WF_vars(main \notin Ended /\ (onDisconnect \/ ConnectionLost) /\ UNCHANGED <<program, q>>)

----------------------------------------------------------------------------
(***************************************************************************)
(* However often the connection is lost and made again, a client that is   *)
(* connected has asked for its subscription on this connection.  But for   *)
(* paho_tls_async, when the library has made the connection by itself, and *)
(* for paho_async_origin, when that came after a connect of its own did    *)
(* not start, which finished tells.                                        *)
(***************************************************************************)
SubscriptionKept ==
  conn = "up" /\ main \notin Ended =>
    \/ sub # "none"
    \/ program = "paho_async_origin" /\ finished
    \/ program = "paho_tls_async"

(***************************************************************************)
(* Who types Q gets out, unless no subscribe was ever granted, where main  *)
(* waits for ever although finished says so, or the connection was lost    *)
(* with a disconnect under way, of which no callback tells.                *)
(***************************************************************************)
QuitsOnQ ==
  <>[](q => \/ main \in Ended
            \/ main = "subscribed?" /\ ~granted
            \/ main = "disc_finished?" /\ leaving = "lost")
=============================================================================
