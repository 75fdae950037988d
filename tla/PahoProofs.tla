---------------------------- MODULE PahoProofs ----------------------------
(***************************************************************************)
(* For runs of any length: however often the connection of the subscribers *)
(* is lost, what they do to be subscribed again is enough, where it is.    *)
(***************************************************************************)
EXTENDS PahoClient, TLAPS

(***************************************************************************)
(* A connect that the library makes by itself, with no onSuccess to call,  *)
(* is found in paho_async_origin only after finished was set.              *)
(***************************************************************************)
OwnConnects ==
  program = "paho_async_origin" /\ conn \in {"connecting", "retrying"} /\ ~ armed => finished

IInv == SubscriptionKept /\ OwnConnects /\ program \in Program

LEMMA InitIInv == Init => IInv
  BY DEF Init, IInv, SubscriptionKept, OwnConnects

\* What main does: it leaves the connection alone, but for its first connect.
LEMMA MainKeeps == IInv /\ Main => IInv'
<1> SUFFICES ASSUME IInv, Main
             PROVE  IInv'
  OBVIOUS
<1>1. CASE Connect
  BY <1>1 DEF Main, Connect, Exit, IInv, SubscriptionKept, OwnConnects, flags, library, Ended
<1>2. CASE WaitSubscribed
  BY <1>2 DEF Main, WaitSubscribed, IInv, SubscriptionKept, OwnConnects, flags, library, Ended
<1>3. CASE Disconnect
  BY <1>3 DEF Main, Disconnect, Exit, IInv, SubscriptionKept, OwnConnects, flags, library, Ended
<1>4. CASE WaitDisconnected
  BY <1>4 DEF Main, WaitDisconnected, IInv, SubscriptionKept, OwnConnects, flags, library, Ended
<1> QED
  BY <1>1, <1>2, <1>3, <1>4 DEF Main

\* The library's steps with the callbacks they call.
LEMMA LibraryKeeps == IInv /\ Library => IInv'
<1> SUFFICES ASSUME IInv, Library
             PROVE  IInv'
  OBVIOUS
<1>0. program' = program /\ main \notin Ended
  BY DEF Library
<1>1. CASE ConnectSucceeds
  BY <1>0, <1>1 DEF ConnectSucceeds, connected, onConnect, MQTTAsync_subscribe, NoSubscribe,
     IInv, SubscriptionKept, OwnConnects, flags, Program, Ended
<1>2. CASE ConnectFails
  BY <1>0, <1>2 DEF ConnectFails, onConnectFailure, ConnectAgain, NoConnect, Retrying,
     IInv, SubscriptionKept, OwnConnects, Program, Ended
<1>3. CASE onSubscribe
  BY <1>0, <1>3 DEF onSubscribe, IInv, SubscriptionKept, OwnConnects, Ended
<1>4. CASE onSubscribeFailure
  BY <1>0, <1>4 DEF onSubscribeFailure, IInv, SubscriptionKept, OwnConnects, Ended
<1>5. CASE ConnectionLost
  BY <1>0, <1>5 DEF ConnectionLost, connlost, ConnectAgain, NoConnect, Retrying,
     IInv, SubscriptionKept, OwnConnects, Program, Ended
<1>6. CASE onDisconnect
  BY <1>0, <1>6 DEF onDisconnect, IInv, SubscriptionKept, OwnConnects, Ended
<1> QED
  BY <1>1, <1>2, <1>3, <1>4, <1>5, <1>6 DEF Library

\* A step of main, of the library or of the user.
LEMMA NextKeeps == IInv /\ [Next]_vars => IInv'
<1> SUFFICES ASSUME IInv, [Next]_vars
             PROVE  IInv'
  OBVIOUS
<1>1. CASE TypeQ
  BY <1>1 DEF TypeQ, IInv, SubscriptionKept, OwnConnects, flags, library
<1>2. CASE UNCHANGED vars
  BY <1>2 DEF vars, IInv, SubscriptionKept, OwnConnects, flags, library
<1> QED
  BY <1>1, <1>2, MainKeeps, LibraryKeeps DEF Next

\* However often the connection is lost and made again, a client that is
\* connected has asked for its subscription, but for the exceptions that
\* SubscriptionKept names.
THEOREM PahoSubscriptionKept == Spec => []SubscriptionKept
<1>1. Init => IInv
  BY InitIInv
<1>2. IInv /\ [Next]_vars => IInv'
  BY NextKeeps
<1>3. IInv => SubscriptionKept
  BY DEF IInv
<1> QED
  BY <1>1, <1>2, <1>3, PTL DEF Spec
===========================================================================
