----------------------------- MODULE TlsSamples -----------------------------
(***************************************************************************)
(* The TLS samples put together: one of the servers with the clients of    *)
(* its directory and strangers, on connections that may be lost or fill    *)
(* up; or the two programs that speak through memory BIOs.                 *)
(***************************************************************************)
EXTENDS AsyncServer, BioPeers

CONSTANTS
  Server,     \* the servers of interest
  ClientsOf,  \* [Server -> SUBSET [Client -> name]]: who connects to each
  FlightsOf,  \* [Server -> SUBSET {0, 3, 4}]: the handshakes of each
  RefusersOf  \* [Server -> who may refuse the other's certificate]

ASSUME SamplesAssumption ==
  /\ Server \subseteq
       {"tls_server", "one_way_server", "two_way_server", "tcp_server", "ssl_server_async"}
  /\ \A s \in Server : FlightsOf[s] \subseteq {0, 3, 4} /\ RefusersOf[s] \subseteq Side \union {"nobody"}
  /\ NoClient \notin Client

vars == <<peerVars, asyncVars, bioVars>>

Init ==
  /\ \/ PeersInit(Server, ClientsOf, FlightsOf, RefusersOf)
     \/ PeersIdle("bio_tls_server")
  /\ AsyncInit
  /\ BioInit

IsBio == server = "bio_tls_server"

Next ==
  \/ PeersNext /\ UNCHANGED <<asyncVars, bioVars>>
  \/ AsyncStep /\ UNCHANGED bioVars
  \/ IsBio /\ BioNext /\ UNCHANGED <<peerVars, asyncVars>>

Spec == Init /\ [][Next]_vars

(***************************************************************************)
(* The server's thread runs, every client program but a stranger runs, and *)
(* a full buffer is taken by the peer's kernel in the end; both loops of   *)
(* the BIO programs run.                                                   *)
(***************************************************************************)
Fairness ==
  /\ WF_vars(ServerStep /\ UNCHANGED <<asyncVars, bioVars>>)
  /\ WF_vars(/\ IsAsync /\ AsyncLoop
             /\ UNCHANGED <<program, pc, server, serving, troubles, bioVars>>)
  /\ \A c \in Client :
       /\ WF_vars(program[c] # "stranger" /\ ClientStep(c) /\ UNCHANGED <<asyncVars, bioVars>>)
       /\ WF_vars(NetworkDrains(c) /\ UNCHANGED <<asyncVars, bioVars>>)
  /\ \A p \in Side : WF_vars(IsBio /\ Loop(p) /\ UNCHANGED <<peerVars, asyncVars>>)
  /\ WF_vars(IsBio /\ (Accept \/ bio_tcp_client_reads) /\ UNCHANGED <<peerVars, asyncVars>>)

FairSpec == Spec /\ Fairness

----------------------------------------------------------------------------
(***************************************************************************)
(* Every descriptor the server holds is of the connection that it is at,   *)
(* or has a channel that epoll watches for what its handshake waits for,   *)
(* and for reading after it, if the connection was never full; but for a   *)
(* connection that was reset before it was accepted, whose descriptor      *)
(* handleAccept forgets.                                                   *)
(***************************************************************************)
Watched(c) ==
  LET l == link[c]
      blocked == \A r \in Handshake(l, "server") : r.out = "again"
  IN  /\ channel[c] # NoChannel
      /\ channel[c].tcpConnected /\ ~channel[c].sslConnected /\ ~Writing(l, "server") /\ blocked
           => "in" \in channel[c].events
      /\ channel[c].tcpConnected /\ ~channel[c].sslConnected /\ Writing(l, "server")
           => "out" \in channel[c].events
      /\ channel[c].sslConnected => "in" \in channel[c].events \/ l.filled

NoDescriptorLost ==
  /\ held \subseteq {c \in Client : "server" \in link[c].open}
  /\ \A c \in held :
       IF IsAsync THEN Watched(c) \/ (channel[c] = NoChannel /\ link[c].reset)
       ELSE c = serving
  /\ \A c \in Client : channel[c] # NoChannel => c \in held

(***************************************************************************)
(* What one client or its network may do to the others: tls_server goes on *)
(* after everything but a lost connection it writes to; the one-way and    *)
(* two-way servers stop at a handshake that fails, or by a signal when a   *)
(* client has reset its connection; tcp_server where it writes outside its *)
(* buffer; the epoll server only by the signal of a reset connection.      *)
(***************************************************************************)
EndsServer ==
  [ tls_server       |-> {<<"write", "error">>},
    one_way_server   |-> {<<"handshake", o>> : o \in {"error", "reset", "eof"}}
                           \union {<<"write", "reset">>, <<"finish", "reset">>},
    two_way_server   |-> {<<"handshake", o>> : o \in {"error", "reset", "eof"}}
                           \union {<<"write", "reset">>, <<"finish", "reset">>},
    tcp_server       |-> {<<"read", "error">>, <<"read", "reset">>},
    ssl_server_async |-> {<<"handle", "reset">>, <<"epoll_wait", "ok">>} ]

ServerOutlivesClients ==
  at \in Ended => cause \in EndsServer[server] \union {<<"setup", "error">>, <<"accept", "error">>}

(***************************************************************************)
(* Every client of a sample ends, whatever the others do, unless a server  *)
(* that serves one at a time is at a stranger who says nothing and stays,  *)
(* or the connection was full in its handshake, after which the epoll      *)
(* server does not watch it for reading any more.                          *)
(***************************************************************************)
AtStranger == serving # NoClient /\ program[serving] = "stranger"

Deaf(c) ==
  IsAsync /\ link[c].filled /\ channel[c].sslConnected /\ "in" \notin channel[c].events

EveryClientEnds ==
  <>[](\A c \in Client :
         pc[c] \in Ended \/ program[c] = "stranger" \/ AtStranger \/ Deaf(c))
=============================================================================
