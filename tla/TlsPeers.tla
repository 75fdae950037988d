------------------------------ MODULE TlsPeers ------------------------------
(***************************************************************************)
(* A server that serves one connection at a time, and its clients, each a  *)
(* process that runs a program of TlsPrograms.  A step of a process is one *)
(* call; a call on a blocking socket that makes no progress is not enabled. *)
(***************************************************************************)
EXTENDS TlsPrograms

CONSTANTS
  Client,     \* the processes that connect
  NoClient,   \* no process
  Troubles    \* how often networks and users interfere

VARIABLES
  link,       \* [Client -> Link]: its connection
  program,    \* [Client -> name]: what it runs
  pc,         \* [Client -> label]: where it is
  server,     \* the server's program
  at,         \* where the server is
  serving,    \* the client whose connection a sequential server is at
  held,       \* the clients whose connection the server has a descriptor of
  cause,      \* the label and the outcome that the server ended with
  troubles    \* how often it has happened

peerVars == <<link, program, pc, server, at, serving, held, cause, troubles>>

NoCause == <<"none", "none">>

(* Connections that are made and not accepted. *)
Waiting == {c \in Client : "server" \in link[c].open} \ held

ClosedBy(l, s) == IF s \in l.open THEN Close(l, s) ELSE l

PeersInit(servers, clientsOf, flights, refusers) ==
  /\ server \in servers
  /\ program \in clientsOf[server]
  /\ \E f \in flights[server], r \in refusers[server] :
       link = [c \in Client |-> Fresh(f, r)]
  /\ pc = [c \in Client |-> "setup"]
  /\ at = "setup"
  /\ serving = NoClient
  /\ held = {}
  /\ cause = NoCause
  /\ troubles = 0

(* Nobody connects to this server. *)
PeersIdle(name) ==
  /\ server = name
  /\ program = [c \in Client |-> "none"]
  /\ link = [c \in Client |-> Fresh(0, "nobody")]
  /\ pc = [c \in Client |-> "ended"]
  /\ at = "setup"
  /\ serving = NoClient
  /\ held = {}
  /\ cause = NoCause
  /\ troubles = 0

----------------------------------------------------------------------------
(* The calls that are made in the same way by servers and clients. *)

Called(call, l, s) ==
  CASE call = "handshake" -> Handshake(l, s)
    [] call = "read"      -> {Read(l, s)}
    [] call = "request"   -> {Write(l, s, "request")}
    [] call = "response"  -> {Write(l, s, "response")}
    [] call = "notify"    -> {Write(l, s, "notify")}
    [] call = "babble"    -> {Put(l, s, "junk")}

OnLink == {"handshake", "read", "request", "response", "notify", "babble"}

----------------------------------------------------------------------------
(* The server. *)

Row == Program[server][at]

(* At its end the kernel closes all that is open, the backlog too. *)
ServerEnds(out) ==
  /\ at' \in Ended
  /\ cause' = <<at, out>>
  /\ held' = {}
  /\ serving' = NoClient

CloseAll(links) == [c \in Client |-> ClosedBy(links[c], "server")]

ServerCalls ==
  /\ Row.call \in OnLink
  /\ \E r \in Called(Row.call, link[serving], "server") :
       LET links == [link EXCEPT ![serving] = r.link]
       IN  /\ at' \in After(Row, at, r.out)
           /\ \/ /\ at' \notin Ended
                 /\ link' = links
                 /\ UNCHANGED <<serving, held, cause>>
              \/ /\ ServerEnds(r.out)
                 /\ link' = CloseAll(links)
           /\ <<at, link>>' # <<at, link>>

ServerSetup ==
  /\ Row.call = "setup"
  /\ \E out \in {"ok", "error"} :
       /\ at' \in After(Row, at, out)
       /\ \/ /\ at' \notin Ended
             /\ UNCHANGED <<link, serving, held, cause>>
          \/ /\ ServerEnds(out)
             /\ UNCHANGED link

ServerAccepts ==
  /\ Row.call = "accept"
  /\ \/ /\ at' \in After(Row, at, "ok")
        /\ \E c \in Waiting : serving' = c /\ held' = held \union {c}
        /\ UNCHANGED <<link, cause>>
     \/ /\ at' \in After(Row, at, "error") \ Ended
        /\ UNCHANGED <<link, serving, held, cause>>
     \/ /\ ServerEnds("error")
        /\ at' \in After(Row, at, "error")
        /\ link' = CloseAll(link)

ServerCloses ==
  /\ Row.call = "close"
  /\ at' \in After(Row, at, "ok")
  /\ IF serving = NoClient
       THEN UNCHANGED <<link, serving, held>>
       ELSE /\ link' = [link EXCEPT ![serving] = Close(@, "server")]
            /\ held' = held \ {serving}
            /\ serving' = NoClient
  /\ UNCHANGED cause

ServerStep ==
  /\ server \in DOMAIN Program
  /\ at \notin Ended
  /\ ServerCalls \/ ServerSetup \/ ServerAccepts \/ ServerCloses
  /\ UNCHANGED <<program, pc, server, troubles>>

----------------------------------------------------------------------------
(* A client. *)

RowOf(c) == Program[program[c]][pc[c]]

(* A process that ends closes its socket. *)
ClientGoes(c, l, labels) ==
  \E next \in labels :
    /\ pc' = [pc EXCEPT ![c] = next]
    /\ link' = [link EXCEPT ![c] = IF next \in Ended THEN ClosedBy(l, "client") ELSE l]

ClientCalls(c) ==
  /\ RowOf(c).call \in OnLink
  /\ \E r \in Called(RowOf(c).call, link[c], "client") :
       ClientGoes(c, r.link, After(RowOf(c), pc[c], r.out))
  /\ <<pc, link>>' # <<pc, link>>

ClientSetup(c) ==
  /\ RowOf(c).call = "setup"
  /\ \E out \in {"ok", "error"} :
       ClientGoes(c, link[c], After(RowOf(c), pc[c], out))

(***************************************************************************)
(* connect: made at once, in progress on a socket that does not block, or  *)
(* refused, as it is before the server listens and after it has ended.     *)
(***************************************************************************)
ClientConnects(c) ==
  /\ RowOf(c).call = "connect"
  /\ \/ /\ at \notin Ended \union {"setup"}
        /\ \E out \in {"ok"} \union (DOMAIN RowOf(c).to \intersect {"again"}) :
             ClientGoes(c, Connected(link[c]), After(RowOf(c), pc[c], out))
     \/ /\ at \in Ended \union {"setup"}
        /\ ClientGoes(c, link[c], After(RowOf(c), pc[c], "error"))

ClientAborts(c) ==
  /\ RowOf(c).call = "abort"
  /\ ClientGoes(c, Abort(link[c], "client"), After(RowOf(c), pc[c], "ok"))

ClientStep(c) ==
  /\ pc[c] \notin Ended
  /\ ClientCalls(c) \/ ClientSetup(c) \/ ClientConnects(c) \/ ClientAborts(c)
  /\ UNCHANGED <<program, server, at, serving, held, cause, troubles>>

Trouble == troubles < Troubles /\ troubles' = troubles + 1

(* A user ends a client. *)
Interrupt(c) ==
  /\ Trouble
  /\ pc[c] \notin Ended \union {"setup"}
  /\ ClientGoes(c, link[c], {"killed"})
  /\ UNCHANGED <<program, server, at, serving, held, cause>>

----------------------------------------------------------------------------
(* The network. *)

NetworkDoes(c, l) ==
  /\ link[c].open # {}
  /\ link' = [link EXCEPT ![c] = l]
  /\ UNCHANGED <<program, pc, server, at, serving, held, cause>>

NetworkLoses(c) == Trouble /\ ~link[c].lost /\ NetworkDoes(c, Lose(link[c]))
NetworkCuts(c) == Trouble /\ ~link[c].cut /\ NetworkDoes(c, Cut(link[c]))
NetworkFills(c) == Trouble /\ ~link[c].filled /\ NetworkDoes(c, Fill(link[c]))
NetworkDrains(c) ==
  link[c].full /\ NetworkDoes(c, Drain(link[c])) /\ UNCHANGED troubles

PeersNext ==
  \/ ServerStep
  \/ \E c \in Client :
       \/ ClientStep(c) \/ Interrupt(c)
       \/ NetworkLoses(c) \/ NetworkCuts(c) \/ NetworkFills(c) \/ NetworkDrains(c)
=============================================================================
