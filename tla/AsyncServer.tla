---------------------------- MODULE AsyncServer ----------------------------
(***************************************************************************)
(* ssl_handshake_async/ssl_server_async.c: one thread serves all clients   *)
(* from an epoll loop, each by a channel that knows how far its connection *)
(* is and what it is watched for.  A handler runs to its end before the    *)
(* next, so each is one step; the events it is called with were read by    *)
(* epoll_wait, before the other handlers of the round.                     *)
(***************************************************************************)
EXTENDS TlsPeers

VARIABLES
  channel,    \* [Client -> Channel or NoChannel]: create_channel's objects
  ready,      \* activeEvs, the clients' part: the events still to be handled
  listening,  \* activeEvs has the listening socket's event still to be handled
  g_stop      \* SIGINT has come

asyncVars == <<channel, ready, listening, g_stop>>

NoChannel == [tcpConnected |-> FALSE, sslConnected |-> FALSE, events |-> {"none"}]

Channel ==
  [tcpConnected : BOOLEAN, sslConnected : BOOLEAN, events : SUBSET {"in", "out", "err"}]

(* malloc is taken to succeed, as is epoll_ctl, whose failure ends the    *)
(* process.                                                                *)
create_channel ==
  [tcpConnected |-> FALSE, sslConnected |-> FALSE, events |-> {"in", "out"}]

AsyncInit ==
  /\ channel = [c \in Client |-> NoChannel]
  /\ ready = [c \in Client |-> {}]
  /\ listening = FALSE
  /\ g_stop = FALSE

IsAsync == server = "ssl_server_async"

----------------------------------------------------------------------------
initSSL ==
  /\ at = "setup"
  /\ \/ at' = "epoll_wait" /\ UNCHANGED cause
     \/ at' = "ended" /\ cause' = <<"setup", "error">>
  /\ UNCHANGED <<link, held, channel, ready, listening, g_stop>>

(* Errors are reported whether a channel is watched for them or not. *)
EventsOf(c) ==
  LET l == link[c]
      there == (IF Readable(l, "server") THEN {"in"} ELSE {})
                 \union (IF Writable(l) THEN {"out"} ELSE {})
                 \union (IF Broken(l) THEN {"err"} ELSE {})
  IN  IF channel[c] = NoChannel THEN {}
      ELSE there \intersect (channel[c].events \union {"err"})

epoll_wait ==
  /\ at = "epoll_wait"
  /\ ~g_stop
  /\ Waiting # {} \/ \E c \in Client : EventsOf(c) # {}
  /\ ready' = [c \in Client |-> EventsOf(c)]
  /\ listening' = (Waiting # {})
  /\ at' = "handle"
  /\ UNCHANGED <<link, held, cause, channel, g_stop>>

NextRound ==
  /\ at = "handle"
  /\ ~listening
  /\ \A c \in Client : ready[c] = {}
  /\ at' = "epoll_wait"
  /\ UNCHANGED <<link, held, cause, channel, ready, listening, g_stop>>

(***************************************************************************)
(* The loop of handleAccept; getpeername fails when a RST has come.        *)
(* accept ends the loop when nobody waits; that it may fail otherwise, for *)
(* want of descriptors or memory, is left out.                             *)
(***************************************************************************)
handleAccept ==
  /\ at = "handle"
  /\ listening
  /\ \/ /\ Waiting = {}
        /\ listening' = FALSE
        /\ UNCHANGED <<held, channel>>
     \/ /\ \E c \in Waiting :
             /\ held' = held \union {c}
             /\ channel' = IF link[c].reset THEN channel
                           ELSE [channel EXCEPT ![c] = create_channel]
        /\ UNCHANGED listening
  /\ UNCHANGED <<link, at, cause, ready, g_stop>>

----------------------------------------------------------------------------
(* Mutant: the channel is freed and its descriptor is left. *)
FreeOnly(c, l) ==
  /\ link' = [link EXCEPT ![c] = l]
  /\ channel' = [channel EXCEPT ![c] = NoChannel]
  /\ UNCHANGED <<held, at, cause>>

(* The socket is closed first, so that SSL_shutdown finds it closed. *)
destroy_channel(c, l) ==
  /\ link' = [link EXCEPT ![c] = Close(l, "server")]
  /\ held' = held \ {c}
  /\ channel' = [channel EXCEPT ![c] = NoChannel]
  /\ UNCHANGED <<at, cause>>

(* SIGPIPE, which the server does not ignore. *)
Killed ==
  /\ at' = "killed"
  /\ cause' = <<"handle", "reset">>
  /\ held' = {}
  /\ link' = CloseAll(link)
  /\ channel' = [c \in Client |-> NoChannel]

(* Mutant: a handshake that waits to read keeps its channel as it is. *)
WantsOnlyToWrite(events, l) ==
  IF Writing(l, "server") THEN (events \union {"out"}) \ {"in"} ELSE events \ {"in", "out"}

(* What a channel is watched for while its handshake waits. *)
Wants(events, l) ==
  IF Writing(l, "server") THEN (events \union {"out"}) \ {"in"}
  ELSE (events \union {"in"}) \ {"out"}

poll_fails(c) == ~channel[c].tcpConnected /\ (~Writable(link[c]) \/ Broken(link[c]))

TcpConnected(c) ==
  IF channel[c].tcpConnected THEN channel[c]
  ELSE [channel[c] EXCEPT !.tcpConnected = TRUE, !.events = {"in", "out", "err"}]

Keep(c, l, ch) ==
  /\ link' = [link EXCEPT ![c] = l]
  /\ channel' = [channel EXCEPT ![c] = ch]
  /\ UNCHANGED <<held, at, cause>>

do_handshake(c) ==
  \E r \in Handshake(link[c], "server") :
    \/ /\ r.out = "ok"
       /\ Keep(c, r.link, [TcpConnected(c) EXCEPT !.sslConnected = TRUE])
    \/ /\ r.out = "again"
       /\ Keep(c, r.link, [TcpConnected(c) EXCEPT !.events = Wants(@, r.link)])
    \/ /\ r.out \notin {"ok", "again"}
       /\ destroy_channel(c, r.link)

handleHandshake(c) ==
  IF poll_fails(c) THEN destroy_channel(c, link[c]) ELSE do_handshake(c)

handleDataRead(c) ==
  \E r \in {Read(link[c], "server")} :
    \/ /\ r.out = "ok"
       /\ \E w \in {Write(r.link, "server", "response")} :
            destroy_channel(c, w.link) \/ (w.out = "reset" /\ Killed)
    \/ /\ r.out = "again"
       /\ Keep(c, r.link, channel[c])
    \/ /\ r.out \notin {"ok", "again"}
       /\ destroy_channel(c, r.link)

handleRead(c) ==
  IF channel[c].sslConnected THEN handleDataRead(c) ELSE handleHandshake(c)

handleWrite(c) ==
  IF channel[c].sslConnected
    THEN Keep(c, link[c], [channel[c] EXCEPT !.events = @ \ {"out"}])
    ELSE handleHandshake(c)

Handle(c) ==
  /\ at = "handle"
  /\ ready[c] # {}
  /\ IF ready[c] \intersect {"in", "err"} # {} THEN handleRead(c) ELSE handleWrite(c)
  /\ ready' = [ready EXCEPT ![c] = {}]
  /\ UNCHANGED <<listening, g_stop>>

----------------------------------------------------------------------------
handleInterrupt ==
  /\ at \notin Ended \union {"setup"}
  /\ ~g_stop
  /\ g_stop' = TRUE
  /\ UNCHANGED <<link, at, held, cause, channel, ready, listening>>

(* The process ends; nothing that was accepted is closed before. *)
Stop ==
  /\ at = "epoll_wait"
  /\ g_stop
  /\ at' = "ended"
  /\ cause' = <<"epoll_wait", "ok">>
  /\ held' = {}
  /\ link' = CloseAll(link)
  /\ channel' = [c \in Client |-> NoChannel]
  /\ UNCHANGED <<ready, listening, g_stop>>

AsyncLoop ==
  \/ initSSL \/ epoll_wait \/ NextRound \/ handleAccept \/ Stop
  \/ \E c \in Client : Handle(c)

AsyncStep ==
  /\ IsAsync
  /\ AsyncLoop \/ handleInterrupt
  /\ UNCHANGED <<program, pc, server, serving, troubles>>
============================================================================
