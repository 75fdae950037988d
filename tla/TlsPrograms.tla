---------------------------- MODULE TlsPrograms ----------------------------
(***************************************************************************)
(* The TLS samples that serve or make one connection at a time, as tables: *)
(* each label of a program has the call made there and, for each outcome   *)
(* of the call, the labels the program may go to.  A call whose outcome is *)
(* "again" is repeated unless the table says otherwise.  Two labels behind *)
(* an outcome are two versions of the OpenSSL library, or a signal that    *)
(* the program does not ignore.  At "ended" and "killed" nothing is left   *)
(* of the process.                                                         *)
(***************************************************************************)
EXTENDS TlsLink

Do(call, to) == [call |-> call, to |-> to]

Always(l) == [out \in Outcome \ {"again"} |-> {l}]

But(out, labels) == [o \in {out} |-> labels]

(* The entries of f, and those of g that f has not. *)
f ++ g ==
  [x \in DOMAIN f \union DOMAIN g |-> IF x \in DOMAIN f THEN f[x] ELSE g[x]]

Ended == {"ended", "killed"}

(* Where a program at l goes with an outcome. *)
After(row, l, out) == IF out \in DOMAIN row.to THEN row.to[out] ELSE {l}

----------------------------------------------------------------------------
(* mbedtls_ssl_hello/tls_server.c *)

tls_server_setup ==
  [ setup |-> Do("setup", But("ok", {"reset"}) ++ Always("ended")) ]

tls_server_accept ==
  [ reset     |-> Do("close", Always("accept")),
    accept    |-> Do("accept", But("ok", {"handshake"}) ++ Always("ended")),
    handshake |-> Do("handshake", But("ok", {"read"}) ++ Always("reset")) ]

(* Mutant: only a request is answered, and anything else ends the server. *)
ReadOrExit ==
  [ read |-> Do("read", But("ok", {"write"}) ++ Always("ended")) ]

(* Whatever reading gives, a response is written. *)
tls_server_read ==
  [ read |-> Do("read", Always("write")) ]

tls_server_write ==
  [ write  |-> Do("response",
                    But("ok", {"notify"}) ++ But("reset", {"reset"}) ++ Always("ended")),
    notify |-> Do("notify", Always("reset")) ]

tls_server ==
  tls_server_setup ++ tls_server_accept ++ tls_server_read ++ tls_server_write

(* mbedtls_ssl_hello/tls_client.c *)

tls_client_setup ==
  [ setup   |-> Do("setup", But("ok", {"connect"}) ++ Always("ended")),
    connect |-> Do("connect", But("ok", {"handshake"}) ++ Always("ended")) ]

tls_client_request ==
  [ handshake |-> Do("handshake", But("ok", {"write"}) ++ Always("ended")),
    write     |-> Do("request", But("ok", {"read"}) ++ Always("ended")) ]

tls_client_read ==
  [ read |-> Do("read", But("ok", {"read"}) ++ Always("notify")) ]

tls_client_end ==
  [ notify |-> Do("notify", Always("ended")) ]

tls_client ==
  tls_client_setup ++ tls_client_request ++ tls_client_read ++ tls_client_end

----------------------------------------------------------------------------
(* openssl_ssl_hello/tls_server_one-way.c, and two-way with its own lines. *)

one_way_server_setup ==
  [ setup |-> Do("setup", But("ok", {"accept"}) ++ Always("ended")) ]

(***************************************************************************)
(* Only -1 of SSL_accept is looked for, and it ends the server; an end of  *)
(* file is 0 or -1, with the library's version.                            *)
(***************************************************************************)
one_way_server_accept ==
  [ accept    |-> Do("accept", But("ok", {"handshake"}) ++ Always("ended")),
    handshake |-> Do("handshake",
                       But("ok", {"write"}) ++ But("eof", {"write", "ended"})
                         ++ Always("ended")) ]

one_way_server_talk ==
  [ write  |-> Do("response",
                    But("ok", {"read"}) ++ But("reset", {"finish", "killed"}) ++ Always("finish")),
    read   |-> Do("read", Always("finish")) ]

(* Mutant: after the finish label the socket is not closed. *)
FinishOnly ==
  [ finish |-> Do("notify", But("reset", {"accept", "killed"}) ++ Always("accept")) ]

one_way_server_finish ==
  [ finish |-> Do("notify", But("reset", {"close", "killed"}) ++ Always("close")),
    close  |-> Do("close", Always("accept")) ]

one_way_server ==
  one_way_server_setup ++ one_way_server_accept ++ one_way_server_talk
    ++ one_way_server_finish

two_way_server_accept == one_way_server_accept
two_way_server_talk == one_way_server_talk ++ one_way_server_finish

two_way_server == one_way_server_setup ++ two_way_server_accept ++ two_way_server_talk

(***************************************************************************)
(* openssl_ssl_hello/tls_client_one-way.c and two-way.  When the CA file   *)
(* or a key cannot be loaded the context is freed and used all the same.   *)
(***************************************************************************)
one_way_client_setup ==
  [ setup   |-> Do("setup", But("error", {"connect", "killed"}) ++ Always("connect")),
    connect |-> Do("connect", But("ok", {"handshake"}) ++ Always("ended")) ]

one_way_client_talk ==
  [ handshake |-> Do("handshake", Always("read")),
    read      |-> Do("read", But("ok", {"write"}) ++ Always("finish")),
    write     |-> Do("request", But("reset", {"finish", "killed"}) ++ Always("finish")),
    finish    |-> Do("notify", But("reset", {"ended", "killed"}) ++ Always("ended")) ]

one_way_client == one_way_client_setup ++ one_way_client_talk

two_way_client_setup == one_way_client_setup
two_way_client_talk == one_way_client_talk

two_way_client == two_way_client_setup ++ two_way_client_talk

----------------------------------------------------------------------------
(* openssl_ssl_hello/tcp_server.c and tcp_client.c, without TLS. *)

(***************************************************************************)
(* buff[n] = 0 is before the buffer when recv has failed, and behind it    *)
(* when a stranger has filled it ("error" stands for his bytes): the       *)
(* process goes on, or a signal ends it.  tcp_client sends a byte less.    *)
(***************************************************************************)
tcp_server ==
  [ setup  |-> Do("setup", But("ok", {"accept"}) ++ Always("ended")),
    accept |-> Do("accept", But("ok", {"read"}) ++ Always("accept")),
    read   |-> Do("read", But("error", {"close", "killed"}) ++ But("reset", {"close", "killed"})
                            ++ Always("close")),
    close  |-> Do("close", Always("accept")) ]

tcp_client ==
  [ setup   |-> Do("setup", But("ok", {"connect"}) ++ Always("ended")),
    connect |-> Do("connect", But("ok", {"write"}) ++ Always("ended")),
    write   |-> Do("request", But("reset", {"ended", "killed"}) ++ Always("ended")) ]

----------------------------------------------------------------------------
(***************************************************************************)
(* ssl_handshake_async/ssl_client_async.c.  tcpConnect takes a connection  *)
(* that is made at once for an error, and one that is refused for one that *)
(* is in progress.                                                         *)
(***************************************************************************)
async_client_connect ==
  [ setup   |-> Do("setup", But("ok", {"connect"}) ++ Always("ended")),
    connect |-> Do("connect", But("ok", {"ended"}) ++ But("again", {"handshake"})
                                  ++ Always("handshake")) ]

async_client_handshake ==
  [ handshake |-> Do("handshake", But("ok", {"write"}) ++ Always("ended")) ]

(* sslWrite must be done in one call. *)
async_client_write ==
  [ write |-> Do("request", But("ok", {"read"}) ++ But("again", {"ended"}) ++ Always("ended")) ]

(* sslRead reads to the end; an end without close_notify is 0 or -1. *)
async_client_read ==
  [ read |-> Do("read", But("ok", {"read"}) ++ But("notify", {"finish"})
                         ++ But("eof", {"finish", "ended"}) ++ Always("ended")) ]

async_client_end ==
  [ finish |-> Do("notify", But("again", {"ended"}) ++ Always("ended")) ]

ssl_client_async ==
  async_client_connect ++ async_client_handshake ++ async_client_write
    ++ async_client_read ++ async_client_end

----------------------------------------------------------------------------
(* Somebody who connects, speaks no TLS or nothing at all, and may abort. *)
stranger ==
  [ setup   |-> Do("setup", Always("connect")),
    connect |-> Do("connect", But("ok", {"babble", "sit"}) ++ Always("ended")),
    babble  |-> Do("babble", Always("sit")),
    sit     |-> Do("abort", Always("ended")) ]

Program ==
  [ tls_server |-> tls_server, tls_client |-> tls_client,
    one_way_server |-> one_way_server, one_way_client |-> one_way_client,
    two_way_server |-> two_way_server, two_way_client |-> two_way_client,
    tcp_server |-> tcp_server, tcp_client |-> tcp_client,
    ssl_client_async |-> ssl_client_async, stranger |-> stranger ]
============================================================================
