# Verification of playground-mqtt

The repository collects programs written on the way to an MQTT client in C: the
heap tracker, tree, list, log and thread files of Eclipse Paho with a main that
exercises them, libuv servers and clients, OpenSSL and mbedTLS handshakes, an
HTTP client and two Paho clients. The programs do not call one another; each is
a system of its own. This project models those that keep state worth a proof, in
TLA+, checks them with TLC and proves theorems about them with TLAPS.

All paths below are relative to `src/examples/`. A module is named after the
file or the part it models, and its definitions after the C functions.

## Inventory

### paho_heap_test: the heap tracker and what it stands on

| Part | State | Operations | Who calls it |
|---|---|---|---|
| `Tree.c` | nodes with parent, two children, colour, content, size; `count`, `size` | `TreeAdd`, `TreeFind`, `TreeRemove`, `TreeRemoveKey`, `TreeNextElement` | `Heap.c` |
| `LinkedList.c` | elements with `prev` and `next`, `first`, `last`, the cursor `current`, `count`, `size` | append, insert, find, remove, detach, unlink, pop, walk | only its own test here |
| `Heap.c` | the tree of records, `heap_info` with two totals, `heap_mutex` | `mymalloc`, `myfree`, `myrealloc`, `Heap_unlink`, `Heap_findItem`, `Heap_terminate` | every `malloc` and `free` of a file that includes `Heap.h` |
| `StackTrace.c` | a table of call stacks, the pointer `my_thread`, `stack_mutex` | `FUNC_ENTRY`, `FUNC_EXIT` | every function with trace points |
| `Log.c` | the ring `trace_queue` with two indexes, trace file, level, callback, `log_mutex` | `Log`, `Log_stackTrace`, `Log_initialize`, `Log_terminate` | all of them |
| `Thread.c` | none of its own | mutexes, semaphores, conditions | all of them |
| `Messages.c`, `OsWrapper.c`, `paho_heap_test.c` | constant tables; nothing; a straight line of calls | | |

Interactions: `Heap.c` calls `Tree.c` and `Log.c` while it holds `heap_mutex`;
`StackTrace.c` calls `Log.c` while it holds `stack_mutex`; `Log.c` takes
`log_mutex` last. What is hard: the rebalancing of the tree; one tree, two totals
and the C library's own blocks that must agree across failing allocations and two
threads; a global `my_thread` that stands for whichever thread holds the mutex; a
ring whose two indexes meet both when it is empty and when it is full.

What makes them correct: the tree is an ordered map; the list is a sequence with a
cursor; the table of allocations changes once for each call and agrees with the
blocks in use; nothing is freed twice; every call returns; the stacks follow the
calls; the ring holds the last entries; the three mutexes are never waited for in
a circle.

### libuv_isprime_server

State: for each client a `uv_tcp_t` and a `peer_state_t` with the number and the
buffer of the answer; `uv_work_t`s in libuv's pool; `uv_write_t`s in its queue.
Operations: the callbacks of the loop (connect, read, close, work completed, sent)
and the function a pool thread runs. What is hard: loop, pool and write queue use
the peer state at the same time with no lock, and the loop frees it when the
client leaves. Correct means: each number gets its own answer, whole, once; the
state is there as long as something points to it; a request is answered. The second
holds only for connections that last until their answers, and of the first, that the answer
is the number's own, only for clients that wait for it, too (What was found).

### mbedtls_http_client, libuv_http_client: two copies of one HTTP client

| Part | State | Operations |
|---|---|---|
| connection | `url` (scheme, host, port, path it is kept for), `tls.ssl_fd`, the TLS contexts | connect, reuse or reconnect, write, read, close |
| request | `request` | `http_get`, `http_post`; `http_open`, `http_write_header`, `http_write`, `http_write_end`, `http_read_chunked` |
| parser | `response`, `header_end`, `length`, `r_buf`, `r_len`, the caller's buffer | `http_parse` after each read, `http_header` for each line |

Interactions: a call sends a request to a server and parses what comes back piece
by piece, then keeps the connection in the handle for the next call. What is hard:
a read may end anywhere, between CR and LF too; the connection may be closed by the
server while it is kept; a dozen error paths close it themselves; fields of one
response live on in the handle when the next begins. Correct means: the body is the
one sent, however it is cut; a request goes to the server of its URL; a kept
connection has nothing left in it; no socket is lost; every call returns.

### libuv_http_client/http-parser: the HTTP parser

A copy of the parser of the Node.js project, which nothing here calls. State: the
automaton's `state` and `header_state`, `index` in the word that is matched,
`flags`, `content_length`, `nread`, and what is known of the message (method,
status, version, upgrade). Operations: `http_parser_init`, `http_parser_execute` for
each buffer, `http_parser_pause`, and the callbacks to the user in between. What is
hard: a buffer may end inside anything; the user may pause, fail or skip in any
callback; where a message ends follows from half a dozen fields together; fields of
one message are still there when the next begins. Correct means: the user can put
every element together again, whole and once; parser and peer agree where each
message ends; what must not be accepted is not, and nothing else is refused.

### ssl_handshake_async, openssl_ssl_hello, mbedtls_ssl_hello: TLS servers and clients

| Part | State | Operations |
|---|---|---|
| `ssl_server_async.c` | epoll set; a channel for each connection with `tcpConnected_`, `sslConnected_`, the events it is watched for | `handleAccept`, `handleRead`, `handleWrite`, `handleHandshake`, `handleDataRead` |
| `tls_server.c`, `tls_server_one-way.c`, `tls_server_two-way.c`, `tcp_server.c` | one connection at a time | accept, handshake, read, write, close, and around again |
| the clients of the three directories | one connection | connect, handshake, verify, write, read, close |

What is hard: an event that was read for a channel which an earlier handler has
deleted; a handshake that wants to write while the channel is watched for reading; a
flight that is cut; a peer that is reset at any call; what one client's failure does
to the others. Correct means: every descriptor is watched or closed; nobody but the
operator ends a server; every client comes to its end.

### openssl_bio_hello

State: two memory BIOs, buffers for bytes still to encrypt and still to send, one
socket that blocks. Operations: a poll loop over keyboard and socket. What is hard:
output of the handshake is only carried to the socket in certain branches; the struct
is used again for the next connection; both programs may be in `write` at once.
Correct means: what is typed is printed at the other side, once, in order, in the end.

### paho_client, paho_tls_client

State: `subscribed`, `finished`, `disc_finished`, shared by main and the callbacks
that the library's threads run. What is hard: main waits for flags that some
outcomes never set; a connection can be lost and made anew by the library or by the
program at any time, and the broker forgets the subscription with it. Correct means:
a connected client is subscribed; whoever types Q gets out.

### The rest

`libuv_echo_hello`, `libuv_dns_hello`, `libuv_from_scratch` and `libuv_loop_hello`
are first steps with libuv. `mbedtls_crypto_hello` is Base64 in two alphabets and a
test of AES-GCM. `mbedtls_ssl_hello` also has `tls_client2.c` and the generated
`query_config.c` of the mbedTLS distribution. `src/material` and the build files hold
no state.

## Modules

| Module | What it is |
|---|---|
| `Tree` | `Tree.c`: nodes as functions from addresses to fields, one assignment of the C code for each EXCEPT |
| `OrderedMap` | what a tree promises: a set of contents, one for each key |
| `Heap` | `Heap.c` by several threads, each call a sequence of steps between the calls of the C library |
| `AllocationTable` | what the tracker promises: one table that each call changes at one moment |
| `LinkedList` | `LinkedList.c`: elements as records with `prev` and `next` |
| `CursorList` | what a list promises: a sequence with a cursor |
| `Trace` | `StackTrace.c` and `Log.c` together, by several threads, with the three mutexes |
| `RecentTrace` | what the ring promises: the last entries in order |
| `IsPrimeServer` | `isprime_server.c` with the libuv loop, pool and write queue around it |
| `HttpMessage` | a response as tokens, and the string functions the client reads it with |
| `HttpClient` | `http_client.c`: one handle, its connection, requests in both ways, `http_parse` |
| `HttpWire` | messages as bytes, and what they mean when each line is read as a whole |
| `HttpParser` | `http_parser.c`: one pass of the switch for each byte, calls, callbacks, pauses |
| `HttpCallbacks` | what a user of the parser may rely on: the order of callbacks and the bytes of body |
| `TlsLink` | TCP connections and the TLS library, both external: flights, outcomes of calls |
| `TlsPrograms` | the programs with one connection at a time, as tables of calls |
| `TlsPeers` | a sequential server and its clients as processes over links (extends `TlsPrograms`) |
| `AsyncServer` | `ssl_server_async.c`: channels, epoll rounds, handlers (extends `TlsPeers`) |
| `BioPeers` | the two programs of `openssl_bio_hello` and the wire between them |
| `TlsSamples` | all of the TLS programs together, with their fairness and properties |
| `PahoClient` | main and callbacks of the three MQTT programs, and the library as they use it |
| `HeapProofs`, `ListProofs`, `TraceProofs`, `HttpProofs`, `HttpParserProofs`, `PrimeProofs`, `PahoProofs`, `TlsProofs` | theorems |
| `MCTree`, `MCHeap`, `MCLinkedList`, `MCTrace`, `MCIsPrimeServer`, `MCHttpClient`, `MCHttpParser`, `MCTlsSamples`, `MCPahoClient` | instances for TLC |

How state and actions correspond:

**Tree.** The variable `tree` is the struct `Tree` and its nodes; `rc` is what the
last call returned. Each call is one action, because `Tree.c` has no concurrency of
its own. `TreeRotate`, `TreeBAASub`, `TreeBARSub` and the removal of a node with the
successor's content are operators from a tree to a tree, and the loops of
`TreeBalanceAfterAdd` and `TreeBalanceAfterRemove` are recursive functions. The
dummy node on the stack of `TreeRemoveNodeIndex` is `Temp`. Left out: the second
index (`TreeAddIndex`), which nothing uses.

**Heap.** `record` is the tree seen as the map that `Tree` implements; `block` is
what the C library has handed out. A thread's `pc` names the part of the function
it is in, `call` its locals. The three `malloc`s of `mymalloc` fail together in
`MallocFails`, since each of them returns with the mutex held. `free(NULL)` only
logs. The eyecatchers are left out: nothing in the program writes beyond a block.
Two more calls of the C library are taken to succeed, because the code does not look at
what they return and would crash with the mutex held: the node of `TreeAdd`
(`Tree.c:248`) and the new file name in `myrealloc` (`Heap.c:336`). `Heap_findItem` and
`mymalloc` read a node and a record once more after the unlock (`Heap.c:361`, 205); the
model ends with the unlock, so what another thread may do to them there is not seen.

**LinkedList.** One action for each function. The `value` callback is `ValueOf`.

**Trace.** A call goes through `pc` from its entry to the unlock; `call[t].then`
is where a call of `Log` or `Log_stackTrace` goes back to. `inside` is a history
variable: the functions a thread is in, which the C code does not know. The level
filter always passes with the default `TRACE_MINIMUM`. `Log_initialize` and
`Log_terminate` run when no call is under way, as in `paho_heap_test.c`. Left out:
the trace file and its rotation, time stamps, formatting.

**IsPrimeServer.** Callbacks of the loop are actions. `on_work_submitted` runs in
a pool thread and is three: it reads the number and tests it, copies the text, and
sets the length. `Send` is the moment the socket takes the bytes, read through the
pointer that `uv_write` has kept. A work whose peer state was freed reads any
number. `uv_write` takes a write into the queue or refuses it, of which the server dies.
The clients in `Eager` send numbers before they have the answers to the earlier ones, and the
connections in `Brief` may end before their answers, by a close of the client's or by a reset or
error that the network brings (lines 113 to 117). A connection that is not in `Brief` does not break
either while a number of it is in the pool, which no client can promise: the run with
`Brief = {}` says what the server does as long as the network is kind, and `MCIsPrimeHasty` what
happens when it is not.

**HttpClient.** A header line, a chunk size and a byte of the body are a token
each, CR and LF two more, and a read takes any number of tokens. `r_buf` is what is
read and not yet parsed: the pointer `p1` and the copying of the rest to the start
of the buffer are one thing. Behind what was read the code writes a zero (`Terminate`,
line 796; 951 and 1237 are the same). When a read has filled `r_buf` this zero is one byte
behind it (`http_client.h:61`), the lowest byte of `r_len`, which holds 2048 at that moment, so
the byte was zero already; `ReadSize % Byte = 0` is that fact. When nothing is parsed of a
full buffer, `http_parse` writes the same zero to the same place again (260, 297). `past` is a
history variable: how far the last writes to `r_buf` and to the caller's buffer went past
their ends. A failed call writes a text there, of up to 256 bytes whatever the buffer's size
(`ErrorText`; 714, 735, 757, 785 and the same in `http_post`); the calls of a request in pieces
return a number only. The programs here pass 4096 bytes. Each round of the loop of `http_parse` is an action
(`HeaderLine`, `HeaderEnd`, `SizeLine`, `Beyond`, `Within`, `BodyEnd`, `ChunkEnd`,
`LineDue` when more must be read). `Begin`, `Reuse`, `Reconnect`, `ConnectFails`
are the start of `http_get`, `http_post` and `http_open`, which is the same in all
three; `http_post` differs from `http_get` only in what it sends. A line read
from the wrong place is read as the code would: `strtol` skips white space and takes
the C of `Content-Length` for a digit. `asked` says that at least one whole request
waits for an answer. `stale` is a history variable: the connection was reused with
tokens of an earlier response in it. Left out: the TLS contexts beside the
connection, the fields cookie, location, referrer, the request's text, and a
response with neither length nor chunks whose body ends with the connection (below).

**HttpParser.** `parser` has the fields of the struct; `call` is what is local to a
call of `http_parser_execute`. A pass of the switch for one byte is one action, and
`Execute` and `Cut` begin and end a call, so that a buffer can end behind any byte; the
loops that run ahead over a name, a value or a body are the same passes. A callback
is part of the pass, and its answer (go on, fail, pause, or what
`on_headers_complete` may return) a choice. `user` is what the user has put together,
and the peer's intent comes from `HttpWire`, which reads every line as a whole. A
word is spelled with two letters and numbers with the digits 0 to 2, so 1xx, 204 and
304 are codes 1 and 2, and `ULLONG_MAX` is 32. The tables of names, `http_parser_parse_url`
and the method SOURCE with its `ICE/1.0` are left out.

**TlsLink, TlsPrograms, TlsPeers.** A handshake is three or four flights, the odd ones
the client's: with TLS 1.2 the server's fourth is waited for, with TLS 1.3 the server's
last are session tickets which the client's reads skip. A call of the library takes a
connection to the connections it may leave, with an outcome (`ok`, `again`, `notify`,
`eof`, `reset`, `error`). A program is a table: the call at each label and the labels
each outcome leads to; the C source's loops, early exits and gotos are those rows. Two
labels behind one outcome are either the two results that OpenSSL versions give (the
result of `SSL_accept` at an end of file is 0 or -1) or the death by SIGPIPE of a
program that does not ignore it. The OpenSSL clients that fail to load their
certificates free the context and go on, and `tcp_server` writes `buff[n]` before its buffer
when `recv` has failed and behind it when a client has filled it (`tcp_server.c:45-46`); what
that undefined behaviour does is a choice between dying and going on. `cause` is a history variable, with which a
property can say what ended a server.

**AsyncServer.** `create_channel`, the handlers and `delete_channel` are one step per
event; `ready` holds the events that `epoll_wait` has returned and no handler has seen. They
are taken in any order: the loop takes them from the back of an array whose order is the
kernel's, so the model has every order it may have, and more. A round is one call of
`epoll_wait`; that it returns at most 20 events is left out. `getpeername` fails for a connection that was
reset before it was accepted. The response's `SSL_write` has its result ignored, and
`destroy_channel` closes the descriptor before `SSL_shutdown`, so no notify is sent.

**BioPeers.** `rbio`, `wbio`, `write_buf`, `encrypt_buf` are the struct's; a message is
two pieces, which a read may part. A stage of the loop (`poll`, `read`, `write`,
`stdin`) is an action. The buffers keep their bytes when a connection ends, as the code
does. A write on a connection that was reset fails, or raises SIGPIPE, which neither program
ignores (`LeaveFor`). The client may also be `bio_tcp_client`, which speaks no TLS to the same port.

**PahoClient.** `main` is where main is. A callback is one step, as it calls nothing
that waits. The library is external (Paho 1.3.0, `third_party/CMakeLists.txt`):
`onSuccess` and `onFailure` of a connect are called once, for the program's own
connect and not for the library's automatic one; `connected`, where it is set, for
each; what was asked for on a lost connection fails before `connlost`; whether a failed
first connect is tried again is left open. `paho_async_origin.c` uses `disc_opts`
without a declaration (lines 154 and 155) and is modelled as if it had one.

## Runs

| Run | Bound | States | What it shows |
|---|---|---|---|
| `MCTree` | 8 keys and nodes; 5 keys once a key is added again, of which 2, 3 and 5 have two contents | 16,632 | `SearchTree`, `RedBlack`, `CountsAgree` after every call, and `ImplementsMap` |
| `MCTreeReaddColours` | 6 keys, added again | | violated: see below |
| `MCHeap` | 2 threads, 2 addresses, sizes 16 and 17, failing `malloc` and `realloc` | 281,761 | records and blocks, single free, totals, no lost block, `ImplementsTable`, and calls that return while memory lasts |
| `MCHeapNoMemory` | 2 threads, 1 address, failing `malloc` | | violated: see below |
| `MCLinkedList` | 4 contents, 4 elements | 8,968 | links agree in both directions, the cursor is never dangling, `ImplementsSequence` |
| `MCTrace` | 2 threads, 2 functions, nesting 2, thread table of 1, ring of 2 | 240,434 | own stacks, order of the mutexes, `ImplementsRecent` |
| `MCIsPrimeServer` | 2 clients, one that waits for its answers and one that sends 2 numbers at once, 2 numbers each of {4, 7, 49, 53}, pool of 2, 6 bits | 414,118 | right answers to the one that waits, `OneAnswerEach`, state outlives work, `Answered` |
| `MCIsPrimeHasty` | 2 clients that wait, {4, 7}, connections that end before the answer | | violated: see below |
| `MCHttpClient` | 3 URLs, 4 replies, reads of up to 4 tokens, body buffer of 3, error texts of 4 | 580,434 | bodies are prefixes and whole, what goes past a buffer, framing, kept connections, right servers, no socket lost, `CallReturns` |
| `MCHttpParser` | 2 messages, 2 header lines, 1 chunk before the last, 1 pause, head limit 36 | 824,500 | `ElementsWhole`, `InStep`, `StopsAtTheBad`, `HeadBounded`, `AssertsHold`, `ImplementsCallbacks` |
| `MCTlsSamples` | 5 servers, 2 clients, 3 and 4 flights, 1 trouble; the BIO pair with 2 connections, 2 lines, pipes of 1 piece | 255,301 | `NoDescriptorLost`, `ServerOutlivesClients`, `EveryClientEnds`; `NothingLost`, `LinesArrive` |
| `MCPahoClient` | no bound: the state is finite | 212 | `SubscriptionKept`, `QuitsOnQ` |

Why the bounds are enough. A deletion from a red-black tree of black height three
meets every case of `TreeBARSub` on both sides, and eight nodes give that height;
views compare trees without their addresses, which the code only compares for
equality. Two threads give every conflict over one mutex, two addresses a block
that is freed and handed out again while the other is used, 16 and 17 a size that
`Heap_roundup` keeps and one it does not. A ring of two has an empty, a half full,
a full and a wrapped state, and a thread table of one leaves the second thread
without an entry. Two
numbers of one client and one of the other make a number wait for a thread of a pool of two, and
two of one client be tested at once. With 6 bits the square of 9, the
first odd root above 53, wraps around, and the test of 53 goes on with wrapped products to one that
is above it (121 is 57). 57 is the largest odd square modulo 64, so the test of 59 and 61 would only
stop at the number itself and call it composite; they have no like among 64 bits, where the largest
is 2^64 - 7 and no prime is above it. The bounds on counters are named in the
modules: `MaxNest`, `MaxRequests`, `MaxSize` of `LinkedList`, `MaxBody` and `MaxLeft`
of `HttpClient`, the `Max...` of `HttpParser`, `Troubles` of `TlsPeers`, and `Lines`,
`Capacity` and `Runs` of `BioPeers`.

The replies of `MCHttpClient` are a body with a length that takes one read or
several, an empty body with `Connection: close`, two chunks that are longer together
than the caller's buffer, and a header line longer than the read buffer. `ErrorSize`
is one more than that buffer, and `Byte` is the read buffer's size, as 256 divides 2048. Two URLs
differ in the length of the path, the third in scheme and port. `MaxLeft` stops a
server from adding answers to a connection that has more than the end of a chunked
response left in it; without it, answers nobody reads would pile up. `MCHttpClient`
has a VIEW that leaves out fields the next call clears before it uses them.

The lines of `MCHttpParser` are a menu: lengths that are right, empty, too large,
folded and with bytes behind them; codings; each token of Connection, alone, in a list
and cut short; names that only begin like a known one; bad bytes in each. A head is
limited to 36 bytes, which some of the menus pass. The second message is a plain one,
as it meets what the first has left. Not in the menus: a token that is a prefix of a
known one with a comma behind it (`c, close`), and values whose first byte is bad,
which the code does not look at.

Two clients let one be served, queued or cut off while the other is; one trouble is
a connection lost, cut short, or filled up at any moment of a run, or a signal to the
epoll server. In `BioPeers` pipes of one piece make both programs stand in `write` with
two lines, and two connections show what the first has left behind.

The heap, server, parser, TLS and MQTT runs say `CHECK_DEADLOCK FALSE`: after a failed
`malloc` the mutex stays locked, a server that has died stays dead, a connection and a
program end.

### Fairness

`Heap!FairSpec`: each thread goes on (`WF` of its step), and the mutex is given to
a thread that asks for it again and again (`SF` of `Lock`), as the schedulers this
code runs on do in practice. It is not stronger than needed: with `WF` on `Lock`
one thread could be passed over for ever. `IsPrimeServer!FairSpec`: the loop
runs completed work, the pool takes queued work and finishes it, and a socket whose
client reads takes the bytes. Nothing makes clients send, leave or fail.
`HttpClient!FairSpec`: the thread goes on inside a call, and a read with nothing to
read ends after the five seconds of `https_read` (`http_client.c:595` and `670`), as
connecting does. Nothing makes the server answer. Writing has no timeout in the
code; the requests are taken to fit into the socket's buffer.
`TlsSamples!FairSpec`: the process of a server and of every client of the samples
runs, the kernel delivers what fills a connection up, and both BIO loops run; a call
that blocks is not enabled. Nothing makes a stranger speak or leave, a user type, or a
network fail. `PahoClient!FairSpec`: main's loops look again (`usleep` in them makes
the compiler read the flags again), and the library answers what it was asked for,
with a success or a failure. Nothing makes a connect succeed.

## What was found

- **`Tree.c:265`** (`MCTreeReaddColours`). `TreeAddByIndex` rebalances also when the
  key was there. The node may then be anywhere, and a red node ends up with a red
  child; later removals can lose the equal number of black nodes on all paths too. Every
  key is still found (`ImplementsMap`), and only the bound on the height is lost.
- **`Heap.c:165`** (`MCHeapNoMemory`). `mymalloc` that gets no memory returns with
  `heap_mutex` locked. All later calls wait for ever.
- **`isprime_server.c:57`** (`MCIsPrimeHasty`). A client that leaves, or whose connection
  breaks, while its number is in the pool takes its peer state with it; the pool thread then reads and writes
  freed memory, and the completion writes to a handle that is gone.

Differences that no run is spent on: `ListRemoveHead` always returns 0, where
`LinkedList.c:290` says "1=item removed, 0=item not removed"; the field `size`,
"heap storage used" (`LinkedList.h:73`), only grows until the list is emptied;
`myrealloc(NULL, n)` returns NULL where the C library allocates, and a
failed `realloc` there loses the record of a block that is still in use;
`isprime(1)` is true; a number that
comes before the one sent before it is tested overwrites it (`isprime_server.c:141`), so the second
is answered twice and the first never, and one that comes later overwrites the text of an answer
that is still to be sent (lines 41 and 106): each number gets one text even so (`OneAnswerEach`), but
which one is a race, and `RepliesRight` speaks of the clients that wait;
in `http_client.c` the CR LF behind the last chunk is left in the connection when
it comes with a later read, so the next request on it finds the "header-end"
(line 202) at once and returns status 0, and all later answers are off by one
(`KeptInStep` names this leftover, and `stale` is the premise of the properties of
bodies); a chunk read together with its CR but not its LF ends the response
(line 346) with the status of a success (`WholeResponse` shows it is the only
such case), and the flag `chunked` stays set; a path shorter than the one before on
the same connection keeps the end of the longer one (line 1048,
`RightRequestLine`); a port of five digits loses its last (line 109,
`RightServer`); a body that ends with the connection reads as empty (line 378);
`http_get` does not empty the caller's buffer as `http_post` does (line 928); a response that fills `r_buf` has its
terminating zero written one byte behind it (lines 777 and 796), which does no harm as long as
`r_len` lies there and `H_READ_SIZE` is a multiple of 256 (`WritesWithin` allows this byte and no
other); the text of an error is written up to 256 bytes long into buffers of any `size`
(`WritesWithin`); `paho_heap_test.c` ends the log before the heap, so a leak is reported
to nobody.

In `http_parser.c`: a byte that a pause with `CALLBACK_NOADVANCE` leaves unconsumed is
counted twice, so a head of exactly `max_header_size` bytes that is paused in
`on_headers_complete` is refused with HPE_HEADER_OVERFLOW; a pause in another callback
loses `nread`, so a head can be longer than the limit (`HeadBounded` speaks of calls
without pauses); the bytes of a trailer are counted to the next head.

In `ssl_server_async.c`: when a handshake ends after it has waited to write, the
channel stays watched for writing only and its client is never read from (the
exception `Deaf` of `EveryClientEnds`; without it the run fails); a connection reset
before `accept` leaves a descriptor that nobody watches (line 133). In
`ssl_client_async.c`, `connect` that returns 0 at once is taken for an error, and one
that is refused for connected. The OpenSSL servers of `openssl_ssl_hello` end with the
first failed handshake, and by SIGPIPE with a client that is gone
(`ServerOutlivesClients` lists for each server what ends it); `tls_server.c` ends on a
write error that is not a reset; `tcp_server.c` may die of the byte it writes outside its
buffer when a read fails or fills it (lines 45 and 46). All sequential servers wait for a stranger who
connects and says nothing.

In `openssl_bio_hello/common.h`: the flush behind `SSL_read`, which line 215 explains with
renegotiation, is what sends the last flight of every handshake; two programs that
both write more than the pipes take stand in `write` for ever (`Jammed`).

In the MQTT programs: main waits for `subscribed` for ever after
`onSubscribeFailure`, though `finished` is set, and for `disc_finished` when the
connection is lost during the disconnect, of which no callback tells (both are
exceptions in `QuitsOnQ`); a `finished` from a first, failed subscription makes main
leave at once after a later, good one; `paho_tls_async` loses its subscription when
the library reconnects, since `connlost` has its connect commented out, and its
`onConnectFailure` connects without the TLS options; `paho_async_origin` loses it when
its own `MQTTAsync_connect` does not start and the library reconnects.

## Proofs

`HeapProofs` proves for every set of threads, addresses and sizes, with any
allocations failing: `HeapExclusion` (`OneInside`, that only the holder of the mutex is between lock and unlock), `HeapRecordsLive`
(`RecordsLive`) and `HeapFreedOnce` (`FreedOnce`). The inductive invariant is
`IInv`, the conjunction of these with the types and `LocalsValid`. `RecordsLive`
and `FreedOnce` are not inductive alone: that a call still holds what it saw when
it looked at the tree needs `OneInside`, and what it saw is `LocalsValid`. The
lemma `OthersKept` says once that a step inside disturbs no one else, since
nobody else is inside; then there is one lemma for each action.

The second part goes on from there. `HeapAllBlocksKnown` (`AllBlocksKnown`) says that
every block in use has a record, was unlinked or is in the hands of a call, unless a
failed `realloc` has left the mutex locked; once abandoned, the mutex stays so
(`AbandonedStays`), and a step accounts for its own block while `OtherBlocks` keeps the
rest. `HeapImplementsTable` is the refinement: the tracker with its calls in steps
implements `AllocationTable`, where a call is one step. The invariant it adds is
`Known`: which operation is in which phase, and that what `myrealloc` has taken out has
no record. `SizeIs` says that at most one thread has taken out a given record, so the
table's value, defined with CHOOSE, is that thread's; then `MallocRecords` is an
allocation, `RemoveRecord` and `ReallocFails` a release, `ReallocRecords` a resize, and
every other step a stutter (`QuietSteps`).

`HeapTotalsAgree` (`TotalsAgree`) is about a sum over the records. In `SumInv` the total
is that sum and what the call inside still owes it (`Owed`): `myrealloc` changes
`current_size` before the library call and puts the record back after it, and when the
library fails the mutex is never free again. The sum itself is `MapThenSumSet`, which takes the
elements in the order CHOOSE gives them. That the order does not matter would be an
induction over finite sets; `SmallestSet`, from the well-foundedness of the numbers, gives a
smallest set for which a lemma fails instead, and that set leads to a contradiction
(`TotalAny` and the lemmas before it).

`ListProofs` proves `ListLinksAgree` (`LinksAgree`) and `ListImplementsSequence`
(`ImplementsSequence`) for any contents, sizes and number of elements. The links alone do
not say what a loop visits, so the invariant `LInv` names the sequence that is visited
and says `Chain` of it: each element points to its neighbours in it, it is what is in use,
nothing is in it twice, and the `List` knows its ends, their number and a cursor in it. An
operation then cuts a place out of the chain or puts one in (`Cut`, `Put`), and `FollowGives`
says that a loop along links that make a chain visits the chain, again by a smallest
counterexample. `FoundIs` does the same for the loop of a search, which must be the first
match of `CursorList`. What TLC cannot reach here are lists longer than those of
`MCLinkedList`.

`PrimeProofs` is about any number of clients and of pool threads, on connections that end only
when their numbers are answered (`Brief = {}`); which clients wait for their answers is left open.
`CInv` says that the works of a client are for different ones of its numbers (`Distinct`, `Apart`),
that there are as many as it lacks answers and writes (`Counted`), and that its client is connected as
long as there is one (`Held`). `PrimeOneAnswerEach` (`OneAnswerEach`) and `PrimeStateOutlivesWork`
(`StateOutlivesWork`) follow; without the premise `MCIsPrimeHasty` refutes the second. What is counted
is a set of numbers spread over a queue, a set and another queue, so most of the proof says what a move
from one to the next does to it (`WaysAre`, `MovedCounts`).

`IInv` adds that a client that is not in `Eager` has at most one number more than replies
(`Patient`). By the counts its number is then in one place only, in the queue, with a thread, completed
or in a write, and the client is connected and waiting while it is there (`OneAtATime`, `Alone`).
`PrimeRepliesRight` (`RepliesRight`) is about these clients, whatever the others do. It needs a second
premise, `Fits`: a number has `Width` bits, is not 1, and if it is an odd prime the square of the first
odd number above its root has `Width` bits too. For 1 the program says prime.
For a prime above, the product of `isprime` wraps; `MCIsPrimeServer` has such a one, and it is
answered right, but a proof would have to go through the residues of squares, number by
number. The invariant `AllRight` follows a number from the read to the reply; the arithmetic is
that a composite odd number has an odd divisor up to its root (`SmallDivisor`), so the loop that
stops there misses none. `PrimeBelowSquare` puts the premise in terms of the program: with 2^w = k*k
every number below (k-1)*(k-1) fits (`BelowFits`), that is below (2^32-1)^2 for a `uint64_t`.

`PahoProofs` proves `PahoSubscriptionKept` (`SubscriptionKept`) for runs of any length.
It needs one fact more: in `paho_async_origin` the library connects by itself only
after `finished` was set (`OwnConnects`).

`TraceProofs` proves `TraceLockOrder` (`LockOrder`) for any number of threads. The
invariant `LockInv` says for each place of each call which mutexes are held
(`HoldsExpected`), and that a logging call returns to a place of its own operation
(`Returns`); without the second a thread could come back to StackTrace.c holding
`heap_mutex`. Four lemmas (`Keeps`, `Takes`, `GivesBack`, `OthersReturn`) reduce a
step to what it does to the thread that takes it.

`TraceStackFollows` (`StackFollows`) says that the table follows the functions the
threads are in. It does so with a delay, from FUNC_ENTRY to the push and from FUNC_EXIT to
the pop, so `StackInv` says that the entry of a thread is what it should show at its
place (`Shown`), and that the static pointer `my_thread` is at the entry of whoever holds the
mutex (`Local`); the latter needs `LockInv`. `TraceImplementsRecent` (`ImplementsRecent`) is the
refinement of the ring by the sequence of the last entries, for a ring of any length: the
indexes are taken modulo the length (`Items`), `Log_pretrace` reserves a slot and the fill
that follows is the addition the reader sees, which nothing comes between since
`log_mutex` is held (`OneLogging`).

`HttpProofs` proves `HttpNoLeak` (`NoLeak`) and `HttpRightServer` (`RightServer`)
for all URLs, replies and sizes. Neither is about one call alone: that a reused
connection is to the right server needs that the address in the handle, whenever
there is one, is that of the server it is connected to (`KeptForServer`), and that
address is written at the end of a call by a `strncpy` without a terminator, which
is right because the handle holds no host or the same one (`ConnectedToTarget`,
lemma `OverwriteGives`). `Quiet` and `Closing` say once what a step that leaves the
connection alone, or gives it up, does to the invariant. `HttpRightRequestLine`
(`RightRequestLine`) is about the same `strncpy`, of the path: a request names the path of
its URL, and behind it nothing but the end of a longer path of an earlier one
(`HttpPath`, what the handle holds is always a string).

`HttpReads` is the invariant of reading, `RInv`: unless a connection was taken with something
on it (`stale`), the place of a call and of the parser tells what of the answer has been
read, what is in the buffer, and what is on the wire. In the head, in a body of known
length and at each point of a chunk there is one such statement (`Follows`), always of the form
that the buffer and the wire together are the rest of the answer from here (`Comes`), or a
prefix of it if the server is gone. How the answer was cut into reads is then of no matter:
a read moves a piece from the wire to the buffer (`ReadFollows`), and every step of
`http_parse` takes off the front what the answer has there. From it follow
`HttpBodyIsPrefix` (`BodyIsPrefix`), `HttpWholeResponse` (`WholeResponse`) and
`HttpKeptInStep` (`KeptInStep`), for answers with any number of chunks of any size, any sizes
of the buffers and any sequence of requests on a kept connection. None of the three is
inductive: that a body is whole when the loop says so is known only from what is still to
come. The answer as a sequence of tokens is a `FlattenSeq` over its chunks; that it
continues with the next chunk (`FlattenMore`) is shown by a smallest counterexample.

`HttpWritesWithin` (`WritesWithin`) rests on `PastInv` alone, which holds because a read asks for
the room that is left and a body leaves a place for its terminator (`FitsIn`), so that one zero is all
that goes past `r_buf`, and because a failed call ends with its text.

`HttpParserProofs` is about `http_parser.c`, for all bytes and all messages a peer may send,
right or wrong, all ways to cut them into buffers, any pauses and any answers of the
callbacks, and any `ULLONG_MAX` (so for the limits of both numbers, which `MCHttpParser`
meets with a small one). `ParserImplementsCallbacks` (`ImplementsCallbacks`) is the
refinement: callbacks come in the order of `HttpCallbacks`, with exactly the bytes of body that
the head or the chunk announced, and none after an error. `ParserAssertsHold`
(`AssertsHold`) says that the assertions in `http_parser_execute` hold. The abstraction
remembers which callback was the last, and the code does not: a state of the switch has to
imply it. `ParserInvariant` says how. `Fits` gives for each class of states the callbacks that may have
been the last, and what of flags and `content_length` belongs to it; `Open` adds, within a call, what is
marked (`Marked`; a mark is a callback that must still come) and the counts of the head, and `Shut`
what is left of that between calls. A step of the switch that goes on with the same byte
(`goto reexecute`) is a step of its own, and each step is one lemma, which says of it at
once that it keeps the invariant and that it is a step of `HttpCallbacks` or a stutter
(`Step`).

`TlsProofs` is about the TLS samples with any number of clients, whatever each of them runs,
and however often the network and the users interfere. `TlsNoDescriptorLost`
(`NoDescriptorLost`) and `TlsServerOutlivesClients` (`ServerOutlivesClients`) have one
invariant, `IInv`. A connection changes only by a call of one side, so a first part says of each
call what it may do to it (`Moved`), and to the half that another side has open (`Served`).
The sequential servers are tables, and a second part checks each row by itself
(`RowFine`, `RowInside`): a server accepts, is at the connection, and closes it before it
accepts again, and an outcome that ends it is one that `EndsServer` lists. For the epoll
server `WatchedAs` is stronger than `Watched`: it says what every channel is watched for,
also one whose handshake could go on at once; and `ReadyInv` says that the events which
wait for a handler are of a channel that is there.

`TlsNothingLost` (`NothingLost`) is for any number of lines, connections and pieces in a
socket. What is on the way is a sequence of pieces, of which the second half of a message
carries its lines. So `BioInv` says also that the pieces on the way, of all four places
together, are whole messages (`Paired`, in `Flows`), although each place may end within one;
that `poll` offers to write only where there is something (`HasOut`); and that
the server has nothing of an earlier connection in its BIOs when it accepts (`Emptied`) and has
not been heard before (`Unheard`), which is where `ssl_client_init` is needed. A step moves
pieces along (`WayRead`, `WaySent`), takes whole messages off the front or adds them at the
back (`Handled`, `WayGrows`). `LinesOfJoin`, that the lines of two parts are the lines of
the first and of the second, is once more shown by a smallest counterexample.

All rest only on the assumptions about the constants in `Heap`, `LinkedList`, `Trace`,
`IsPrimeServer`, `HttpClient`, `HttpWire` and `TlsSamples`. `ReplyAssumption` leaves out the
answers whose body ends with the connection, which `http_parse` takes for empty;
`WireAssumption` says only that `ULLONG_MAX` is a number above 2. `PowerAssumption` and `RingAssumption` say what the
provers cannot know: that a power of two is a positive number, and that the NULL of a pointer is
not an array. The theorems about the prime server carry premises of their own, as said
above.

Some hazards are states that a property names as its exception, because the code does go wrong
there, and what is shown is that there is no other: a failed `realloc` (`AllBlocksKnown`), nesting
beyond `MAX_STACK_DEPTH` (`StackFollows`), a channel that was once full (`EveryClientEnds`) and a
descriptor whose `getpeername` failed (`NoDescriptorLost`), what ends a server
(`ServerOutlivesClients`), two programs that both stand in `write` (`LinesArrive`), and main's waits
for `subscribed` and `disc_finished` (`QuitsOnQ`).

Only model-checked:

- liveness, and everything under fairness, which is out of the provers' reach;
- `Tree`: `SearchTree`, `RedBlack`, `CountsAgree` and the refinement `ImplementsMap`. The loops
  of `Tree.c` are recursive functions over whole trees, whose value is known only where
  the loop ends; that it ends, and what it returns, is an induction over the paths of a
  tree. `MCTree` has all trees that up to eight keys can build;
- `ElementsWhole`, `InStep`, `StopsAtTheBad` and `HeadBounded` of `HttpParser`. They compare the
  parser with what the peer means by its lines, which `HttpWire` finds by reading each line as a
  whole. The lines are constants: for arbitrary sequences of bytes in their place, such as
  two lines in one, the properties do not hold, and for those of `MCHttpParser` they are facts
  about these values, which TLC evaluates.

## Not modelled

- `paho_heap_test`: the second index of `Tree.c`, which nothing uses, and `TreeFree`;
  the trace file of `Log.c` with its rotation and formatting; semaphores and condition
  variables of `Thread.c`, which only its tests call; `Messages.c`, `OsWrapper.c` and the
  straight-line main.
- In `Heap.c`: failures of `TreeAdd`'s own `malloc` and of the `realloc` of a file name, and reads
  behind the unlock (Modules, Heap).
- In `ssl_server_async.c`: an `accept` that fails for another reason than that nobody waits
  (line 127; the loop ends and `epoll_wait` reports the socket again), and the ends of the
  process after a failed `malloc`, `epoll_ctl` or `SSL_new` (53, 82, 104, 165). A server
  that has run out of descriptors or memory is not one the properties are about.
- What else `tcp_server.c` may corrupt with `buff[n]`: the model has that it dies or goes on.
- `http_parser_parse_url`, a function of its input without state.
- `tls_client2.c`, mostly options and their output, and the generated `query_config.c`.
- `bio_tcp_server`, a loop of accept and read, and the end of the keyboard's input in the
  BIO and MQTT programs, after which their loops spin.
- `libuv_echo_hello`, `libuv_dns_hello`, `libuv_from_scratch`, `libuv_loop_hello`: a few
  callbacks each, which print or send back what they were given and share nothing.
- `mbedtls_crypto_hello`: functions of their input, for which test vectors say more.
- Data races as such: the flags of the MQTT programs are plain ints shared between
  threads, and `on_work_submitted` writes the buffer the loop sends from. The models take
  each access as one step, and a text copied by two threads at once as torn.
