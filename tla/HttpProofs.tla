----------------------------- MODULE HttpProofs -----------------------------
(***************************************************************************)
(* For all URLs, replies and sizes: the handle of http_client.c never      *)
(* leaves a socket open behind it, sends a request only to the server its  *)
(* URL names, and asks for what the URL says.  What it reads is the answer *)
(* to that request: the caller's body is a prefix of the one sent, a       *)
(* response said to be whole is whole, and a connection is kept only at    *)
(* the end of a response.                                                  *)
(***************************************************************************)
EXTENDS HttpClient, NaturalsInduction, WellFoundedInduction, TLAPS

\* The call has a connection, or has lost it and is about to return.
Engaged == Talking \/ pc = "finish"

Types ==
  /\ fd \in Fd \cup {NoFd}
  /\ call \in [op : Ops, u : Url]

\* A host is in the handle only while the connection is to that server.
KeptForServer == fd # NoFd /\ url.host # <<>> => server[fd] = Address(url)

\* In a call the connection is to its server; the handle has no address yet
\* or the same.
ConnectedToTarget ==
  Engaged /\ fd # NoFd =>
    /\ server[fd] = Address(target)
    /\ url.https = target.https
    /\ url.host \in {<<>>, target.host}
    /\ url.port \in {<<>>, target.port}

HasConnection == Talking => fd # NoFd

IInv == Types /\ NoLeak /\ KeptForServer /\ ConnectedToTarget /\ HasConnection

-----------------------------------------------------------------------------
(* A buffer that is empty or holds the same text holds the text after     *)
(* strncpy, although that writes no terminator.                           *)
LEMMA OverwriteGives ==
  ASSUME NEW S, NEW s \in Seq(S), NEW t \in {<<>>, s}
  PROVE  Overwrite(t, s) = s
<1>1. Drop(t, Len(s)) = <<>>
  BY DEF Drop
<1>2. s \o <<>> = s
  OBVIOUS
<1> QED BY <1>1, <1>2 DEF Overwrite

(* Four characters are as many as fit.                                    *)
LEMMA TakeAll ==
  ASSUME NEW S, NEW s \in Seq(S), Len(s) <= 4
  PROVE  Take(s, 4) = s
<1>1. Take(s, 4) = SubSeq(s, 1, Len(s))
  BY DEF Take
<1> QED BY <1>1

(* What parse_url yields for the URL of a call.                           *)
LEMMA TargetIs ==
  ASSUME call \in [op : Ops, u : Url]
  PROVE  /\ target = [https |-> call.u.https, host |-> call.u.host,
                      port |-> target.port, path |-> call.u.path]
         /\ target.https \in BOOLEAN
         /\ target.host \in Seq(STRING) \ {<<>>}
         /\ target.port \in Seq(0..9)
<1>1. call.u \in [https : BOOLEAN, host : Seq(STRING) \ {<<>>}, port : Seq(0..9), path : Seq(STRING)]
  BY ClientAssumption
<1>2. Take(call.u.port, 4) \in Seq(0..9)
  BY <1>1 DEF Take
<1>3. <<4, 4, 3>> \in Seq(0..9) /\ <<8, 0>> \in Seq(0..9)
  OBVIOUS
<1>4. PICK p \in Seq(0..9) : target = [call.u EXCEPT !.port = p]
  BY <1>2, <1>3 DEF target, parse_url
<1>5. target = [https |-> call.u.https, host |-> call.u.host, port |-> p, path |-> call.u.path]
  BY <1>1, <1>4
<1> QED BY <1>1, <1>5

(* What strncpy leaves in the handle.                                     *)
LEMMA KeepUrlIsTarget ==
  ASSUME Types, ConnectedToTarget, Engaged, fd # NoFd
  PROVE  Address(KeepUrl) = Address(target) /\ KeepUrl.https = target.https
                /\ KeepUrl.host = target.host /\ KeepUrl.port = target.port
<1>1. Overwrite(url.host, target.host) = target.host
  BY TargetIs, OverwriteGives DEF Types, ConnectedToTarget
<1>2. Overwrite(url.port, target.port) = target.port
  BY TargetIs, OverwriteGives DEF Types, ConnectedToTarget
<1> QED BY <1>1, <1>2 DEF KeepUrl, Address, ConnectedToTarget

-----------------------------------------------------------------------------
(* A step that leaves the connection alone and stays in the call.         *)
LEMMA Quiet ==
  ASSUME IInv, UNCHANGED <<fd, url, server, call>>,
         Engaged' => Engaged, Talking' => Talking
  PROVE  IInv'
BY DEF IInv, Types, NoLeak, KeptForServer, ConnectedToTarget, HasConnection,
       Address, target, parse_url

(* A step that closes the connection and leaves the call.                 *)
LEMMA Closing ==
  ASSUME IInv, https_close, call' \in [op : Ops, u : Url], ~Talking'
  PROVE  IInv'
<1>1. DOMAIN server' = {}
  BY DEF IInv, NoLeak, https_close, Without
<1>2. NoLeak'
  BY <1>1 DEF NoLeak, https_close
<1> QED BY <1>2 DEF IInv, Types, KeptForServer, ConnectedToTarget, HasConnection, https_close

LEMMA BeginStep ==
  ASSUME IInv, NEW op \in Ops, NEW u \in Url, Begin(op, u)
  PROVE  IInv'
BY DEF Begin, IInv, Types, NoLeak, KeptForServer, ConnectedToTarget, HasConnection,
       Engaged, Talking, Address

LEMMA ReuseStep ==
  ASSUME IInv, Reuse
  PROVE  IInv'
<1> USE DEF IInv, Reuse, SameServer
<1>1. UNCHANGED <<fd, call, server>> /\ target' = target /\ pc' \in {"opened", "send"}
  BY DEF Connected, target, parse_url
<1>2. /\ url.https = target.https /\ url.host = target.host /\ url.port = target.port
  BY DEF Address
<1>3. target.host # <<>> /\ target.host \in Seq(STRING) /\ target.port \in Seq(0..9)
  BY TargetIs DEF Types
<1>4. server[fd] = Address(target)
  BY <1>2, <1>3 DEF KeptForServer, Address
<1>5. KeepUrl.https = target.https /\ KeepUrl.host = target.host /\ KeepUrl.port = target.port
  BY <1>2, <1>3, OverwriteGives DEF KeepUrl
<1>6. url'.https = target.https /\ url'.host = target.host /\ url'.port = target.port
  BY <1>2, <1>5
<1>7. Types' /\ NoLeak' /\ HasConnection'
  BY <1>1 DEF Types, NoLeak, HasConnection
<1>8. Address(url') = Address(target)
  BY <1>6 DEF Address
<1>9. KeptForServer' /\ ConnectedToTarget'
  BY <1>1, <1>4, <1>6, <1>8 DEF KeptForServer, ConnectedToTarget
<1> QED BY <1>7, <1>9

LEMMA ReconnectStep ==
  ASSUME IInv, Reconnect
  PROVE  IInv'
<1>1. DOMAIN Without(fd) = {}
  BY DEF IInv, NoLeak, Without
<1>2. PICK d \in Fd : fd' = d /\ server' = [e \in {d} |-> Address(target)]
  BY <1>1 DEF Reconnect, mbedtls_net_connect_timeout
<1>3. fd' # NoFd /\ server'[fd'] = Address(target)
  BY <1>2, ClientAssumption DEF NoFd
<1>4. call' = call /\ target' = target /\ pc' \in {"opened", "send"}
  BY DEF Reconnect, Connected, target, parse_url
<1>5. url' = target \/ url' = Blank(target.https)
  BY DEF Reconnect
<1>6. Types' /\ NoLeak' /\ HasConnection'
  BY <1>2, <1>3, <1>4 DEF IInv, Types, NoLeak, HasConnection
<1>7. KeptForServer'
  BY <1>3, <1>5 DEF KeptForServer, Blank
<1>8. ConnectedToTarget'
  BY <1>3, <1>4, <1>5 DEF ConnectedToTarget, Blank
<1> QED BY <1>6, <1>7, <1>8 DEF IInv

LEMMA FinishStep ==
  ASSUME IInv, Finish
  PROVE  IInv'
<1>1. CASE res.close
  BY <1>1, Closing DEF Finish, IInv, Types, Talking
<1>2. CASE ~res.close
  <2>1. UNCHANGED <<fd, call, server>> /\ pc' = "idle" /\ pc = "finish"
        /\ (url' = url \/ url' = KeepUrl)
    BY <1>2 DEF Finish
  <2>2. KeptForServer'
    <3>1. CASE url' = url \/ fd = NoFd
      BY <2>1, <3>1 DEF IInv, KeptForServer, Address
    <3>2. CASE url' = KeepUrl /\ fd # NoFd
      <4>1. Address(KeepUrl) = Address(target)
        BY <2>1, <3>2, KeepUrlIsTarget DEF IInv, Engaged
      <4>2. server[fd] = Address(target)
        BY <2>1, <3>2 DEF IInv, ConnectedToTarget, Engaged
      <4> QED BY <2>1, <3>2, <4>1, <4>2 DEF KeptForServer
    <3> QED BY <2>1, <3>1, <3>2
  <2> QED BY <2>1, <2>2 DEF IInv, Types, NoLeak, ConnectedToTarget, HasConnection, Engaged, Talking
<1> QED BY <1>1, <1>2

-----------------------------------------------------------------------------
LEMMA InitHolds == Init => IInv
<1> SUFFICES ASSUME Init PROVE IInv
  OBVIOUS
<1>1. (CHOOSE u \in Url : TRUE) \in Url
  BY ClientAssumption
<1>2. Types
  BY <1>1 DEF Init, Types, Ops
<1>3. DOMAIN server = {}
  BY DEF Init
<1> QED BY <1>2, <1>3 DEF Init, IInv, NoLeak, KeptForServer, ConnectedToTarget,
              HasConnection, Talking, Engaged

(* Every step of a call keeps the invariant.                              *)
LEMMA ContinueStep ==
  ASSUME IInv, Continue
  PROVE  IInv'
<1> USE DEF Engaged, Talking
<1>1. CASE Reuse
  BY <1>1, ReuseStep
<1>2. CASE Reconnect
  BY <1>2, ReconnectStep
<1>3. CASE ConnectFails
  BY <1>3, Closing DEF ConnectFails, IInv, Types
<1>4. CASE http_get
  BY <1>4, Quiet DEF http_get, ReadResponse
<1>5. CASE WriteFails
  BY <1>5, Closing DEF WriteFails, IInv, Types
<1>6. CASE \E n \in 1..ReadSize : Read(n)
  BY <1>6, Quiet DEF Read
<1>7. CASE ReadNothing
  BY <1>7, Closing DEF ReadNothing, IInv, Types
<1>8. CASE ReadFails
  BY <1>8, Closing DEF ReadFails, IInv, Types
<1>9. CASE http_parse
  <2>1. \E next \in {"parse", "read", "finish"} : Parses(next)
    BY <1>9 DEF http_parse, HeaderLine, HeaderEnd, LineDue, SizeLine, Beyond,
                Within, BodyEnd, ChunkEnd, GoOn, Done
  <2> QED BY <2>1, Quiet DEF Parses
<1>10. CASE Finish
  BY <1>10, FinishStep
<1> QED BY <1>1, <1>2, <1>3, <1>4, <1>5, <1>6, <1>7, <1>8, <1>9, <1>10 DEF Continue

(* So does what the caller does ...                                       *)
LEMMA CallerStep ==
  ASSUME IInv, Caller
  PROVE  IInv'
<1> USE DEF Engaged, Talking
<1>1. CASE \E op \in Ops, u \in Url : Begin(op, u)
  BY <1>1, BeginStep
<1>2. CASE \E n \in -1..MaxBody : http_write_header(n)
  BY <1>2, Quiet DEF http_write_header
<1>3. CASE \E n \in 1..MaxBody : http_write(n)
  BY <1>3, Quiet DEF http_write, IInv, Types
<1>4. CASE http_write_end
  BY <1>4, Quiet DEF http_write_end
<1>5. CASE http_read_chunked
  BY <1>5, Quiet DEF http_read_chunked, ReadResponse
<1>6. CASE http_close
  BY <1>6, Closing DEF http_close, IInv, Types
<1> QED BY <1>1, <1>2, <1>3, <1>4, <1>5, <1>6 DEF Caller

(* ... and the server, which has no part in what the invariant is about.  *)
LEMMA ServerStep ==
  ASSUME IInv, Server
  PROVE  IInv'
BY Quiet DEF Server, Answer, Closes, Resets, client, IInv, Types, Engaged, Talking

(* IInv is an invariant of the client, for all URLs and all replies.      *)
THEOREM HttpInvariant == Spec => []IInv
<1>1. IInv /\ [Next]_vars => IInv'
  <2> SUFFICES ASSUME IInv, [Next]_vars PROVE IInv'
    OBVIOUS
  <2>1. CASE UNCHANGED vars
    BY <2>1, Quiet DEF vars, IInv, Types, Engaged, Talking
  <2> QED BY <2>1, ContinueStep, CallerStep, ServerStep DEF Next
<1> QED BY <1>1, InitHolds, PTL DEF Spec

(* NoLeak: no call of the client leaves an open socket behind.            *)
THEOREM HttpNoLeak == Spec => []NoLeak
BY HttpInvariant, PTL DEF IInv

(* RightServer: requests only go to the server of their URL.              *)
THEOREM HttpRightServer == Spec => []RightServer
<1>1. IInv => RightServer
  <2> SUFFICES ASSUME IInv, Talking, Len(call.u.port) <= 4
               PROVE  fd # NoFd /\ server[fd] = Meant(call.u)
    BY DEF RightServer
  <2>1. fd # NoFd /\ server[fd] = Address(target)
    BY DEF IInv, HasConnection, ConnectedToTarget, Engaged
  <2>2. call.u \in [https : BOOLEAN, host : Seq(STRING) \ {<<>>}, port : Seq(0..9), path : Seq(STRING)]
    BY ClientAssumption DEF IInv, Types
  <2>3. Take(call.u.port, 4) = call.u.port
    BY <2>2, TakeAll
  <2>4. Address(target) = Meant(call.u)
    BY <2>2, <2>3 DEF Address, target, Meant, parse_url
  <2> QED BY <2>1, <2>4
<1> QED BY <1>1, HttpInvariant, PTL

-----------------------------------------------------------------------------
\* What the handle keeps of a path, and how a step may change it.
PathType == url.path \in Seq(STRING)

UrlMoves ==
  \/ UNCHANGED url
  \/ url' \in {Blank(target.https), target, KeepUrl}

\* No step changes the URL of the handle in another way.
LEMMA UrlStep ==
  ASSUME [Next]_vars
  PROVE  UrlMoves
<1>1. CASE Continue
  BY <1>1 DEF UrlMoves, Continue, Reuse, Reconnect, ConnectFails, http_get, WriteFails, Read, ReadNothing,
              ReadFails, http_parse, HeaderLine, HeaderEnd, LineDue, SizeLine, Beyond, Within, BodyEnd,
              ChunkEnd, GoOn, Done, Parses, Finish
<1>2. CASE Caller
  BY <1>2 DEF UrlMoves, Caller, Begin, http_write_header, http_write, http_write_end, http_read_chunked,
              http_close
<1>3. CASE Server
  BY <1>3 DEF UrlMoves, Server, Answer, Closes, Resets, client
<1>4. CASE UNCHANGED vars
  BY <1>4 DEF UrlMoves, vars
<1> QED BY <1>1, <1>2, <1>3, <1>4 DEF Next

\* strncpy onto a path.
LEMMA PathGives ==
  ASSUME NEW s \in Seq(STRING), NEW t \in Seq(STRING)
  PROVE  /\ Overwrite(t, s) \in Seq(STRING)
         /\ Overwrite(t, s) = s \/ Len(t) > Len(s)
<1>1. Drop(t, Len(s)) \in Seq(STRING)
  BY DEF Drop
<1>2. Overwrite(t, s) \in Seq(STRING)
  BY <1>1 DEF Overwrite
<1>3. ASSUME ~(Len(t) > Len(s)) PROVE Overwrite(t, s) = s
  <2>1. Drop(t, Len(s)) = <<>>
    BY <1>3 DEF Drop
  <2>2. s \o <<>> = s
    OBVIOUS
  <2> QED BY <2>1, <2>2 DEF Overwrite
<1> QED BY <1>2, <1>3

(* The path in the handle is a string, whatever was copied over it.        *)
THEOREM HttpPath == Spec => []PathType
<1>1. Init => PathType
  BY DEF Init, PathType, Blank
<1>2. IInv /\ PathType /\ [Next]_vars => PathType'
  <2> SUFFICES ASSUME IInv, PathType, [Next]_vars PROVE PathType'
    OBVIOUS
  <2>1. call.u.path \in Seq(STRING) /\ target.path = call.u.path
    BY ClientAssumption, TargetIs DEF IInv, Types
  <2>2. KeepUrl.path \in Seq(STRING)
    BY <2>1, PathGives DEF KeepUrl, PathType
  <2>3. Blank(target.https).path \in Seq(STRING)
    BY DEF Blank
  <2> QED BY <2>1, <2>2, <2>3, UrlStep DEF UrlMoves, PathType
<1> QED BY <1>1, <1>2, HttpInvariant, PTL DEF Spec

\* Only http_open goes from check to opened.
LEMMA Opening ==
  ASSUME Next, pc = "check", pc' = "opened"
  PROVE  call.op = "open" /\ (Reuse \/ Reconnect)
<1>1. CASE Continue
  <2>1. Reuse \/ Reconnect
    BY <1>1 DEF Continue, ConnectFails, http_get, WriteFails, Read, ReadNothing, ReadFails,
                http_parse, HeaderLine, HeaderEnd, LineDue, SizeLine, Beyond, Within, BodyEnd,
                ChunkEnd, GoOn, Done, Parses, Finish
  <2> QED BY <2>1 DEF Reuse, Reconnect, Connected
<1>2. ~Caller
  BY DEF Caller, Begin, http_write_header, http_write, http_write_end, http_read_chunked, http_close
<1>3. ~Server
  BY DEF Server, Answer, Closes, Resets, client
<1> QED BY <1>1, <1>2, <1>3 DEF Next

(* RightRequestLine: the request line and Host are those of the URL, but   *)
(* for the end that a longer path of an earlier request leaves.           *)
THEOREM HttpRightRequestLine == Spec => RightRequestLine
<1> DEFINE Right ==
      pc = "check" /\ pc' = "opened" =>
        /\ url'.host = target.host /\ url'.port = target.port
        /\ \/ url'.path = target.path
           \/ SameServer /\ Len(url.path) > Len(target.path)
<1>1. IInv /\ PathType /\ [Next]_vars => [Right]_vars
  <2> SUFFICES ASSUME IInv, PathType, Next, pc = "check", pc' = "opened"
               PROVE  /\ url'.host = target.host /\ url'.port = target.port
                      /\ \/ url'.path = target.path
                         \/ SameServer /\ Len(url.path) > Len(target.path)
    OBVIOUS
  <2>1. call.op = "open" /\ (Reuse \/ Reconnect)
    BY Opening
  <2>2. CASE Reconnect
    BY <2>1, <2>2 DEF Reconnect
  <2>3. CASE Reuse
    <3>1. url' = KeepUrl /\ SameServer
      BY <2>1, <2>3 DEF Reuse
    <3>2. url.host = target.host /\ url.port = target.port
      BY <3>1 DEF SameServer, Address
    <3>3. target.host \in Seq(STRING) /\ target.port \in Seq(0..9)
      BY TargetIs DEF IInv, Types
    <3>4. KeepUrl.host = target.host /\ KeepUrl.port = target.port
      BY <3>2, <3>3, OverwriteGives DEF KeepUrl
    <3>5. target.path \in Seq(STRING)
      BY ClientAssumption, TargetIs DEF IInv, Types
    <3>6. KeepUrl.path = target.path \/ Len(url.path) > Len(target.path)
      BY <3>5, PathGives DEF KeepUrl, PathType
    <3> QED BY <3>1, <3>4, <3>6
  <2> QED BY <2>1, <2>2, <2>3
<1> QED BY <1>1, HttpInvariant, HttpPath, PTL DEF Spec, RightRequestLine

-----------------------------------------------------------------------------
Kinds == {"CR", "LF", "status", "length", "chunked", "close", "other", "size", "data"}
Tok   == [k : Kinds, n : Nat]

(***************************************************************************)
(* Sequences.                                                              *)
(***************************************************************************)

\* A set of numbers has a smallest one: the well-founded order stands in for
\* induction, which the provers cannot instantiate.
LEMMA Smallest == ASSUME NEW T, T \subseteq Nat, T # {} PROVE \E m \in T : \A n \in T : m <= n
<1>1. OpToRel(<, Nat) = {p \in Nat \X Nat : p[1] < p[2]}
  BY Zenon DEF OpToRel
<1>2. IsWellFoundedOn(OpToRel(<, Nat), Nat)
  BY NatLessThanWellFounded
<1>3. PICK m \in T : \A n \in T : <<n, m>> \notin OpToRel(<, Nat)
  BY <1>2, WFMin
<1>4. \A n \in T : <<n, m>> \notin {p \in Nat \X Nat : p[1] < p[2]}
  BY <1>1, <1>3, Zenon
<1>5. ASSUME NEW n \in T PROVE ~ (n < m)
  BY <1>4
<1>6. \A n \in T : m <= n
  BY <1>5
<1> QED
  BY <1>6

\* Sequences with the same elements are the same.
LEMMA SameSeq ==
  ASSUME NEW s \in Seq(Tok), NEW t \in Seq(Tok), Len(s) = Len(t),
         \A i \in 1..Len(s) : s[i] = t[i]
  PROVE  s = t
OBVIOUS

\* The first n elements.
LEMMA TakeIs ==
  ASSUME NEW s \in Seq(Tok), NEW n \in Nat
  PROVE  /\ Take(s, n) \in Seq(Tok)
         /\ Len(Take(s, n)) = IF n < Len(s) THEN n ELSE Len(s)
         /\ \A i \in 1..Len(Take(s, n)) : Take(s, n)[i] = s[i]
BY DEF Take

\* What is left when n are dropped.
LEMMA DropIs ==
  ASSUME NEW s \in Seq(Tok), NEW n \in Nat
  PROVE  /\ Drop(s, n) \in Seq(Tok)
         /\ Len(Drop(s, n)) = IF n < Len(s) THEN Len(s) - n ELSE 0
         /\ \A i \in 1..Len(Drop(s, n)) : Drop(s, n)[i] = s[n + i]
BY DEF Drop

\* A concatenation, its length and elements.
LEMMA JoinIs ==
  ASSUME NEW s \in Seq(Tok), NEW t \in Seq(Tok)
  PROVE  /\ s \o t \in Seq(Tok) /\ Len(s \o t) = Len(s) + Len(t)
         /\ \A i \in 1..Len(s) : (s \o t)[i] = s[i]
         /\ \A i \in 1..Len(t) : (s \o t)[Len(s) + i] = t[i]
OBVIOUS

\* A prefix has the elements the sequence begins with.
LEMMA PrefixIs ==
  ASSUME NEW s \in Seq(Tok), NEW t \in Seq(Tok)
  PROVE  IsPrefix(s, t) <=> Len(s) <= Len(t) /\ \A i \in 1..Len(s) : s[i] = t[i]
<1>1. ASSUME Len(s) <= Len(t)
      PROVE  (SubSeq(s, 1, Len(s)) = SubSeq(t, 1, Len(s))) <=> (\A i \in 1..Len(s) : s[i] = t[i])
  <2>1. SubSeq(s, 1, Len(s)) = s
    OBVIOUS
  <2>2. /\ SubSeq(t, 1, Len(s)) \in Seq(Tok) /\ Len(SubSeq(t, 1, Len(s))) = Len(s)
        /\ \A i \in 1..Len(s) : SubSeq(t, 1, Len(s))[i] = t[i]
    BY <1>1
  <2>3. (\A i \in 1..Len(s) : s[i] = SubSeq(t, 1, Len(s))[i]) => s = SubSeq(t, 1, Len(s))
    BY <2>2, SameSeq
  <2> QED
    BY <2>1, <2>2, <2>3
<1> QED
  BY <1>1 DEF IsPrefix

\* Concatenation is associative.
LEMMA Associate ==
  ASSUME NEW s \in Seq(Tok), NEW t \in Seq(Tok), NEW u \in Seq(Tok)
  PROVE  (s \o t) \o u = s \o (t \o u)
OBVIOUS

\* Joining nothing, dropping nothing or all, taking all.
LEMMA EmptyJoin ==
  ASSUME NEW s \in Seq(Tok)
  PROVE  <<>> \o s = s /\ s \o <<>> = s /\ Drop(s, 0) = s /\ Drop(s, Len(s)) = <<>> /\ Take(s, Len(s)) = s
<1>1. Drop(s, 0) = s
  BY DropIs, SameSeq
<1>2. Take(s, Len(s)) = s
  BY TakeIs, SameSeq
<1> QED BY <1>1, <1>2 DEF Drop

\* Dropping the first of two parts leaves the second.
LEMMA DropJoin ==
  ASSUME NEW s \in Seq(Tok), NEW t \in Seq(Tok)
  PROVE  Drop(s \o t, Len(s)) = t
<1>1. PICK x \in Seq(Tok) : x = s \o t
  BY JoinIs
<1>2. /\ Len(x) = Len(s) + Len(t) /\ Len(s) \in Nat /\ Len(t) \in Nat
      /\ \A i \in 1..Len(t) : x[Len(s) + i] = t[i]
  BY <1>1, JoinIs
<1>3. /\ Drop(x, Len(s)) \in Seq(Tok) /\ Len(Drop(x, Len(s))) = Len(t)
      /\ \A i \in 1..Len(t) : Drop(x, Len(s))[i] = x[Len(s) + i]
  BY <1>2, DropIs
<1>4. Drop(x, Len(s)) = t
  BY <1>2, <1>3, SameSeq
<1> QED BY <1>1, <1>4

\* Dropping no more than there is.
LEMMA DropSome ==
  ASSUME NEW s \in Seq(Tok), NEW n \in 0..Len(s)
  PROVE  Len(Drop(s, n)) = Len(s) - n /\ \A i \in 1..Len(s) - n : Drop(s, n)[i] = s[n + i]
<1>1. /\ Len(Drop(s, n)) = IF n < Len(s) THEN Len(s) - n ELSE 0
      /\ \A i \in 1..Len(Drop(s, n)) : Drop(s, n)[i] = s[n + i]
  BY DropIs
<1>2. Len(Drop(s, n)) = Len(s) - n
  BY <1>1
<1> QED BY <1>1, <1>2

\* Dropping within the first of two parts.
LEMMA DropMore ==
  ASSUME NEW s \in Seq(Tok), NEW t \in Seq(Tok), NEW n \in 0..Len(s)
  PROVE  Drop(s \o t, n) = Drop(s, n) \o t
<1>1. PICK x \in Seq(Tok) : x = s \o t
  BY JoinIs
<1>2. PICK d \in Seq(Tok) : d = Drop(s, n)
  BY DropIs
<1>3. PICK y \in Seq(Tok) : y = d \o t
  BY JoinIs
<1> DEFINE ls == Len(s)
           lt == Len(t)
           m  == Len(s) - n
<1>4. ls \in Nat /\ lt \in Nat /\ m \in Nat /\ n \in Nat /\ ls = n + m /\ m + lt \in Nat
  OBVIOUS
<1>5. /\ Len(x) = ls + lt
      /\ \A i \in 1..ls : x[i] = s[i]
      /\ \A i \in 1..lt : x[ls + i] = t[i]
  BY <1>1, JoinIs
<1> HIDE DEF ls, lt, m
<1>6. Len(d) = m /\ \A i \in 1..m : d[i] = s[n + i]
  BY <1>2, DropSome DEF m
<1>7. /\ Len(y) = m + lt
      /\ \A i \in 1..m : y[i] = d[i]
      /\ \A i \in 1..lt : y[m + i] = t[i]
  BY <1>3, <1>6, JoinIs DEF lt
<1>8. PICK z \in Seq(Tok) : z = Drop(x, n)
  BY <1>4, DropIs
<1>9. Len(z) = m + lt /\ \A i \in 1..m + lt : z[i] = x[n + i]
  <2>1. Len(x) - n = m + lt /\ n \in 0..Len(x)
    BY <1>4, <1>5
  <2> QED BY <2>1, <1>8, DropSome
<1>10. ASSUME NEW i \in 1..m + lt PROVE z[i] = y[i]
  <2>1. CASE i <= m
    <3>1. i \in 1..m /\ n + i \in 1..ls
      BY <2>1, <1>4
    <3> QED BY <3>1, <1>5, <1>6, <1>7, <1>9
  <2>2. CASE ~(i <= m)
    <3> DEFINE j == i - m
    <3>1. j \in 1..lt /\ i = m + j /\ n + i = ls + j
      BY <2>2, <1>4
    <3> HIDE DEF j
    <3> QED BY <3>1, <1>5, <1>7, <1>9
  <2> QED BY <2>1, <2>2
<1>11. z = y
  BY <1>7, <1>9, <1>10, SameSeq
<1> QED BY <1>1, <1>2, <1>3, <1>8, <1>11

\* Dropping twice is dropping once.
LEMMA DropTwice ==
  ASSUME NEW s \in Seq(Tok), NEW n \in Nat, NEW m \in Nat
  PROVE  Drop(Drop(s, n), m) = Drop(s, n + m)
<1>1. Drop(s, n) \in Seq(Tok) /\ n + m \in Nat
  BY DropIs
<1>2. /\ Drop(Drop(s, n), m) \in Seq(Tok) /\ Drop(s, n + m) \in Seq(Tok)
      /\ Len(Drop(Drop(s, n), m)) = Len(Drop(s, n + m))
  BY <1>1, DropIs
<1>3. ASSUME NEW i \in 1..Len(Drop(s, n + m))
      PROVE  Drop(Drop(s, n), m)[i] = Drop(s, n + m)[i]
  <2>1. m + i \in 1..Len(Drop(s, n))
    BY <1>1, DropIs
  <2>2. Drop(Drop(s, n), m)[i] = Drop(s, n)[m + i]
    BY <1>1, <1>2, DropIs
  <2>3. Drop(s, n)[m + i] = s[n + (m + i)]
    BY <2>1, DropIs
  <2>4. Drop(s, n + m)[i] = s[n + m + i]
    BY <1>1, DropIs
  <2> QED BY <2>2, <2>3, <2>4
<1> QED BY <1>2, <1>3, SameSeq

\* The first elements, one by one.
LEMMA TakeSome ==
  ASSUME NEW s \in Seq(Tok), NEW n \in 0..Len(s)
  PROVE  Len(Take(s, n)) = n /\ \A i \in 1..n : Take(s, n)[i] = s[i]
<1>1. /\ Len(Take(s, n)) = IF n < Len(s) THEN n ELSE Len(s)
      /\ \A i \in 1..Len(Take(s, n)) : Take(s, n)[i] = s[i]
  BY TakeIs
<1>2. Len(Take(s, n)) = n
  BY <1>1
<1> QED BY <1>1, <1>2

\* A sequence is what is taken and what is left.
LEMMA TakeDrop ==
  ASSUME NEW s \in Seq(Tok), NEW n \in 0..Len(s)
  PROVE  Take(s, n) \o Drop(s, n) = s
<1>1. PICK a \in Seq(Tok) : a = Take(s, n)
  BY TakeIs
<1>2. PICK d \in Seq(Tok) : d = Drop(s, n)
  BY DropIs
<1> DEFINE ls == Len(s)
           m  == Len(s) - n
<1>3. ls \in Nat /\ m \in Nat /\ n \in Nat /\ ls = n + m
  OBVIOUS
<1>4. Len(a) = n /\ \A i \in 1..n : a[i] = s[i]
  BY <1>1, TakeSome
<1> HIDE DEF ls, m
<1>5. Len(d) = m /\ \A i \in 1..m : d[i] = s[n + i]
  BY <1>2, DropSome DEF m
<1>6. PICK x \in Seq(Tok) : x = a \o d
  BY JoinIs
<1>7. /\ Len(x) = ls
      /\ \A i \in 1..n : x[i] = a[i]
      /\ \A i \in 1..m : x[n + i] = d[i]
  <2>1. Len(x) = Len(a) + Len(d) /\ \A i \in 1..Len(a) : x[i] = a[i]
    BY <1>6, JoinIs
  <2>2. \A i \in 1..Len(d) : x[Len(a) + i] = d[i]
    BY <1>6, JoinIs
  <2> QED BY <2>1, <2>2, <1>3, <1>4, <1>5
<1>8. ASSUME NEW i \in 1..ls PROVE x[i] = s[i]
  <2>1. CASE i <= n
    BY <2>1, <1>3, <1>4, <1>7
  <2>2. CASE ~(i <= n)
    <3> DEFINE j == i - n
    <3>1. j \in 1..m /\ i = n + j
      BY <2>2, <1>3
    <3> HIDE DEF j
    <3> QED BY <3>1, <1>5, <1>7
  <2> QED BY <2>1, <2>2
<1>9. x = s
  BY <1>7, <1>8, SameSeq DEF ls
<1> QED BY <1>1, <1>2, <1>6, <1>9

\* IsPrefix is an order.
LEMMA PrefixTrans ==
  ASSUME NEW s \in Seq(Tok), NEW t \in Seq(Tok), NEW u \in Seq(Tok), IsPrefix(s, t), IsPrefix(t, u)
  PROVE  IsPrefix(s, u)
BY PrefixIs

\* A sequence is a prefix of itself.
LEMMA PrefixSelf ==
  ASSUME NEW s \in Seq(Tok)
  PROVE  IsPrefix(s, s) /\ IsPrefix(<<>>, s)
<1>1. IsPrefix(s, s)
  BY PrefixIs
<1>2. Len(<<>>) = 0 /\ SubSeq(<<>>, 1, 0) = <<>> /\ SubSeq(s, 1, 0) = <<>> /\ 0 <= Len(s)
  OBVIOUS
<1>3. IsPrefix(<<>>, s)
  BY <1>2 DEF IsPrefix
<1> QED BY <1>1, <1>3

\* The first of two parts is a prefix.
LEMMA PrefixJoin ==
  ASSUME NEW s \in Seq(Tok), NEW t \in Seq(Tok)
  PROVE  IsPrefix(s, s \o t)
<1>1. PICK x \in Seq(Tok) : x = s \o t
  BY JoinIs
<1>2. Len(s) <= Len(x) /\ \A i \in 1..Len(s) : s[i] = x[i]
  BY <1>1, JoinIs
<1> QED BY <1>1, <1>2, PrefixIs

\* Dropped from both, a prefix stays one.
LEMMA DropPrefix ==
  ASSUME NEW s \in Seq(Tok), NEW t \in Seq(Tok), IsPrefix(s, t), NEW n \in 0..Len(s)
  PROVE  IsPrefix(Drop(s, n), Drop(t, n))
<1>1. Len(s) <= Len(t) /\ \A i \in 1..Len(s) : s[i] = t[i]
  BY PrefixIs
<1>2. /\ Drop(s, n) \in Seq(Tok) /\ Len(Drop(s, n)) = Len(s) - n
      /\ \A i \in 1..Len(s) - n : Drop(s, n)[i] = s[n + i]
  BY DropIs
<1>3. n \in 0..Len(t)
  BY <1>1
<1>4. /\ Drop(t, n) \in Seq(Tok) /\ Len(Drop(t, n)) = Len(t) - n
      /\ \A i \in 1..Len(t) - n : Drop(t, n)[i] = t[n + i]
  BY <1>3, DropIs
<1>5. \A i \in 1..Len(s) - n : Drop(s, n)[i] = Drop(t, n)[i]
  BY <1>1, <1>2, <1>4
<1> QED BY <1>1, <1>2, <1>4, <1>5, PrefixIs

\* A sequence is a prefix of it and the rest.
LEMMA SplitPrefix ==
  ASSUME NEW s \in Seq(Tok), NEW t \in Seq(Tok), IsPrefix(s, t)
  PROVE  t = s \o Drop(t, Len(s))
<1>1. Len(s) \in 0..Len(t) /\ Take(t, Len(s)) \in Seq(Tok) /\ Len(Take(t, Len(s))) = Len(s)
  BY PrefixIs, TakeIs
<1>2. s = Take(t, Len(s))
  BY <1>1, PrefixIs, TakeIs, SameSeq
<1> QED BY <1>1, <1>2, TakeDrop

(***************************************************************************)
(* FlattenSeq, as a recursive function.                                    *)
(***************************************************************************)

\* f[i] are the tokens of the first i sequences.
Joins(f, ss, n) == f = [i \in 1..n |-> IF i = 1 THEN ss[i] ELSE f[i - 1] \o ss[i]]

JoinsAt(f, ss, i) == f[i] = IF i = 1 THEN ss[i] ELSE f[i - 1] \o ss[i]

\* The function that FlattenSeq is defined by, at each place.
LEMMA JoinedAt ==
  ASSUME NEW f, NEW ss, NEW n, Joins(f, ss, n), NEW i \in 1..n
  PROVE  JoinsAt(f, ss, i)
<1> DEFINE row(g, j) == IF j = 1 THEN ss[j] ELSE g[j - 1] \o ss[j]
<1>1. f = [j \in 1..n |-> row(f, j)]
  BY DEF Joins
<1>2. f[i] = row(f, i)
  <2> HIDE DEF row
  <2> QED BY <1>1, Zenon
<1> QED BY <1>2 DEF JoinsAt

\* There is such a function.
LEMMA JoinExists ==
  ASSUME NEW ss, NEW n \in Nat
  PROVE  \E f : Joins(f, ss, n)
<1> SUFFICES ASSUME ~ \E f : Joins(f, ss, n)
             PROVE  FALSE
  OBVIOUS
<1> DEFINE T == {m \in Nat : ~ \E f : Joins(f, ss, m)}
<1>1. PICK m \in T : \A k \in T : m <= k
  <2>1. T \subseteq Nat /\ n \in T
    OBVIOUS
  <2> HIDE DEF T
  <2> QED BY <2>1, Smallest
<1>2. PICK g : m = 0 \/ Joins(g, ss, m - 1)
  <2>1. m = 0 \/ m - 1 \notin T
    BY <1>1
  <2> QED BY <2>1
<1> DEFINE row(h, j) == IF j = 1 THEN ss[j] ELSE h[j - 1] \o ss[j]
           f == [j \in 1..m |-> row(g, j)]
<1>3. ASSUME NEW j \in 1..m - 1 PROVE f[j] = g[j]
  <2>1. Joins(g, ss, m - 1) /\ j \in 1..m
    BY <1>2
  <2>2. g[j] = row(g, j)
    <3>1. JoinsAt(g, ss, j)
      BY <2>1, JoinedAt
    <3> QED BY <3>1, Zenon DEF JoinsAt
  <2> HIDE DEF row
  <2> QED BY <2>1, <2>2
<1>4. ASSUME NEW j \in 1..m PROVE row(g, j) = row(f, j)
  <2>1. j # 1 => g[j - 1] = f[j - 1]
    <3>1. j # 1 => j - 1 \in 1..m - 1
      BY <1>1
    <3> HIDE DEF f
    <3> QED BY <1>3, <3>1
  <2> HIDE DEF f
  <2> QED BY <2>1
<1>5. f = [j \in 1..m |-> row(f, j)]
  <2> HIDE DEF row
  <2> QED BY <1>4
<1>6. Joins(f, ss, m)
  BY <1>5 DEF Joins
<1> QED BY <1>6

\* Two such functions agree where the sequences do.
LEMMA JoinsAgree ==
  ASSUME NEW ss, NEW tt,
         NEW n \in Nat, NEW m \in Nat, n <= m, \A i \in 1..n : ss[i] = tt[i],
         NEW f, Joins(f, ss, n), NEW g, Joins(g, tt, m), NEW k \in 1..n
  PROVE  f[k] = g[k]
<1> SUFFICES ASSUME f[k] # g[k]
             PROVE  FALSE
  OBVIOUS
<1> DEFINE T == {i \in Nat : i \in 1..n /\ f[i] # g[i]}
<1>1. PICK i \in T : \A j \in T : i <= j
  <2>1. T \subseteq Nat /\ k \in T
    OBVIOUS
  <2> HIDE DEF T
  <2> QED BY <2>1, Smallest
<1>2. i \in 1..n /\ i \in 1..m /\ f[i] # g[i]
  BY <1>1
<1>3. i # 1 => f[i - 1] = g[i - 1]
  <2>1. i # 1 => i - 1 \in 1..n /\ i - 1 \notin T
    BY <1>1
  <2> QED BY <2>1
<1>4. JoinsAt(f, ss, i)
  BY <1>2, JoinedAt, Zenon
<1>5. JoinsAt(g, tt, i)
  BY <1>2, JoinedAt, Zenon
<1>6. ss[i] = tt[i]
  BY <1>2
<1>7. CASE i = 1
  <2>1. f[i] = ss[i] /\ g[i] = tt[i]
    BY <1>4, <1>5, <1>7, Zenon DEF JoinsAt
  <2> QED BY <1>2, <1>6, <2>1, Zenon
<1>8. CASE i # 1
  <2>1. f[i] = f[i - 1] \o ss[i] /\ g[i] = g[i - 1] \o tt[i]
    BY <1>4, <1>5, <1>8, Zenon DEF JoinsAt
  <2> QED BY <1>2, <1>3, <1>6, <1>8, <2>1, Zenon
<1> QED BY <1>7, <1>8

\* FlattenSeq of none ...
LEMMA FlattenNone == FlattenSeq(<<>>) = <<>>
<1>1. Len(<<>>) = 0
  OBVIOUS
<1> QED BY <1>1, Zenon DEF FlattenSeq

\* ... and of some.
LEMMA FlattenSome ==
  ASSUME NEW ss, Len(ss) \in Nat, Len(ss) # 0
  PROVE  \E f : Joins(f, ss, Len(ss)) /\ FlattenSeq(ss) = f[Len(ss)]
<1> DEFINE Flat(f) == f = [i \in 1..Len(ss) |-> IF i = 1 THEN ss[i] ELSE f[i - 1] \o ss[i]]
<1>1. FlattenSeq(ss) = (CHOOSE f : Flat(f))[Len(ss)]
  BY Zenon DEF FlattenSeq
<1>2. ASSUME NEW f PROVE Flat(f) <=> Joins(f, ss, Len(ss))
  BY DEF Joins
<1>3. PICK f : Joins(f, ss, Len(ss))
  BY JoinExists
<1>4. Flat(CHOOSE g : Flat(g))
  <2>1. Flat(f)
    BY <1>2, <1>3
  <2> HIDE DEF Flat
  <2> QED BY <2>1, Zenon
<1>5. Joins((CHOOSE g : Flat(g)), ss, Len(ss))
  <2> DEFINE g == CHOOSE h : Flat(h)
  <2>1. Flat(g)
    BY <1>4
  <2> HIDE DEF g
  <2> QED BY <1>2, <2>1
<1> HIDE DEF Flat
<1> QED BY <1>1, <1>5

\* One sequence more.
LEMMA FlattenMore ==
  ASSUME NEW ss, NEW tt, NEW n \in Nat, Len(ss) = n, Len(tt) = n + 1,
         \A i \in 1..n : ss[i] = tt[i], ss = <<>> <=> n = 0,
         FlattenSeq(ss) \in Seq(Tok), tt[n + 1] \in Seq(Tok)
  PROVE  FlattenSeq(tt) = FlattenSeq(ss) \o tt[n + 1] /\ FlattenSeq(tt) \in Seq(Tok)
<1> DEFINE m == n + 1
<1>1. m \in Nat /\ n <= m /\ m \in 1..m /\ m - 1 = n /\ (m = 1 <=> n = 0) /\ m # 0
  OBVIOUS
<1>2. PICK g : Joins(g, tt, m) /\ FlattenSeq(tt) = g[m]
  <2>1. Len(tt) \in Nat /\ Len(tt) # 0 /\ Len(tt) = m
    BY <1>1
  <2> QED BY <2>1, FlattenSome
<1> HIDE DEF m
<1>3. g[m] = IF m = 1 THEN tt[m] ELSE g[m - 1] \o tt[m]
  <2>1. JoinsAt(g, tt, m)
    BY <1>1, <1>2, JoinedAt
  <2> QED BY <2>1, Zenon DEF JoinsAt
<1>4. tt[m] \in Seq(Tok) /\ tt[m] = tt[n + 1]
  BY DEF m
<1>5. CASE n = 0
  <2>1. FlattenSeq(ss) = <<>> /\ FlattenSeq(tt) = tt[m]
    BY <1>1, <1>2, <1>3, <1>5, FlattenNone
  <2>2. <<>> \o tt[m] = tt[m]
    BY <1>4
  <2> QED BY <2>1, <2>2, <1>4
<1>6. CASE n # 0
  <2>1. PICK f : Joins(f, ss, n) /\ FlattenSeq(ss) = f[n]
    <3>1. Len(ss) \in Nat /\ Len(ss) # 0
      BY <1>6
    <3> QED BY <3>1, FlattenSome
  <2>2. n \in 1..n
    BY <1>6
  <2>3. f[n] = g[n]
    BY <1>1, <1>2, <2>1, <2>2, JoinsAgree
  <2>4. FlattenSeq(tt) = FlattenSeq(ss) \o tt[m]
    BY <1>1, <1>2, <1>3, <1>6, <2>1, <2>3
  <2> QED BY <2>4, <1>4
<1> QED BY <1>5, <1>6

\* The first i of the sequences ss, joined.
Upto(ss, i) == FlattenSeq([j \in 1..i |-> ss[j]])

\* Upto none of the sequences ...
LEMMA UptoNone == ASSUME NEW ss PROVE Upto(ss, 0) = <<>>
<1>1. [j \in 1..0 |-> ss[j]] = <<>>
  OBVIOUS
<1> QED BY <1>1, FlattenNone DEF Upto

\* ... one more ...
LEMMA UptoNext ==
  ASSUME NEW n \in Nat, NEW ss \in [1..n -> Seq(Tok)], NEW i \in Nat, i < n, Upto(ss, i) \in Seq(Tok)
  PROVE  Upto(ss, i + 1) = Upto(ss, i) \o ss[i + 1] /\ Upto(ss, i + 1) \in Seq(Tok)
<1> DEFINE a == [j \in 1..i |-> ss[j]]
           b == [j \in 1..i + 1 |-> ss[j]]
<1>1. /\ Len(a) = i /\ Len(b) = i + 1 /\ (a = <<>> <=> i = 0)
      /\ \A j \in 1..i : a[j] = b[j]
      /\ b[i + 1] = ss[i + 1] /\ ss[i + 1] \in Seq(Tok)
  <2>1. \A j \in 1..i + 1 : ss[j] \in Seq(Tok)
    OBVIOUS
  <2>2. a \in Seq(Seq(Tok)) /\ b \in Seq(Seq(Tok)) /\ Len(a) = i /\ Len(b) = i + 1
    BY <2>1
  <2>3. a = <<>> <=> i = 0
    <3>1. a = <<>> => i = 0
      <4>1. Len(<<>>) = 0
        OBVIOUS
      <4> HIDE DEF a
      <4> QED BY <4>1, <2>2
    <3>2. i = 0 => a = <<>>
      OBVIOUS
    <3> QED BY <3>1, <3>2
  <2>4. \A j \in 1..i : a[j] = b[j]
    OBVIOUS
  <2>5. b[i + 1] = ss[i + 1] /\ ss[i + 1] \in Seq(Tok)
    BY <2>1
  <2> QED BY <2>2, <2>3, <2>4, <2>5
<1>2. FlattenSeq(a) \in Seq(Tok)
  BY DEF Upto
<1> HIDE DEF a, b
<1>3. FlattenSeq(b) = FlattenSeq(a) \o b[i + 1] /\ FlattenSeq(b) \in Seq(Tok)
  BY <1>1, <1>2, FlattenMore
<1> QED BY <1>1, <1>3 DEF a, b, Upto

\* What is joined is tokens.
LEMMA UptoIs ==
  ASSUME NEW n \in Nat, NEW ss \in [1..n -> Seq(Tok)], NEW i \in 0..n
  PROVE  /\ Upto(ss, i) \in Seq(Tok)
         /\ i < n => Upto(ss, i + 1) = Upto(ss, i) \o ss[i + 1]
<1>1. Upto(ss, i) \in Seq(Tok)
  <2> SUFFICES ASSUME Upto(ss, i) \notin Seq(Tok) PROVE FALSE
    OBVIOUS
  <2> DEFINE T == {k \in 0..n : Upto(ss, k) \notin Seq(Tok)}
  <2>1. PICK k \in T : \A l \in T : k <= l
    <3>1. T \subseteq Nat /\ i \in T
      OBVIOUS
    <3> HIDE DEF T
    <3> QED BY <3>1, Smallest
  <2>2. k # 0
    <3>1. <<>> \in Seq(Tok)
      OBVIOUS
    <3> QED BY <3>1, <2>1, UptoNone
  <2> DEFINE l == k - 1
  <2>3. l \in Nat /\ l < n /\ l + 1 = k /\ l \notin T /\ l \in 0..n
    BY <2>1, <2>2
  <2>4. Upto(ss, l) \in Seq(Tok)
    BY <2>3
  <2>5. Upto(ss, k) \notin Seq(Tok)
    BY <2>1
  <2> HIDE DEF l, T
  <2>6. Upto(ss, l + 1) \in Seq(Tok)
    BY <2>3, <2>4, UptoNext
  <2> QED BY <2>3, <2>5, <2>6
<1>2. i < n => Upto(ss, i + 1) = Upto(ss, i) \o ss[i + 1]
  <2> SUFFICES ASSUME i < n PROVE Upto(ss, i + 1) = Upto(ss, i) \o ss[i + 1]
    OBVIOUS
  <2>1. i \in Nat
    OBVIOUS
  <2> QED BY <1>1, <2>1, UptoNext
<1> QED BY <1>1, <1>2

\* The first of the sequences, joined, are a prefix of all.
LEMMA UptoPrefix ==
  ASSUME NEW n \in Nat, NEW ss \in [1..n -> Seq(Tok)], NEW i \in 0..n
  PROVE  IsPrefix(Upto(ss, i), Upto(ss, n))
<1> DEFINE Holds(k) == IsPrefix(Upto(ss, n - k), Upto(ss, n))
           T == {k \in 0..n : ~Holds(k)}
<1> SUFFICES ASSUME T # {} PROVE FALSE
  <2>1. n - i \in 0..n /\ n - (n - i) = i
    OBVIOUS
  <2>2. T = {} => Holds(n - i)
    BY <2>1
  <2> QED BY <2>1, <2>2
<1> HIDE DEF Holds
<1>1. PICK k \in T : \A l \in T : k <= l
  <2>1. T \subseteq Nat
    OBVIOUS
  <2> HIDE DEF T
  <2> QED BY <2>1, Smallest
<1>2. k \in 0..n /\ ~Holds(k)
  BY <1>1
<1>3. Upto(ss, n) \in Seq(Tok)
  BY UptoIs
<1>4. Holds(0)
  BY <1>3, PrefixSelf DEF Holds
<1>5. k # 0 /\ k - 1 \in 0..n /\ k - 1 \notin T /\ Holds(k - 1)
  <2>1. k # 0
    BY <1>2, <1>4
  <2>2. k - 1 \in 0..n /\ k - 1 \notin T
    BY <1>1, <1>2, <2>1
  <2> QED BY <2>1, <2>2
<1> DEFINE j == n - k
<1>6. j \in 0..n /\ j < n /\ n - (k - 1) = j + 1
  BY <1>2, <1>5
<1>7. IsPrefix(Upto(ss, j + 1), Upto(ss, n)) /\ ~IsPrefix(Upto(ss, j), Upto(ss, n))
  BY <1>2, <1>5, <1>6 DEF Holds
<1> HIDE DEF j, T
<1>8. ss[j + 1] \in Seq(Tok)
  BY <1>6
<1>9. Upto(ss, j) \in Seq(Tok) /\ Upto(ss, j + 1) = Upto(ss, j) \o ss[j + 1]
  BY <1>6, UptoIs
<1>10. IsPrefix(Upto(ss, j), Upto(ss, j + 1)) /\ Upto(ss, j + 1) \in Seq(Tok)
  BY <1>8, <1>9, PrefixJoin, JoinIs
<1> QED BY <1>3, <1>7, <1>9, <1>10, PrefixTrans

(***************************************************************************)
(* Lines.                                                                  *)
(***************************************************************************)

LineAnd(line, y) == line \o (<<CR, LF>> \o y)

Inside(line) == line \in Seq(Tok) /\ \A i \in 1..Len(line) : line[i] # CR

\* CR and LF are tokens, and two make the end of a line.
LEMMA Ends ==
  /\ CR \in Tok /\ LF \in Tok /\ CR # LF
  /\ <<CR, LF>> \in Seq(Tok) /\ Len(<<CR, LF>>) = 2 /\ <<CR, LF>>[1] = CR /\ <<CR, LF>>[2] = LF
  /\ <<CR>> \in Seq(Tok) /\ <<LF>> \in Seq(Tok)
<1>1. CR = [k |-> "CR", n |-> 0] /\ LF = [k |-> "LF", n |-> 0]
  BY DEF CR, LF, Token
<1>2. CR \in Tok /\ LF \in Tok
  <2>1. "CR" \in Kinds /\ "LF" \in Kinds
    BY DEF Kinds
  <2> QED BY <2>1, <1>1 DEF Tok
<1>3. CR.k = "CR" /\ LF.k = "LF"
  BY <1>1
<1> HIDE DEF Tok
<1>4. CR # LF
  BY <1>3
<1> QED BY <1>2, <1>4

\* Where the end of a line and what follows are.
LEMMA LineIs ==
  ASSUME NEW l \in Seq(Tok), NEW y \in Seq(Tok)
  PROVE  /\ LineAnd(l, y) \in Seq(Tok) /\ Len(LineAnd(l, y)) = Len(l) + 2 + Len(y)
         /\ \A i \in 1..Len(l) : LineAnd(l, y)[i] = l[i]
         /\ LineAnd(l, y)[Len(l) + 1] = CR /\ LineAnd(l, y)[Len(l) + 2] = LF
         /\ Drop(LineAnd(l, y), Len(l) + 2) = y
<1>1. PICK e \in Seq(Tok) : e = <<CR, LF>> /\ Len(e) = 2 /\ e[1] = CR /\ e[2] = LF
  BY Ends
<1>2. PICK z \in Seq(Tok) : z = e \o y
  BY JoinIs
<1>3. Len(z) = 2 + Len(y) /\ z[1] = CR /\ z[2] = LF
  BY <1>1, <1>2, JoinIs
<1>4. PICK x \in Seq(Tok) : x = l \o z
  BY JoinIs
<1>5. /\ Len(x) = Len(l) + Len(z) /\ \A i \in 1..Len(l) : x[i] = l[i]
      /\ \A i \in 1..Len(z) : x[Len(l) + i] = z[i]
  BY <1>4, JoinIs
<1>6. x[Len(l) + 1] = CR /\ x[Len(l) + 2] = LF /\ Len(x) = Len(l) + 2 + Len(y)
  <2>1. 1 \in 1..Len(z) /\ 2 \in 1..Len(z)
    BY <1>3
  <2> QED BY <2>1, <1>3, <1>5
<1>7. Drop(x, Len(l) + 2) = y
  <2>1. Drop(x, Len(l)) = z
    BY <1>4, DropJoin
  <2>2. Drop(z, 2) = y
    BY <1>1, <1>2, DropJoin
  <2>3. Len(l) \in Nat /\ 2 \in Nat
    OBVIOUS
  <2>4. Drop(Drop(x, Len(l)), 2) = Drop(x, Len(l) + 2)
    BY <2>3, DropTwice
  <2> QED BY <2>1, <2>2, <2>4
<1>8. x = LineAnd(l, y)
  BY <1>1, <1>2, <1>4 DEF LineAnd
<1> QED BY <1>5, <1>6, <1>7, <1>8

\* strstr finds the first end of a line.
LEMMA LineEndIs ==
  ASSUME NEW b \in Seq(Tok), HasLine(b)
  PROVE  /\ LineEnd(b) \in 1..Len(b) /\ LineEnd(b) + 1 \in 1..Len(b) /\ EndsAt(b, LineEnd(b))
         /\ \A j \in 1..Len(b) : j < LineEnd(b) => ~EndsAt(b, j)
<1> DEFINE T == {i \in 1..Len(b) : EndsAt(b, i)}
<1>1. DOMAIN b = 1..Len(b)
  OBVIOUS
<1>2. PICK i \in T : \A j \in T : i <= j
  <2>1. T \subseteq Nat /\ T # {}
    BY <1>1 DEF HasLine
  <2> HIDE DEF T
  <2> QED BY <2>1, Smallest
<1>3. \E k \in DOMAIN b : EndsAt(b, k) /\ \A j \in 1..(k - 1) : ~EndsAt(b, j)
  <2>1. i \in DOMAIN b /\ EndsAt(b, i)
    BY <1>1, <1>2
  <2>2. \A j \in 1..(i - 1) : ~EndsAt(b, j)
    <3> SUFFICES ASSUME NEW j \in 1..(i - 1) PROVE ~EndsAt(b, j)
      OBVIOUS
    <3>1. j \in 1..Len(b) /\ j < i /\ j \notin T
      BY <1>1, <1>2
    <3> QED BY <3>1
  <2> QED BY <2>1, <2>2
<1>4. LineEnd(b) \in DOMAIN b /\ EndsAt(b, LineEnd(b)) /\ \A j \in 1..(LineEnd(b) - 1) : ~EndsAt(b, j)
  BY <1>3 DEF LineEnd
<1> QED BY <1>1, <1>4 DEF EndsAt

\* What the parser finds in the part b that has come of a line and of y.
LEMMA LineFound ==
  ASSUME NEW l, Inside(l), NEW y \in Seq(Tok), NEW b \in Seq(Tok),
         IsPrefix(b, LineAnd(l, y)), HasLine(b)
  PROVE  /\ FirstLine(b) = l /\ AfterLine(b) = Drop(b, Len(l) + 2) /\ Len(l) + 2 \in 0..Len(b)
<1>1. l \in Seq(Tok) /\ \A i \in 1..Len(l) : l[i] # CR
  BY DEF Inside
<1> DEFINE n == Len(l)
           e == LineEnd(b)
<1>2. n \in Nat /\ Len(b) \in Nat
  BY <1>1
<1>3. PICK x \in Seq(Tok) : x = LineAnd(l, y)
  BY <1>1, LineIs
<1>4. /\ \A i \in 1..n : x[i] = l[i]
      /\ x[n + 1] = CR /\ x[n + 2] = LF
  BY <1>1, <1>3, LineIs
<1>5. \A i \in 1..Len(b) : b[i] = x[i]
  BY <1>3, PrefixIs
<1>6. /\ e \in 1..Len(b) /\ e + 1 \in 1..Len(b) /\ EndsAt(b, e)
      /\ \A j \in 1..Len(b) : j < e => ~EndsAt(b, j)
  BY LineEndIs
<1>7. b[e] = CR
  BY <1>6 DEF EndsAt
<1> HIDE DEF n, e
<1>8. ~(e <= n)
  <2> SUFFICES ASSUME e <= n PROVE FALSE
    OBVIOUS
  <2>1. e \in 1..n /\ b[e] = x[e]
    BY <1>2, <1>5, <1>6
  <2>2. x[e] = l[e] /\ l[e] # CR
    BY <2>1, <1>1, <1>4 DEF n
  <2> QED BY <2>1, <2>2, <1>7
<1>9. ~(n + 1 < e)
  <2> SUFFICES ASSUME n + 1 < e PROVE FALSE
    OBVIOUS
  <2>1. n + 1 \in 1..Len(b) /\ n + 2 \in 1..Len(b)
    BY <1>2, <1>6
  <2>2. b[n + 1] = CR /\ b[n + 2] = LF
    BY <2>1, <1>4, <1>5
  <2>3. EndsAt(b, n + 1)
    <3>1. DOMAIN b = 1..Len(b) /\ (n + 1) + 1 = n + 2
      BY <1>2
    <3> QED BY <2>1, <2>2, <3>1 DEF EndsAt
  <2> QED BY <2>1, <2>3, <1>6
<1>10. e = n + 1
  BY <1>2, <1>6, <1>8, <1>9
<1>11. n + 2 \in 0..Len(b) /\ e - 1 = n /\ e + 1 = n + 2
  BY <1>2, <1>6, <1>10
<1>12. FirstLine(b) = SubSeq(b, 1, n) /\ AfterLine(b) = Drop(b, n + 2)
  BY <1>11 DEF FirstLine, AfterLine, e
<1>13. SubSeq(b, 1, n) = l
  <2>1. /\ SubSeq(b, 1, n) \in Seq(Tok) /\ Len(SubSeq(b, 1, n)) = n
        /\ \A i \in 1..n : SubSeq(b, 1, n)[i] = b[i]
    BY <1>2, <1>11
  <2>2. \A i \in 1..n : b[i] = l[i]
    BY <1>2, <1>4, <1>5, <1>11
  <2>3. PICK z \in Seq(Tok) : z = SubSeq(b, 1, n) /\ Len(z) = n /\ \A i \in 1..n : z[i] = l[i]
    BY <2>1, <2>2
  <2>4. z = l
    BY <2>3, <1>1, SameSeq DEF n
  <2> QED BY <2>3, <2>4
<1> QED BY <1>11, <1>12, <1>13 DEF n

\* A line with its end, and what follows.
LEMMA LineAndIs ==
  ASSUME NEW l \in Seq(Tok), NEW y \in Seq(Tok)
  PROVE  Line(l) \o y = LineAnd(l, y) /\ Line(l) \in Seq(Tok)
BY Ends, Associate DEF Line, LineAnd

(***************************************************************************)
(* What a server sends, taken apart from the end.                          *)
(***************************************************************************)

\* What is behind the first i of the sequences.
Behind(ss, n, i) == Drop(Upto(ss, n), Len(Upto(ss, i)))

\* Behind the first i comes the next and what is behind that.
LEMMA BehindIs ==
  ASSUME NEW n \in Nat, NEW ss \in [1..n -> Seq(Tok)], NEW i \in 0..n
  PROVE  /\ Behind(ss, n, i) \in Seq(Tok)
         /\ i < n => Behind(ss, n, i) = ss[i + 1] \o Behind(ss, n, i + 1)
<1>1. PICK all \in Seq(Tok) : all = Upto(ss, n)
  BY UptoIs
<1>2. PICK u \in Seq(Tok) : u = Upto(ss, i)
  BY UptoIs
<1>3. Behind(ss, n, i) = Drop(all, Len(u)) /\ Len(u) \in Nat
  BY <1>1, <1>2 DEF Behind
<1>4. Behind(ss, n, i) \in Seq(Tok)
  BY <1>3, DropIs
<1>5. ASSUME i < n PROVE Behind(ss, n, i) = ss[i + 1] \o Behind(ss, n, i + 1)
  <2>1. i + 1 \in 0..n /\ ss[i + 1] \in Seq(Tok)
    BY <1>5
  <2>2. PICK v \in Seq(Tok) : v = Upto(ss, i + 1)
    BY <2>1, UptoIs
  <2>3. PICK s \in Seq(Tok) : s = ss[i + 1]
    BY <2>1
  <2>4. v = u \o s
    BY <2>2, <2>3, <1>2, <1>5, UptoIs
  <2>5. IsPrefix(v, all)
    BY <2>1, <2>2, <1>1, UptoPrefix
  <2>6. PICK d \in Seq(Tok) : d = Drop(all, Len(v))
    BY <2>2, DropIs
  <2>7. all = v \o d
    BY <2>5, <2>6, SplitPrefix
  <2>8. PICK e \in Seq(Tok) : e = s \o d
    BY JoinIs
  <2>9. all = u \o e
    BY <2>4, <2>7, <2>8, Associate
  <2>10. Drop(all, Len(u)) = e
    BY <2>9, DropJoin
  <2>11. Behind(ss, n, i + 1) = d
    BY <2>2, <2>6, <1>1 DEF Behind
  <2> QED BY <2>3, <2>8, <2>10, <2>11, <1>3
<1> QED BY <1>4, <1>5

\* Behind none is everything, behind all is nothing.
LEMMA BehindEnds ==
  ASSUME NEW n \in Nat, NEW ss \in [1..n -> Seq(Tok)]
  PROVE  Behind(ss, n, 0) = Upto(ss, n) /\ Behind(ss, n, n) = <<>>
<1>1. PICK all \in Seq(Tok) : all = Upto(ss, n)
  BY UptoIs
<1>2. Drop(all, 0) = all /\ Drop(all, Len(all)) = <<>>
  BY EmptyJoin
<1>3. Len(<<>>) = 0
  OBVIOUS
<1> QED BY <1>1, <1>2, <1>3, UptoNone DEF Behind

\* ... and all of them.
LEMMA UptoAll ==
  ASSUME NEW n \in Nat, NEW ss, ss = [i \in 1..n |-> ss[i]]
  PROVE  Upto(ss, n) = FlattenSeq(ss)
BY DEF Upto

-----------------------------------------------------------------------------
\* The fields of an answer.
LEMMA ReplyIs ==
  ASSUME NEW r \in Reply
  PROVE  /\ r.code \in Nat /\ r.framing \in Framings /\ r.sizes \in Seq(Nat)
         /\ r.close \in BOOLEAN /\ r.other \in Nat
         /\ Len(r.sizes) \in Nat /\ \A i \in 1..Len(r.sizes) : r.sizes[i] \in Nat
         /\ r.framing = "length" => Len(r.sizes) = 1
         /\ r.framing = "none" => Len(r.sizes) = 0
         /\ r.framing = "chunked" => \A i \in 1..Len(r.sizes) : r.sizes[i] > 0
         /\ r # NULL
<1>1. /\ r \in [code : Nat, framing : Framings, sizes : Seq(Nat), close : BOOLEAN, other : Nat]
      /\ r.framing = "length" => Len(r.sizes) = 1
      /\ r.framing = "none" => r.sizes = <<>>
      /\ r.framing = "chunked" => \A i \in DOMAIN r.sizes : r.sizes[i] > 0
  BY ReplyAssumption
<1>2. r # NULL
  <2>1. "framing" \in DOMAIN r
    BY <1>1
  <2>2. "framing" \notin DOMAIN NULL
    BY DEF NULL
  <2> QED BY <2>1, <2>2
<1> QED BY <1>1, <1>2

\* The data of a chunk.
LEMMA ChunkDataIs ==
  ASSUME NEW r \in Reply, NEW i \in 1..Len(r.sizes)
  PROVE  /\ ChunkData(r, i) \in Seq(Tok) /\ Len(ChunkData(r, i)) = r.sizes[i]
         /\ Inside(ChunkData(r, i)) /\ r.sizes[i] \in Nat
<1>1. r.sizes[i] \in Nat /\ i \in Nat
  BY ReplyIs
<1> DEFINE d == [j \in 1..r.sizes[i] |-> Token("data", 10 * i + j)]
<1>2. ASSUME NEW j \in 1..r.sizes[i] PROVE d[j] \in Tok /\ d[j] # CR
  <2>1. 10 * i + j \in Nat
    BY <1>1
  <2>2. d[j] = [k |-> "data", n |-> 10 * i + j] /\ "data" \in Kinds
    BY DEF Token, Kinds
  <2>3. CR.k = "CR" /\ d[j].k = "data"
    BY <2>2 DEF CR, Token
  <2>4. d[j] # CR
    <3> HIDE DEF d
    <3> QED BY <2>3
  <2> QED BY <2>1, <2>2, <2>4 DEF Tok
<1>3. d \in Seq(Tok) /\ Len(d) = r.sizes[i]
  <2>1. d \in [1..r.sizes[i] -> Tok]
    BY <1>2
  <2> HIDE DEF d
  <2> QED BY <2>1, <1>1
<1>4. d = ChunkData(r, i)
  BY DEF ChunkData
<1> QED BY <1>1, <1>2, <1>3, <1>4 DEF Inside

Data(r)   == [i \in 1..Len(r.sizes) |-> ChunkData(r, i)]
Chunks(r) == [i \in 1..Len(r.sizes) |-> Chunk(r, i)]

\* The data of the first i chunks, and what is sent behind them.
DataTo(r, i)     == Upto(Data(r), i)
ChunksFrom(r, i) == Behind(Chunks(r), Len(r.sizes), i) \o LastChunk

Size(n) == <<Token("size", n)>>

\* The data of the first chunks, one more each time, up to the payload.
LEMMA DataIs ==
  ASSUME NEW r \in Reply, NEW i \in 0..Len(r.sizes)
  PROVE  /\ DataTo(r, i) \in Seq(Tok)
         /\ i < Len(r.sizes) =>
              /\ DataTo(r, i + 1) = DataTo(r, i) \o ChunkData(r, i + 1)
              /\ Len(DataTo(r, i + 1)) = Len(DataTo(r, i)) + r.sizes[i + 1]
         /\ Payload(r) = DataTo(r, Len(r.sizes)) /\ Payload(r) \in Seq(Tok)
         /\ IsPrefix(DataTo(r, i), Payload(r))
         /\ DataTo(r, 0) = <<>>
<1> DEFINE n == Len(r.sizes)
<1>1. n \in Nat /\ Data(r) \in [1..n -> Seq(Tok)]
  BY ReplyIs, ChunkDataIs DEF Data
<1>2. \A j \in 1..n : Data(r)[j] = ChunkData(r, j)
  BY DEF Data
<1>3. Data(r) = [j \in 1..n |-> Data(r)[j]] /\ Payload(r) = FlattenSeq(Data(r))
  BY DEF Data, Payload
<1>4. i \in 0..n /\ n \in 0..n
  BY <1>1
<1> HIDE DEF n
<1>5. Payload(r) = DataTo(r, n) /\ Payload(r) \in Seq(Tok)
  BY <1>1, <1>3, <1>4, UptoAll, UptoIs DEF DataTo
<1>6. DataTo(r, i) \in Seq(Tok)
  BY <1>1, <1>4, UptoIs DEF DataTo
<1>7. ASSUME i < n
      PROVE  /\ DataTo(r, i + 1) = DataTo(r, i) \o ChunkData(r, i + 1)
             /\ Len(DataTo(r, i + 1)) = Len(DataTo(r, i)) + r.sizes[i + 1]
  <2>1. i + 1 \in 1..n
    BY <1>1, <1>4, <1>7
  <2>2. DataTo(r, i + 1) = DataTo(r, i) \o ChunkData(r, i + 1)
    BY <2>1, <1>1, <1>2, <1>4, <1>7, UptoIs DEF DataTo
  <2>3. ChunkData(r, i + 1) \in Seq(Tok) /\ Len(ChunkData(r, i + 1)) = r.sizes[i + 1]
    BY <2>1, ChunkDataIs DEF n
  <2> QED BY <2>2, <2>3, <1>6, JoinIs
<1>8. IsPrefix(DataTo(r, i), Payload(r))
  BY <1>1, <1>4, <1>5, UptoPrefix DEF DataTo
<1>9. DataTo(r, 0) = <<>>
  BY UptoNone DEF DataTo
<1> QED BY <1>5, <1>6, <1>7, <1>8, <1>9 DEF n

\* A size line.
LEMMA SizeIs ==
  ASSUME NEW n \in Nat
  PROVE  Inside(Size(n)) /\ Size(n) # <<>> /\ Len(Size(n)) = 1 /\ Size(n)[1] = [k |-> "size", n |-> n]
<1>1. Size(n) = <<[k |-> "size", n |-> n]>> /\ [k |-> "size", n |-> n] \in Tok
  BY DEF Size, Token, Tok, Kinds
<1>2. PICK t \in Tok : t = [k |-> "size", n |-> n]
  BY <1>1
<1>3. t.k = "size" /\ CR.k = "CR"
  BY <1>2 DEF CR, Token
<1>4. t # CR
  BY <1>3
<1>5. <<t>> \in Seq(Tok) /\ Len(<<t>>) = 1 /\ <<t>>[1] = t
  OBVIOUS
<1> QED BY <1>1, <1>2, <1>4, <1>5 DEF Inside

\* The last chunk.
LEMMA LastIs == LastChunk = LineAnd(Size(0), <<CR, LF>>) /\ LastChunk \in Seq(Tok)
<1>1. Line(<<>>) = <<CR, LF>> /\ <<CR, LF>> \in Seq(Tok)
  BY Ends, EmptyJoin DEF Line
<1>2. Size(0) \in Seq(Tok)
  BY SizeIs DEF Inside
<1>3. LastChunk = Line(Size(0)) \o <<CR, LF>>
  BY <1>1 DEF LastChunk, Size
<1> QED BY <1>1, <1>2, <1>3, LineAndIs, LineIs

\* A chunk is a size line, data and the end of a line.
LEMMA ChunkAnd ==
  ASSUME NEW r \in Reply, NEW i \in 1..Len(r.sizes), NEW y \in Seq(Tok)
  PROVE  /\ Chunk(r, i) \in Seq(Tok)
         /\ Chunk(r, i) \o y = LineAnd(Size(r.sizes[i]), LineAnd(ChunkData(r, i), y))
<1>1. PICK a \in Seq(Tok) : a = Line(Size(r.sizes[i]))
  BY ChunkDataIs, SizeIs, LineAndIs DEF Inside
<1>2. PICK b \in Seq(Tok) : b = Line(ChunkData(r, i))
  BY ChunkDataIs, LineAndIs
<1>3. Chunk(r, i) = a \o b
  BY <1>1, <1>2 DEF Chunk, Size
<1>4. Chunk(r, i) \o y = a \o (b \o y)
  BY <1>3, Associate
<1>5. b \o y = LineAnd(ChunkData(r, i), y) /\ b \o y \in Seq(Tok)
  BY <1>2, ChunkDataIs, LineAndIs, JoinIs
<1>6. Size(r.sizes[i]) \in Seq(Tok)
  BY ChunkDataIs, SizeIs DEF Inside
<1>7. a \o (b \o y) = LineAnd(Size(r.sizes[i]), b \o y)
  BY <1>1, <1>5, <1>6, LineAndIs
<1> QED BY <1>3, <1>4, <1>5, <1>7, JoinIs

\* From chunk i on: that chunk and the rest, or the last one.
LEMMA ChunksFromIs ==
  ASSUME NEW r \in Reply, NEW i \in 0..Len(r.sizes)
  PROVE  /\ ChunksFrom(r, i) \in Seq(Tok)
         /\ i < Len(r.sizes) =>
              ChunksFrom(r, i) = LineAnd(Size(r.sizes[i + 1]),
                                         LineAnd(ChunkData(r, i + 1), ChunksFrom(r, i + 1)))
         /\ ChunksFrom(r, Len(r.sizes)) = LineAnd(Size(0), <<CR, LF>>)
         /\ ChunksFrom(r, 0) = FlattenSeq(Chunks(r)) \o LastChunk
<1> DEFINE n == Len(r.sizes)
<1>1. n \in Nat /\ <<>> \in Seq(Tok)
  BY ReplyIs
<1>2. Chunks(r) \in [1..n -> Seq(Tok)]
  BY ChunkAnd, <1>1 DEF Chunks
<1>3. \A j \in 1..n : Chunks(r)[j] = Chunk(r, j)
  BY DEF Chunks
<1>4. Chunks(r) = [j \in 1..n |-> Chunks(r)[j]]
  BY DEF Chunks
<1>5. i \in 0..n /\ n \in 0..n
  BY <1>1
<1> HIDE DEF n
<1>6. PICK b \in Seq(Tok) : b = Behind(Chunks(r), n, i)
  BY <1>1, <1>2, <1>5, BehindIs
<1>7. ChunksFrom(r, i) = b \o LastChunk /\ ChunksFrom(r, i) \in Seq(Tok)
  BY <1>6, LastIs, JoinIs DEF ChunksFrom, n
<1>8. ASSUME i < n
      PROVE  ChunksFrom(r, i) = LineAnd(Size(r.sizes[i + 1]),
                                         LineAnd(ChunkData(r, i + 1), ChunksFrom(r, i + 1)))
  <2>1. i + 1 \in 1..n /\ i + 1 \in 0..n
    BY <1>1, <1>5, <1>8
  <2>2. PICK c \in Seq(Tok) : c = Behind(Chunks(r), n, i + 1)
    BY <2>1, <1>1, <1>2, BehindIs
  <2>3. PICK h \in Seq(Tok) : h = Chunk(r, i + 1)
    BY <2>1, <1>1, ChunkAnd DEF n
  <2>4. b = h \o c
    BY <2>1, <2>2, <2>3, <1>1, <1>2, <1>3, <1>5, <1>6, <1>8, BehindIs
  <2>5. PICK d \in Seq(Tok) : d = c \o LastChunk
    BY LastIs, JoinIs
  <2>6. d = ChunksFrom(r, i + 1)
    BY <2>2, <2>5 DEF ChunksFrom, n
  <2>7. b \o LastChunk = h \o d
    BY <2>4, <2>5, LastIs, Associate
  <2>8. h \o d = LineAnd(Size(r.sizes[i + 1]), LineAnd(ChunkData(r, i + 1), d))
    BY <2>1, <2>3, ChunkAnd DEF n
  <2> QED BY <2>6, <2>7, <2>8, <1>7
<1>9. ChunksFrom(r, n) = LineAnd(Size(0), <<CR, LF>>)
  BY <1>1, <1>2, BehindEnds, LastIs, EmptyJoin DEF ChunksFrom, n
<1>10. ChunksFrom(r, 0) = FlattenSeq(Chunks(r)) \o LastChunk
  BY <1>1, <1>2, <1>4, BehindEnds, UptoAll DEF ChunksFrom, n
<1> QED BY <1>7, <1>8, <1>9, <1>10 DEF n

\* The lines of an answer's head, and what is behind each.
One(k, n)  == <<Token(k, n)>>
Others(r)  == [i \in 1..r.other |-> Token("other", 0)]

BodyOf(r)       == IF r.framing = "chunked" THEN ChunksFrom(r, 0) ELSE Payload(r)
AfterOther(r)   == LineAnd(<<>>, BodyOf(r))
AfterClose(r)   == IF r.other > 0 THEN LineAnd(Others(r), AfterOther(r)) ELSE AfterOther(r)
AfterFraming(r) == IF r.close THEN LineAnd(One("close", 0), AfterClose(r)) ELSE AfterClose(r)
AfterStatus(r)  == IF r.framing = "length" THEN LineAnd(One("length", r.sizes[1]), AfterFraming(r))
                   ELSE IF r.framing = "chunked" THEN LineAnd(One("chunked", 0), AfterFraming(r))
                   ELSE AfterFraming(r)

\* A line of one token.
LEMMA OneIs ==
  ASSUME NEW k \in Kinds \ {"CR"}, NEW n \in Nat
  PROVE  /\ Inside(One(k, n)) /\ One(k, n) # <<>> /\ Len(One(k, n)) = 1
         /\ One(k, n)[1] = [k |-> k, n |-> n]
<1>1. One(k, n) = <<[k |-> k, n |-> n]>> /\ [k |-> k, n |-> n] \in Tok
  BY DEF One, Token, Tok
<1>2. PICK t \in Tok : t = [k |-> k, n |-> n]
  BY <1>1
<1>3. t.k = k /\ CR.k = "CR"
  BY <1>2 DEF CR, Token
<1>4. t # CR
  BY <1>3
<1>5. <<t>> \in Seq(Tok) /\ Len(<<t>>) = 1 /\ <<t>>[1] = t
  OBVIOUS
<1> QED BY <1>1, <1>2, <1>4, <1>5 DEF Inside

\* A header line that means nothing to the client.
LEMMA OthersIs ==
  ASSUME NEW r \in Reply, r.other > 0
  PROVE  /\ Inside(Others(r)) /\ Others(r) # <<>>
         /\ Others(r)[1] = [k |-> "other", n |-> 0]
<1>1. r.other \in Nat /\ 1 \in 1..r.other
  BY ReplyIs
<1>2. PICK t \in Tok : t = Token("other", 0)
  BY DEF Token, Tok, Kinds
<1>3. t.k = "other" /\ CR.k = "CR" /\ t = [k |-> "other", n |-> 0]
  BY <1>2 DEF CR, Token
<1>4. t # CR
  BY <1>3
<1>5. PICK s \in [1..r.other -> Tok] : s = Others(r)
  BY <1>2 DEF Others
<1>6. \A i \in 1..r.other : s[i] = t
  BY <1>2, <1>5 DEF Others
<1>7. s \in Seq(Tok) /\ Len(s) = r.other /\ s # <<>>
  BY <1>1, <1>5
<1> QED BY <1>1, <1>3, <1>4, <1>5, <1>6, <1>7 DEF Inside

\* The empty line.
LEMMA NoLine == Inside(<<>>) /\ Len(<<>>) = 0 /\ <<>> \in Seq(Tok)
BY DEF Inside

\* The body as it is sent is tokens.
LEMMA BodyOfIs ==
  ASSUME NEW r \in Reply
  PROVE  BodyOf(r) \in Seq(Tok)
<1>1. 0 \in 0..Len(r.sizes)
  BY ReplyIs
<1> QED BY <1>1, ChunksFromIs, DataIs DEF BodyOf

\* Each part of an answer is tokens.
LEMMA Parts ==
  ASSUME NEW r \in Reply
  PROVE  /\ AfterOther(r) \in Seq(Tok) /\ AfterClose(r) \in Seq(Tok)
         /\ AfterFraming(r) \in Seq(Tok) /\ AfterStatus(r) \in Seq(Tok)
<1>1. AfterOther(r) \in Seq(Tok)
  BY BodyOfIs, NoLine, LineIs DEF AfterOther
<1>2. AfterClose(r) \in Seq(Tok)
  BY <1>1, OthersIs, LineIs DEF AfterClose, Inside
<1>3. AfterFraming(r) \in Seq(Tok)
  <2>1. One("close", 0) \in Seq(Tok)
    BY OneIs DEF Inside, Kinds
  <2> QED BY <2>1, <1>2, LineIs DEF AfterFraming
<1>4. AfterStatus(r) \in Seq(Tok)
  <2>1. One("chunked", 0) \in Seq(Tok)
    BY OneIs DEF Inside, Kinds
  <2>2. CASE r.framing = "length"
    <3>1. r.sizes[1] \in Nat
      BY <2>2, ReplyIs
    <3>2. One("length", r.sizes[1]) \in Seq(Tok)
      BY <3>1, OneIs DEF Inside, Kinds
    <3> QED BY <3>2, <2>2, <1>3, LineIs DEF AfterStatus
  <2> QED BY <2>1, <2>2, <1>3, LineIs DEF AfterStatus
<1> QED BY <1>1, <1>2, <1>3, <1>4

\* A line that may be missing.
LEMMA Optional ==
  ASSUME NEW c \in BOOLEAN, NEW l, c => l \in Seq(Tok), NEW y \in Seq(Tok)
  PROVE  /\ (IF c THEN Line(l) ELSE <<>>) \in Seq(Tok)
         /\ (IF c THEN Line(l) ELSE <<>>) \o y = IF c THEN LineAnd(l, y) ELSE y
<1>1. CASE c
  BY <1>1, LineAndIs
<1>2. CASE ~c
  BY <1>2, EmptyJoin, NoLine
<1> QED BY <1>1, <1>2

\* An answer, line by line.
LEMMA SentIs ==
  ASSUME NEW r \in Reply
  PROVE  Sent(r) = LineAnd(One("status", r.code), AfterStatus(r)) /\ Sent(r) \in Seq(Tok)
<1> DEFINE status == Line(One("status", r.code))
           framing == IF r.framing = "length" THEN Line(One("length", r.sizes[1]))
                      ELSE IF r.framing = "chunked" THEN Line(One("chunked", 0))
                      ELSE <<>>
           close == IF r.close THEN Line(One("close", 0)) ELSE <<>>
           other == IF r.other > 0 THEN Line(Others(r)) ELSE <<>>
           end   == Line(<<>>)
<1>1. One("status", r.code) \in Seq(Tok) /\ One("close", 0) \in Seq(Tok) /\ One("chunked", 0) \in Seq(Tok)
  BY OneIs, ReplyIs DEF Inside, Kinds
<1>2. r.framing = "length" => One("length", r.sizes[1]) \in Seq(Tok)
  <2>1. r.framing = "length" => r.sizes[1] \in Nat
    BY ReplyIs
  <2> QED BY <2>1, OneIs DEF Inside, Kinds
<1>3. r.other > 0 => Others(r) \in Seq(Tok)
  BY OthersIs DEF Inside
<1>4. r.close \in BOOLEAN /\ (r.other > 0) \in BOOLEAN
  BY ReplyIs
<1>5. Headers(r) = (((status \o framing) \o close) \o other) \o end
  BY DEF Headers, One, Others
<1>6. Sent(r) = Headers(r) \o BodyOf(r)
  <2>1. 0 \in 0..Len(r.sizes)
    BY ReplyIs
  <2>2. ChunksFrom(r, 0) = FlattenSeq(Chunks(r)) \o LastChunk
    BY <2>1, ChunksFromIs
  <2> QED BY <2>2 DEF Sent, BodyOf, Chunks
<1>7. end \in Seq(Tok) /\ end \o BodyOf(r) = AfterOther(r)
  BY NoLine, BodyOfIs, LineAndIs DEF AfterOther
<1>8. other \in Seq(Tok) /\ other \o AfterOther(r) = AfterClose(r)
  BY <1>3, <1>4, Parts, Optional DEF AfterClose
<1>9. close \in Seq(Tok) /\ close \o AfterClose(r) = AfterFraming(r)
  BY <1>1, <1>4, Parts, Optional DEF AfterFraming
<1>10. framing \in Seq(Tok) /\ framing \o AfterFraming(r) = AfterStatus(r)
  <2>1. CASE r.framing = "length"
    BY <2>1, <1>2, Parts, LineAndIs DEF AfterStatus
  <2>2. CASE r.framing = "chunked"
    BY <2>2, <1>1, Parts, LineAndIs DEF AfterStatus
  <2>3. CASE r.framing # "length" /\ r.framing # "chunked"
    BY <2>3, Parts, EmptyJoin, NoLine DEF AfterStatus
  <2> QED BY <2>1, <2>2, <2>3
<1>11. status \in Seq(Tok) /\ status \o AfterStatus(r) = LineAnd(One("status", r.code), AfterStatus(r))
  BY <1>1, Parts, LineAndIs
<1> DEFINE head2 == status \o framing
           head3 == head2 \o close
           head4 == head3 \o other
           head5 == head4 \o end
<1> HIDE DEF status, framing, close, other, end
<1>12. head2 \in Seq(Tok)
  BY <1>10, <1>11
<1> HIDE DEF head2
<1>13. head3 \in Seq(Tok)
  BY <1>9, <1>12
<1> HIDE DEF head3
<1>14. head4 \in Seq(Tok)
  BY <1>8, <1>13
<1> HIDE DEF head4
<1>15. head5 \o BodyOf(r) = head4 \o AfterOther(r)
  <2>1. head4 \in Seq(Tok) /\ end \in Seq(Tok) /\ BodyOf(r) \in Seq(Tok)
    BY <1>7, <1>14, BodyOfIs
  <2>2. (head4 \o end) \o BodyOf(r) = head4 \o (end \o BodyOf(r))
    BY <2>1, Associate, Zenon
  <2> QED BY <2>2, <1>7, Zenon DEF head5
<1>16. head4 \o AfterOther(r) = head3 \o AfterClose(r)
  <2>1. head3 \in Seq(Tok) /\ other \in Seq(Tok) /\ AfterOther(r) \in Seq(Tok)
    BY <1>8, <1>13, Parts
  <2>2. (head3 \o other) \o AfterOther(r) = head3 \o (other \o AfterOther(r))
    BY <2>1, Associate, Zenon
  <2> QED BY <2>2, <1>8, Zenon DEF head4
<1>17. head3 \o AfterClose(r) = head2 \o AfterFraming(r)
  <2>1. head2 \in Seq(Tok) /\ close \in Seq(Tok) /\ AfterClose(r) \in Seq(Tok)
    BY <1>9, <1>12, Parts
  <2>2. (head2 \o close) \o AfterClose(r) = head2 \o (close \o AfterClose(r))
    BY <2>1, Associate, Zenon
  <2> QED BY <2>2, <1>9, Zenon DEF head3
<1>18. head2 \o AfterFraming(r) = status \o AfterStatus(r)
  <2>1. status \in Seq(Tok) /\ framing \in Seq(Tok) /\ AfterFraming(r) \in Seq(Tok)
    BY <1>10, <1>11, Parts
  <2>2. (status \o framing) \o AfterFraming(r) = status \o (framing \o AfterFraming(r))
    BY <2>1, Associate, Zenon
  <2> QED BY <2>2, <1>10, Zenon DEF head2
<1>19. Headers(r) = head5
  BY <1>5 DEF head2, head3, head4, head5
<1>20. Sent(r) = LineAnd(One("status", r.code), AfterStatus(r))
  BY <1>6, <1>11, <1>15, <1>16, <1>17, <1>18, <1>19
<1> QED BY <1>1, <1>20, Parts, LineIs

(***************************************************************************)
(* What is to come.                                                        *)
(***************************************************************************)

\* The tokens x are to come, in the buffer b and on the wire w behind it, or
\* what the server got to send of them before it went.
ToCome(up, b, w, x) == IF up = "up" THEN b \o w = x ELSE IsPrefix(b \o w, x)

\* What is there is a prefix of what is to come.
LEMMA ComePrefix ==
  ASSUME NEW up, NEW b \in Seq(Tok), NEW w \in Seq(Tok), NEW x \in Seq(Tok), ToCome(up, b, w, x)
  PROVE  /\ IsPrefix(b \o w, x) /\ IsPrefix(b, x)
         /\ Len(b) <= Len(x) /\ \A i \in 1..Len(b) : b[i] = x[i]
         /\ Len(b) + Len(w) <= Len(x)
         /\ up = "up" => Len(b) + Len(w) = Len(x)
<1>1. PICK bw \in Seq(Tok) : bw = b \o w
  BY JoinIs
<1>2. IsPrefix(bw, x) /\ (up = "up" => bw = x)
  BY <1>1, PrefixSelf DEF ToCome
<1>3. IsPrefix(b, bw) /\ Len(bw) = Len(b) + Len(w)
  BY <1>1, PrefixJoin, JoinIs
<1>4. IsPrefix(b, x)
  BY <1>2, <1>3, PrefixTrans
<1> QED BY <1>1, <1>2, <1>3, <1>4, PrefixIs

\* Something is taken off the buffer.
LEMMA ComeDrop ==
  ASSUME NEW up, NEW b \in Seq(Tok), NEW w \in Seq(Tok), NEW x \in Seq(Tok), ToCome(up, b, w, x),
         NEW n \in 0..Len(b)
  PROVE  ToCome(up, Drop(b, n), w, Drop(x, n))
<1>1. PICK bw \in Seq(Tok) : bw = b \o w
  BY JoinIs
<1>2. Len(bw) = Len(b) + Len(w) /\ n \in 0..Len(bw)
  BY <1>1, JoinIs
<1>3. Drop(bw, n) = Drop(b, n) \o w
  BY <1>1, DropMore
<1>4. CASE up = "up"
  BY <1>1, <1>3, <1>4 DEF ToCome
<1>5. CASE up # "up"
  BY <1>1, <1>2, <1>3, <1>5, DropPrefix DEF ToCome
<1> QED BY <1>4, <1>5

\* A read moves tokens into the buffer.
LEMMA ComeRead ==
  ASSUME NEW up, NEW b \in Seq(Tok), NEW w \in Seq(Tok), NEW x, ToCome(up, b, w, x),
         NEW n \in 0..Len(w)
  PROVE  ToCome(up, b \o Take(w, n), Drop(w, n), x)
<1>1. PICK t \in Seq(Tok) : t = Take(w, n)
  BY TakeIs
<1>2. PICK d \in Seq(Tok) : d = Drop(w, n)
  BY DropIs
<1>3. t \o d = w
  BY <1>1, <1>2, TakeDrop
<1>4. (b \o t) \o d = b \o w
  BY <1>3, Associate
<1> QED BY <1>1, <1>2, <1>4 DEF ToCome

\* What is taken is a prefix.
LEMMA TakePrefix ==
  ASSUME NEW s \in Seq(Tok), NEW n \in Nat
  PROVE  IsPrefix(Take(s, n), s)
BY TakeIs, PrefixIs

\* A part before a prefix leaves it one.
LEMMA JoinPrefix ==
  ASSUME NEW b \in Seq(Tok), NEW v \in Seq(Tok), NEW w \in Seq(Tok), IsPrefix(v, w)
  PROVE  IsPrefix(b \o v, b \o w)
<1>1. PICK d \in Seq(Tok) : d = Drop(w, Len(v))
  BY DropIs
<1>2. w = v \o d
  BY <1>1, SplitPrefix
<1>3. PICK bv \in Seq(Tok) : bv = b \o v
  BY JoinIs
<1>4. bv \o d = b \o w
  BY <1>2, <1>3, Associate
<1> QED BY <1>3, <1>4, PrefixJoin

\* A server that goes leaves a part of what is to come.
LEMMA ComeLess ==
  ASSUME NEW up, NEW b \in Seq(Tok), NEW w \in Seq(Tok), NEW x \in Seq(Tok), ToCome(up, b, w, x),
         NEW gone, gone # "up", NEW v \in Seq(Tok), IsPrefix(v, w)
  PROVE  ToCome(gone, b, v, x)
<1>1. PICK bw \in Seq(Tok) : bw = b \o w
  BY JoinIs
<1>2. PICK bv \in Seq(Tok) : bv = b \o v
  BY JoinIs
<1>3. IsPrefix(bv, bw)
  BY <1>1, <1>2, JoinPrefix
<1>4. IsPrefix(bw, x)
  BY <1>1, ComePrefix
<1>5. IsPrefix(bv, x)
  BY <1>3, <1>4, PrefixTrans
<1> QED BY <1>2, <1>5 DEF ToCome

\* A line is to come, and the buffer has an end of line: it is that line.
LEMMA ComeLine ==
  ASSUME NEW up, NEW b \in Seq(Tok), NEW w \in Seq(Tok), NEW l, Inside(l), NEW y \in Seq(Tok),
         ToCome(up, b, w, LineAnd(l, y)), HasLine(b)
  PROVE  FirstLine(b) = l /\ ToCome(up, AfterLine(b), w, y)
<1>1. l \in Seq(Tok) /\ Len(l) \in Nat
  BY DEF Inside
<1>2. PICK x \in Seq(Tok) : x = LineAnd(l, y) /\ Drop(x, Len(l) + 2) = y
  BY <1>1, LineIs
<1>3. ToCome(up, b, w, x) /\ IsPrefix(b, x)
  BY <1>2, ComePrefix
<1>4. FirstLine(b) = l /\ AfterLine(b) = Drop(b, Len(l) + 2) /\ Len(l) + 2 \in 0..Len(b)
  BY <1>2, <1>3, LineFound
<1>5. ToCome(up, Drop(b, Len(l) + 2), w, Drop(x, Len(l) + 2))
  BY <1>3, <1>4, ComeDrop
<1> QED BY <1>2, <1>4, <1>5

\* What is left behind a line that was found.
LEMMA AfterLineIs ==
  ASSUME NEW b \in Seq(Tok), HasLine(b)
  PROVE  /\ AfterLine(b) \in Seq(Tok) /\ Len(AfterLine(b)) <= Len(b)
         /\ FirstLine(b) \in Seq(Tok)
<1>1. LineEnd(b) \in 1..Len(b)
  BY LineEndIs
<1>2. AfterLine(b) \in Seq(Tok) /\ Len(AfterLine(b)) <= Len(b)
  BY <1>1, DropIs DEF AfterLine
<1>3. FirstLine(b) \in Seq(Tok)
  BY <1>1 DEF FirstLine
<1> QED BY <1>2, <1>3

(***************************************************************************)
(* What is in the caller's buffer.                                         *)
(***************************************************************************)

\* The caller's buffer has room for its terminator.
LEMMA RoomIs == BodySize - 1 \in Nat
BY ClientAssumption

\* Taking less of what was taken.
LEMMA TakeTake ==
  ASSUME NEW p \in Seq(Tok), NEW n \in 0..Len(p), NEW m \in Nat
  PROVE  /\ Take(Take(p, n), m) \in Seq(Tok)
         /\ Len(Take(Take(p, n), m)) = IF n < m THEN n ELSE m
         /\ \A i \in 1..(IF n < m THEN n ELSE m) : Take(Take(p, n), m)[i] = p[i]
<1>1. PICK t \in Seq(Tok) : t = Take(p, n)
  BY TakeIs
<1>2. Len(t) = n /\ \A i \in 1..n : t[i] = p[i]
  BY <1>1, TakeSome
<1>3. /\ Take(t, m) \in Seq(Tok)
      /\ Len(Take(t, m)) = IF m < n THEN m ELSE n
      /\ \A i \in 1..Len(Take(t, m)) : Take(t, m)[i] = t[i]
  BY <1>2, TakeIs
<1>4. Len(Take(t, m)) = IF n < m THEN n ELSE m
  BY <1>3
<1>5. ASSUME NEW i \in 1..(IF n < m THEN n ELSE m) PROVE Take(t, m)[i] = p[i]
  <2>1. i \in 1..n /\ i \in 1..Len(Take(t, m))
    BY <1>4
  <2> QED BY <2>1, <1>2, <1>3
<1> QED BY <1>1, <1>3, <1>4, <1>5

\* Data that continues the first n bytes of p is stored behind them, as far
\* as there is room.
LEMMA StoreMore ==
  ASSUME NEW p \in Seq(Tok), NEW n \in 0..Len(p), NEW m \in Nat, NEW d \in Seq(Tok),
         n + Len(d) <= Len(p), \A i \in 1..Len(d) : d[i] = p[n + i]
  PROVE  Take(Take(Take(p, n), m) \o d, m) = Take(Take(p, n + Len(d)), m)
<1> DEFINE ld == Len(d)
           k  == n + ld
           lb == IF n < m THEN n ELSE m
           lx == IF k < m THEN k ELSE m
<1>1. ld \in Nat /\ k \in 0..Len(p) /\ n \in Nat /\ k \in Nat
  OBVIOUS
<1>2. PICK b \in Seq(Tok) : b = Take(Take(p, n), m)
  BY TakeTake
<1>3. Len(b) = lb /\ \A i \in 1..lb : b[i] = p[i]
  BY <1>2, TakeTake
<1>4. PICK x \in Seq(Tok) : x = Take(Take(p, k), m)
  BY <1>1, TakeTake
<1>5. Len(x) = lx /\ \A i \in 1..lx : x[i] = p[i]
  BY <1>1, <1>4, TakeTake
<1>6. PICK j \in Seq(Tok) : j = b \o d
  BY JoinIs
<1>7. Len(j) = lb + ld /\ (\A i \in 1..lb : j[i] = b[i]) /\ \A i \in 1..ld : j[lb + i] = d[i]
  <2>1. /\ Len(j) = Len(b) + Len(d)
        /\ (\A i \in 1..Len(b) : j[i] = b[i]) /\ \A i \in 1..Len(d) : j[Len(b) + i] = d[i]
    BY <1>6, JoinIs
  <2>2. Len(b) = lb
    BY <1>3
  <2> HIDE DEF lb
  <2> QED BY <2>1, <2>2
<1>8. PICK t \in Seq(Tok) : t = Take(j, m)
  BY TakeIs
<1>9. Len(t) = (IF m < lb + ld THEN m ELSE lb + ld) /\ \A i \in 1..Len(t) : t[i] = j[i]
  BY <1>7, <1>8, TakeIs
<1>10. \A i \in 1..ld : d[i] = p[n + i]
  OBVIOUS
<1>11. k = n + ld
  OBVIOUS
<1> HIDE DEF ld, k
<1>12. Len(t) = lx
  BY <1>1, <1>9, <1>11
<1>13. ASSUME NEW i \in 1..lx PROVE t[i] = x[i]
  <2>1. t[i] = j[i] /\ x[i] = p[i] /\ i \in Nat
    BY <1>1, <1>5, <1>9, <1>12
  <2>2. CASE i <= lb
    <3>1. i \in 1..lb
      BY <2>1, <2>2, <1>1
    <3> QED BY <2>1, <3>1, <1>3, <1>7
  <2>3. CASE lb < i
    <3>1. lb = n /\ i - n \in 1..ld
      BY <2>1, <2>3, <1>1, <1>11
    <3>2. j[n + (i - n)] = d[i - n] /\ d[i - n] = p[n + (i - n)] /\ n + (i - n) = i
      BY <3>1, <2>1, <1>1, <1>7, <1>10
    <3> QED BY <2>1, <3>2
  <2>4. lb \in Nat
    BY <1>1
  <2> QED BY <2>1, <2>2, <2>3, <2>4
<1>14. t = x
  BY <1>5, <1>12, <1>13, SameSeq
<1> QED BY <1>2, <1>4, <1>6, <1>8, <1>14 DEF ld, k

\* The data of a chunk is where the payload has it.
LEMMA DataAt ==
  ASSUME NEW r \in Reply, NEW i \in 1..Len(r.sizes)
  PROVE  /\ Len(DataTo(r, i)) \in r.sizes[i]..Len(Payload(r))
         /\ \A k \in 1..r.sizes[i] :
              Payload(r)[Len(DataTo(r, i)) - r.sizes[i] + k] = ChunkData(r, i)[k]
<1>1. i \in 0..Len(r.sizes) /\ i - 1 \in 0..Len(r.sizes) /\ i - 1 < Len(r.sizes) /\ (i - 1) + 1 = i
  BY ReplyIs
<1>2. PICK c \in Seq(Tok) : c = ChunkData(r, i) /\ Len(c) = r.sizes[i]
  BY ChunkDataIs
<1>3. PICK p \in Seq(Tok) : p = Payload(r)
  BY <1>1, DataIs
<1>4. PICK a \in Seq(Tok) : a = DataTo(r, i - 1)
  BY <1>1, DataIs
<1>5. PICK b \in Seq(Tok) : b = DataTo(r, i)
  BY <1>1, DataIs
<1>6. b = a \o c
  BY <1>1, <1>2, <1>4, <1>5, DataIs
<1>7. Len(b) = Len(a) + Len(c) /\ \A k \in 1..Len(c) : b[Len(a) + k] = c[k]
  BY <1>6, JoinIs
<1>8. IsPrefix(b, p)
  BY <1>1, <1>3, <1>5, DataIs
<1>9. Len(b) <= Len(p) /\ \A k \in 1..Len(b) : b[k] = p[k]
  BY <1>8, PrefixIs
<1>10. Len(a) \in Nat /\ Len(c) \in Nat /\ Len(b) \in Nat /\ Len(p) \in Nat
  OBVIOUS
<1>11. Len(b) \in r.sizes[i]..Len(p)
  BY <1>2, <1>7, <1>9, <1>10
<1>12. ASSUME NEW k \in 1..r.sizes[i] PROVE p[Len(b) - r.sizes[i] + k] = c[k]
  <2>1. Len(b) - r.sizes[i] + k = Len(a) + k /\ Len(a) + k \in 1..Len(b) /\ k \in 1..Len(c)
    BY <1>2, <1>7, <1>10
  <2> QED BY <2>1, <1>7, <1>9
<1> QED BY <1>2, <1>3, <1>5, <1>11, <1>12

(***************************************************************************)
(* What has been read of a response.                                       *)
(***************************************************************************)

\* The types, and the sizes of the buffers; they hold whatever is left on the
\* connection, also from an earlier response.
ReadTypes ==
  /\ res \in Response /\ length \in Int /\ length >= -1 /\ header_end \in BOOLEAN
  /\ r_buf \in Seq(Tok) /\ wire \in Seq(Tok) /\ body \in Seq(Tok)
  /\ Len(r_buf) <= ReadSize /\ Len(body) < BodySize
  /\ reply \in Reply \cup {NULL} /\ peer \in {"up", "fin", "rst"}
  /\ asked \in BOOLEAN /\ stale \in BOOLEAN

Comes(x) == ToCome(peer, r_buf, wire, x)

\* The buffer has the first n bytes of the body, as far as it takes them.
Got(n) == body = Take(Take(Payload(reply), n), BodySize - 1)

Whole == Len(Payload(reply))

\* The parser is in the head ...
InHead ==
  /\ ~header_end /\ body = <<>>
  /\ \/ Comes(Sent(reply)) /\ res.content_length = 0 /\ ~res.chunked
     \/ /\ Comes(AfterStatus(reply))
        /\ res.status = reply.code /\ res.content_length = 0 /\ ~res.chunked
     \/ /\ Comes(AfterFraming(reply)) \/ Comes(AfterClose(reply)) \/ Comes(AfterOther(reply))
        /\ res.status = reply.code /\ res.chunked = (reply.framing = "chunked")
        /\ res.content_length = IF reply.framing = "length" THEN reply.sizes[1] ELSE 0

\* ... in a body of known length, of which length bytes are missing ...
InBody ==
  /\ header_end /\ ~res.chunked /\ reply.framing # "chunked"
  /\ res.status = reply.code /\ res.content_length = Whole
  /\ length \in 0..Whole
  /\ Comes(Drop(Payload(reply), Whole - length))
  /\ Got(Whole - length)

\* ... between chunks, with or without the LF of the last one ...
AtSize ==
  /\ header_end /\ res.chunked /\ reply.framing = "chunked" /\ length = -1
  /\ res.status = reply.code
  /\ \E i \in 0..Len(reply.sizes) :
       /\ Comes(ChunksFrom(reply, i)) \/ Comes(<<LF>> \o ChunksFrom(reply, i))
       /\ res.content_length = Len(DataTo(reply, i)) /\ Got(Len(DataTo(reply, i)))

\* ... in a chunk, of which length bytes are missing ...
InChunk ==
  /\ header_end /\ res.chunked /\ reply.framing = "chunked"
  /\ res.status = reply.code
  /\ pc = "parse" /\ length = 0 => r_buf # <<>>
  /\ \E i \in 1..Len(reply.sizes) :
       /\ length \in 0..reply.sizes[i]
       /\ Comes(LineAnd(Drop(ChunkData(reply, i), reply.sizes[i] - length), ChunksFrom(reply, i)))
       /\ res.content_length = Len(DataTo(reply, i)) /\ Got(Len(DataTo(reply, i)) - length)

\* ... or behind the last chunk.
AtEnd ==
  /\ header_end /\ ~res.chunked /\ reply.framing = "chunked" /\ length = 0
  /\ res.status = reply.code /\ res.content_length = Whole /\ Got(Whole)
  /\ Comes(<<CR, LF>>)

Parsing == InHead \/ InBody \/ AtSize \/ InChunk \/ AtEnd

\* Nothing has been sent, and only if nothing will be can the handle still
\* take the response for a chunked one.
NotAnswered == wire = <<>> /\ (peer = "up" => ~res.chunked)

\* The answer is here before the call reads.
BeforeRead ==
  /\ IF peer = "up" THEN wire = Sent(reply) ELSE IsPrefix(wire, Sent(reply))
  /\ ~res.chunked /\ ~asked

BeginsToRead ==
  /\ pc = "read" /\ r_buf = <<>> /\ body = <<>> /\ ~header_end /\ res.content_length = 0

IsWhole ==
  /\ res.status = reply.code /\ res.content_length = Whole /\ Got(Whole) /\ ~res.chunked
  /\ Comes(<<>>) \/ (reply.framing = "chunked" /\ Comes(<<CR, LF>>))

IsCut == reply.framing = "chunked" /\ r_buf = <<CR>> /\ (peer = "up" => wire # <<>>)

\* The body is that of the answer, as far as it goes.
IsPart == \E n \in 0..Whole : Got(n)

LastLine == {<<CR, LF>>, <<LF>>, <<CR>>}

\* Between two responses.
Between ==
  /\ ~asked
  /\ fd # NoFd /\ peer = "up" /\ wire = <<>> => ~res.chunked
  /\ outcome = "whole" /\ fd # NoFd =>
       /\ reply # NULL
       /\ wire = <<>> \/ (reply.framing = "chunked" /\ wire \in LastLine)

Finished ==
  /\ ~asked
  /\ outcome \in {"whole", "cut", "closed"}
  /\ outcome = "closed" => fd = NoFd
  /\ outcome # "closed" => reply # NULL
  /\ outcome = "whole" => IsWhole
  /\ outcome = "cut" => IsCut
  /\ reply # NULL => IsPart

\* No request has arrived before the whole of it is written.
Writing == left # 0 => reply = NULL /\ ~asked

\* Where the call is tells what it has read and what is to come, unless the
\* connection was taken with something on it.
Follows ==
  /\ pc \in {"idle", "check"} => Between
  /\ pc \in {"check", "send", "opened"} => reply = NULL
  /\ pc \in {"send", "opened"} => ~asked /\ NotAnswered
  /\ pc \in {"headed", "ended"} =>
       IF reply = NULL THEN NotAnswered /\ (asked => peer = "up") ELSE BeforeRead
  /\ pc = "headed" => Writing
  /\ pc \in {"read", "parse"} =>
       IF reply = NULL THEN BeginsToRead /\ NotAnswered /\ (asked => peer = "up")
       ELSE Parsing /\ ~asked
  /\ pc = "finish" => Finished

RInv == ReadTypes /\ (~stale => Follows)

(***************************************************************************)
(* The string functions on any line.                                       *)
(***************************************************************************)

\* strtol: the first token that is not white space decides.
LEMMA HexIs ==
  ASSUME NEW line \in Seq(Tok), NEW k \in 1..Len(line), line[k] \notin {CR, LF},
         \A j \in 1..Len(line) : j < k => line[j] \in {CR, LF}
  PROVE  Hexadecimal(line) = IF line[k].k = "size" THEN line[k].n
                             ELSE IF line[k].k \in {"length", "close"} THEN 12 ELSE 0
<1> DEFINE solid == {i \in DOMAIN line : line[i] \notin {CR, LF}}
           i0    == CHOOSE i \in solid : \A j \in solid : i <= j
<1>1. DOMAIN line = 1..Len(line)
  OBVIOUS
<1>2. k \in solid /\ \A j \in solid : k <= j
  <2>1. k \in solid
    BY <1>1
  <2>2. ASSUME NEW j \in solid PROVE k <= j
    <3>1. j \in 1..Len(line) /\ line[j] \notin {CR, LF}
      BY <1>1
    <3>2. ~(j < k)
      BY <3>1
    <3> QED BY <3>1, <3>2
  <2> QED BY <2>1, <2>2
<1>3. i0 \in solid /\ \A j \in solid : i0 <= j
  BY <1>2
<1>4. i0 = k
  <2>1. i0 <= k /\ k <= i0
    BY <1>2, <1>3
  <2>2. i0 \in 1..Len(line)
    BY <1>1, <1>3
  <2> HIDE DEF i0
  <2> QED BY <2>1, <2>2
<1>5. solid # {}
  BY <1>2
<1>6. Hexadecimal(line) = IF solid = {} THEN 0
      ELSE IF line[i0].k = "size" THEN line[i0].n
      ELSE IF line[i0].k \in {"length", "close"} THEN 12
      ELSE 0
  BY Zenon DEF Hexadecimal
<1> HIDE DEF solid, i0
<1> QED BY <1>4, <1>5, <1>6

\* strtol gives a number or nothing.
LEMMA HexType ==
  ASSUME NEW line \in Seq(Tok)
  PROVE  Hexadecimal(line) \in Nat
<1> DEFINE solid == {i \in DOMAIN line : line[i] \notin {CR, LF}}
<1>1. DOMAIN line = 1..Len(line)
  OBVIOUS
<1>2. CASE solid = {}
  BY <1>2, Zenon DEF Hexadecimal
<1>3. CASE solid # {}
  <2>1. PICK k \in solid : \A j \in solid : k <= j
    <3>1. solid \subseteq Nat
      BY <1>1
    <3> HIDE DEF solid
    <3> QED BY <3>1, <1>3, Smallest
  <2>2. k \in 1..Len(line) /\ line[k] \notin {CR, LF}
    BY <1>1, <2>1
  <2>3. ASSUME NEW j \in 1..Len(line), j < k PROVE line[j] \in {CR, LF}
    <3>1. j \notin solid
      BY <2>1, <2>2, <2>3
    <3> QED BY <3>1, <1>1
  <2>4. line[k] \in Tok
    BY <2>2
  <2>5. line[k].n \in Nat
    BY <2>4 DEF Tok
  <2> HIDE DEF solid
  <2> QED BY <2>2, <2>3, <2>5, HexIs
<1> QED BY <1>2, <1>3

\* strtol on a size line, also behind the LF of the chunk before.
LEMMA HexSize ==
  ASSUME NEW n \in Nat
  PROVE  /\ Hexadecimal(Size(n)) = n
         /\ Inside(<<LF>> \o Size(n)) /\ <<LF>> \o Size(n) \in Seq(Tok)
         /\ Hexadecimal(<<LF>> \o Size(n)) = n
<1>1. PICK s \in Seq(Tok) : s = Size(n) /\ Len(s) = 1 /\ s[1] = [k |-> "size", n |-> n]
  BY SizeIs DEF Inside
<1>2. LF.k = "LF" /\ CR.k = "CR" /\ s[1].k = "size" /\ s[1].n = n
  BY <1>1 DEF LF, CR, Token
<1>3. s[1] \notin {CR, LF} /\ CR # LF
  BY <1>2
<1>4. Hexadecimal(s) = n
  <2>1. 1 \in 1..Len(s) /\ \A j \in 1..Len(s) : ~(j < 1)
    BY <1>1
  <2> QED BY <2>1, <1>2, <1>3, HexIs
<1>5. PICK f \in Seq(Tok) : f = <<LF>> /\ Len(f) = 1 /\ f[1] = LF
  BY Ends
<1>6. PICK t \in Seq(Tok) : t = f \o s
  BY JoinIs
<1>7. Len(t) = 2 /\ t[1] = LF /\ t[2] = s[1]
  <2>1. Len(t) = 2 /\ (\A i \in 1..1 : t[i] = f[i]) /\ \A i \in 1..1 : t[1 + i] = s[i]
    BY <1>1, <1>5, <1>6, JoinIs
  <2>2. 1 \in 1..1 /\ 1 + 1 = 2
    OBVIOUS
  <2> QED BY <2>1, <2>2, <1>5
<1>8. Inside(t)
  <2>1. \A i \in 1..2 : i = 1 \/ i = 2
    OBVIOUS
  <2> QED BY <2>1, <1>3, <1>7 DEF Inside
<1>9. Hexadecimal(t) = n
  <2>1. 2 \in 1..Len(t) /\ \A j \in 1..Len(t) : j < 2 => j = 1
    BY <1>7
  <2> QED BY <2>1, <1>2, <1>3, <1>7, HexIs
<1> QED BY <1>1, <1>4, <1>5, <1>6, <1>8, <1>9

\* A header line changes the fields of the response to values of theirs.
LEMMA HeaderType ==
  ASSUME NEW line \in Seq(Tok), line # <<>>, NEW s \in Response
  PROVE  http_header(s, line) \in Response
<1>1. 1 \in 1..Len(line)
  OBVIOUS
<1>2. line[1] \in Tok
  BY <1>1
<1>3. line[1].n \in Nat
  BY <1>2 DEF Tok
<1> QED BY <1>3 DEF http_header, strtoken, Response

(***************************************************************************)
(* The types, step by step.                                                *)
(***************************************************************************)

\* The zero behind a full buffer does not change the number of bytes in it.
LEMMA TerminateKeeps ==
  ASSUME NEW b \in Seq(Tok), Len(b) <= ReadSize
  PROVE  Terminate(b) = b
<1>1. CASE Len(b) < ReadSize
  BY <1>1 DEF Terminate
<1>2. CASE Len(b) = ReadSize
  <2>1. Len(b) % Byte = 0 /\ Len(b) - 0 = Len(b)
    BY <1>2, ClientAssumption
  <2>2. Take(b, Len(b)) = b
    BY EmptyJoin
  <2> QED BY <1>2, <2>1, <2>2 DEF Terminate
<1> QED BY <1>1, <1>2, ClientAssumption

\* So a read is added to what is there.
LEMMA ReadAdds ==
  ASSUME ReadTypes, NEW n \in 1..ReadSize, Read(n)
  PROVE  r_buf' = r_buf \o Take(wire, n)
<1>1. n \in 0..Len(wire) /\ n <= ReadSize - Len(r_buf) /\ n \in Nat
      /\ wire \in Seq(Tok) /\ r_buf \in Seq(Tok) /\ Len(r_buf) \in Nat /\ ReadSize \in Nat
  BY ClientAssumption DEF Read, Room, ReadTypes
<1>2. PICK t \in Seq(Tok) : t = Take(wire, n) /\ Len(t) = n
  BY <1>1, TakeIs, TakeSome
<1>3. r_buf \o t \in Seq(Tok) /\ Len(r_buf \o t) = Len(r_buf) + n
  BY <1>1, <1>2, JoinIs
<1>4. Len(r_buf \o t) <= ReadSize
  BY <1>1, <1>3
<1> QED BY <1>2, <1>3, <1>4, TerminateKeeps DEF Read

\* What is stored fits into the caller's buffer.
LEMMA StoredType ==
  ASSUME ReadTypes, NEW d \in Seq(Tok)
  PROVE  Stored(d) \in Seq(Tok) /\ Len(Stored(d)) < BodySize
<1>1. BodySize - 1 \in Nat /\ BodySize \in Nat
  BY ClientAssumption
<1>2. PICK x \in Seq(Tok) : x = body \o d
  BY JoinIs DEF ReadTypes
<1>3. /\ Take(x, BodySize - 1) \in Seq(Tok)
      /\ Len(Take(x, BodySize - 1)) = IF BodySize - 1 < Len(x) THEN BodySize - 1 ELSE Len(x)
  BY <1>1, TakeIs
<1>4. Len(Take(x, BodySize - 1)) < BodySize
  BY <1>1, <1>3
<1> QED BY <1>2, <1>3, <1>4 DEF Stored

\* Fields of the response are replaced one by one.
LEMMA ResponseWith ==
  ASSUME NEW s \in Response, NEW n \in Nat
  PROVE  /\ [s EXCEPT !.chunked = FALSE] \in Response
         /\ [s EXCEPT !.content_length = @ + n] \in Response
         /\ [s EXCEPT !.status = 0, !.content_length = 0, !.close = FALSE] \in Response
<1>1. [s EXCEPT !.chunked = FALSE] \in Response
  BY DEF Response
<1>2. [s EXCEPT !.content_length = @ + n] \in Response
  <2>1. s.content_length + n \in Nat
    BY DEF Response
  <2> QED BY <2>1 DEF Response
<1>3. [s EXCEPT !.status = 0, !.content_length = 0, !.close = FALSE] \in Response
  BY DEF Response
<1> QED BY <1>1, <1>2, <1>3

\* Starting over with empty buffers leaves the types.
LEMMA EmptyBuffers ==
  ASSUME ReadTypes, r_buf' = <<>>, body' = <<>>, header_end' = FALSE, res' \in Response,
         length' \in {0, length}, wire' \in {wire, <<>>}, peer' \in {peer, "up"},
         asked' \in BOOLEAN, stale' \in BOOLEAN, reply' \in {reply, NULL}
  PROVE  ReadTypes'
<1>1. BodySize \in Nat /\ BodySize > 0 /\ ReadSize \in Nat
  BY ClientAssumption
<1>2. /\ r_buf' \in Seq(Tok) /\ Len(r_buf') = 0
      /\ body' \in Seq(Tok) /\ Len(body') = 0
      /\ wire' \in Seq(Tok)
  BY NoLine DEF ReadTypes
<1>3. Len(r_buf') <= ReadSize /\ Len(body') < BodySize
  BY <1>1, <1>2
<1>4. length' \in Int /\ length' >= -1
  BY DEF ReadTypes
<1>5. reply' \in Reply \cup {NULL} /\ peer' \in {"up", "fin", "rst"}
  BY DEF ReadTypes
<1> QED BY <1>2, <1>3, <1>4, <1>5 DEF ReadTypes

\* What is left of the buffer is no longer than it.
LEMMA DropType ==
  ASSUME NEW s \in Seq(Tok), NEW n \in Nat
  PROVE  Drop(s, n) \in Seq(Tok) /\ Len(Drop(s, n)) <= Len(s)
BY DropIs

\* The types hold in a step of http_parse ...
LEMMA ParseTypes ==
  ASSUME ReadTypes, http_parse
  PROVE  ReadTypes'
<1>1. UNCHANGED <<wire, peer, asked, reply, stale>>
  BY DEF http_parse, HeaderLine, HeaderEnd, LineDue, SizeLine, Beyond,
         Within, BodyEnd, ChunkEnd, GoOn, Done, Parses, net
<1>2. ReadSize \in Nat /\ Len(r_buf) \in Nat /\ <<>> \in Seq(Tok) /\ Len(<<>>) = 0
      /\ r_buf \in Seq(Tok) /\ Len(r_buf) <= ReadSize /\ body \in Seq(Tok) /\ Len(body) < BodySize
  BY ClientAssumption, NoLine DEF ReadTypes
<1>3. ASSUME NEW b \in Seq(Tok), Len(b) <= Len(r_buf) PROVE Len(b) <= ReadSize
  <2>1. Len(b) \in Nat
    OBVIOUS
  <2> QED BY <2>1, <1>2, <1>3
<1>4. CASE HeaderLine
  <2>1. AfterLine(r_buf) \in Seq(Tok) /\ Len(AfterLine(r_buf)) <= ReadSize /\ FirstLine(r_buf) \in Seq(Tok)
    BY <1>2, <1>3, <1>4, AfterLineIs DEF HeaderLine
  <2>2. res' \in Response
    BY <2>1, <1>4, HeaderType DEF HeaderLine, ReadTypes
  <2> QED BY <2>1, <2>2, <1>1, <1>4 DEF HeaderLine, ReadTypes
<1>5. CASE HeaderEnd
  <2>1. AfterLine(r_buf) \in Seq(Tok) /\ Len(AfterLine(r_buf)) <= ReadSize
    BY <1>2, <1>3, <1>5, AfterLineIs DEF HeaderEnd
  <2>2. length' \in Int /\ length' >= -1
    BY <1>5 DEF HeaderEnd, ReadTypes, Response
  <2> QED BY <2>1, <2>2, <1>1, <1>5 DEF HeaderEnd, ReadTypes
<1>6. CASE LineDue
  BY <1>1, <1>6 DEF LineDue, ReadTypes, parser
<1>7. CASE SizeLine
  <2>1. AfterLine(r_buf) \in Seq(Tok) /\ Len(AfterLine(r_buf)) <= ReadSize /\ FirstLine(r_buf) \in Seq(Tok)
    BY <1>2, <1>3, <1>7, AfterLineIs DEF SizeLine
  <2>2. length' \in Nat
    BY <2>1, <1>7, HexType DEF SizeLine
  <2>3. res' \in Response
    <3>1. [res EXCEPT !.chunked = FALSE] \in Response /\ [res EXCEPT !.content_length = @ + length'] \in Response
      BY <2>2, ResponseWith DEF ReadTypes
    <3> QED BY <3>1, <1>7 DEF SizeLine
  <2> QED BY <2>1, <2>2, <2>3, <1>1, <1>7 DEF SizeLine, ReadTypes
<1>8. CASE Beyond
  <2>1. length \in Nat /\ length + 2 \in Nat
    BY <1>8 DEF Beyond, ReadTypes
  <2>2. Take(r_buf, length) \in Seq(Tok)
    BY <2>1, <1>2, TakeIs
  <2>3. body' \in Seq(Tok) /\ Len(body') < BodySize
    BY <2>2, <1>8, StoredType DEF Beyond, Store
  <2>4. ASSUME NEW n \in Nat PROVE Drop(r_buf, n) \in Seq(Tok) /\ Len(Drop(r_buf, n)) <= ReadSize
    BY <1>2, <1>3, DropType
  <2>5. r_buf' \in Seq(Tok) /\ Len(r_buf') <= ReadSize /\ length' \in {length, -1}
    BY <2>1, <2>4, <1>8 DEF Beyond
  <2> QED BY <2>1, <2>3, <2>5, <1>1, <1>8 DEF Beyond, ReadTypes
<1>9. CASE Within
  <2>1. body' \in Seq(Tok) /\ Len(body') < BodySize
    BY <1>2, <1>9, StoredType DEF Within, Store
  <2>2. length' \in Int /\ length' >= -1
    BY <1>2, <1>9 DEF Within, ReadTypes
  <2> QED BY <2>1, <2>2, <1>1, <1>2, <1>9 DEF Within, ReadTypes
<1>10. CASE BodyEnd
  BY <1>1, <1>10 DEF BodyEnd, ReadTypes, parser
<1>11. CASE ChunkEnd
  <2>1. r_buf' \in Seq(Tok) /\ Len(r_buf') <= ReadSize
    <3>1. Drop(r_buf, 2) \in Seq(Tok) /\ Len(Drop(r_buf, 2)) <= ReadSize
      BY <1>2, <1>3, DropType
    <3> QED BY <3>1, <1>2, <1>11 DEF ChunkEnd, SkipLineEnd
  <2> QED BY <2>1, <1>1, <1>11 DEF ChunkEnd, ReadTypes
<1> QED BY <1>4, <1>5, <1>6, <1>7, <1>8, <1>9, <1>10, <1>11 DEF http_parse

\* ... in the other steps of a call ...
LEMMA CallTypes ==
  ASSUME ReadTypes, Continue \/ Caller
  PROVE  ReadTypes'
<1>1. /\ <<>> \in Seq(Tok) /\ Len(<<>>) = 0 /\ ReadSize \in Nat /\ BodySize \in Nat /\ BodySize > 0
      /\ NoResponse \in Response
  BY ClientAssumption, NoLine DEF NoResponse, Response
<1>2. CASE \E op \in Ops, u \in Url : Begin(op, u)
  BY <1>2 DEF Begin, ReadTypes, parser
<1>3. CASE Reuse
  BY <1>3 DEF Reuse, ReadTypes, parser, net
<1>4. CASE Reconnect
  BY <1>1, <1>4, EmptyBuffers DEF Reconnect, https_init
<1>5. CASE ConnectFails
  BY <1>1, <1>5, EmptyBuffers DEF ConnectFails, https_close, https_init
<1>6. CASE http_get
  <2>1. res' \in Response
    BY <1>6, ResponseWith DEF http_get, ReadResponse, ReadTypes
  <2>2. stale' \in BOOLEAN /\ asked' \in BOOLEAN
    BY <1>6 DEF http_get, Arrives, ReadTypes
  <2> QED BY <2>1, <2>2, <1>6, EmptyBuffers DEF http_get, ReadResponse
<1>7. CASE WriteFails \/ ReadNothing \/ ReadFails \/ http_close
  BY <1>1, <1>7 DEF WriteFails, ReadNothing, ReadFails, http_close, https_close, ReadTypes, parser
<1>8. CASE \E n \in 1..ReadSize : Read(n)
  <2>1. PICK n \in 1..ReadSize : Read(n)
    BY <1>8
  <2>2. n \in 0..Len(wire) /\ n <= ReadSize - Len(r_buf) /\ n \in Nat
        /\ wire \in Seq(Tok) /\ r_buf \in Seq(Tok) /\ Len(r_buf) \in Nat
    BY <2>1, <1>1 DEF Read, Room, ReadTypes
  <2>3. PICK t \in Seq(Tok) : t = Take(wire, n) /\ Len(t) = n
    BY <2>2, TakeIs, TakeSome
  <2>4. r_buf \o t \in Seq(Tok) /\ Len(r_buf \o t) = Len(r_buf) + n
    BY <2>2, <2>3, JoinIs
  <2>5. Drop(wire, n) \in Seq(Tok)
    BY <2>2, DropIs
  <2>6. Len(r_buf) + n <= ReadSize
    BY <2>2, <1>1
  <2>7. r_buf' \in Seq(Tok) /\ Len(r_buf') <= ReadSize /\ wire' \in Seq(Tok)
    BY <2>1, <2>3, <2>4, <2>5, <2>6, <1>1, ReadAdds DEF Read
  <2> QED BY <2>1, <2>7 DEF Read, ReadTypes
<1>9. CASE http_parse
  BY <1>9, ParseTypes
<1>10. CASE Finish
  BY <1>1, <1>10 DEF Finish, https_close, ReadTypes, parser
<1>11. CASE \E n \in -1..MaxBody : http_write_header(n)
  BY <1>11 DEF http_write_header, Arrives, ReadTypes, parser
<1>12. CASE \E n \in 1..MaxBody : http_write(n)
  BY <1>12 DEF http_write, Arrives, ReadTypes, parser
<1>13. CASE http_write_end
  BY <1>13 DEF http_write_end, Arrives, ReadTypes, parser
<1>14. CASE http_read_chunked
  <2>1. res' \in Response
    BY <1>14, ResponseWith DEF http_read_chunked, ReadResponse, ReadTypes
  <2>2. stale' \in BOOLEAN /\ asked' \in BOOLEAN
    BY <1>14 DEF http_read_chunked, net, ReadTypes
  <2> QED BY <2>1, <2>2, <1>14, EmptyBuffers DEF http_read_chunked, ReadResponse, net
<1> QED BY <1>2, <1>3, <1>4, <1>5, <1>6, <1>7, <1>8, <1>9, <1>10, <1>11, <1>12, <1>13, <1>14
        DEF Continue, Caller

\* ... and in those of the server.
LEMMA ServerTypes ==
  ASSUME ReadTypes, Server
  PROVE  ReadTypes'
<1>1. UNCHANGED <<res, length, header_end, r_buf, body, stale>>
  BY DEF Server, Answer, Closes, Resets, client, parser
<1>2. CASE \E r \in Reply : Answer(r)
  <2>1. PICK r \in Reply : Answer(r)
    BY <1>2
  <2>2. wire' \in Seq(Tok)
    BY <2>1, SentIs, JoinIs DEF Answer, ReadTypes
  <2> QED BY <2>1, <2>2, <1>1 DEF Answer, ReadTypes
<1>3. CASE \E n \in 0..Len(wire) : Closes(n)
  <2>1. PICK n \in 0..Len(wire) : Closes(n)
    BY <1>3
  <2>2. wire' \in Seq(Tok)
    BY <2>1, TakeIs DEF Closes, ReadTypes
  <2> QED BY <2>1, <2>2, <1>1 DEF Closes, ReadTypes
<1>4. CASE Resets
  BY <1>1, <1>4, NoLine DEF Resets, ReadTypes
<1> QED BY <1>2, <1>3, <1>4 DEF Server

(***************************************************************************)
(* The invariant, step by step.                                            *)
(***************************************************************************)

\* A connection that has been closed has nothing more to say.
LEMMA ClosedBetween ==
  ASSUME https_close, pc' = "idle"
  PROVE  Follows'
BY DEF https_close, Follows, Between

\* A call begins.
LEMMA BeginFollows ==
  ASSUME Follows, NEW op \in Ops, NEW u \in Url, Begin(op, u)
  PROVE  Follows'
BY DEF Begin, Follows, Between, parser

\* A connection that is used again has nothing on it but the end of a line, or is stale.
LEMMA ReuseFollows ==
  ASSUME Follows, Reuse, ~stale'
  PROVE  Follows'
<1>1. wire = <<>> /\ reply = NULL /\ ~asked /\ (peer = "up" => ~res.chunked)
  BY DEF Reuse, SameServer, Follows, Between
<1> QED BY <1>1 DEF Reuse, Connected, Follows, NotAnswered, parser, net

\* A new connection has nothing on it.
LEMMA ReconnectFollows ==
  ASSUME Reconnect
  PROVE  Follows'
BY DEF Reconnect, https_init, Connected, Follows, NotAnswered, NoResponse

\* Writing a request.
LEMMA RequestFollows ==
  ASSUME ReadTypes, Follows,
         \/ http_get \/ http_write_end
         \/ \E n \in -1..MaxBody : http_write_header(n)
         \/ \E n \in 1..MaxBody : http_write(n)
  PROVE  Follows'
<1>1. CASE http_get
  <2>1. pc = "send" /\ reply = NULL /\ ~asked /\ NotAnswered
    BY <1>1 DEF http_get, Follows
  <2>2. res'.chunked = res.chunked /\ res'.content_length = 0
    BY <1>1 DEF http_get, ReadResponse, ReadTypes, Response
  <2> QED BY <2>1, <2>2, <1>1 DEF http_get, ReadResponse, Arrives, Follows, NotAnswered, BeginsToRead
<1>2. CASE http_write_end
  <2>1. /\ pc = "headed" /\ left \in {0, -1} /\ pc' = "ended" /\ Writing
        /\ UNCHANGED <<res, wire, peer, reply>>
        /\ asked' = IF left = -1 THEN peer = "up" ELSE asked
    BY <1>2 DEF http_write_end, Arrives, Follows, parser
  <2>2. CASE reply = NULL
    BY <2>1, <2>2 DEF Follows, NotAnswered
  <2>3. CASE reply # NULL
    <3>1. left = 0 /\ asked' = asked
      BY <2>1, <2>3 DEF Writing
    <3> QED BY <2>1, <2>3, <3>1 DEF Follows, BeforeRead
  <2> QED BY <2>2, <2>3
<1>3. CASE \E n \in -1..MaxBody : http_write_header(n)
  BY <1>3 DEF http_write_header, Arrives, Follows, NotAnswered, Writing, parser
<1>4. CASE \E n \in 1..MaxBody : http_write(n)
  <2>1. PICK n \in 1..MaxBody : http_write(n)
    BY <1>4
  <2>2. pc = "headed" /\ pc' = "headed" /\ left # 0 /\ UNCHANGED <<res, wire, peer, reply>>
    BY <2>1 DEF http_write, parser
  <2>3. reply = NULL /\ NotAnswered /\ ~asked
    BY <2>2 DEF Follows, Writing
  <2>4. (left' # 0 => ~asked') /\ (asked' => peer = "up")
    BY <2>1, <2>3 DEF http_write, Arrives
  <2> QED BY <2>2, <2>3, <2>4 DEF Follows, NotAnswered, Writing
<1> QED BY <1>1, <1>2, <1>3, <1>4

\* http_read_chunked begins to read.
LEMMA ReadChunkedFollows ==
  ASSUME ReadTypes, Follows, http_read_chunked
  PROVE  Follows'
<1>1. pc = "ended" /\ pc' = "read" /\ UNCHANGED net
  BY DEF http_read_chunked, ReadResponse
<1>2. res'.chunked = res.chunked /\ res'.content_length = 0
      /\ r_buf' = <<>> /\ body' = <<>> /\ ~header_end'
  BY DEF http_read_chunked, ReadResponse, ReadTypes, Response
<1>3. CASE reply = NULL
  BY <1>1, <1>2, <1>3 DEF Follows, NotAnswered, BeginsToRead, net
<1>4. CASE reply # NULL
  <2>1. BeforeRead /\ reply' = reply /\ peer' = peer /\ wire' = wire /\ asked' = asked
    BY <1>1, <1>4 DEF Follows, net
  <2>2. ~asked' /\ ~res'.chunked
    BY <2>1, <1>2 DEF BeforeRead
  <2>3. <<>> \o wire = wire
    BY EmptyJoin DEF ReadTypes
  <2>4. Comes(Sent(reply))'
    BY <2>1, <2>3, <1>2 DEF Comes, ToCome, BeforeRead
  <2>5. InHead'
    BY <2>2, <2>4, <1>2 DEF InHead
  <2> QED BY <2>1, <2>2, <2>5, <1>1, <1>4 DEF Follows, Parsing
<1> QED BY <1>3, <1>4

\* What the parser knows does not depend on how much of what comes is read.
LEMMA SameParse ==
  ASSUME Parsing, UNCHANGED <<res, header_end, length, body, reply>>,
         pc' = "parse" => r_buf' # <<>> \/ (UNCHANGED r_buf /\ pc = "parse"),
         \A x \in Seq(Tok) : Comes(x) => ToCome(peer', r_buf', wire', x),
         reply \in Reply
  PROVE  Parsing'
<1> DEFINE r == reply
<1>1. /\ Sent(r) \in Seq(Tok) /\ AfterStatus(r) \in Seq(Tok) /\ AfterFraming(r) \in Seq(Tok)
      /\ AfterClose(r) \in Seq(Tok) /\ AfterOther(r) \in Seq(Tok)
  BY Parts, SentIs
<1>2. CASE InHead
  BY <1>1, <1>2 DEF InHead, Comes, Parsing
<1>3. CASE InBody
  <2>1. Whole - length \in Nat /\ Payload(r) \in Seq(Tok)
    <3>1. 0 \in 0..Len(r.sizes)
      BY ReplyIs
    <3>2. Payload(r) \in Seq(Tok)
      BY <3>1, DataIs
    <3>3. Whole \in Nat
      BY <3>2 DEF Whole
    <3> QED BY <3>2, <3>3, <1>3 DEF InBody
  <2>2. Drop(Payload(r), Whole - length) \in Seq(Tok)
    BY <2>1, DropIs
  <2>3. ToCome(peer', r_buf', wire', Drop(Payload(r), Whole - length))
    BY <2>2, <1>3 DEF InBody
  <2>4. InBody'
    BY <2>3, <1>3 DEF InBody, Comes, Got, Whole
  <2> QED BY <2>4 DEF Parsing
<1>4. CASE AtSize
  <2>1. PICK i \in 0..Len(r.sizes) :
          /\ Comes(ChunksFrom(r, i)) \/ Comes(<<LF>> \o ChunksFrom(r, i))
          /\ res.content_length = Len(DataTo(r, i)) /\ Got(Len(DataTo(r, i)))
    BY <1>4 DEF AtSize
  <2>2. ChunksFrom(r, i) \in Seq(Tok)
    BY ChunksFromIs
  <2>3. <<LF>> \o ChunksFrom(r, i) \in Seq(Tok)
    BY <2>2, Ends, JoinIs
  <2>4. \/ ToCome(peer', r_buf', wire', ChunksFrom(r, i))
        \/ ToCome(peer', r_buf', wire', <<LF>> \o ChunksFrom(r, i))
    BY <2>1, <2>2, <2>3
  <2>5. AtSize'
    BY <2>1, <2>4, <1>4 DEF AtSize, Comes, Got
  <2> QED BY <2>5 DEF Parsing
<1>5. CASE InChunk
  <2>1. PICK i \in 1..Len(r.sizes) :
          /\ length \in 0..r.sizes[i]
          /\ Comes(LineAnd(Drop(ChunkData(r, i), r.sizes[i] - length), ChunksFrom(r, i)))
          /\ res.content_length = Len(DataTo(r, i)) /\ Got(Len(DataTo(r, i)) - length)
    BY <1>5 DEF InChunk
  <2>2. r.sizes[i] - length \in Nat /\ ChunkData(r, i) \in Seq(Tok) /\ i \in 0..Len(r.sizes)
    BY <2>1, ChunkDataIs, ReplyIs
  <2>3. LineAnd(Drop(ChunkData(r, i), r.sizes[i] - length), ChunksFrom(r, i)) \in Seq(Tok)
    BY <2>2, DropIs, ChunksFromIs, LineIs
  <2>4. ToCome(peer', r_buf', wire',
               LineAnd(Drop(ChunkData(r, i), r.sizes[i] - length), ChunksFrom(r, i)))
    BY <2>1, <2>3
  <2>5. InChunk'
    BY <2>1, <2>4, <1>5 DEF InChunk, Comes, Got
  <2> QED BY <2>5 DEF Parsing
<1>6. CASE AtEnd
  <2>1. ToCome(peer', r_buf', wire', <<CR, LF>>)
    BY <1>6, Ends DEF AtEnd
  <2>2. AtEnd'
    BY <2>1, <1>6 DEF AtEnd, Comes, Got, Whole
  <2> QED BY <2>2 DEF Parsing
<1> QED BY <1>2, <1>3, <1>4, <1>5, <1>6 DEF Parsing

\* An answer that has been sent is one of Reply.
LEMMA ReplyHere ==
  ASSUME ReadTypes, reply # NULL
  PROVE  reply \in Reply
BY DEF ReadTypes

\* A read of some tokens.
LEMMA ReadFollows ==
  ASSUME ReadTypes, Follows, NEW n \in 1..ReadSize, Read(n)
  PROVE  Follows'
<1>1. /\ pc = "read" /\ pc' = "parse" /\ n \in 0..Len(wire) /\ n > 0 /\ n \in Nat
      /\ r_buf \in Seq(Tok) /\ wire \in Seq(Tok)
  BY ClientAssumption DEF Read, ReadTypes
<1>2. reply # NULL
  <2> SUFFICES ASSUME reply = NULL PROVE FALSE
    OBVIOUS
  <2>1. wire = <<>> /\ Len(wire) = 0
    BY <1>1, NoLine DEF Follows, NotAnswered
  <2> QED BY <2>1, <1>1
<1>3. reply \in Reply /\ Parsing /\ ~asked
  BY <1>1, <1>2, ReplyHere DEF Follows
<1>4. PICK t \in Seq(Tok) : t = Take(wire, n) /\ Len(t) = n
  BY <1>1, TakeIs, TakeSome
<1>5. r_buf' # <<>>
  <2>1. r_buf' = r_buf \o t
    BY <1>4, ReadAdds
  <2>2. Len(r_buf \o t) = Len(r_buf) + n
    <3>1. Len(r_buf \o t) = Len(r_buf) + Len(t)
      BY <1>1, JoinIs, Zenon
    <3> QED BY <3>1, <1>4
  <2>3. Len(r_buf') > 0
    BY <2>1, <2>2, <1>1
  <2> QED BY <2>3, NoLine
<1>6. \A x \in Seq(Tok) : Comes(x) => ToCome(peer', r_buf', wire', x)
  BY <1>1, ComeRead, ReadAdds DEF Read, Comes
<1>7. Parsing'
  BY <1>3, <1>5, <1>6, SameParse DEF Read
<1> QED BY <1>1, <1>2, <1>3, <1>7 DEF Read, Follows

\* The sizes that the invariant is about.
LEMMA WholeIs ==
  ASSUME reply \in Reply
  PROVE  /\ Whole \in Nat /\ Payload(reply) \in Seq(Tok)
         /\ reply.framing = "length" => Whole = reply.sizes[1]
         /\ reply.framing = "none" => Whole = 0
         /\ \A i \in 0..Len(reply.sizes) : Len(DataTo(reply, i)) \in 0..Whole
         /\ Len(DataTo(reply, Len(reply.sizes))) = Whole /\ Len(DataTo(reply, 0)) = 0
<1> DEFINE r == reply
           n == Len(r.sizes)
<1>1. n \in Nat /\ 0 \in 0..n /\ n \in 0..n
  BY ReplyIs
<1>2. Payload(r) \in Seq(Tok) /\ Payload(r) = DataTo(r, n) /\ DataTo(r, 0) = <<>>
  BY <1>1, DataIs
<1>3. Whole \in Nat /\ Len(DataTo(r, n)) = Whole /\ Len(DataTo(r, 0)) = 0
  BY <1>2, NoLine DEF Whole
<1>4. ASSUME NEW i \in 0..n PROVE Len(DataTo(r, i)) \in 0..Whole
  <2>1. DataTo(r, i) \in Seq(Tok) /\ IsPrefix(DataTo(r, i), Payload(r))
    BY DataIs
  <2>2. Len(DataTo(r, i)) \in Nat /\ Len(DataTo(r, i)) <= Len(Payload(r))
    BY <2>1, <1>2, PrefixIs
  <2> QED BY <2>2, <1>3 DEF Whole
<1>5. r.framing = "length" => Whole = r.sizes[1]
  <2> SUFFICES ASSUME r.framing = "length" PROVE Whole = r.sizes[1]
    OBVIOUS
  <2>1. n = 1 /\ r.sizes[1] \in Nat
    BY ReplyIs
  <2>2. Len(DataTo(r, 0 + 1)) = Len(DataTo(r, 0)) + r.sizes[0 + 1]
    BY <2>1, <1>1, DataIs
  <2>3. 0 + 1 = 1 /\ 0 + r.sizes[1] = r.sizes[1]
    BY <2>1
  <2> QED BY <2>1, <2>2, <2>3, <1>3
<1>6. r.framing = "none" => Whole = 0
  BY <1>3, ReplyIs
<1> QED BY <1>1, <1>2, <1>3, <1>4, <1>5, <1>6

\* In a response, the caller has the body as far as it was read.
LEMMA PartRead ==
  ASSUME reply \in Reply, Parsing
  PROVE  IsPart
<1> DEFINE r == reply
<1>1. Whole \in Nat /\ Payload(r) \in Seq(Tok)
  BY WholeIs
<1>2. CASE InHead
  <2>1. 0 \in 0..Len(Payload(r)) /\ 0 \in 0..Whole
    BY <1>1 DEF Whole
  <2>2. Take(Take(Payload(r), 0), BodySize - 1) \in Seq(Tok)
        /\ Len(Take(Take(Payload(r), 0), BodySize - 1)) = IF 0 < BodySize - 1 THEN 0 ELSE BodySize - 1
    BY <2>1, <1>1, RoomIs, TakeTake
  <2>3. Len(Take(Take(Payload(r), 0), BodySize - 1)) = 0
    BY <2>2, RoomIs
  <2>4. Got(0)
    BY <2>2, <2>3, <1>2 DEF Got, InHead
  <2> QED BY <2>1, <2>4 DEF IsPart
<1>3. CASE InBody
  <2>1. Whole - length \in 0..Whole
    BY <1>1, <1>3 DEF InBody
  <2> QED BY <2>1, <1>3 DEF IsPart, InBody
<1>4. CASE AtSize
  BY <1>4, WholeIs DEF IsPart, AtSize
<1>5. CASE InChunk
  <2>1. PICK i \in 1..Len(r.sizes) : length \in 0..r.sizes[i] /\ Got(Len(DataTo(r, i)) - length)
    BY <1>5 DEF InChunk
  <2>2. Len(DataTo(r, i)) \in r.sizes[i]..Whole /\ r.sizes[i] \in Nat
    BY DataAt, ReplyIs DEF Whole
  <2>3. Len(DataTo(r, i)) - length \in 0..Whole
    BY <2>1, <2>2, <1>1
  <2> QED BY <2>1, <2>3 DEF IsPart
<1>6. CASE AtEnd
  BY <1>1, <1>6 DEF IsPart, AtEnd
<1> QED BY <1>2, <1>3, <1>4, <1>5, <1>6 DEF Parsing

\* A read that finds nothing ends the call.
LEMMA ReadNothingFollows ==
  ASSUME ReadTypes, Follows, ReadNothing
  PROVE  Follows'
<1>1. reply # NULL => IsPart
  <2> SUFFICES ASSUME reply # NULL PROVE IsPart
    OBVIOUS
  <2>1. reply \in Reply /\ Parsing
    BY ReplyHere DEF ReadNothing, Follows
  <2> QED BY <2>1, PartRead
<1>2. IsPart => IsPart'
  BY DEF ReadNothing, parser, IsPart, Got, Whole
<1> QED BY <1>1, <1>2 DEF ReadNothing, https_close, Follows, Finished

-----------------------------------------------------------------------------
\* What can be left of the line behind the last chunk.
LEMMA LastLeft ==
  ASSUME NEW b \in Seq(Tok), NEW w \in Seq(Tok), IsPrefix(b \o w, <<CR, LF>>)
  PROVE  w = <<>> \/ w \in LastLine
<1>1. PICK e \in Seq(Tok) : e = <<CR, LF>> /\ Len(e) = 2 /\ e[1] = CR /\ e[2] = LF
  BY Ends
<1>2. PICK x \in Seq(Tok) : x = b \o w
  BY JoinIs
<1>3. /\ Len(x) = Len(b) + Len(w) /\ Len(b) \in Nat /\ Len(w) \in Nat
      /\ \A i \in 1..Len(w) : x[Len(b) + i] = w[i]
  BY <1>2, JoinIs
<1>4. Len(x) <= 2 /\ \A i \in 1..Len(x) : x[i] = e[i]
  BY <1>1, <1>2, PrefixIs
<1> DEFINE lb == Len(b)
           lw == Len(w)
<1>5. lb \in Nat /\ lw \in Nat /\ lb + lw <= 2
  BY <1>3, <1>4
<1>6. \A i \in 1..Len(w) : w[i] = e[lb + i]
  <2> SUFFICES ASSUME NEW i \in 1..Len(w) PROVE w[i] = e[lb + i]
    OBVIOUS
  <2>1. lb + i \in 1..Len(x)
    BY <1>3
  <2> QED BY <2>1, <1>3, <1>4
<1>7. CASE Len(w) = 0
  BY <1>7
<1>8. CASE Len(w) = 1
  <2>1. w[1] = e[lb + 1] /\ lb \in {0, 1}
    BY <1>5, <1>6, <1>8
  <2>2. w[1] \in {CR, LF}
    <3> HIDE DEF lb
    <3>1. w[1] = e[1] \/ w[1] = e[2]
      BY <2>1
    <3> QED BY <3>1, <1>1
  <2>3. w = <<w[1]>>
    BY <1>8
  <2> QED BY <2>2, <2>3 DEF LastLine
<1>9. CASE Len(w) = 2
  <2>1. Len(b) = 0
    BY <1>3, <1>4, <1>9
  <2>2. \A i \in 1..Len(w) : w[i] = e[i]
    BY <2>1, <1>6
  <2>3. w = e
    BY <2>2, <1>1, <1>9, SameSeq
  <2> QED BY <2>3, <1>1 DEF LastLine
<1>10. Len(w) \in {0, 1, 2}
  <2> HIDE DEF lb, lw
  <2>1. lw \in {0, 1, 2}
    BY <1>5
  <2> QED BY <2>1 DEF lw
<1> QED BY <1>7, <1>8, <1>9, <1>10

\* The last line, cut short, is an end of line or nothing.
LEMMA PrefixOfLast ==
  ASSUME NEW v \in Seq(Tok), NEW w \in LastLine, IsPrefix(v, w)
  PROVE  v = <<>> \/ v \in LastLine
<1>1. w \in Seq(Tok) /\ (Len(w) = 1 \/ w = <<CR, LF>>)
  BY Ends DEF LastLine
<1>2. CASE w = <<CR, LF>>
  <2>1. <<>> \o v = v /\ <<>> \in Seq(Tok)
    BY EmptyJoin, NoLine
  <2> QED BY <2>1, <1>2, LastLeft
<1>3. CASE Len(w) = 1
  <2>1. Len(v) <= 1 /\ \A i \in 1..Len(v) : v[i] = w[i]
    BY <1>1, <1>3, PrefixIs
  <2>2. CASE Len(v) = 1
    <3>1. \A i \in 1..Len(v) : v[i] = w[i]
      BY <2>1
    <3>2. v = w
      BY <3>1, <2>2, <1>1, <1>3, SameSeq
    <3> QED BY <3>2
  <2>3. CASE Len(v) # 1
    <3>1. Len(v) = 0
      BY <2>1, <2>3
    <3> QED BY <3>1
  <2> QED BY <2>2, <2>3
<1> QED BY <1>1, <1>2, <1>3

\* The call returns; a kept connection is between two responses.
LEMMA FinishFollows ==
  ASSUME ReadTypes, Follows, Finish
  PROVE  Follows'
<1>1. CASE res.close
  BY <1>1, ClosedBetween DEF Finish
<1>2. CASE ~res.close
  <2>1. Finished /\ pc' = "idle" /\ UNCHANGED <<fd, wire, peer, asked, outcome, reply, res>>
    BY <1>2 DEF Finish, Follows, parser
  <2>2. outcome = "whole" =>
          /\ reply # NULL /\ ~res.chunked
          /\ wire = <<>> \/ (reply.framing = "chunked" /\ wire \in LastLine)
    <3> SUFFICES ASSUME outcome = "whole"
                 PROVE  /\ reply # NULL /\ ~res.chunked
                        /\ wire = <<>> \/ (reply.framing = "chunked" /\ wire \in LastLine)
      OBVIOUS
    <3>1. reply # NULL /\ IsWhole
      BY <2>1 DEF Finished
    <3>2. r_buf \in Seq(Tok) /\ wire \in Seq(Tok)
      BY DEF ReadTypes
    <3>3. CASE Comes(<<>>)
      <4>1. Len(r_buf) + Len(wire) <= 0
        BY <3>2, <3>3, NoLine, ComePrefix DEF Comes
      <4>2. wire = <<>>
        BY <4>1, <3>2
      <4> QED BY <4>2, <3>1 DEF IsWhole
    <3>4. CASE reply.framing = "chunked" /\ Comes(<<CR, LF>>)
      <4>1. IsPrefix(r_buf \o wire, <<CR, LF>>)
        BY <3>2, <3>4, Ends, ComePrefix DEF Comes
      <4> QED BY <4>1, <3>1, <3>2, <3>4, LastLeft DEF IsWhole
    <3> QED BY <3>1, <3>3, <3>4 DEF IsWhole
  <2>3. fd # NoFd /\ peer = "up" /\ wire = <<>> => ~res.chunked
    BY <2>1, <2>2 DEF Finished, IsCut
  <2>4. Between'
    BY <2>1, <2>2, <2>3 DEF Finished, Between
  <2> QED BY <2>1, <2>4 DEF Follows
<1> QED BY <1>1, <1>2

-----------------------------------------------------------------------------
\* The server answers.
LEMMA AnswerFollows ==
  ASSUME ReadTypes, Follows, NEW r \in Reply, Answer(r)
  PROVE  Follows'
<1>1. /\ asked /\ peer = "up" /\ reply = NULL /\ wire' = wire \o Sent(r) /\ reply' = r /\ ~asked'
      /\ UNCHANGED <<fd, res, header_end, length, r_buf, body, pc, left, outcome, peer>>
  BY DEF Answer, client, parser
<1>2. pc \in {"headed", "ended", "read", "parse"} => wire = <<>> /\ ~res.chunked
  BY <1>1 DEF Follows, NotAnswered
<1>3. pc \notin {"idle", "check", "send", "opened", "finish"}
  BY <1>1 DEF Follows, Between, Finished
<1>4. Sent(r) \in Seq(Tok) /\ r # NULL /\ <<>> \o Sent(r) = Sent(r)
  BY SentIs, ReplyIs, EmptyJoin
<1>5. CASE pc \in {"headed", "ended"}
  <2>1. wire' = Sent(reply')
    BY <1>1, <1>2, <1>4, <1>5
  <2>2. BeforeRead'
    BY <2>1, <1>1, <1>2, <1>5 DEF BeforeRead
  <2>3. pc = "headed" => Writing'
    BY <1>1 DEF Follows, Writing
  <2> QED BY <2>2, <2>3, <1>1, <1>4, <1>5 DEF Follows
<1>6. CASE pc \in {"read", "parse"}
  <2>1. BeginsToRead /\ wire' = Sent(r) /\ r_buf' = <<>>
    BY <1>1, <1>2, <1>4, <1>6 DEF Follows, BeginsToRead
  <2>2. ToCome(peer', r_buf', wire', Sent(reply'))
    BY <2>1, <1>1, <1>4 DEF ToCome
  <2>3. InHead'
    BY <2>1, <2>2, <1>1, <1>2, <1>6 DEF BeginsToRead, InHead, Comes
  <2> QED BY <2>3, <1>1, <1>4, <1>6 DEF Follows, Parsing
<1>7. CASE pc \notin {"headed", "ended", "read", "parse"}
  BY <1>1, <1>3, <1>7 DEF Follows
<1> QED BY <1>5, <1>6, <1>7

\* The server goes: some of what it has sent is lost.
LEMMA GoneFollows ==
  ASSUME ReadTypes, Follows, UNCHANGED <<client, reply>>, peer' # "up", ~asked',
         wire' \in Seq(Tok), IsPrefix(wire', wire)
  PROVE  Follows'
<1>1. UNCHANGED <<fd, res, header_end, length, r_buf, body, pc, left, outcome, reply>>
  BY DEF client, parser
<1>2. wire = <<>> => wire' = <<>>
  <2>1. Len(wire') <= Len(wire)
    BY PrefixIs DEF ReadTypes
  <2> QED BY <2>1, NoLine DEF ReadTypes
<1>3. wire \in LastLine => wire' = <<>> \/ wire' \in LastLine
  BY PrefixOfLast
<1>4. \A x \in Seq(Tok) : Comes(x) => ToCome(peer', r_buf', wire', x)
  BY <1>1, ComeLess DEF Comes, ReadTypes
<1>5. Between => Between'
  BY <1>1, <1>2, <1>3 DEF Between
<1>6. NotAnswered => NotAnswered'
  BY <1>1, <1>2 DEF NotAnswered
<1>7. reply \in Reply /\ BeforeRead => BeforeRead'
  <2> SUFFICES ASSUME reply \in Reply, BeforeRead PROVE BeforeRead'
    OBVIOUS
  <2>1. IsPrefix(wire, Sent(reply)) /\ Sent(reply) \in Seq(Tok)
    BY SentIs, PrefixSelf DEF BeforeRead
  <2>2. IsPrefix(wire', Sent(reply))
    BY <2>1, PrefixTrans DEF ReadTypes
  <2> QED BY <2>2, <1>1 DEF BeforeRead
<1>8. reply \in Reply /\ Parsing => Parsing'
  BY <1>1, <1>4, SameParse
<1>9. Finished => Finished'
  <2>1. IsWhole => IsWhole'
    <3>1. Comes(<<>>) => ToCome(peer', r_buf', wire', <<>>)
      BY <1>4, NoLine
    <3>2. Comes(<<CR, LF>>) => ToCome(peer', r_buf', wire', <<CR, LF>>)
      BY <1>4, Ends
    <3> QED BY <3>1, <3>2, <1>1 DEF IsWhole, Comes, Got, Whole
  <2>2. IsPart => IsPart'
    BY <1>1 DEF IsPart, Got, Whole
  <2>3. IsCut => IsCut'
    BY <1>1 DEF IsCut
  <2> QED BY <2>1, <2>2, <2>3, <1>1 DEF Finished
<1>10. reply # NULL => reply \in Reply
  BY ReplyHere
<1>11. BeginsToRead => BeginsToRead'
  BY <1>1 DEF BeginsToRead
<1> QED BY <1>1, <1>5, <1>6, <1>7, <1>8, <1>9, <1>10, <1>11 DEF Follows, Writing

\* What the server does.
LEMMA ServerFollows ==
  ASSUME ReadTypes, Follows, Server
  PROVE  Follows'
<1>1. CASE \E r \in Reply : Answer(r)
  BY <1>1, AnswerFollows
<1>2. CASE \E n \in 0..Len(wire) : Closes(n)
  <2>1. PICK n \in 0..Len(wire) : Closes(n)
    BY <1>2
  <2>2. n \in Nat /\ wire' = Take(wire, n)
    BY <2>1 DEF Closes
  <2>3. wire' \in Seq(Tok) /\ IsPrefix(wire', wire)
    BY <2>2, TakeIs, TakePrefix DEF ReadTypes
  <2> QED BY <2>1, <2>3, GoneFollows DEF Closes
<1>3. CASE Resets
  <2>1. wire' \in Seq(Tok) /\ IsPrefix(wire', wire)
    BY <1>3, NoLine, PrefixSelf DEF Resets, ReadTypes
  <2> QED BY <2>1, <1>3, GoneFollows DEF Resets
<1> QED BY <1>1, <1>2, <1>3 DEF Server

(***************************************************************************)
(* http_parse.                                                             *)
(***************************************************************************)

\* The parser runs in a response.
LEMMA InParse ==
  ASSUME ReadTypes, Follows, pc = "parse"
  PROVE  reply \in Reply /\ Parsing /\ ~asked
BY ReplyHere DEF Follows, BeginsToRead

\* What a step of the parser leaves alone.
LEMMA ParseQuiet ==
  ASSUME http_parse
  PROVE  pc = "parse" /\ UNCHANGED <<fd, wire, peer, asked, reply, stale>>
BY DEF http_parse, HeaderLine, HeaderEnd, LineDue, SizeLine, Beyond,
       Within, BodyEnd, ChunkEnd, GoOn, Done, Parses, net

\* The line that comes next in the head, with the optional ones that are
\* missing passed over.
Framed ==
  /\ res.status = reply.code /\ res.chunked = (reply.framing = "chunked")
  /\ res.content_length = IF reply.framing = "length" THEN reply.sizes[1] ELSE 0

NextInHead ==
  \/ Comes(Sent(reply)) /\ res.content_length = 0 /\ ~res.chunked
  \/ /\ reply.framing = "length" \/ reply.framing = "chunked"
     /\ Comes(AfterStatus(reply))
     /\ res.status = reply.code /\ res.content_length = 0 /\ ~res.chunked
  \/ reply.close /\ Comes(AfterFraming(reply)) /\ Framed
  \/ reply.other > 0 /\ Comes(AfterClose(reply)) /\ Framed
  \/ Comes(AfterOther(reply)) /\ Framed

\* In the head some line comes next, and what the client knows fits it.
LEMMA PassOver ==
  ASSUME ReadTypes, reply \in Reply, InHead
  PROVE  NextInHead
<1>1. reply.framing \in Framings /\ reply.close \in BOOLEAN /\ reply.other \in Nat
  BY ReplyIs
<1>2. CASE Comes(Sent(reply)) /\ res.content_length = 0 /\ ~res.chunked
  BY <1>2 DEF NextInHead
<1>3. Comes(AfterClose(reply)) /\ Framed => NextInHead
  BY DEF NextInHead, AfterClose
<1>4. Comes(AfterFraming(reply)) /\ Framed => NextInHead
  BY <1>1, <1>3 DEF NextInHead, AfterFraming
<1>5. CASE /\ Comes(AfterStatus(reply))
           /\ res.status = reply.code /\ res.content_length = 0 /\ ~res.chunked
  <2>1. CASE reply.framing = "length" \/ reply.framing = "chunked"
    BY <2>1, <1>5 DEF NextInHead
  <2>2. CASE ~(reply.framing = "length" \/ reply.framing = "chunked")
    <3>1. Comes(AfterFraming(reply))
      BY <2>2, <1>5 DEF AfterStatus
    <3>2. res.chunked \in BOOLEAN
      BY DEF ReadTypes, Response
    <3>3. Framed
      BY <2>2, <3>2, <1>5 DEF Framed
    <3> QED BY <3>1, <3>3, <1>4
  <2> QED BY <2>1, <2>2
<1>6. CASE /\ Comes(AfterFraming(reply)) \/ Comes(AfterClose(reply)) \/ Comes(AfterOther(reply))
           /\ Framed
  BY <1>3, <1>4, <1>6 DEF NextInHead
<1> QED BY <1>2, <1>5, <1>6 DEF InHead, Framed

\* What is found when the line l comes next.
LEMMA NextLine ==
  ASSUME ReadTypes, NEW l, Inside(l), NEW y \in Seq(Tok), Comes(LineAnd(l, y)), HasLine(r_buf)
  PROVE  FirstLine(r_buf) = l /\ ToCome(peer, AfterLine(r_buf), wire, y)
BY ComeLine DEF Comes, ReadTypes

\* A header line.
LEMMA HeaderLineFollows ==
  ASSUME ReadTypes, reply \in Reply, Parsing, HeaderLine
  PROVE  InHead'
<1>1. /\ HasLine(r_buf) /\ FirstLine(r_buf) # <<>> /\ ~header_end
      /\ r_buf' = AfterLine(r_buf) /\ res' = http_header(res, FirstLine(r_buf))
      /\ UNCHANGED <<header_end, length, body, wire, peer, reply>>
  BY DEF HeaderLine, GoOn, Parses, net
<1>2. InHead /\ NextInHead
  BY <1>1, PassOver DEF Parsing, InBody, AtSize, InChunk, AtEnd
<1>3. ~header_end' /\ body' = <<>>
  BY <1>1, <1>2 DEF InHead
<1>4. res \in Response
  BY DEF ReadTypes
<1>5. ASSUME NEW y \in Seq(Tok), ToCome(peer, AfterLine(r_buf), wire, y) PROVE ToCome(peer', r_buf', wire', y)
  BY <1>1, <1>5
<1>6. /\ AfterStatus(reply) \in Seq(Tok) /\ AfterFraming(reply) \in Seq(Tok)
      /\ AfterClose(reply) \in Seq(Tok) /\ AfterOther(reply) \in Seq(Tok)
  BY Parts
<1>7. CASE Comes(Sent(reply)) /\ res.content_length = 0 /\ ~res.chunked
  <2> DEFINE l == One("status", reply.code)
  <2>1. Inside(l) /\ l[1] = [k |-> "status", n |-> reply.code]
    BY OneIs, ReplyIs DEF Kinds
  <2>2. Comes(LineAnd(l, AfterStatus(reply)))
    BY <1>7, SentIs
  <2> HIDE DEF l
  <2>3. FirstLine(r_buf) = l /\ ToCome(peer', r_buf', wire', AfterStatus(reply))
    BY <2>1, <2>2, <1>1, <1>5, <1>6, NextLine
  <2>4. res' = [res EXCEPT !.status = reply.code]
    BY <2>1, <2>3, <1>1 DEF http_header, strtoken
  <2>5. res'.status = reply.code /\ res'.content_length = 0 /\ ~res'.chunked
    BY <2>4, <1>4, <1>7 DEF Response
  <2> QED BY <2>3, <2>5, <1>1, <1>3 DEF InHead, Comes
<1>8. CASE /\ reply.framing = "length" /\ Comes(AfterStatus(reply))
           /\ res.status = reply.code /\ res.content_length = 0 /\ ~res.chunked
  <2> DEFINE l == One("length", reply.sizes[1])
  <2>1. reply.sizes[1] \in Nat
    BY <1>8, ReplyIs
  <2>2. Inside(l) /\ l[1] = [k |-> "length", n |-> reply.sizes[1]]
    BY <2>1, OneIs DEF Kinds
  <2>3. Comes(LineAnd(l, AfterFraming(reply)))
    BY <1>8 DEF AfterStatus
  <2> HIDE DEF l
  <2>4. FirstLine(r_buf) = l /\ ToCome(peer', r_buf', wire', AfterFraming(reply))
    BY <2>2, <2>3, <1>1, <1>5, <1>6, NextLine
  <2>5. res' = [res EXCEPT !.content_length = reply.sizes[1]]
    BY <2>2, <2>4, <1>1 DEF http_header, strtoken
  <2>6. res'.status = reply.code /\ res'.content_length = reply.sizes[1] /\ res'.chunked = FALSE
    BY <2>5, <1>4, <1>8 DEF Response
  <2> QED BY <2>4, <2>6, <1>1, <1>3, <1>8 DEF InHead, Comes
<1>9. CASE /\ reply.framing = "chunked" /\ Comes(AfterStatus(reply))
           /\ res.status = reply.code /\ res.content_length = 0 /\ ~res.chunked
  <2> DEFINE l == One("chunked", 0)
  <2>1. Inside(l) /\ l[1] = [k |-> "chunked", n |-> 0]
    BY OneIs DEF Kinds
  <2>2. Comes(LineAnd(l, AfterFraming(reply)))
    BY <1>9 DEF AfterStatus
  <2> HIDE DEF l
  <2>3. FirstLine(r_buf) = l /\ ToCome(peer', r_buf', wire', AfterFraming(reply))
    BY <2>1, <2>2, <1>1, <1>5, <1>6, NextLine
  <2>4. res' = [res EXCEPT !.chunked = TRUE]
    BY <2>1, <2>3, <1>1 DEF http_header, strtoken
  <2>5. res'.status = reply.code /\ res'.content_length = 0 /\ res'.chunked = TRUE
    BY <2>4, <1>4, <1>9 DEF Response
  <2> QED BY <2>3, <2>5, <1>1, <1>3, <1>9 DEF InHead, Comes
<1>10. CASE reply.close /\ Comes(AfterFraming(reply)) /\ Framed
  <2> DEFINE l == One("close", 0)
  <2>1. Inside(l) /\ l[1] = [k |-> "close", n |-> 0]
    BY OneIs DEF Kinds
  <2>2. Comes(LineAnd(l, AfterClose(reply)))
    BY <1>10 DEF AfterFraming
  <2> HIDE DEF l
  <2>3. FirstLine(r_buf) = l /\ ToCome(peer', r_buf', wire', AfterClose(reply))
    BY <2>1, <2>2, <1>1, <1>5, <1>6, NextLine
  <2>4. res' = [res EXCEPT !.close = TRUE]
    BY <2>1, <2>3, <1>1 DEF http_header, strtoken
  <2>5. res'.status = res.status /\ res'.content_length = res.content_length /\ res'.chunked = res.chunked
    BY <2>4, <1>4 DEF Response
  <2> QED BY <2>3, <2>5, <1>1, <1>3, <1>10 DEF InHead, Comes, Framed
<1>11. CASE reply.other > 0 /\ Comes(AfterClose(reply)) /\ Framed
  <2> DEFINE l == Others(reply)
  <2>1. Inside(l) /\ l[1] = [k |-> "other", n |-> 0]
    BY <1>11, OthersIs
  <2>2. Comes(LineAnd(l, AfterOther(reply)))
    BY <1>11 DEF AfterClose
  <2> HIDE DEF l
  <2>3. FirstLine(r_buf) = l /\ ToCome(peer', r_buf', wire', AfterOther(reply))
    BY <2>1, <2>2, <1>1, <1>5, <1>6, NextLine
  <2>4. res' = res
    BY <2>1, <2>3, <1>1 DEF http_header, strtoken
  <2> QED BY <2>3, <2>4, <1>1, <1>3, <1>11 DEF InHead, Comes, Framed
<1>12. CASE Comes(AfterOther(reply))
  <2>1. BodyOf(reply) \in Seq(Tok) /\ Comes(LineAnd(<<>>, BodyOf(reply)))
    BY <1>12, BodyOfIs DEF AfterOther
  <2>2. FirstLine(r_buf) = <<>>
    BY <2>1, <1>1, NoLine, NextLine
  <2> QED BY <2>2, <1>1
<1> QED BY <1>2, <1>7, <1>8, <1>9, <1>10, <1>11, <1>12 DEF NextInHead

\* Nothing has been stored yet.
LEMMA GotNothing ==
  ASSUME NEW p \in Seq(Tok)
  PROVE  Take(Take(p, 0), BodySize - 1) = <<>>
<1>1. 0 \in 0..Len(p)
  OBVIOUS
<1>2. Take(Take(p, 0), BodySize - 1) \in Seq(Tok)
      /\ Len(Take(Take(p, 0), BodySize - 1)) = IF 0 < BodySize - 1 THEN 0 ELSE BodySize - 1
  BY <1>1, RoomIs, TakeTake
<1>3. Len(Take(Take(p, 0), BodySize - 1)) = 0
  BY <1>2, RoomIs
<1> QED BY <1>2, <1>3

\* The empty line behind the head.
LEMMA HeaderEndFollows ==
  ASSUME ReadTypes, reply \in Reply, Parsing, HeaderEnd
  PROVE  InBody' \/ AtSize'
<1>1. /\ HasLine(r_buf) /\ FirstLine(r_buf) = <<>> /\ ~header_end /\ header_end'
      /\ length' = IF res.chunked THEN -1 ELSE res.content_length
      /\ r_buf' = AfterLine(r_buf)
      /\ UNCHANGED <<res, body, wire, peer, reply>>
  BY DEF HeaderEnd, GoOn, Parses, net
<1>2. InHead /\ NextInHead
  BY <1>1, PassOver DEF Parsing, InBody, AtSize, InChunk, AtEnd
<1>3. body = <<>>
  BY <1>2 DEF InHead
<1>4. /\ AfterStatus(reply) \in Seq(Tok) /\ AfterFraming(reply) \in Seq(Tok)
      /\ AfterClose(reply) \in Seq(Tok) /\ AfterOther(reply) \in Seq(Tok)
  BY Parts
<1>5. ASSUME NEW l, Inside(l), l # <<>>, NEW y \in Seq(Tok), Comes(LineAnd(l, y)) PROVE FALSE
  BY <1>1, <1>5, NextLine
<1>6. ~ Comes(Sent(reply))
  BY <1>4, <1>5, SentIs, OneIs, ReplyIs DEF Kinds
<1>7. ~ (reply.framing = "length" /\ Comes(AfterStatus(reply)))
  <2> SUFFICES ASSUME reply.framing = "length", Comes(AfterStatus(reply)) PROVE FALSE
    OBVIOUS
  <2>1. reply.sizes[1] \in Nat
    BY ReplyIs
  <2>2. Inside(One("length", reply.sizes[1])) /\ One("length", reply.sizes[1]) # <<>>
    BY <2>1, OneIs DEF Kinds
  <2> QED BY <2>2, <1>4, <1>5 DEF AfterStatus
<1>8. ~ (reply.framing = "chunked" /\ Comes(AfterStatus(reply)))
  <2>1. Inside(One("chunked", 0)) /\ One("chunked", 0) # <<>>
    BY OneIs DEF Kinds
  <2> QED BY <2>1, <1>4, <1>5 DEF AfterStatus
<1>9. ~ (reply.close /\ Comes(AfterFraming(reply)))
  <2>1. Inside(One("close", 0)) /\ One("close", 0) # <<>>
    BY OneIs DEF Kinds
  <2> QED BY <2>1, <1>4, <1>5 DEF AfterFraming
<1>10. ~ (reply.other > 0 /\ Comes(AfterClose(reply)))
  BY <1>4, <1>5, OthersIs DEF AfterClose
<1>11. Comes(AfterOther(reply)) /\ Framed
  BY <1>2, <1>6, <1>7, <1>8, <1>9, <1>10 DEF NextInHead
<1>12. ToCome(peer', r_buf', wire', BodyOf(reply))
  <2>1. BodyOf(reply) \in Seq(Tok) /\ Comes(LineAnd(<<>>, BodyOf(reply)))
    BY <1>11, BodyOfIs DEF AfterOther
  <2> QED BY <2>1, <1>1, NoLine, NextLine
<1>13. Payload(reply) \in Seq(Tok) /\ Whole \in Nat
  BY WholeIs
<1>14. CASE reply.framing = "chunked"
  <2>1. length' = -1 /\ res.chunked /\ res.content_length = 0
    BY <1>1, <1>11, <1>14 DEF Framed
  <2>2. ToCome(peer', r_buf', wire', ChunksFrom(reply, 0))
    BY <1>12, <1>14 DEF BodyOf
  <2>3. 0 \in 0..Len(reply.sizes) /\ Len(DataTo(reply, 0)) = 0
    BY WholeIs, ReplyIs
  <2>4. body = Take(Take(Payload(reply), Len(DataTo(reply, 0))), BodySize - 1)
    BY <2>3, <1>3, <1>13, GotNothing
  <2>5. AtSize'
    BY <2>1, <2>2, <2>3, <2>4, <1>1, <1>11, <1>14 DEF AtSize, Comes, Got, Framed
  <2> QED BY <2>5
<1>15. CASE reply.framing # "chunked"
  <2>1. ~res.chunked /\ res.content_length = Whole
    BY <1>11, <1>15, WholeIs, ReplyIs DEF Framed, Framings
  <2>2. length' = Whole /\ Whole - length' = 0 /\ length' \in 0..Whole
    BY <2>1, <1>1, <1>13
  <2>3. Drop(Payload(reply), 0) = Payload(reply)
    BY <1>13, EmptyJoin
  <2>4. ToCome(peer', r_buf', wire', Payload(reply))
    BY <1>12, <1>15 DEF BodyOf
  <2>5. body = Take(Take(Payload(reply), 0), BodySize - 1)
    BY <1>3, <1>13, GotNothing
  <2>6. Whole' = Whole
    BY <1>1 DEF Whole
  <2>7. InBody'
    BY <2>1, <2>2, <2>3, <2>4, <2>5, <2>6, <1>1, <1>11, <1>15 DEF InBody, Comes, Got, Framed
  <2> QED BY <2>7
<1> QED BY <1>14, <1>15

\* More must be read for a line.
LEMMA LineDueFollows ==
  ASSUME reply \in Reply, Parsing, LineDue
  PROVE  Parsing'
<1>1. pc' = "read" /\ UNCHANGED <<res, header_end, length, r_buf, body, wire, peer, reply>>
  BY DEF LineDue, GoOn, Parses, parser, net
<1>2. \A x \in Seq(Tok) : Comes(x) => ToCome(peer', r_buf', wire', x)
  BY <1>1 DEF Comes
<1> QED BY <1>1, <1>2, SameParse

\* A size line, with or without the LF of the chunk before it.
LEMMA NextSize ==
  ASSUME ReadTypes, NEW n \in Nat, NEW y \in Seq(Tok), HasLine(r_buf),
         Comes(LineAnd(Size(n), y)) \/ Comes(<<LF>> \o LineAnd(Size(n), y))
  PROVE  Hexadecimal(FirstLine(r_buf)) = n /\ ToCome(peer, AfterLine(r_buf), wire, y)
<1>1. Inside(Size(n)) /\ Size(n) \in Seq(Tok)
  BY SizeIs DEF Inside
<1>2. CASE Comes(LineAnd(Size(n), y))
  BY <1>1, <1>2, NextLine, HexSize
<1>3. CASE Comes(<<LF>> \o LineAnd(Size(n), y))
  <2>1. PICK z \in Seq(Tok) : z = <<CR, LF>> \o y
    BY Ends, JoinIs
  <2>2. PICK f \in Seq(Tok) : f = <<LF>>
    BY Ends
  <2>3. PICK l \in Seq(Tok) : l = f \o Size(n) /\ Inside(l) /\ Hexadecimal(l) = n
    BY <2>2, HexSize
  <2>4. l \o z = f \o (Size(n) \o z)
    BY <2>3, <1>1, Associate
  <2>5. Comes(LineAnd(l, y))
    BY <2>1, <2>2, <2>4, <1>3 DEF LineAnd
  <2> QED BY <2>3, <2>5, NextLine
<1> QED BY <1>2, <1>3

\* A size line.
LEMMA SizeLineFollows ==
  ASSUME ReadTypes, reply \in Reply, Parsing, SizeLine
  PROVE  InChunk' \/ AtEnd'
<1> DEFINE r == reply
           n == Len(r.sizes)
<1>1. /\ header_end /\ res.chunked /\ length = -1 /\ HasLine(r_buf)
      /\ length' = Hexadecimal(FirstLine(r_buf))
      /\ res' = IF length' = 0 THEN [res EXCEPT !.chunked = FALSE]
                               ELSE [res EXCEPT !.content_length = @ + length']
      /\ r_buf' = AfterLine(r_buf)
      /\ UNCHANGED <<header_end, body, wire, peer, reply>>
  BY DEF SizeLine, SizeDue, GoOn, Parses, net
<1>2. AtSize
  BY <1>1 DEF Parsing, InHead, InBody, InChunk, AtEnd
<1>3. PICK i \in 0..n :
        /\ Comes(ChunksFrom(r, i)) \/ Comes(<<LF>> \o ChunksFrom(r, i))
        /\ res.content_length = Len(DataTo(r, i)) /\ Got(Len(DataTo(r, i)))
  BY <1>2 DEF AtSize
<1>4. res \in Response
  BY DEF ReadTypes
<1>5. n \in Nat /\ r.framing = "chunked" /\ res.status = r.code
  BY <1>2, ReplyIs DEF AtSize
<1>6. CASE i < n
  <2> DEFINE s == r.sizes[i + 1]
             d == ChunkData(r, i + 1)
             y == ChunksFrom(r, i + 1)
  <2>1. i + 1 \in 1..n /\ i + 1 \in 0..n
    BY <1>5, <1>6
  <2>2. s \in Nat /\ s > 0 /\ d \in Seq(Tok) /\ Len(d) = s
    BY <2>1, <1>5, ChunkDataIs, ReplyIs
  <2>3. y \in Seq(Tok) /\ ChunksFrom(r, i) = LineAnd(Size(s), LineAnd(d, y))
    BY <2>1, <1>6, ChunksFromIs
  <2>4. LineAnd(d, y) \in Seq(Tok)
    BY <2>2, <2>3, LineIs
  <2>5. Len(DataTo(r, i + 1)) = Len(DataTo(r, i)) + s /\ Len(DataTo(r, i)) \in Nat
    BY <1>6, DataIs
  <2>6. Drop(d, 0) = d
    BY <2>2, EmptyJoin
  <2> HIDE DEF s, d, y
  <2>7. length' = s /\ ToCome(peer', r_buf', wire', LineAnd(d, y))
    BY <2>2, <2>3, <2>4, <1>1, <1>3, NextSize
  <2>8. res'.content_length = Len(DataTo(r, i + 1)) /\ res'.chunked /\ res'.status = r.code
    BY <2>2, <2>5, <2>7, <1>1, <1>3, <1>4, <1>5 DEF Response
  <2>9. s - length' = 0 /\ length' \in 0..s /\ length' # 0
        /\ Len(DataTo(r, i + 1)) - length' = Len(DataTo(r, i))
    BY <2>2, <2>5, <2>7
  <2>10. ToCome(peer', r_buf', wire',
                LineAnd(Drop(ChunkData(r, i + 1), r.sizes[i + 1] - length'), ChunksFrom(r, i + 1)))
    BY <2>6, <2>7, <2>9 DEF s, d, y
  <2>11. body' = Take(Take(Payload(r), Len(DataTo(r, i + 1)) - length'), BodySize - 1)
    BY <2>9, <1>1, <1>3 DEF Got
  <2>12. InChunk'
    BY <2>1, <2>8, <2>9, <2>10, <2>11, <1>1, <1>5 DEF InChunk, Comes, Got, s
  <2> QED BY <2>12
<1>7. CASE i = n
  <2>1. ChunksFrom(r, n) = LineAnd(Size(0), <<CR, LF>>)
    BY <1>3, ChunksFromIs
  <2>2. length' = 0 /\ ToCome(peer', r_buf', wire', <<CR, LF>>)
    BY <2>1, <1>1, <1>3, <1>7, Ends, NextSize
  <2>3. res'.content_length = res.content_length /\ ~res'.chunked /\ res'.status = r.code
    BY <2>2, <1>1, <1>4, <1>5 DEF Response
  <2>4. Len(DataTo(r, i)) = Whole
    BY <1>7, WholeIs
  <2>5. Whole' = Whole
    BY <1>1 DEF Whole
  <2>6. AtEnd'
    BY <2>2, <2>3, <2>4, <2>5, <1>1, <1>3, <1>5 DEF AtEnd, Comes, Got
  <2> QED BY <2>6
<1> QED BY <1>3, <1>5, <1>6, <1>7

\* The part d of the body that comes next is stored behind what is there.
LEMMA StoredNext ==
  ASSUME reply \in Reply, NEW n \in 0..Whole, Got(n), NEW d \in Seq(Tok),
         n + Len(d) <= Whole, \A i \in 1..Len(d) : d[i] = Payload(reply)[n + i]
  PROVE  Stored(d) = Take(Take(Payload(reply), n + Len(d)), BodySize - 1)
<1>1. PICK p \in Seq(Tok) : p = Payload(reply)
  BY WholeIs
<1>2. n \in 0..Len(p) /\ n + Len(d) <= Len(p) /\ \A i \in 1..Len(d) : d[i] = p[n + i]
  BY <1>1 DEF Whole
<1>3. Take(Take(Take(p, n), BodySize - 1) \o d, BodySize - 1) = Take(Take(p, n + Len(d)), BodySize - 1)
  BY <1>2, RoomIs, StoreMore
<1> QED BY <1>1, <1>3 DEF Stored, Got

\* A read that ends within a body of known length.
LEMMA WithinBodyFollows ==
  ASSUME ReadTypes, reply \in Reply, InBody, Within
  PROVE  /\ length' = 0 => pc' = "finish" /\ outcome' = "whole" /\ IsWhole'
         /\ length' # 0 => pc' = "read" /\ InBody'
<1> DEFINE p == Payload(reply)
           m == Len(r_buf)
           n == Whole - length
<1>1. /\ length > 0 /\ m <= length /\ body' = Stored(r_buf) /\ length' = length - m /\ r_buf' = <<>>
      /\ UNCHANGED <<res, header_end, wire, peer, reply>>
      /\ IF ~res.chunked /\ length' = 0 THEN pc' = "finish" /\ outcome' = "whole" ELSE pc' = "read"
  BY DEF Within, Store, Complete, GoOn, Done, Parses, net
<1>2. /\ header_end /\ ~res.chunked /\ reply.framing # "chunked" /\ res.status = reply.code
      /\ res.content_length = Whole /\ length \in 0..Whole /\ Comes(Drop(p, n)) /\ Got(n)
  BY DEF InBody
<1>3. p \in Seq(Tok) /\ Whole \in Nat /\ Whole = Len(p) /\ r_buf \in Seq(Tok) /\ wire \in Seq(Tok) /\ m \in Nat
  BY WholeIs DEF Whole, ReadTypes
<1>4. n \in 0..Len(p) /\ n \in 0..Whole /\ n \in Nat /\ Len(p) - n = length
  BY <1>2, <1>3
<1>5. PICK x \in Seq(Tok) : x = Drop(p, n) /\ Len(x) = length /\ \A i \in 1..length : x[i] = p[n + i]
  <2>1. Drop(p, n) \in Seq(Tok)
    BY <1>3, <1>4, DropIs
  <2>2. Len(Drop(p, n)) = Len(p) - n /\ \A i \in 1..Len(p) - n : Drop(p, n)[i] = p[n + i]
    BY <1>3, <1>4, DropSome
  <2> HIDE DEF p, n
  <2> QED BY <2>1, <2>2, <1>4
<1>6. ToCome(peer, r_buf, wire, x)
  BY <1>2, <1>5 DEF Comes
<1>7. \A i \in 1..m : r_buf[i] = p[n + i]
  <2>1. \A i \in 1..m : r_buf[i] = x[i]
    BY <1>3, <1>6, ComePrefix
  <2>2. \A i \in 1..m : i \in 1..length
    BY <1>1, <1>2, <1>3
  <2> QED BY <2>1, <2>2, <1>5
<1> HIDE DEF m, n
<1>8. n + m \in 0..Whole /\ Whole - length' = n + m /\ length' \in 0..Whole
  BY <1>1, <1>2, <1>3, <1>4 DEF n
<1>9. body' = Take(Take(p, n + m), BodySize - 1)
  <2>1. n \in 0..Whole /\ Got(n) /\ r_buf \in Seq(Tok) /\ n + m <= Whole
    BY <1>2, <1>3, <1>4, <1>8
  <2>2. Stored(r_buf) = Take(Take(p, n + m), BodySize - 1)
    BY <2>1, <1>7, StoredNext DEF m
  <2> QED BY <2>2, <1>1
<1>10. ToCome(peer', r_buf', wire', Drop(p, n + m))
  <2>1. m \in 0..Len(r_buf) /\ Drop(r_buf, m) = <<>>
    BY <1>3, EmptyJoin DEF m
  <2>2. ToCome(peer, Drop(r_buf, m), wire, Drop(x, m))
    BY <2>1, <1>3, <1>6, ComeDrop
  <2>3. Drop(x, m) = Drop(p, n + m)
    BY <1>3, <1>4, <1>5, DropTwice
  <2> QED BY <2>1, <2>2, <2>3, <1>1
<1>11. Whole' = Whole
  BY <1>1 DEF Whole
<1>12. CASE length' = 0
  <2>1. n + m = Len(p) /\ Drop(p, Len(p)) = <<>>
    BY <1>3, <1>8, <1>12, EmptyJoin
  <2>2. IsWhole'
    BY <2>1, <1>1, <1>2, <1>3, <1>9, <1>10, <1>11 DEF IsWhole, Comes, Got
  <2> QED BY <2>2, <1>1, <1>2, <1>12
<1>13. CASE length' # 0
  <2>1. InBody'
    BY <1>1, <1>2, <1>8, <1>9, <1>10, <1>11 DEF InBody, Comes, Got
  <2> QED BY <2>1, <1>1, <1>13
<1> QED BY <1>12, <1>13

\* What is to come when k bytes of the i-th chunk are missing.
ChunkRest(r, i, k) == LineAnd(Drop(ChunkData(r, i), r.sizes[i] - k), ChunksFrom(r, i))

\* What is left of a chunk, and what comes behind it.
LEMMA ChunkRestIs ==
  ASSUME NEW r \in Reply, NEW i \in 1..Len(r.sizes), NEW k \in 0..r.sizes[i]
  PROVE  /\ ChunkRest(r, i, k) \in Seq(Tok)
         /\ Len(ChunkRest(r, i, k)) = k + 2 + Len(ChunksFrom(r, i))
         /\ ChunkRest(r, i, k)[k + 1] = CR /\ ChunkRest(r, i, k)[k + 2] = LF
         /\ ChunksFrom(r, i) \in Seq(Tok)
         /\ Len(DataTo(r, i)) - k \in 0..Len(Payload(r))
         /\ Len(DataTo(r, i)) \in 0..Len(Payload(r))
         /\ \A j \in 1..k : ChunkRest(r, i, k)[j] = Payload(r)[(Len(DataTo(r, i)) - k) + j]
         /\ Drop(ChunkRest(r, i, k), k + 2) = ChunksFrom(r, i)
         /\ \A m \in 0..k : Drop(ChunkRest(r, i, k), m) = ChunkRest(r, i, k - m)
<1> DEFINE s == r.sizes[i]
           t == Len(DataTo(r, i))
<1>1. s \in Nat /\ k \in Nat /\ s - k \in Nat /\ s - k \in 0..s /\ i \in 0..Len(r.sizes) /\ Len(r.sizes) \in Nat
  BY ReplyIs
<1>2. PICK c \in Seq(Tok) : c = ChunkData(r, i) /\ Len(c) = s /\ Inside(c)
  BY ChunkDataIs
<1>3. PICK d \in Seq(Tok) : d = Drop(c, s - k) /\ Len(d) = k /\ \A j \in 1..k : d[j] = c[(s - k) + j]
  <2>1. Drop(c, s - k) \in Seq(Tok)
    BY <1>1, DropIs
  <2>2. s - k \in 0..Len(c) /\ Len(c) - (s - k) = k
    BY <1>1, <1>2
  <2>3. Len(Drop(c, s - k)) = k /\ \A j \in 1..k : Drop(c, s - k)[j] = c[(s - k) + j]
    BY <2>2, DropSome
  <2> QED BY <2>1, <2>3
<1>4. PICK y \in Seq(Tok) : y = ChunksFrom(r, i)
  BY <1>1, ChunksFromIs
<1>5. ChunkRest(r, i, k) = LineAnd(d, y)
  BY <1>2, <1>3, <1>4 DEF ChunkRest
<1>6. PICK x \in Seq(Tok) : x = LineAnd(d, y)
  BY LineIs
<1>7. /\ Len(x) = k + 2 + Len(y) /\ x[k + 1] = CR /\ x[k + 2] = LF
      /\ \A j \in 1..k : x[j] = d[j]
      /\ Drop(x, k + 2) = y
  <2>1. /\ Len(x) = Len(d) + 2 + Len(y) /\ x[Len(d) + 1] = CR /\ x[Len(d) + 2] = LF
        /\ \A j \in 1..Len(d) : x[j] = d[j]
        /\ Drop(x, Len(d) + 2) = y
    BY <1>6, LineIs
  <2>2. Len(d) = k
    BY <1>3
  <2> QED BY <2>1, <2>2
<1>8. t \in s..Len(Payload(r)) /\ \A j \in 1..s : Payload(r)[t - s + j] = c[j]
  BY <1>2, DataAt
<1>9. Len(Payload(r)) \in Nat /\ t \in Nat
  <2>1. Payload(r) \in Seq(Tok) /\ DataTo(r, i) \in Seq(Tok)
    BY <1>1, DataIs
  <2> QED BY <2>1
<1> HIDE DEF s, t
<1>10. t - k \in 0..Len(Payload(r)) /\ t \in 0..Len(Payload(r))
  BY <1>1, <1>8, <1>9
<1>11. ASSUME NEW j \in 1..k PROVE x[j] = Payload(r)[(t - k) + j]
  <2>1. (s - k) + j \in 1..s /\ t - s + ((s - k) + j) = (t - k) + j
    BY <1>1, <1>9
  <2>2. Payload(r)[(t - k) + j] = c[(s - k) + j]
    BY <2>1, <1>8
  <2> QED BY <2>2, <1>3, <1>7
<1>12. ASSUME NEW m \in 0..k PROVE Drop(x, m) = ChunkRest(r, i, k - m)
  <2>1. PICK e \in Seq(Tok) : e = <<CR, LF>> \o y
    BY Ends, JoinIs
  <2>2. x = d \o e /\ m \in 0..Len(d) /\ m \in Nat
    BY <2>1, <1>3, <1>6, <1>1 DEF LineAnd
  <2>3. Drop(x, m) = Drop(d, m) \o e
    BY <2>2, DropMore
  <2>4. Drop(d, m) = Drop(c, (s - k) + m)
    BY <2>2, <1>1, <1>3, DropTwice
  <2>5. (s - k) + m = s - (k - m)
    BY <2>2, <1>1
  <2> QED BY <2>1, <2>3, <2>4, <2>5, <1>2, <1>4 DEF ChunkRest, LineAnd, s
<1> QED BY <1>4, <1>5, <1>6, <1>7, <1>10, <1>11, <1>12 DEF t

\* A read that ends within a chunk.
LEMMA WithinChunkFollows ==
  ASSUME ReadTypes, reply \in Reply, InChunk, Within
  PROVE  pc' = "read" /\ InChunk'
<1> DEFINE r == reply
           m == Len(r_buf)
<1>1. /\ length > 0 /\ m <= length /\ body' = Stored(r_buf) /\ length' = length - m /\ r_buf' = <<>>
      /\ UNCHANGED <<res, header_end, wire, peer, reply>>
      /\ res.chunked => pc' = "read"
  BY DEF Within, Store, Complete, GoOn, Done, Parses, net
<1>2. PICK i \in 1..Len(r.sizes) :
        /\ length \in 0..r.sizes[i] /\ Comes(ChunkRest(r, i, length))
        /\ res.content_length = Len(DataTo(r, i)) /\ Got(Len(DataTo(r, i)) - length)
  BY DEF InChunk, ChunkRest
<1>3. r_buf \in Seq(Tok) /\ wire \in Seq(Tok) /\ m \in Nat
  BY DEF ReadTypes
<1> DEFINE n == Len(DataTo(r, i)) - length
<1>4. r.sizes[i] \in Nat
  BY ReplyIs
<1>5. PICK x \in Seq(Tok) : x = ChunkRest(r, i, length)
  BY <1>2, ChunkRestIs
<1>6. /\ n \in 0..Whole /\ n + length = Len(DataTo(r, i)) /\ Len(DataTo(r, i)) \in 0..Whole /\ Whole \in Nat
      /\ \A j \in 1..length : x[j] = Payload(r)[n + j]
      /\ \A j \in 0..length : Drop(x, j) = ChunkRest(r, i, length - j)
  <2>1. Len(DataTo(r, i)) - length \in 0..Len(Payload(r)) /\ Len(DataTo(r, i)) \in 0..Len(Payload(r))
    BY <1>2, ChunkRestIs
  <2>2. \A j \in 1..length : x[j] = Payload(r)[n + j]
    BY <1>2, <1>5, ChunkRestIs
  <2>3. \A j \in 0..length : Drop(x, j) = ChunkRest(r, i, length - j)
    BY <1>2, <1>5, ChunkRestIs
  <2>4. (Len(DataTo(r, i)) - length) + length = Len(DataTo(r, i))
    BY <2>1, <1>2, <1>4
  <2> QED BY <2>1, <2>2, <2>3, <2>4, WholeIs DEF Whole
<1>7. ToCome(peer, r_buf, wire, x)
  BY <1>2, <1>5 DEF Comes
<1> HIDE DEF m, n
<1>8. \A j \in 1..m : r_buf[j] = Payload(r)[n + j]
  <2>1. \A j \in 1..m : r_buf[j] = x[j]
    BY <1>3, <1>7, ComePrefix DEF m
  <2>2. \A j \in 1..m : j \in 1..length
    BY <1>1, <1>2, <1>3
  <2> QED BY <2>1, <2>2, <1>6
<1>9. body' = Take(Take(Payload(r), n + m), BodySize - 1)
  <2>1. n + m <= Whole /\ Got(n)
    BY <1>1, <1>2, <1>3, <1>4, <1>6 DEF n
  <2>2. Stored(r_buf) = Take(Take(Payload(r), n + m), BodySize - 1)
    BY <2>1, <1>3, <1>6, <1>8, StoredNext DEF m
  <2> QED BY <2>2, <1>1
<1>10. length' \in 0..r.sizes[i] /\ Len(DataTo(r, i)) - length' = n + m /\ m \in 0..length
  <2>1. length \in Nat /\ length <= r.sizes[i] /\ m \in 0..length /\ length' = length - m
    BY <1>1, <1>2, <1>3, <1>4
  <2>2. length' \in 0..r.sizes[i]
    BY <2>1, <1>4
  <2>3. PICK t \in Nat : t = Len(DataTo(r, i)) /\ n + length = t /\ n \in Nat
    BY <1>6
  <2>4. t - length' = n + m
    BY <2>1, <2>3
  <2> QED BY <2>1, <2>2, <2>3, <2>4
<1>11. ToCome(peer', r_buf', wire', ChunkRest(r, i, length'))
  <2>1. m \in 0..Len(r_buf) /\ Drop(r_buf, m) = <<>>
    BY <1>3, EmptyJoin DEF m
  <2>2. ToCome(peer, Drop(r_buf, m), wire, Drop(x, m))
    BY <2>1, <1>3, <1>7, ComeDrop
  <2>3. Drop(x, m) = ChunkRest(r, i, length')
    BY <1>1, <1>6, <1>10
  <2> QED BY <2>1, <2>2, <2>3, <1>1
<1>12. pc' = "read"
  BY <1>1 DEF InChunk
<1>13. InChunk'
  BY <1>1, <1>2, <1>9, <1>10, <1>11, <1>12 DEF InChunk, Comes, Got, ChunkRest
<1> QED BY <1>12, <1>13

\* More than the body takes never comes; behind a chunk comes its CR and LF.
LEMMA BeyondFollows ==
  ASSUME ReadTypes, reply \in Reply, Parsing, Beyond
  PROVE  \/ pc' = "parse" /\ AtSize'
         \/ pc' = "finish" /\ outcome' = "cut" /\ IsCut' /\ IsPart'
<1> DEFINE r == reply
           m == Len(r_buf)
<1>1. /\ header_end /\ ~SizeDue /\ 0 < length /\ length < m
      /\ body' = Stored(Take(r_buf, length)) /\ UNCHANGED <<res, header_end, wire, peer, reply>>
      /\ IF res.chunked /\ m >= length + 2
         THEN r_buf' = Drop(r_buf, length + 2) /\ length' = -1 /\ pc' = "parse"
         ELSE r_buf' = Drop(r_buf, length) /\ pc' = "finish" /\ outcome' = "cut"
  BY DEF Beyond, Store, BodyDue, LineEndThere, GoOn, Done, Parses, net
<1>2. r_buf \in Seq(Tok) /\ wire \in Seq(Tok) /\ m \in Nat /\ length \in Nat
  BY <1>1 DEF ReadTypes
<1>3. ~InBody
  <2> SUFFICES ASSUME InBody PROVE FALSE
    OBVIOUS
  <2>1. Comes(Drop(Payload(r), Whole - length)) /\ length \in 0..Whole
    BY DEF InBody
  <2>2. Payload(r) \in Seq(Tok) /\ Whole \in Nat /\ Whole = Len(Payload(r)) /\ Whole - length \in 0..Len(Payload(r))
        /\ Whole - length \in Nat /\ Whole - (Whole - length) = length
    BY <2>1, WholeIs DEF Whole
  <2>3. Drop(Payload(r), Whole - length) \in Seq(Tok) /\ Len(Drop(Payload(r), Whole - length)) = length
    BY <2>2, DropIs, DropSome
  <2>4. m <= length
    BY <2>1, <2>3, <1>2, ComePrefix DEF Comes
  <2> QED BY <2>4, <1>1, <1>2
<1>4. InChunk
  BY <1>1, <1>3 DEF Parsing, InHead, AtSize, AtEnd, SizeDue
<1>5. PICK i \in 1..Len(r.sizes) :
        /\ length \in 0..r.sizes[i] /\ Comes(ChunkRest(r, i, length))
        /\ res.content_length = Len(DataTo(r, i)) /\ Got(Len(DataTo(r, i)) - length)
  BY <1>4 DEF InChunk, ChunkRest
<1>6. r.framing = "chunked" /\ res.chunked /\ res.status = r.code
  BY <1>4 DEF InChunk
<1> DEFINE n == Len(DataTo(r, i)) - length
<1>7. r.sizes[i] \in Nat /\ i \in 0..Len(r.sizes)
  BY ReplyIs
<1>8. PICK x \in Seq(Tok) : x = ChunkRest(r, i, length)
  BY <1>5, ChunkRestIs
<1>9. /\ Len(x) = length + 2 + Len(ChunksFrom(r, i)) /\ ChunksFrom(r, i) \in Seq(Tok)
      /\ x[length + 1] = CR
      /\ \A j \in 1..length : x[j] = Payload(r)[n + j]
      /\ Drop(x, length + 2) = ChunksFrom(r, i)
  BY <1>5, <1>8, ChunkRestIs
<1>10. /\ n \in 0..Whole /\ n + length = Len(DataTo(r, i)) /\ Len(DataTo(r, i)) \in 0..Whole /\ Whole \in Nat
  <2>1. Len(DataTo(r, i)) - length \in 0..Len(Payload(r)) /\ Len(DataTo(r, i)) \in 0..Len(Payload(r))
    BY <1>5, ChunkRestIs
  <2>2. (Len(DataTo(r, i)) - length) + length = Len(DataTo(r, i))
    BY <2>1, <1>2
  <2> QED BY <2>1, <2>2, WholeIs DEF Whole
<1>11. ToCome(peer, r_buf, wire, x) /\ (\A j \in 1..m : r_buf[j] = x[j])
       /\ (peer = "up" => m + Len(wire) = Len(x))
  BY <1>2, <1>5, <1>8, ComePrefix DEF Comes
<1> HIDE DEF m, n
<1>12. body' = Take(Take(Payload(r), Len(DataTo(r, i))), BodySize - 1)
  <2>1. PICK d \in Seq(Tok) : d = Take(r_buf, length)
    BY <1>2, TakeIs
  <2>2. Len(d) = length /\ \A j \in 1..length : d[j] = r_buf[j]
    <3>1. length \in 0..Len(r_buf)
      BY <1>1, <1>2 DEF m
    <3> QED BY <3>1, <2>1, <1>2, TakeSome
  <2>3. \A j \in 1..Len(d) : d[j] = Payload(r)[n + j]
    <3>1. \A j \in 1..length : j \in 1..m
      BY <1>1, <1>2
    <3> QED BY <3>1, <2>2, <1>9, <1>11
  <2>4. n + Len(d) <= Whole /\ Got(n)
    BY <2>2, <1>5, <1>10 DEF n
  <2>5. Stored(d) = Take(Take(Payload(r), n + Len(d)), BodySize - 1)
    BY <2>3, <2>4, <1>10, StoredNext
  <2> QED BY <2>1, <2>2, <2>5, <1>1, <1>10
<1>13. CASE m >= length + 2
  <2>1. r_buf' = Drop(r_buf, length + 2) /\ length' = -1 /\ pc' = "parse"
    BY <1>1, <1>6, <1>13
  <2>2. length + 2 \in 0..Len(r_buf)
    BY <1>2, <1>13 DEF m
  <2>3. ToCome(peer, Drop(r_buf, length + 2), wire, Drop(x, length + 2))
    BY <2>2, <1>2, <1>11, ComeDrop
  <2>4. ToCome(peer', r_buf', wire', ChunksFrom(r, i))
    BY <2>1, <2>3, <1>1, <1>9
  <2>5. AtSize'
    BY <2>1, <2>4, <1>1, <1>5, <1>6, <1>7, <1>12 DEF AtSize, Comes, Got
  <2> QED BY <2>1, <2>5
<1>14. CASE ~(m >= length + 2)
  <2>1. r_buf' = Drop(r_buf, length) /\ pc' = "finish" /\ outcome' = "cut"
    BY <1>1, <1>14
  <2>2. m = length + 1
    BY <1>1, <1>2, <1>14
  <2>3. length \in 0..Len(r_buf) /\ Len(r_buf) - length = 1
    BY <2>2, <1>2 DEF m
  <2>4. PICK b \in Seq(Tok) : b = Drop(r_buf, length) /\ Len(b) = 1 /\ b[1] = r_buf[length + 1]
    <3>1. Drop(r_buf, length) \in Seq(Tok)
      BY <1>2, DropIs
    <3>2. 1 \in 1..Len(r_buf) - length
      BY <2>3
    <3>3. Len(Drop(r_buf, length)) = 1 /\ Drop(r_buf, length)[1] = r_buf[length + 1]
      BY <3>2, <2>3, <1>2, DropSome
    <3> QED BY <3>1, <3>3
  <2>5. b[1] = CR
    <3>1. length + 1 \in 1..m
      BY <2>2, <1>2
    <3> QED BY <3>1, <2>4, <1>9, <1>11
  <2>6. r_buf' = <<CR>>
    BY <2>1, <2>4, <2>5
  <2>7. peer = "up" => wire # <<>>
    <3> SUFFICES ASSUME peer = "up", wire = <<>> PROVE FALSE
      OBVIOUS
    <3>1. Len(wire) = 0 /\ m + Len(wire) = length + 2 + Len(ChunksFrom(r, i)) /\ Len(ChunksFrom(r, i)) \in Nat
      BY NoLine, <1>9, <1>11
    <3> QED BY <3>1, <2>2, <1>2
  <2>8. IsCut'
    BY <2>6, <2>7, <1>1, <1>6 DEF IsCut
  <2>9. Whole' = Whole
    BY <1>1 DEF Whole
  <2>10. IsPart'
    BY <2>9, <1>1, <1>10, <1>12 DEF IsPart, Got
  <2> QED BY <2>1, <2>8, <2>10
<1> QED BY <1>13, <1>14

\* A body of known length has come whole.
LEMMA BodyEndFollows ==
  ASSUME ReadTypes, reply \in Reply, Parsing, BodyEnd
  PROVE  pc' = "finish" /\ outcome' = "whole" /\ IsWhole'
<1>1. /\ header_end /\ ~res.chunked /\ length <= 0 /\ pc' = "finish" /\ outcome' = "whole"
      /\ UNCHANGED <<res, r_buf, body, wire, peer, reply>>
  BY DEF BodyEnd, BodyDue, Done, Parses, parser, net
<1>2. IsWhole => IsWhole'
  BY <1>1 DEF IsWhole, Comes, Got, Whole
<1>3. CASE InBody
  <2>1. Payload(reply) \in Seq(Tok) /\ Whole \in Nat /\ Whole = Len(Payload(reply))
    BY WholeIs DEF Whole
  <2>2. length = 0 /\ Whole - length = Whole
    BY <2>1, <1>1, <1>3 DEF InBody
  <2>3. Drop(Payload(reply), Whole) = <<>>
    BY <2>1, EmptyJoin
  <2>4. IsWhole
    BY <2>2, <2>3, <1>3 DEF InBody, IsWhole
  <2> QED BY <2>4, <1>1, <1>2
<1>4. CASE AtEnd
  <2>1. IsWhole
    BY <1>4 DEF AtEnd, IsWhole
  <2> QED BY <2>1, <1>1, <1>2
<1> QED BY <1>1, <1>3, <1>4 DEF Parsing, InHead, AtSize, InChunk

\* Of the CR and LF behind a chunk the CR at least has come.
LEMMA ChunkEndFollows ==
  ASSUME ReadTypes, reply \in Reply, Parsing, ChunkEnd
  PROVE  pc' = "parse" /\ AtSize'
<1> DEFINE r == reply
<1>1. /\ header_end /\ ~SizeDue /\ res.chunked /\ length <= 0 /\ pc = "parse" /\ pc' = "parse"
      /\ r_buf' = SkipLineEnd(r_buf) /\ length' = -1
      /\ UNCHANGED <<res, header_end, body, wire, peer, reply>>
  BY DEF ChunkEnd, BodyDue, GoOn, Parses, net
<1>2. InChunk
  BY <1>1 DEF Parsing, InHead, InBody, AtSize, AtEnd, SizeDue
<1>3. PICK i \in 1..Len(r.sizes) :
        /\ length \in 0..r.sizes[i] /\ Comes(ChunkRest(r, i, length))
        /\ res.content_length = Len(DataTo(r, i)) /\ Got(Len(DataTo(r, i)) - length)
  BY <1>2 DEF InChunk, ChunkRest
<1>4. r.framing = "chunked" /\ res.status = r.code /\ r_buf # <<>>
  <2>1. length = 0
    BY <1>1, <1>3, ReplyIs
  <2> QED BY <2>1, <1>1, <1>2 DEF InChunk
<1>5. length = 0 /\ r.sizes[i] \in Nat /\ i \in 0..Len(r.sizes) /\ r_buf \in Seq(Tok) /\ wire \in Seq(Tok)
  BY <1>1, <1>3, ReplyIs DEF ReadTypes
<1>6. Got(Len(DataTo(r, i)))
  <2>1. Len(DataTo(r, i)) \in Nat
    BY <1>5, DataIs
  <2>2. Len(DataTo(r, i)) - length = Len(DataTo(r, i))
    BY <2>1, <1>5
  <2> QED BY <2>2, <1>3
<1>7. PICK y \in Seq(Tok) : y = ChunksFrom(r, i)
  BY <1>5, ChunksFromIs
<1>8. PICK x \in Seq(Tok) : /\ x = ChunkRest(r, i, 0) /\ x[1] = CR /\ x[2] = LF
                            /\ x = <<CR, LF>> \o y /\ Drop(x, 2) = y
  <2>1. 0 \in 0..r.sizes[i] /\ 0 + 1 = 1 /\ 0 + 2 = 2
    BY <1>5
  <2>2. ChunkData(r, i) \in Seq(Tok) /\ Len(ChunkData(r, i)) = r.sizes[i] /\ r.sizes[i] - 0 = r.sizes[i]
    BY <1>5, ChunkDataIs
  <2>3. Drop(ChunkData(r, i), r.sizes[i] - 0) = <<>>
    BY <2>2, EmptyJoin
  <2>4. PICK e \in Seq(Tok) : e = <<CR, LF>> \o y
    BY Ends, JoinIs
  <2>5. ChunkRest(r, i, 0) = e
    BY <2>3, <2>4, <1>7, EmptyJoin DEF ChunkRest, LineAnd
  <2>6. ChunkRest(r, i, 0)[1] = CR /\ ChunkRest(r, i, 0)[2] = LF /\ Drop(ChunkRest(r, i, 0), 2) = y
    BY <2>1, <1>7, ChunkRestIs
  <2> QED BY <2>4, <2>5, <2>6
<1>9. ToCome(peer, r_buf, wire, x) /\ \A j \in 1..Len(r_buf) : r_buf[j] = x[j]
  BY <1>3, <1>5, <1>8, ComePrefix DEF Comes
<1>10. Len(r_buf) \in Nat /\ Len(r_buf) > 0
  BY <1>4, <1>5
<1>11. Len(r_buf) = 1 \/ Len(r_buf) = 2 \/ Len(r_buf) > 2
  <2> DEFINE m == Len(r_buf)
  <2> HIDE DEF m
  <2>1. m \in Nat /\ m > 0
    BY <1>10 DEF m
  <2>2. m = 1 \/ m = 2 \/ m > 2
    BY <2>1
  <2> QED BY <2>2 DEF m
<1>12. CASE Len(r_buf) = 1
  <2>1. r_buf' = <<>>
    BY <1>1, <1>12 DEF SkipLineEnd
  <2>2. 1 \in 0..Len(r_buf) /\ Drop(r_buf, 1) = <<>>
    <3>1. Drop(r_buf, Len(r_buf)) = <<>>
      BY <1>5, EmptyJoin
    <3> QED BY <3>1, <1>12
  <2>3. Drop(x, 1) = <<LF>> \o y
    <3>1. PICK e \in Seq(Tok) : e = <<CR, LF>> /\ Len(e) = 2 /\ e[2] = LF
      BY Ends
    <3>2. 1 \in 0..Len(e) /\ Len(e) - 1 = 1 /\ 1 + 1 = 2 /\ 1 \in 1..1
      BY <3>1
    <3>3. x = e \o y
      BY <3>1, <1>8
    <3>4. Drop(x, 1) = Drop(e, 1) \o y
      BY <3>2, <3>3, DropMore
    <3>5. Drop(e, 1) = <<LF>>
      <4>1. PICK d \in Seq(Tok) : d = Drop(e, 1)
        BY DropIs
      <4>2. Len(d) = 1 /\ d[1] = LF
        <5>1. Len(Drop(e, 1)) = Len(e) - 1 /\ \A j \in 1..Len(e) - 1 : Drop(e, 1)[j] = e[1 + j]
          BY <3>2, DropSome
        <5> QED BY <5>1, <4>1, <3>1, <3>2
      <4> QED BY <4>1, <4>2
    <3> QED BY <3>4, <3>5
  <2>4. ToCome(peer, Drop(r_buf, 1), wire, Drop(x, 1))
    BY <2>2, <1>5, <1>9, ComeDrop
  <2>5. ToCome(peer', r_buf', wire', <<LF>> \o ChunksFrom(r, i))
    BY <2>1, <2>2, <2>3, <2>4, <1>1, <1>7
  <2>6. AtSize'
    BY <2>5, <1>1, <1>3, <1>4, <1>5, <1>6 DEF AtSize, Comes, Got
  <2> QED BY <2>6, <1>1
<1>13. CASE Len(r_buf) = 2 \/ Len(r_buf) > 2
  <2>1. 1 \in 1..Len(r_buf) /\ 2 \in 1..Len(r_buf) /\ 2 \in 0..Len(r_buf)
    <3> DEFINE m == Len(r_buf)
    <3> HIDE DEF m
    <3>1. m \in Nat /\ (m = 2 \/ m > 2)
      BY <1>10, <1>13 DEF m
    <3>2. 1 \in 1..m /\ 2 \in 1..m /\ 2 \in 0..m
      BY <3>1
    <3> QED BY <3>2 DEF m
  <2>2. r_buf[1] = CR /\ r_buf[2] = LF
    BY <2>1, <1>8, <1>9
  <2>3. EndsAt(r_buf, 1)
    <3>1. DOMAIN r_buf = 1..Len(r_buf) /\ 1 + 1 = 2
      BY <1>5
    <3> QED BY <3>1, <2>1, <2>2 DEF EndsAt
  <2>4. r_buf' = Drop(r_buf, 2)
    <3>1. CASE Len(r_buf) > 2
      BY <3>1, <2>3, <1>1 DEF SkipLineEnd
    <3>2. CASE Len(r_buf) = 2
      BY <3>2, <1>1, <1>5, EmptyJoin DEF SkipLineEnd
    <3> QED BY <3>1, <3>2, <1>13
  <2>5. ToCome(peer, Drop(r_buf, 2), wire, Drop(x, 2))
    BY <2>1, <1>5, <1>9, ComeDrop
  <2>6. ToCome(peer', r_buf', wire', ChunksFrom(r, i))
    BY <2>4, <2>5, <1>1, <1>7, <1>8
  <2>7. AtSize'
    BY <2>6, <1>1, <1>3, <1>4, <1>5, <1>6 DEF AtSize, Comes, Got
  <2> QED BY <2>7, <1>1
<1> QED BY <1>12, <1>13, <1>11

\* A response that is whole is the whole of it.
LEMMA WholeIsPart ==
  ASSUME reply \in Reply, IsWhole
  PROVE  IsPart
BY WholeIs DEF IsWhole, IsPart

\* Every step of http_parse.
LEMMA ParseFollows ==
  ASSUME ReadTypes, Follows, http_parse
  PROVE  Follows'
<1>1. pc = "parse" /\ UNCHANGED <<fd, wire, peer, asked, reply, stale>>
  BY ParseQuiet
<1>2. reply \in Reply /\ reply # NULL /\ Parsing /\ ~asked
  BY <1>1, InParse, ReplyIs
<1>3. (pc' = "read" \/ pc' = "parse") /\ Parsing' => Follows'
  BY <1>1, <1>2 DEF Follows
<1>4. pc' = "finish" /\ outcome' = "whole" /\ IsWhole' => Follows'
  <2> SUFFICES ASSUME pc' = "finish", outcome' = "whole", IsWhole' PROVE Follows'
    OBVIOUS
  <2>1. Got(Whole)' /\ Whole' = Whole
    BY <1>1 DEF IsWhole, Whole
  <2>2. Whole \in Nat
    BY <1>2, WholeIs
  <2>3. IsPart'
    BY <2>1, <2>2 DEF IsPart, Got
  <2> QED BY <2>3, <1>1, <1>2 DEF Follows, Finished
<1>5. pc' = "finish" /\ outcome' = "cut" /\ IsCut' /\ IsPart' => Follows'
  BY <1>1, <1>2 DEF Follows, Finished
<1>6. CASE HeaderLine
  <2>1. pc' = "parse"
    BY <1>6 DEF HeaderLine, GoOn, Parses
  <2> QED BY <2>1, <1>2, <1>3, <1>6, HeaderLineFollows DEF Parsing
<1>7. CASE HeaderEnd
  <2>1. pc' = "parse"
    BY <1>7 DEF HeaderEnd, GoOn, Parses
  <2> QED BY <2>1, <1>2, <1>3, <1>7, HeaderEndFollows DEF Parsing
<1>8. CASE LineDue
  <2>1. pc' = "read"
    BY <1>8 DEF LineDue, GoOn, Parses
  <2> QED BY <2>1, <1>2, <1>3, <1>8, LineDueFollows
<1>9. CASE SizeLine
  <2>1. pc' = "parse"
    BY <1>9 DEF SizeLine, GoOn, Parses
  <2> QED BY <2>1, <1>2, <1>3, <1>9, SizeLineFollows DEF Parsing
<1>10. CASE Beyond
  BY <1>2, <1>3, <1>5, <1>10, BeyondFollows DEF Parsing
<1>11. CASE Within
  <2>1. InBody \/ InChunk
    BY <1>2, <1>11 DEF Within, BodyDue, SizeDue, Parsing, InHead, AtSize, AtEnd
  <2>2. CASE InBody
    <3>1. length' = 0 => Follows'
      BY <2>2, <1>2, <1>4, <1>11, WithinBodyFollows
    <3>2. length' # 0 => Follows'
      BY <2>2, <1>2, <1>3, <1>11, WithinBodyFollows DEF Parsing
    <3> QED BY <3>1, <3>2
  <2>3. CASE InChunk
    BY <2>3, <1>2, <1>3, <1>11, WithinChunkFollows DEF Parsing
  <2> QED BY <2>1, <2>2, <2>3
<1>12. CASE BodyEnd
  BY <1>2, <1>4, <1>12, BodyEndFollows
<1>13. CASE ChunkEnd
  BY <1>2, <1>3, <1>13, ChunkEndFollows DEF Parsing
<1> QED BY <1>6, <1>7, <1>8, <1>9, <1>10, <1>11, <1>12, <1>13 DEF http_parse

-----------------------------------------------------------------------------
\* The invariant holds in the beginning ...
LEMMA ReadInit == Init => RInv
<1> SUFFICES ASSUME Init PROVE RInv
  OBVIOUS
<1>1. /\ BodySize \in Nat /\ BodySize > 0 /\ ReadSize \in Nat
      /\ NoResponse \in Response
  BY ClientAssumption DEF NoResponse, Response
<1>2. /\ r_buf = <<>> /\ body = <<>> /\ wire = <<>> /\ res = NoResponse /\ length = 0
      /\ header_end = FALSE /\ peer = "up" /\ asked = FALSE /\ reply = NULL /\ stale = FALSE
      /\ pc = "idle" /\ outcome = "none" /\ fd = NoFd
  BY DEF Init
<1>3. ReadTypes
  <2>1. Len(r_buf) <= ReadSize /\ Len(body) < BodySize
    BY <1>1, <1>2, NoLine
  <2>2. r_buf \in Seq(Tok) /\ body \in Seq(Tok) /\ wire \in Seq(Tok)
    BY <1>2, NoLine
  <2>3. length \in Int /\ length >= -1
    BY <1>2
  <2>4. res \in Response /\ header_end \in BOOLEAN /\ reply \in Reply \cup {NULL}
        /\ peer \in {"up", "fin", "rst"} /\ asked \in BOOLEAN /\ stale \in BOOLEAN
    BY <1>1, <1>2
  <2> QED BY <2>1, <2>2, <2>3, <2>4 DEF ReadTypes
<1>4. Follows
  BY <1>2 DEF Follows, Between
<1> QED BY <1>3, <1>4 DEF RInv

\* ... and through every step.
LEMMA ReadStep ==
  ASSUME RInv, [Next]_vars
  PROVE  RInv'
<1>1. ReadTypes
  BY DEF RInv
<1>2. ReadTypes'
  <2>1. CASE UNCHANGED vars
    BY <2>1, <1>1 DEF vars, ReadTypes, parser, net
  <2> QED BY <2>1, <1>1, CallTypes, ServerTypes DEF Next
<1>3. ASSUME ~stale' PROVE Follows'
  <2>1. CASE Reconnect
    BY <2>1, ReconnectFollows
  <2>2. CASE ConnectFails
    BY <2>2, ClosedBetween DEF ConnectFails
  <2>3. CASE ~stale /\ Follows
    <3>1. CASE UNCHANGED vars
      BY <3>1, <2>3 DEF vars, Follows, Between, NotAnswered, BeforeRead, Writing, BeginsToRead, Finished,
         Parsing, InHead, InBody, AtSize, InChunk, AtEnd, IsWhole, IsCut, IsPart, Comes, Got, Whole, parser, net
    <3>2. CASE Continue
      <4>1. CASE Reuse
        BY <4>1, <2>3, <1>3, ReuseFollows
      <4>2. CASE http_get
        BY <4>2, <2>3, <1>1, RequestFollows
      <4>3. CASE WriteFails \/ ReadFails
        BY <4>3, ClosedBetween DEF WriteFails, ReadFails
      <4>4. CASE \E n \in 1..ReadSize : Read(n)
        BY <4>4, <2>3, <1>1, ReadFollows
      <4>5. CASE ReadNothing
        BY <4>5, <2>3, <1>1, ReadNothingFollows
      <4>6. CASE http_parse
        BY <4>6, <2>3, <1>1, ParseFollows
      <4>7. CASE Finish
        BY <4>7, <2>3, <1>1, FinishFollows
      <4> QED BY <3>2, <2>1, <2>2, <4>1, <4>2, <4>3, <4>4, <4>5, <4>6, <4>7 DEF Continue
    <3>3. CASE Caller
      <4>1. CASE \E op \in Ops, u \in Url : Begin(op, u)
        BY <4>1, <2>3, BeginFollows
      <4>2. CASE http_write_end \/ (\E n \in -1..MaxBody : http_write_header(n)) \/ \E n \in 1..MaxBody : http_write(n)
        BY <4>2, <2>3, <1>1, RequestFollows
      <4>3. CASE http_read_chunked
        BY <4>3, <2>3, <1>1, ReadChunkedFollows
      <4>4. CASE http_close
        BY <4>4, ClosedBetween DEF http_close
      <4> QED BY <3>3, <4>1, <4>2, <4>3, <4>4 DEF Caller
    <3>4. CASE Server
      BY <3>4, <2>3, <1>1, ServerFollows
    <3> QED BY <3>1, <3>2, <3>3, <3>4 DEF Next
  <2>4. CASE stale
    <3>1. Reconnect \/ ConnectFails \/ (stale' <=> stale)
      BY <2>4 DEF Next, vars, Continue, Caller, Server, Reuse, Reconnect, ConnectFails, http_get, WriteFails,
         Read, ReadNothing, ReadFails, http_parse, HeaderLine, HeaderEnd, LineDue, SizeLine, Beyond, Within,
         BodyEnd, ChunkEnd, GoOn, Done, Parses, Finish, Begin, http_write_header, http_write, http_write_end,
         http_read_chunked, http_close, Answer, Closes, Resets, client
    <3> QED BY <3>1, <2>1, <2>2, <2>4, <1>3
  <2> QED BY <2>3, <2>4 DEF RInv
<1> QED BY <1>2, <1>3 DEF RInv

(* RInv is an invariant of the client: at each place of a call, what is in *)
(* the buffers and on the wire is the rest of the answer to its request.   *)
THEOREM HttpReads == Spec => []RInv
BY ReadInit, ReadStep, PTL DEF Spec

-----------------------------------------------------------------------------
\* As much of the body as is there is a prefix of it.
LEMMA GotIsTake ==
  ASSUME reply \in Reply, body \in Seq(Tok), NEW n \in 0..Whole, Got(n)
  PROVE  body = Take(Payload(reply), Len(body))
<1>1. PICK p \in Seq(Tok) : p = Payload(reply)
  BY WholeIs
<1>2. n \in 0..Len(p) /\ BodySize - 1 \in Nat /\ body = Take(Take(p, n), BodySize - 1)
  BY <1>1, RoomIs DEF Whole, Got
<1>3. /\ Len(body) = IF n < BodySize - 1 THEN n ELSE BodySize - 1
      /\ \A i \in 1..(IF n < BodySize - 1 THEN n ELSE BodySize - 1) : body[i] = p[i]
  BY <1>2, TakeTake
<1>4. Len(body) \in 0..Len(p) /\ Len(body) \in Nat
  BY <1>2, <1>3
<1>5. PICK t \in Seq(Tok) : t = Take(p, Len(body)) /\ Len(t) = Len(body) /\ \A i \in 1..Len(body) : t[i] = p[i]
  <2>1. Take(p, Len(body)) \in Seq(Tok)
    BY <1>4, TakeIs
  <2> QED BY <2>1, <1>4, TakeSome
<1>6. t = body
  <2>1. \A i \in 1..Len(body) : t[i] = body[i]
    BY <1>3, <1>5
  <2> QED BY <2>1, <1>5, SameSeq
<1> QED BY <1>1, <1>5, <1>6

(* BodyIsPrefix: while http_parse stores a body, the caller's buffer has a *)
(* prefix of what the server sent, however it was split into reads.        *)
THEOREM HttpBodyIsPrefix == Spec => []BodyIsPrefix
<1>1. RInv => BodyIsPrefix
  <2> SUFFICES ASSUME RInv PROVE BodyIsPrefix
    OBVIOUS
  <2>1. ASSUME reply # NULL, ~stale, pc \in {"read", "parse", "finish"}
        PROVE  body = Take(Payload(reply), Len(body))
    <3>1. reply \in Reply /\ body \in Seq(Tok) /\ Follows
      BY <2>1, ReplyHere DEF RInv, ReadTypes
    <3>2. IsPart
      BY <3>1, <2>1, PartRead DEF Follows, Finished
    <3> QED BY <3>1, <3>2, GotIsTake DEF IsPart
  <2> QED BY <2>1 DEF BodyIsPrefix
<1> QED BY <1>1, HttpReads, PTL

-----------------------------------------------------------------------------
\* How far the last writes went, and the error that the text is about.
PastInv ==
  /\ past \in [r_buf : 0..1, response : Nat]
  /\ past.response > 0 =>
       /\ call.op = "get" /\ outcome = "error" /\ pc = "idle"
       /\ past.response <= ErrorSize - BodySize

\* What fits does not go past the end.
LEMMA FitsIn ==
  ASSUME NEW n \in Nat, NEW size \in Nat
  PROVE  /\ PastEnd(n, size) \in Nat
         /\ n <= size => PastEnd(n, size) = 0
         /\ n <= size + 1 => PastEnd(n, size) \in 0..1
BY DEF PastEnd

\* The step is not one of those that write.
LEMMA NothingWritten ==
  ASSUME PastInv, UNCHANGED past,
         (UNCHANGED <<call, outcome, pc>>) \/ (past.response > 0 => pc # "idle")
  PROVE  PastInv'
BY DEF PastInv

\* The text of an error ends the request.
LEMMA TextWritten ==
  ASSUME PastInv, ErrorText, UNCHANGED call, pc' = "idle", outcome' = "error"
  PROVE  PastInv'
<1>1. ErrorSize \in Nat /\ BodySize \in Nat
  BY ClientAssumption
<1>2. CASE call.op = "get"
  <2>1. PICK n \in 1..ErrorSize : past' = [past EXCEPT !.response = PastEnd(n, BodySize)]
    BY <1>2 DEF ErrorText
  <2>2. PastEnd(n, BodySize) \in Nat /\ (PastEnd(n, BodySize) > 0 => PastEnd(n, BodySize) <= ErrorSize - BodySize)
    BY <1>1 DEF PastEnd
  <2>3. past'.response = PastEnd(n, BodySize) /\ past' \in [r_buf : 0..1, response : Nat]
    BY <2>1, <2>2 DEF PastInv
  <2> QED BY <1>2, <2>2, <2>3 DEF PastInv
<1>3. CASE call.op # "get"
  BY <1>3 DEF ErrorText, PastInv
<1> QED BY <1>2, <1>3

\* What is stored of a body and its terminator are within the buffer.
LEMMA StoreWritten ==
  ASSUME PastInv, ReadTypes, NEW d \in Seq(Tok), Store(d)
  PROVE  PastInv'
<1>1. BodySize \in Nat /\ body' = Stored(d)
  BY ClientAssumption DEF Store
<1>2. Len(body') \in Nat /\ Len(body') + 1 <= BodySize
  BY <1>1, StoredType
<1>3. past' = [past EXCEPT !.response = 0]
  <2>1. \A m \in Nat : m <= BodySize => PastEnd(m, BodySize) = 0
    BY <1>1, FitsIn
  <2>2. Len(body') + 1 \in Nat /\ PastEnd(Len(body') + 1, BodySize) = 0
    BY <1>2, <2>1
  <2>3. past' = [past EXCEPT !.response = PastEnd(Len(body') + 1, BodySize)]
    BY DEF Store
  <2> QED BY <2>2, <2>3
<1> QED BY <1>3 DEF PastInv

\* A read fills r_buf at most, and its terminator is one byte more.
LEMMA ReadWritten ==
  ASSUME PastInv, ReadTypes, NEW n \in 1..ReadSize, Read(n)
  PROVE  PastInv'
<1>1. ReadSize \in Nat /\ r_buf \in Seq(Tok) /\ Len(r_buf) \in Nat /\ n \in Nat
  BY ClientAssumption DEF ReadTypes
<1>2. Len(r_buf) + n + 1 \in Nat /\ Len(r_buf) + n + 1 <= ReadSize + 1
  BY <1>1 DEF Read, Room
<1>3. PastEnd(Len(r_buf) + n + 1, ReadSize) \in 0..1
  BY <1>1, <1>2, FitsIn
<1>4. past' = [past EXCEPT !.r_buf = PastEnd(Len(r_buf) + n + 1, ReadSize)] /\ pc = "read"
  BY DEF Read
<1> QED BY <1>3, <1>4 DEF PastInv

LEMMA ParseWritten ==
  ASSUME PastInv, ReadTypes, http_parse
  PROVE  PastInv'
<1>1. pc = "parse"
  BY ParseQuiet
<1>2. CASE Beyond
  <2>1. Take(r_buf, length) \in Seq(Tok)
    BY <1>2, TakeIs DEF Beyond, ReadTypes
  <2> QED BY <1>2, <2>1, StoreWritten DEF Beyond
<1>3. CASE Within
  BY <1>3, StoreWritten DEF Within, ReadTypes
<1>4. CASE ~ Beyond /\ ~ Within
  <2>1. UNCHANGED past
    BY <1>4 DEF http_parse, HeaderLine, HeaderEnd, LineDue, SizeLine, BodyEnd, ChunkEnd
  <2> QED BY <1>1, <2>1, NothingWritten
<1> QED BY <1>2, <1>3, <1>4

LEMMA WriteStep ==
  ASSUME PastInv, ReadTypes, [Next]_vars
  PROVE  PastInv'
<1>1. CASE \E op \in Ops, u \in Url : Begin(op, u)
  BY <1>1 DEF Begin, PastInv, NothingPast
<1>2. CASE ConnectFails \/ WriteFails \/ ReadFails
  BY <1>2, TextWritten DEF ConnectFails, WriteFails, ReadFails
<1>3. CASE \E n \in 1..ReadSize : Read(n)
  BY <1>3, ReadWritten
<1>4. CASE http_parse
  BY <1>4, ParseWritten
<1>5. CASE \/ Reuse \/ Reconnect \/ http_get \/ ReadNothing \/ Finish
           \/ http_write_end \/ http_read_chunked
           \/ (\E n \in -1..MaxBody : http_write_header(n)) \/ \E n \in 1..MaxBody : http_write(n)
  <2>1. UNCHANGED past /\ pc # "idle"
    BY <1>5 DEF Reuse, Reconnect, http_get, ReadNothing, Finish, http_write_end, http_read_chunked,
                http_write_header, http_write
  <2> QED BY <2>1, NothingWritten
<1>6. CASE http_close \/ Server \/ UNCHANGED vars
  <2>1. UNCHANGED <<past, call, outcome, pc>>
    BY <1>6 DEF http_close, Server, Answer, Closes, Resets, client, vars
  <2> QED BY <2>1, NothingWritten
<1> QED BY <1>1, <1>2, <1>3, <1>4, <1>5, <1>6 DEF Next, Continue, Caller

(* WritesWithin: a body ends, with its terminator, within the caller's     *)
(* buffer, and a response within r_buf but for the one zero behind a full  *)
(* buffer, for all sizes of both and however the response is cut.          *)
THEOREM HttpWritesWithin == Spec => []WritesWithin
<1>1. Init => PastInv
  BY DEF Init, PastInv, NothingPast
<1>2. RInv /\ PastInv /\ [Next]_vars => PastInv'
  BY WriteStep DEF RInv
<1>3. PastInv => WritesWithin
  BY DEF PastInv, WritesWithin
<1> QED BY <1>1, <1>2, <1>3, HttpReads, PTL DEF Spec

(* WholeResponse: a call that reports a whole response has its status, its *)
(* length and its body, as far as the buffer takes it; a call that reports *)
(* one that is cut short has read a chunk with its CR and without its LF.  *)
THEOREM HttpWholeResponse == Spec => []WholeResponse
<1>1. RInv => WholeResponse
  <2> SUFFICES ASSUME RInv, pc = "finish", ~stale
               PROVE  /\ outcome = "whole" =>
                           /\ reply # NULL
                           /\ res.status = reply.code
                           /\ res.content_length = Len(Payload(reply))
                           /\ body = Take(Payload(reply), BodySize - 1)
                      /\ outcome = "cut" => reply.framing = "chunked" /\ r_buf = <<CR>>
    BY DEF WholeResponse
  <2>1. Finished
    BY DEF RInv, Follows
  <2>2. reply # NULL => Take(Payload(reply), Whole) = Payload(reply)
    BY ReplyHere, WholeIs, EmptyJoin DEF Whole, RInv
  <2> QED BY <2>1, <2>2 DEF Finished, IsWhole, IsCut, Got, Whole
<1> QED BY <1>1, HttpReads, PTL

(* KeptInStep: a connection kept after a whole response has nothing left   *)
(* on it but the end of the last chunk, unless it was stale already.       *)
THEOREM HttpKeptInStep == Spec => []KeptInStep
<1>1. RInv => KeptInStep
  BY DEF RInv, Follows, Between, KeptInStep, LastLine
<1> QED BY <1>1, HttpReads, PTL
=============================================================================
