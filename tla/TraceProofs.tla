---------------------------- MODULE TraceProofs ----------------------------
(***************************************************************************)
(* For any number of threads, names and entries: the mutexes of the trace  *)
(* are taken in one order, and no thread takes one it holds; the stacks in *)
(* the table are those of the functions the threads are in; and the ring   *)
(* holds the last entries.                                                 *)
(***************************************************************************)
EXTENDS Trace, SequenceTheorems, TLAPS

InStack == {"set", "push", "pop", "trace exit", "unlock stack"}
InLog   == {"pretrace", "fill", "unlock log"}

\* What a thread holds at each place of a call.
Expected(t) ==
  {m \in Mutex : \/ pc[t] \in InStack /\ m = "stack"
                 \/ pc[t] = "unlock heap" /\ m = "heap"
                 \/ pc[t] \in InLog \cup {"log"} /\ m \in Needs(call[t].op)
                 \/ pc[t] \in InLog /\ m = "log"}

\* The record of each call has the fields the order depends on.
Fields ==
  /\ mutex \in [Mutex -> Thread \cup {NULL}]
  /\ pc \in [Thread -> PC]
  /\ DOMAIN call = Thread
  /\ \A t \in Thread : {"op", "then", "kind", "depth", "slot", "name"} \subseteq DOMAIN call[t]

\* The place a call is at, and the one it goes back to after it has logged,
\* are places of its operation.
Returns ==
  \A t \in Thread :
    /\ pc[t] \in InStack \cup {"stack"} => call[t].op \in {"entry", "exit"}
    /\ pc[t] \in {"heap", "unlock heap"} => call[t].op = "heap" /\ call[t].then = "unlock heap"
    /\ pc[t] \in InLog \cup {"log"} =>
         \/ call[t].op \in {"entry", "exit"} /\ call[t].then \in InStack
         \/ call[t].op = "heap" /\ call[t].then = "unlock heap"
         \/ call[t].op = "log" /\ call[t].then = "idle" /\ call[t].kind = "message"

HoldsExpected == \A t \in Thread : \A m \in Mutex : mutex[m] = t <=> m \in Expected(t)

LockInv == Fields /\ Returns /\ HoldsExpected

-----------------------------------------------------------------------------
(***************************************************************************)
(* What one step of thread t does to the mutexes.                          *)
(***************************************************************************)

OthersStay(t) == \A u \in Thread \ {t} : pc'[u] = pc[u] /\ call'[u] = call[u]

LEMMA OthersExpect ==
  ASSUME NEW t \in Thread, OthersStay(t), NEW u \in Thread \ {t}
  PROVE  Expected(u)' = Expected(u)
  BY DEF OthersStay, Expected

\* A step that neither takes nor gives back a mutex.
LEMMA Keeps ==
  ASSUME LockInv, NEW t \in Thread, OthersStay(t), mutex' = mutex,
         Expected(t)' = Expected(t)
  PROVE  HoldsExpected'
  BY OthersExpect DEF LockInv, HoldsExpected

\* A step that takes m.
LEMMA Takes ==
  ASSUME LockInv, NEW t \in Thread, OthersStay(t), NEW m \in Mutex,
         mutex[m] = NULL, mutex' = [mutex EXCEPT ![m] = t],
         Expected(t)' = Expected(t) \cup {m}
  PROVE  HoldsExpected'
<1> SUFFICES ASSUME NEW u \in Thread, NEW n \in Mutex
             PROVE  mutex'[n] = u <=> n \in Expected(u)'
  BY DEF HoldsExpected
<1>1. mutex[n] = u <=> n \in Expected(u)
  BY DEF LockInv, HoldsExpected
<1>2. NULL # u
  BY TraceAssumption
<1>3. mutex'[n] = IF n = m THEN t ELSE mutex[n]
  BY DEF LockInv, Fields
<1>4. CASE u = t
  BY <1>1, <1>3, <1>4
<1>5. CASE u # t
  BY <1>1, <1>2, <1>3, <1>5, OthersExpect
<1> QED
  BY <1>4, <1>5

\* A step that gives m back.
LEMMA GivesBack ==
  ASSUME LockInv, NEW t \in Thread, OthersStay(t), NEW m \in Mutex,
         m \in Expected(t), mutex' = [mutex EXCEPT ![m] = NULL],
         Expected(t)' = Expected(t) \ {m}
  PROVE  HoldsExpected'
<1> SUFFICES ASSUME NEW u \in Thread, NEW n \in Mutex
             PROVE  mutex'[n] = u <=> n \in Expected(u)'
  BY DEF HoldsExpected
<1>1. mutex[n] = u <=> n \in Expected(u)
  BY DEF LockInv, HoldsExpected
<1>2. NULL # u /\ mutex[m] = t
  BY TraceAssumption DEF LockInv, HoldsExpected
<1>3. mutex'[n] = IF n = m THEN NULL ELSE mutex[n]
  BY DEF LockInv, Fields
<1>4. CASE u = t
  BY <1>1, <1>2, <1>3, <1>4
<1>5. CASE u # t
  BY <1>1, <1>2, <1>3, <1>5, OthersExpect
<1> QED
  BY <1>4, <1>5

\* Returns for the others, who do not move.
LEMMA OthersReturn ==
  ASSUME LockInv, NEW t \in Thread, OthersStay(t),
         pc'[t] \in InStack \cup {"stack"} => call'[t].op \in {"entry", "exit"},
         pc'[t] \in {"heap", "unlock heap"} => call'[t].op = "heap" /\ call'[t].then = "unlock heap",
         pc'[t] \in InLog \cup {"log"} =>
           \/ call'[t].op \in {"entry", "exit"} /\ call'[t].then \in InStack
           \/ call'[t].op = "heap" /\ call'[t].then = "unlock heap"
           \/ call'[t].op = "log" /\ call'[t].then = "idle" /\ call'[t].kind = "message"
  PROVE  Returns'
<1> SUFFICES ASSUME NEW u \in Thread
             PROVE
    /\ pc'[u] \in InStack \cup {"stack"} => call'[u].op \in {"entry", "exit"}
    /\ pc'[u] \in {"heap", "unlock heap"} => call'[u].op = "heap" /\ call'[u].then = "unlock heap"
    /\ pc'[u] \in InLog \cup {"log"} =>
         \/ call'[u].op \in {"entry", "exit"} /\ call'[u].then \in InStack
         \/ call'[u].op = "heap" /\ call'[u].then = "unlock heap"
         \/ call'[u].op = "log" /\ call'[u].then = "idle" /\ call'[u].kind = "message"
  BY DEF Returns
<1>1. CASE u = t
  BY <1>1
<1>2. CASE u # t
  BY <1>2 DEF LockInv, Returns, OthersStay
<1> QED
  BY <1>1, <1>2

-----------------------------------------------------------------------------
(***************************************************************************)
(* The steps.                                                              *)
(***************************************************************************)

\* What Go(t, from, to) and an EXCEPT at t say of the others.
LEMMA GoStays ==
  ASSUME Fields, NEW t \in Thread, NEW from, NEW to \in PC, Go(t, from, to),
         DOMAIN call' = Thread, \A u \in Thread \ {t} : call'[u] = call[u]
  PROVE  /\ pc[t] = from /\ pc'[t] = to /\ pc' \in [Thread -> PC]
         /\ OthersStay(t)
  BY DEF Fields, Go, OthersStay

\* A step that changes neither call nor mutex.
LEMMA InPlace ==
  ASSUME LockInv, NEW t \in Thread, NEW from, NEW to \in PC, Go(t, from, to),
         UNCHANGED <<mutex, call>>, from \in InStack, to \in InStack
  PROVE  LockInv'
<1>1. pc[t] = from /\ pc'[t] = to /\ pc' \in [Thread -> PC] /\ OthersStay(t)
  BY GoStays DEF LockInv, Fields
<1>2. Fields'
  BY <1>1 DEF LockInv, Fields
<1>3. Expected(t)' = Expected(t)
  BY <1>1 DEF Expected, InStack, InLog
<1>4. call[t].op \in {"entry", "exit"}
  BY <1>1 DEF LockInv, Returns
<1>5. Returns'
  BY <1>1, <1>4, OthersReturn DEF InStack, InLog
<1> QED
  BY <1>1, <1>2, <1>3, <1>5, Keeps DEF LockInv

\* A step of StackTrace.c that goes on to log.
LEMMA ToLog ==
  ASSUME LockInv, NEW t \in Thread, NEW from \in InStack, Go(t, from, "log"),
         NEW kind, NEW depth, NEW next \in InStack, LogNext(t, kind, depth, next),
         UNCHANGED mutex
  PROVE  LockInv'
<1>1. /\ DOMAIN call' = Thread
      /\ \A u \in Thread \ {t} : call'[u] = call[u]
      /\ {"op", "then", "kind", "depth", "slot", "name"} \subseteq DOMAIN call'[t]
      /\ call'[t].op = call[t].op /\ call'[t].then = next
  BY DEF LockInv, Fields, LogNext
<1>2. pc[t] = from /\ pc'[t] = "log" /\ pc' \in [Thread -> PC] /\ OthersStay(t)
  BY <1>1, GoStays DEF LockInv, PC
<1>3. Fields'
  BY <1>1, <1>2 DEF LockInv, Fields
<1>4. call[t].op \in {"entry", "exit"}
  BY <1>2 DEF LockInv, Returns
<1>5. Expected(t)' = Expected(t)
  BY <1>1, <1>2, <1>4 DEF Expected, Needs, Mutex, InStack, InLog
<1>6. Returns'
  BY <1>1, <1>2, <1>4, OthersReturn DEF InStack, InLog
<1> QED
  BY <1>2, <1>3, <1>5, <1>6, Keeps DEF LockInv

\* A call begins with no mutex.
LEMMA Begins ==
  ASSUME LockInv, NEW t \in Thread, NEW to, Go(t, "idle", to),
         NEW c, call' = [call EXCEPT ![t] = c],
         {"op", "then", "kind", "depth", "slot", "name"} \subseteq DOMAIN c,
         \/ to = "stack" /\ c.op \in {"entry", "exit"}
         \/ to = "heap" /\ c.op = "heap" /\ c.then = "unlock heap"
         \/ to = "log" /\ c.op = "log" /\ c.then = "idle" /\ c.kind = "message",
         UNCHANGED mutex
  PROVE  LockInv'
<1>1. /\ DOMAIN call' = Thread /\ call'[t] = c
      /\ \A u \in Thread \ {t} : call'[u] = call[u]
  BY DEF LockInv, Fields
<1>2. pc[t] = "idle" /\ pc'[t] = to /\ pc' \in [Thread -> PC] /\ OthersStay(t)
  <2>1. to \in PC
    BY DEF PC
  <2> QED
    BY <1>1, <2>1, GoStays DEF LockInv
<1>3. Fields'
  BY <1>1, <1>2 DEF LockInv, Fields
<1>4. Expected(t)' = Expected(t)
  BY <1>1, <1>2 DEF Expected, Needs, Mutex, InStack, InLog
<1>5. Returns'
  BY <1>1, <1>2, OthersReturn DEF InStack, InLog
<1> QED
  BY <1>2, <1>3, <1>4, <1>5, Keeps DEF LockInv

\* A mutex is taken.
LEMMA Locks ==
  ASSUME LockInv, NEW t \in Thread, NEW m \in Mutex, NEW from, NEW to,
         Lock(t, m, from, to),
         \/ from = "stack" /\ to = "set" /\ m = "stack"
         \/ from = "heap" /\ to = "log" /\ m = "heap"
         \/ from = "log" /\ to \in {"pretrace", "unlock log"} /\ m = "log"
  PROVE  LockInv'
<1>1. /\ Go(t, from, to) /\ mutex[m] = NULL /\ call' = call
      /\ mutex' = [mutex EXCEPT ![m] = t] /\ to \in PC
  BY DEF Lock, PC
<1>2. pc[t] = from /\ pc'[t] = to /\ pc' \in [Thread -> PC] /\ OthersStay(t)
  BY <1>1, GoStays DEF LockInv, Fields
<1>3. Fields'
  BY <1>1, <1>2 DEF LockInv, Fields
<1>4. Expected(t)' = Expected(t) \cup {m}
  <2>1. CASE from = "stack"
    BY <1>1, <1>2, <2>1 DEF Expected, Needs, Mutex, InStack, InLog
  <2>2. CASE from = "heap"
    <3>1. call[t].op = "heap"
      BY <1>2, <2>2 DEF LockInv, Returns
    <3> QED
      BY <1>1, <1>2, <2>2, <3>1 DEF Expected, Needs, Mutex, InStack, InLog
  <2>3. CASE from = "log"
    BY <1>1, <1>2, <2>3 DEF Expected, Needs, Mutex, InStack, InLog
  <2> QED
    BY <2>1, <2>2, <2>3
<1>5. Returns'
  BY <1>1, <1>2, OthersReturn DEF LockInv, Returns, InStack, InLog
<1> QED
  BY <1>1, <1>2, <1>3, <1>4, <1>5, Takes DEF LockInv

\* A mutex is given back, and the call is over or goes on.
LEMMA Unlocks ==
  ASSUME LockInv, NEW t \in Thread, NEW m \in Mutex, NEW from, NEW to,
         Unlock(t, m, from, to),
         \/ from = "unlock stack" /\ to = "idle" /\ m = "stack"
         \/ from = "unlock heap" /\ to = "idle" /\ m = "heap"
         \/ from = "unlock log" /\ to = call[t].then /\ m = "log"
  PROVE  LockInv'
<1>1. Go(t, from, to) /\ mutex' = [mutex EXCEPT ![m] = NULL]
  BY DEF Unlock
<1>2. /\ DOMAIN call' = Thread /\ (to # "idle" => call' = call)
      /\ \A u \in Thread \ {t} : call'[u] = call[u]
      /\ {"op", "then", "kind", "depth", "slot", "name"} \subseteq DOMAIN call'[t]
  <2>1. CASE to = "idle"
    <3>1. call' = [call EXCEPT ![t] = NoCall]
      BY <2>1 DEF Unlock, Return
    <3> QED
      BY <2>1, <3>1 DEF LockInv, Fields, NoCall
  <2>2. CASE to # "idle"
    BY <2>2 DEF Unlock, Return, LockInv, Fields
  <2> QED
    BY <2>1, <2>2
<1>3. pc[t] = from
  BY <1>1 DEF Go
<1>4. \/ to = "idle"
      \/ from = "unlock log" /\ to = "unlock heap" /\ call[t].op = "heap" /\ call[t].then = to
      \/ from = "unlock log" /\ to \in InStack /\ call[t].op \in {"entry", "exit"}
  <2>1. CASE from = "unlock log"
    <3>1. \/ call[t].op \in {"entry", "exit"} /\ call[t].then \in InStack
          \/ call[t].op = "heap" /\ call[t].then = "unlock heap"
          \/ call[t].op = "log" /\ call[t].then = "idle" /\ call[t].kind = "message"
      BY <1>3, <2>1 DEF LockInv, Returns, InLog
    <3> QED
      BY <2>1, <3>1
  <2> QED
    BY <2>1
<1>5. pc'[t] = to /\ pc' \in [Thread -> PC] /\ OthersStay(t)
  <2>1. to \in PC
    BY <1>4 DEF PC, InStack
  <2> QED
    BY <1>1, <1>2, <2>1, GoStays DEF LockInv
<1>6. Fields'
  <2>1. mutex' \in [Mutex -> Thread \cup {NULL}]
    BY <1>1 DEF LockInv, Fields
  <2> QED
    BY <1>2, <1>5, <2>1 DEF LockInv, Fields, OthersStay
<1>7. m \in Expected(t) /\ Expected(t)' = Expected(t) \ {m}
  <2>1. CASE from \in {"unlock stack", "unlock heap"}
    BY <1>3, <1>5, <2>1 DEF Expected, Needs, Mutex, InStack, InLog
  <2>2. CASE from = "unlock log" /\ to = "idle"
    <3>1. call[t].op = "log"
      BY <1>3, <2>2 DEF LockInv, Returns, InLog, InStack
    <3> QED
      BY <1>3, <1>5, <2>2, <3>1 DEF Expected, Needs, Mutex, InStack, InLog
  <2>3. CASE from = "unlock log" /\ to # "idle"
    BY <1>2, <1>3, <1>4, <1>5, <2>3 DEF Expected, Needs, Mutex, InStack, InLog
  <2> QED
    BY <2>1, <2>2, <2>3
<1>8. Returns'
  BY <1>2, <1>4, <1>5, OthersReturn DEF InStack, InLog
<1> QED
  BY <1>1, <1>5, <1>6, <1>7, <1>8, GivesBack DEF LockInv

\* A step inside of Log.c.
LEMMA Logs ==
  ASSUME LockInv, NEW t \in Thread, NEW from \in InLog, NEW to \in InLog, Go(t, from, to),
         NEW slot, call' = [call EXCEPT ![t].slot = slot] \/ call' = call,
         UNCHANGED mutex
  PROVE  LockInv'
<1>1. /\ DOMAIN call' = Thread
      /\ \A u \in Thread \ {t} : call'[u] = call[u]
      /\ {"op", "then", "kind", "depth", "slot", "name"} \subseteq DOMAIN call'[t]
      /\ call'[t].op = call[t].op /\ call'[t].then = call[t].then
      /\ call'[t].kind = call[t].kind
  BY DEF LockInv, Fields
<1>2. pc[t] = from /\ pc'[t] = to /\ pc' \in [Thread -> PC] /\ OthersStay(t)
  <2>1. to \in PC
    BY DEF PC, InLog
  <2> QED
    BY <1>1, <2>1, GoStays DEF LockInv
<1>3. Fields'
  BY <1>1, <1>2 DEF LockInv, Fields
<1>4. Expected(t)' = Expected(t)
  BY <1>1, <1>2 DEF Expected, Needs, Mutex, InStack, InLog
<1>5. Returns'
  <2>1. \/ call[t].op \in {"entry", "exit"} /\ call[t].then \in InStack
        \/ call[t].op = "heap" /\ call[t].then = "unlock heap"
        \/ call[t].op = "log" /\ call[t].then = "idle" /\ call[t].kind = "message"
    BY <1>2 DEF LockInv, Returns
  <2> QED
    BY <1>1, <1>2, <2>1, OthersReturn DEF InStack, InLog
<1> QED
  BY <1>2, <1>3, <1>4, <1>5, Keeps DEF LockInv

-----------------------------------------------------------------------------
(***************************************************************************)
(* The invariant.                                                          *)
(***************************************************************************)

LEMMA InitLockInv == Init => LockInv
<1> SUFFICES ASSUME Init PROVE LockInv
  OBVIOUS
<1>1. Fields
  BY DEF Init, Fields, PC, NoCall
<1>2. \A t \in Thread : pc[t] = "idle"
  BY DEF Init
<1>3. Returns
  BY <1>2 DEF Returns, InStack, InLog
<1>4. HoldsExpected
  BY <1>2, TraceAssumption DEF HoldsExpected, Expected, Init, InStack, InLog
<1> QED
  BY <1>1, <1>3, <1>4 DEF LockInv

\* Log_stackTrace that finds no ring comes from StackTrace.c.
LEMMA SkipTraceKeeps ==
  ASSUME LockInv, NEW t \in Thread, SkipTrace(t)
  PROVE  LockInv'
<1>1. Go(t, "log", call[t].then) /\ mutex' = mutex /\ call' = call
  BY DEF SkipTrace
<1>2. call[t].kind \in {"entry", "exit"} /\ pc[t] = "log"
  BY <1>1 DEF SkipTrace, Unrecorded, Go
<1>3. \/ call[t].op \in {"entry", "exit"} /\ call[t].then \in InStack
      \/ call[t].op = "heap" /\ call[t].then = "unlock heap"
  BY <1>2 DEF LockInv, Returns
<1>4. /\ pc'[t] = call[t].then /\ pc' \in [Thread -> PC] /\ OthersStay(t)
  <2>1. call[t].then \in PC
    BY <1>3 DEF PC, InStack
  <2> QED
    BY <1>1, <2>1, GoStays DEF LockInv, Fields
<1>5. Fields'
  BY <1>1, <1>4 DEF LockInv, Fields
<1>6. Expected(t)' = Expected(t)
  BY <1>1, <1>2, <1>3, <1>4 DEF Expected, Needs, Mutex, InStack, InLog
<1>7. Returns'
  BY <1>1, <1>3, <1>4, OthersReturn DEF InStack, InLog
<1> QED
  BY <1>1, <1>4, <1>5, <1>6, <1>7, Keeps DEF LockInv

LEMMA StepKeeps ==
  ASSUME LockInv, NEW t \in Thread, Step(t)
  PROVE  LockInv'
<1>1. CASE LockStack(t)
  BY <1>1, Locks DEF LockStack, Mutex
<1>2. CASE LockHeap(t)
  BY <1>2, Locks DEF LockHeap, Mutex
<1>3. CASE LockLog(t)
  <2>1. CASE trace_queue = NULL
    BY <1>3, <2>1, Locks DEF LockLog, Mutex
  <2>2. CASE trace_queue # NULL
    BY <1>3, <2>2, Locks DEF LockLog, Mutex
  <2> QED
    BY <2>1, <2>2
<1>4. CASE SkipTrace(t)
  BY <1>4, SkipTraceKeeps
<1>5. CASE UnlockStack(t)
  BY <1>5, Unlocks DEF UnlockStack, Mutex
<1>6. CASE UnlockHeap(t)
  BY <1>6, Unlocks DEF UnlockHeap, Mutex
<1>7. CASE UnlockLog(t)
  BY <1>7, Unlocks DEF UnlockLog, Mutex
<1>8. CASE StackTrace_entry(t)
  <2>1. CASE my_thread' = 0
    <3>1. Go(t, "set", "unlock stack") /\ UNCHANGED <<mutex, call>>
      BY <1>8, <2>1 DEF StackTrace_entry
    <3> QED
      BY <3>1, InPlace DEF InStack, PC
  <2>2. CASE my_thread' # 0
    <3>1. /\ Go(t, "set", "log") /\ mutex' = mutex
          /\ LogNext(t, "entry", threads'[my_thread'].current_depth, "push")
      BY <1>8, <2>2 DEF StackTrace_entry
    <3> QED
      BY <3>1, ToLog DEF InStack
  <2> QED
    BY <2>1, <2>2
<1>9. CASE Push(t)
  <2> DEFINE depth == threads[my_thread].current_depth + 1
  <2>1. CASE depth >= MAX_STACK_DEPTH
    <3>1. /\ Go(t, "push", "log") /\ mutex' = mutex
          /\ LogNext(t, "too deep", depth, "unlock stack")
      BY <1>9, <2>1 DEF Push
    <3> QED
      BY <3>1, ToLog DEF InStack
  <2>2. CASE ~ (depth >= MAX_STACK_DEPTH)
    <3>1. Go(t, "push", "unlock stack") /\ UNCHANGED <<mutex, call>>
      BY <1>9, <2>2 DEF Push
    <3> QED
      BY <3>1, InPlace DEF InStack, PC
  <2> QED
    BY <2>1, <2>2
<1>10. CASE StackTrace_exit(t)
  <2>1. /\ Go(t, "set", "unlock stack") \/ Go(t, "set", "pop")
        /\ UNCHANGED <<mutex, call>>
    BY <1>10 DEF StackTrace_exit
  <2> QED
    BY <2>1, InPlace DEF InStack, PC
<1>11. CASE Pop(t)
  <2>1. UNCHANGED mutex
    BY <1>11 DEF Pop
  <2>2. \/ Go(t, "pop", "trace exit") /\ UNCHANGED call
        \/ /\ Go(t, "pop", "log")
           /\ LogNext(t, "mismatch", threads[my_thread].current_depth - 1, "trace exit")
    BY <1>11 DEF Pop
  <2>3. CASE Go(t, "pop", "trace exit") /\ UNCHANGED call
    BY <2>1, <2>3, InPlace DEF InStack, PC
  <2>4. CASE Go(t, "pop", "log")
    BY <2>1, <2>2, <2>4, ToLog DEF InStack, Go, LockInv, Fields
  <2> QED
    BY <2>2, <2>3, <2>4
<1>12. CASE TraceExit(t)
  <2>1. /\ Go(t, "trace exit", "log") /\ mutex' = mutex
        /\ LogNext(t, "exit", threads[my_thread].current_depth, "unlock stack")
    BY <1>12 DEF TraceExit
  <2> QED
    BY <2>1, ToLog DEF InStack
<1>13. CASE Log_pretrace(t)
  BY <1>13, Logs DEF Log_pretrace, InLog
<1>14. CASE Fill(t)
  BY <1>14, Logs DEF Fill, InLog
<1> QED
  BY <1>1, <1>2, <1>3, <1>4, <1>5, <1>6, <1>7, <1>8, <1>9, <1>10, <1>11,
     <1>12, <1>13, <1>14 DEF Step

LEMMA NextKeeps == LockInv /\ [Next]_vars => LockInv'
<1> SUFFICES ASSUME LockInv, [Next]_vars PROVE LockInv'
  OBVIOUS
<1>1. ASSUME NEW t \in Thread, Step(t) PROVE LockInv'
  BY <1>1, StepKeeps
<1>2. ASSUME NEW t \in Thread, NEW op \in {"entry", "exit"}, NEW f, Go(t, "idle", "stack"),
             call' = [call EXCEPT ![t] = [NoCall EXCEPT !.op = op, !.name = f]],
             UNCHANGED mutex
      PROVE  LockInv'
  <2> DEFINE c == [NoCall EXCEPT !.op = op, !.name = f]
  <2>1. /\ {"op", "then", "kind", "depth", "slot", "name"} \subseteq DOMAIN c
        /\ c.op = op
    BY DEF NoCall
  <2> HIDE DEF c
  <2> QED
    BY <1>2, <2>1, Begins DEF c
<1>3. ASSUME NEW t \in Thread, CallLog(t) PROVE LockInv'
  <2>1. PICK op \in {"log", "heap"} :
          /\ Go(t, "idle", op)
          /\ call' = [call EXCEPT ![t] = [NoCall EXCEPT !.op = op,
                        !.then = IF op = "heap" THEN "unlock heap" ELSE "idle"]]
          /\ UNCHANGED mutex
    BY <1>3 DEF CallLog
  <2> DEFINE c == [NoCall EXCEPT !.op = op,
                     !.then = IF op = "heap" THEN "unlock heap" ELSE "idle"]
  <2>2. /\ {"op", "then", "kind", "depth", "slot", "name"} \subseteq DOMAIN c
        /\ c.op = op /\ c.kind = "message"
        /\ c.then = IF op = "heap" THEN "unlock heap" ELSE "idle"
    BY DEF NoCall
  <2> HIDE DEF c
  <2> QED
    BY <2>1, <2>2, Begins DEF c
<1>4. ASSUME NEW t \in Thread, FUNC_EXIT(t) \/ \E f \in Name : FUNC_ENTRY(t, f)
      PROVE  LockInv'
  BY <1>2, <1>4 DEF FUNC_ENTRY, FUNC_EXIT
<1>5. ASSUME UNCHANGED <<mutex, pc, call>> PROVE LockInv'
  <2>1. \A t \in Thread : Expected(t)' = Expected(t)
    BY <1>5 DEF Expected
  <2> QED
    <3>1. Fields'
      BY <1>5 DEF LockInv, Fields
    <3>2. Returns'
      BY <1>5 DEF LockInv, Returns
    <3>3. HoldsExpected'
      BY <1>5, <2>1 DEF LockInv, HoldsExpected
    <3> QED
      BY <3>1, <3>2, <3>3 DEF LockInv
<1>6. CASE Log_initialize \/ Log_terminate \/ UNCHANGED vars
  BY <1>5, <1>6 DEF Log_initialize, Log_terminate, vars
<1> QED
  BY <1>1, <1>3, <1>4, <1>6 DEF Next

\* LockInv is an invariant of the trace.
THEOREM TraceLockInvariant == Spec => []LockInv
<1>1. Init => LockInv
  BY InitLockInv
<1>2. LockInv /\ [Next]_vars => LockInv'
  BY NextKeeps
<1> QED
  BY <1>1, <1>2, PTL DEF Spec

\* The calls of StackTrace.c, Heap.c and the program take the mutexes in one
\* order and hold none between calls, whatever the number of threads.
THEOREM TraceLockOrder == Spec => []LockOrder
<1>1. ASSUME LockInv, NEW t \in Thread
      PROVE  Holds(t) = Expected(t)
  BY <1>1 DEF LockInv, HoldsExpected, Holds, Expected
<1>2. ASSUME LockInv, NEW t \in Thread
      PROVE  /\ pc[t] \in {"idle", "stack", "heap"} => Holds(t) = {}
             /\ pc[t] = "log" => Holds(t) = Needs(call[t].op)
  BY <1>1, <1>2 DEF Expected, Needs, InStack, InLog
<1>3. LockInv => LockOrder
  BY <1>2 DEF LockOrder
<1> QED
  BY <1>3, TraceLockInvariant, PTL

-----------------------------------------------------------------------------
(***************************************************************************)
(* The stacks.  The table follows what the program does with a delay: a    *)
(* function that has been entered is not on the stack of its thread until  *)
(* Push, and one that has been left is there until Pop.  Shown is what the *)
(* stack of a thread is at each step between.                              *)
(***************************************************************************)

\* From FUNC_ENTRY until the name is on the stack, and from FUNC_EXIT until
\* it is off.
Logging(t) == pc[t] \in InLog \cup {"log"}
Pending(t) ==
  /\ call[t].op \in {"entry", "exit"}
  /\ \/ pc[t] \in {"stack", "set", "push", "pop"}
     \/ Logging(t) /\ call[t].then = "push"

\* The functions that are on the stack of a thread, if it has one.
Shown(t) ==
  IF ~ Pending(t) THEN inside[t]
  ELSE IF call[t].op = "entry" THEN Front(inside[t]) ELSE Append(inside[t], call[t].name)

\* A thread between setStack and the unlock.
Holding(t) == pc[t] \in InStack \/ (Logging(t) /\ call[t].op \in {"entry", "exit"})

TableTypes ==
  /\ threads \in Seq([id : Thread, callstack : Seq(Name), current_depth : Nat])
  /\ my_thread \in 0 .. Len(threads)
  /\ inside \in [Thread -> Seq(Name)]

\* Each thread has one entry at most, with the names on its stack; one that
\* has none has none of its functions in the table or came when it was full.
Table ==
  /\ \A i, j \in DOMAIN threads : threads[i].id = threads[j].id => i = j
  /\ \A i \in DOMAIN threads :
       /\ threads[i].current_depth <= Len(threads[i].callstack)
       /\ SubSeq(threads[i].callstack, 1, threads[i].current_depth) = Shown(threads[i].id)
  /\ \A t \in Thread : Registered(t) \/ Shown(t) = <<>> \/ Len(threads) >= MAX_THREADS

\* What a call of StackTrace.c knows.
Local(t) ==
  /\ pc[t] = "push" => call[t].op = "entry"
  /\ pc[t] \in {"pop", "trace exit"} => call[t].op = "exit"
  /\ Logging(t) /\ call[t].op \in {"entry", "exit"} =>
       \/ call[t].op = "entry" /\ call[t].then = "push"
       \/ call[t].then = "unlock stack"
  /\ Pending(t) /\ call[t].op = "entry" => inside[t] # <<>> /\ call[t].name = Last(inside[t])
  /\ Pending(t) => call[t].name \in Name
  /\ Holding(t) /\ pc[t] \notin {"set", "unlock stack"} => my_thread # 0
  /\ Holding(t) /\ pc[t] # "set" /\ my_thread # 0 => threads[my_thread].id = t
  /\ call[t].kind # "mismatch"

StackInv == TableTypes /\ Table /\ \A t \in Thread : Local(t)

LEMMA HoldingIs ==
  ASSUME LockInv, NEW t \in Thread
  PROVE  Holding(t) <=> mutex["stack"] = t
<1>1. mutex["stack"] = t <=> "stack" \in Expected(t)
  BY DEF LockInv, HoldsExpected, Mutex
<1> QED
  BY <1>1 DEF Expected, Holding, Logging, Needs, Mutex, InStack, InLog

LEMMA OneHolding ==
  ASSUME LockInv, NEW t \in Thread, NEW u \in Thread, Holding(t), Holding(u)
  PROVE  t = u
  BY HoldingIs

\* What the others see of a step of t.
LEMMA OthersShow ==
  ASSUME NEW t \in Thread, OthersStay(t), NEW u \in Thread \ {t}, inside'[u] = inside[u]
  PROVE  /\ Shown(u)' = Shown(u) /\ Pending(u)' = Pending(u)
         /\ Holding(u)' = Holding(u) /\ Logging(u)' = Logging(u)
  BY DEF OthersStay, Shown, Pending, Holding, Logging

LEMMA OthersLocal ==
  ASSUME StackInv, LockInv, NEW t \in Thread, OthersStay(t), NEW u \in Thread \ {t},
         inside'[u] = inside[u], Holding(t) \/ UNCHANGED stack
  PROVE  Local(u)'
<1>1. Local(u)
  BY DEF StackInv
<1>2. CASE Holding(t)
  <2>1. ~ Holding(u)
    BY <1>2, OneHolding
  <2> QED
    BY <1>1, <2>1, OthersShow DEF Local, OthersStay
<1>3. CASE UNCHANGED stack
  BY <1>1, <1>3, OthersShow DEF Local, OthersStay, stack
<1> QED
  BY <1>2, <1>3

LEMMA EntryIs ==
  ASSUME StackInv, NEW i \in DOMAIN threads
  PROVE  /\ threads[i] = [id |-> threads[i].id, callstack |-> threads[i].callstack,
                         current_depth |-> threads[i].current_depth]
         /\ threads[i].id \in Thread /\ threads[i].callstack \in Seq(Name)
         /\ threads[i].current_depth \in Nat
<1> DEFINE E == [id : Thread, callstack : Seq(Name), current_depth : Nat]
<1>1. threads \in Seq(E)
  BY DEF StackInv, TableTypes
<1>2. threads[i] \in E
  <2> HIDE DEF E
  <2> QED
    BY <1>1, ElementOfSeq
<1> QED
  BY <1>2

\* A step that leaves the table alone and what t shows.
LEMMA Steady ==
  ASSUME StackInv, LockInv, NEW t \in Thread, OthersStay(t), UNCHANGED stack,
         inside' \in [Thread -> Seq(Name)], \A u \in Thread \ {t} : inside'[u] = inside[u],
         Shown(t)' = Shown(t), Local(t)'
  PROVE  StackInv'
<1>1. TableTypes'
  BY DEF StackInv, TableTypes, stack
<1>2. \A u \in Thread : Shown(u)' = Shown(u)
  BY OthersShow
<1>3. \A i \in DOMAIN threads : threads[i].id \in Thread
  BY EntryIs
<1>4. Table'
  BY <1>2, <1>3 DEF StackInv, Table, Registered, stack
<1>5. \A u \in Thread : Local(u)'
  BY OthersLocal
<1> QED
  BY <1>1, <1>4, <1>5 DEF StackInv

\* What Append, Front and Last do to the functions a thread is in.
LEMMA FrontAppend ==
  ASSUME NEW S, NEW s \in Seq(S), NEW e \in S
  PROVE  /\ Append(s, e) \in Seq(S) /\ Append(s, e) # <<>>
         /\ Front(Append(s, e)) = s /\ Last(Append(s, e)) = e
  BY DEF Front, Last

LEMMA AppendFront ==
  ASSUME NEW S, NEW s \in Seq(S), s # <<>>
  PROVE  Front(s) \in Seq(S) /\ Last(s) \in S /\ Append(Front(s), Last(s)) = s
  BY DEF Front, Last

LEMMA EntryKeeps ==
  ASSUME StackInv, LockInv, NEW t \in Thread, NEW f \in Name, FUNC_ENTRY(t, f)
  PROVE  StackInv'
<1>1. /\ pc[t] = "idle" /\ pc'[t] = "stack" /\ call'[t].op = "entry" /\ call'[t].name = f
      /\ call'[t].kind = "message" /\ inside'[t] = Append(inside[t], f) /\ inside[t] \in Seq(Name)
  BY DEF FUNC_ENTRY, Go, LockInv, Fields, NoCall, StackInv, TableTypes
<1>2. /\ OthersStay(t) /\ inside' \in [Thread -> Seq(Name)]
      /\ \A u \in Thread \ {t} : inside'[u] = inside[u]
      /\ UNCHANGED stack
  BY DEF FUNC_ENTRY, Go, OthersStay, LockInv, Fields, StackInv, TableTypes
<1>3. Front(inside'[t]) = inside[t] /\ Last(inside'[t]) = f /\ inside'[t] # <<>>
  BY <1>1, FrontAppend
<1>4. Shown(t)' = Shown(t)
  BY <1>1, <1>3 DEF Shown, Pending, Logging, InLog
<1>5. Local(t)'
  BY <1>1, <1>3 DEF Local, Pending, Holding, Logging, InLog, InStack
<1> QED
  BY <1>2, <1>4, <1>5, Steady

LEMMA ExitKeeps ==
  ASSUME StackInv, LockInv, NEW t \in Thread, FUNC_EXIT(t)
  PROVE  StackInv'
<1>1. /\ pc[t] = "idle" /\ pc'[t] = "stack" /\ call'[t].op = "exit" /\ call'[t].name = Last(inside[t])
      /\ call'[t].kind = "message" /\ inside'[t] = Front(inside[t]) /\ inside[t] \in Seq(Name)
      /\ inside[t] # <<>>
  BY DEF FUNC_EXIT, Go, LockInv, Fields, NoCall, StackInv, TableTypes
<1>2. /\ Front(inside[t]) \in Seq(Name) /\ Last(inside[t]) \in Name
      /\ Append(Front(inside[t]), Last(inside[t])) = inside[t]
  BY <1>1, AppendFront
<1>3. /\ OthersStay(t) /\ inside' \in [Thread -> Seq(Name)]
      /\ \A u \in Thread \ {t} : inside'[u] = inside[u]
      /\ UNCHANGED stack
  BY <1>2 DEF FUNC_EXIT, Go, OthersStay, LockInv, Fields, StackInv, TableTypes
<1>4. Shown(t)' = Shown(t)
  BY <1>1, <1>2 DEF Shown, Pending, Logging, InLog
<1>5. Local(t)'
  BY <1>1, <1>2 DEF Local, Pending, Holding, Logging, InLog, InStack
<1> QED
  BY <1>3, <1>4, <1>5, Steady

LEMMA CallLogKeeps ==
  ASSUME StackInv, LockInv, NEW t \in Thread, CallLog(t)
  PROVE  StackInv'
<1>1. /\ pc[t] = "idle" /\ pc'[t] \in {"log", "heap"} /\ call'[t].op \in {"log", "heap"}
      /\ call'[t].kind = "message"
  BY DEF CallLog, Go, LockInv, Fields, NoCall
<1>2. OthersStay(t) /\ UNCHANGED <<stack, inside>>
  BY DEF CallLog, Go, OthersStay, LockInv, Fields
<1>3. Shown(t)' = Shown(t)
  BY <1>1, <1>2 DEF Shown, Pending, Logging, InLog
<1>4. Local(t)'
  BY <1>1 DEF Local, Pending, Holding, Logging, InLog, InStack
<1> QED
  BY <1>2, <1>3, <1>4, Steady DEF StackInv, TableTypes

\* A step between stack_mutex and log_mutex, or in Log.c.
LEMMA Carries ==
  ASSUME StackInv, LockInv, NEW t \in Thread, OthersStay(t), UNCHANGED <<stack, inside>>,
         call'[t].op = call[t].op, call'[t].then = call[t].then,
         call'[t].kind = call[t].kind, call'[t].name = call[t].name,
         \/ pc[t] = "stack" /\ pc'[t] = "set"
         \/ pc[t] = "heap" /\ pc'[t] = "log"
         \/ Logging(t) /\ pc'[t] \in InLog
         \/ Logging(t) /\ pc'[t] = call[t].then /\ call[t].op \in {"entry", "exit"}
  PROVE  StackInv'
<1>1. /\ Local(t)
      /\ pc[t] = "stack" => call[t].op \in {"entry", "exit"}
      /\ pc[t] = "heap" => call[t].op = "heap"
  BY DEF StackInv, LockInv, Returns
<1>2. Pending(t)' = Pending(t)
  BY <1>1 DEF Pending, Logging, InLog, Local
<1>3. Shown(t)' = Shown(t)
  BY <1>2 DEF Shown
<1>4. Local(t)'
  BY <1>1, <1>2 DEF Local, Holding, Logging, InLog, InStack, stack
<1> QED
  BY <1>3, <1>4, Steady DEF StackInv, TableTypes

\* A step at which no name of t is under way, or the call is over.
LEMMA Settled ==
  ASSUME StackInv, LockInv, NEW t \in Thread, OthersStay(t), UNCHANGED <<stack, inside>>,
         ~ Pending(t), pc'[t] \in {"idle", "unlock heap"}, call'[t].kind # "mismatch"
  PROVE  StackInv'
<1>1. ~ Pending(t)'
  BY DEF Pending, Logging, InLog
<1>2. Shown(t)' = Shown(t)
  BY <1>1 DEF Shown
<1>3. Local(t)'
  BY <1>1 DEF Local, Holding, Logging, InLog, InStack
<1> QED
  BY <1>2, <1>3, Steady DEF StackInv, TableTypes

\* What LockInv says of a thread that is about to log or to return.
LEMMA AtLog ==
  ASSUME LockInv, NEW t \in Thread, Logging(t)
  PROVE  \/ call[t].op \in {"entry", "exit"}
         \/ call[t].op = "heap" /\ call[t].then = "unlock heap"
         \/ call[t].op = "log" /\ call[t].then = "idle" /\ call[t].kind = "message"
  BY DEF LockInv, Returns, Logging

LEMMA LockKeeps ==
  ASSUME StackInv, LockInv, NEW t \in Thread, LockStack(t) \/ LockHeap(t) \/ LockLog(t)
  PROVE  StackInv'
<1>1. UNCHANGED <<stack, call, inside>> /\ OthersStay(t)
  BY DEF LockStack, LockHeap, LockLog, Lock, Go, OthersStay, LockInv, Fields
<1>2. \/ pc[t] = "stack" /\ pc'[t] = "set"
      \/ pc[t] = "heap" /\ pc'[t] = "log"
      \/ Logging(t) /\ pc'[t] \in InLog
  BY DEF LockStack, LockHeap, LockLog, Lock, Go, LockInv, Fields, Logging, InLog
<1> QED
  BY <1>1, <1>2, Carries

LEMMA SkipKeeps ==
  ASSUME StackInv, LockInv, NEW t \in Thread, SkipTrace(t)
  PROVE  StackInv'
<1>1. UNCHANGED <<stack, call, inside>> /\ OthersStay(t)
  BY DEF SkipTrace, Go, OthersStay, LockInv, Fields
<1>2. Logging(t) /\ pc'[t] = call[t].then /\ call[t].kind \in {"entry", "exit"}
  BY DEF SkipTrace, Unrecorded, Go, LockInv, Fields, Logging
<1>3. CASE call[t].op \in {"entry", "exit"}
  BY <1>1, <1>2, <1>3, Carries
<1>4. CASE call[t].op \notin {"entry", "exit"}
  BY <1>1, <1>2, <1>4, AtLog, Settled DEF Pending
<1> QED
  BY <1>3, <1>4

LEMMA UnlockKeeps ==
  ASSUME StackInv, LockInv, NEW t \in Thread, UnlockStack(t) \/ UnlockHeap(t) \/ UnlockLog(t)
  PROVE  StackInv'
<1>1. PICK m, from, to : Unlock(t, m, from, to)
  BY DEF UnlockStack, UnlockHeap, UnlockLog
<1>4. /\ UNCHANGED <<stack, inside>> /\ pc' = [pc EXCEPT ![t] = to]
      /\ call' = IF to = "idle" THEN [call EXCEPT ![t] = NoCall] ELSE call
  BY <1>1 DEF Unlock, Go, Return
<1>5. /\ OthersStay(t)
      /\ pc'[t] = "idle" => call'[t].kind = "message"
      /\ pc'[t] # "idle" => call' = call
  BY <1>4 DEF OthersStay, LockInv, Fields, NoCall
<1>2. CASE UnlockStack(t) \/ UnlockHeap(t)
  <2>1. pc[t] \in {"unlock stack", "unlock heap"} /\ pc'[t] = "idle"
    BY <1>2 DEF UnlockStack, UnlockHeap, Unlock, Go, LockInv, Fields
  <2> QED
    BY <1>4, <1>5, <2>1, Settled DEF Pending, Logging, InLog
<1>3. CASE UnlockLog(t)
  <2>1. Logging(t) /\ pc'[t] = call[t].then
    BY <1>3 DEF UnlockLog, Unlock, Go, LockInv, Fields, Logging, InLog
  <2>2. CASE call[t].op \in {"entry", "exit"}
    <3>1. pc'[t] # "idle"
      BY <2>1, <2>2 DEF StackInv, Local
    <3> QED
      BY <1>4, <1>5, <2>1, <2>2, <3>1, Carries
  <2>3. CASE call[t].op \notin {"entry", "exit"}
    <3>1. ~ Pending(t) /\ pc'[t] \in {"idle", "unlock heap"} /\ call[t].kind # "mismatch"
      BY <2>1, <2>3, AtLog DEF Pending, StackInv, Local
    <3> QED
      BY <1>4, <1>5, <3>1, Settled
  <2> QED
    BY <2>2, <2>3
<1> QED
  BY <1>2, <1>3

LEMMA LogKeeps ==
  ASSUME StackInv, LockInv, NEW t \in Thread, Log_pretrace(t) \/ Fill(t)
  PROVE  StackInv'
<1>1. UNCHANGED <<stack, inside>> /\ OthersStay(t)
  BY DEF Log_pretrace, Fill, Go, OthersStay, LockInv, Fields
<1>2. Logging(t) /\ pc'[t] \in InLog
  BY DEF Log_pretrace, Fill, Go, LockInv, Fields, Logging, InLog
<1>3. /\ call'[t].op = call[t].op /\ call'[t].then = call[t].then
      /\ call'[t].kind = call[t].kind /\ call'[t].name = call[t].name
  BY DEF Log_pretrace, Fill, LockInv, Fields
<1> QED
  BY <1>1, <1>2, <1>3, Carries

LEMMA TraceExitKeeps ==
  ASSUME StackInv, LockInv, NEW t \in Thread, TraceExit(t)
  PROVE  StackInv'
<1>1. /\ pc[t] = "trace exit" /\ pc'[t] = "log" /\ call'[t].then = "unlock stack"
      /\ call'[t].kind = "exit" /\ call'[t].op = call[t].op
      /\ UNCHANGED <<stack, inside>> /\ OthersStay(t)
  BY DEF TraceExit, LogNext, Go, OthersStay, LockInv, Fields
<1>2. ~ Pending(t) /\ ~ Pending(t)'
  BY <1>1 DEF Pending, Logging, InLog
<1>3. Shown(t)' = Shown(t)
  BY <1>1, <1>2 DEF Shown
<1>4. Local(t)'
  BY <1>1, <1>2 DEF Local, Holding, Logging, InLog, InStack, StackInv, stack
<1> QED
  BY <1>1, <1>3, <1>4, Steady DEF StackInv, TableTypes

\* A step at which t writes its entry.
LEMMA Rewrites ==
  ASSUME StackInv, LockInv, NEW t \in Thread, OthersStay(t), UNCHANGED <<my_thread, inside>>,
         my_thread # 0, threads[my_thread].id = t, Holding(t),
         NEW cs \in Seq(Name), NEW d \in Nat, d <= Len(cs), SubSeq(cs, 1, d) = Shown(t)',
         threads' = [threads EXCEPT ![my_thread] = [id |-> t, callstack |-> cs, current_depth |-> d]],
         Local(t)'
  PROVE  StackInv'
<1> DEFINE E == [id : Thread, callstack : Seq(Name), current_depth : Nat]
           e == [id |-> t, callstack |-> cs, current_depth |-> d]
<1>1. threads \in Seq(E) /\ my_thread \in DOMAIN threads /\ e \in E
  BY DEF StackInv, TableTypes
<1>2. /\ threads' \in Seq(E) /\ Len(threads') = Len(threads) /\ DOMAIN threads' = DOMAIN threads
      /\ threads'[my_thread] = e
      /\ \A i \in DOMAIN threads : i # my_thread => threads'[i] = threads[i]
  <2> HIDE DEF E, e
  <2>1. threads' = [threads EXCEPT ![my_thread] = e]
    BY DEF e
  <2> QED
    BY <1>1, <2>1, ExceptSeq
<1>3. TableTypes'
  BY <1>2 DEF StackInv, TableTypes
<1>4. \A i \in DOMAIN threads : threads'[i].id = threads[i].id
  BY <1>2
<1>5. \A i, j \in DOMAIN threads' : threads'[i].id = threads'[j].id => i = j
  BY <1>2, <1>4, SMTT(20) DEF StackInv, Table
<1>6. \A u \in Thread \ {t} : Shown(u)' = Shown(u)
  BY OthersShow
<1>7. ASSUME NEW i \in DOMAIN threads
      PROVE  (/\ threads[i].current_depth <= Len(threads[i].callstack)
              /\ SubSeq(threads[i].callstack, 1, threads[i].current_depth) = Shown(threads[i].id))'
  <2>1. CASE i = my_thread
    <3>1. threads'[i].id = t /\ threads'[i].callstack = cs /\ threads'[i].current_depth = d
      BY <1>2, <2>1
    <3> QED
      BY <3>1
  <2>2. CASE i # my_thread
    <3>1. threads'[i] = threads[i] /\ threads[i].id # t /\ threads[i].id \in Thread
      BY <1>1, <1>2, <2>2, EntryIs DEF StackInv, Table
    <3>2. /\ threads[i].current_depth <= Len(threads[i].callstack)
          /\ SubSeq(threads[i].callstack, 1, threads[i].current_depth) = Shown(threads[i].id)
      BY DEF StackInv, Table
    <3>3. \A u \in Thread \ {t} : Shown(u)' = Shown(u)
      BY <1>6
    <3> QED
      BY <3>1, <3>2, <3>3
  <2> QED
    BY <2>1, <2>2
<1>8. ASSUME NEW u \in Thread
      PROVE  Registered(u)' \/ Shown(u)' = <<>> \/ Len(threads') >= MAX_THREADS
  <2>1. Registered(u)' = Registered(u) /\ Registered(t)
    BY <1>1, <1>2, <1>4 DEF Registered
  <2> QED
    BY <1>2, <1>6, <2>1 DEF StackInv, Table
<1>9. \A u \in Thread : Local(u)'
  BY OthersLocal
<1>10. Table'
  BY <1>2, <1>5, <1>7, <1>8 DEF Table
<1> QED
  BY <1>3, <1>9, <1>10 DEF StackInv

\* What setStack finds, or makes.
LEMMA SetStackIs ==
  ASSUME StackInv, NEW t \in Thread, NEW create \in BOOLEAN, setStack(t, create)
  PROVE  \/ /\ Registered(t) /\ threads' = threads
            /\ my_thread' \in DOMAIN threads /\ threads[my_thread'].id = t
         \/ /\ ~ Registered(t) /\ create /\ my_thread' = Len(threads) + 1
            /\ threads' = Append(threads, [id |-> t, callstack |-> <<>>, current_depth |-> 0])
            /\ Len(threads) < MAX_THREADS
         \/ /\ ~ Registered(t) /\ (create => ~ Len(threads) < MAX_THREADS) /\ my_thread' = 0 /\ threads' = threads
<1>1. CASE Registered(t)
  <2>1. IndexOf(t) \in DOMAIN threads /\ threads[IndexOf(t)].id = t
    BY <1>1 DEF Registered, IndexOf
  <2> QED
    BY <1>1, <2>1 DEF setStack
<1>2. CASE ~ Registered(t)
  BY <1>2 DEF setStack
<1> QED
  BY <1>1, <1>2

\* A step that finds the entry of t, or that there is none.
LEMMA Finds ==
  ASSUME StackInv, LockInv, NEW t \in Thread, OthersStay(t), Holding(t), UNCHANGED <<threads, inside>>,
         my_thread' \in 0 .. Len(threads),
         \/ Shown(t)' = Shown(t)
         \/ ~ Registered(t) /\ Len(threads) >= MAX_THREADS
         \/ ~ Registered(t) /\ Shown(t) # <<>>,
         Local(t)'
  PROVE  StackInv'
<1>1. TableTypes'
  BY DEF StackInv, TableTypes
<1>2. \A u \in Thread \ {t} : Shown(u)' = Shown(u)
  BY OthersShow
<1>3. \A i \in DOMAIN threads : threads[i].id \in Thread
  BY EntryIs
<1>4. \A i \in DOMAIN threads : threads[i].id # t \/ Shown(t)' = Shown(t)
  BY DEF Registered
<1>5. \A u \in Thread : Registered(u)' = Registered(u)
  BY DEF Registered
<1>6. ASSUME NEW i \in DOMAIN threads
      PROVE  (/\ threads[i].current_depth <= Len(threads[i].callstack)
              /\ SubSeq(threads[i].callstack, 1, threads[i].current_depth) = Shown(threads[i].id))'
  BY <1>2, <1>3, <1>4 DEF StackInv, Table
<1>7. \A u \in Thread : (Registered(u) \/ Shown(u) = <<>> \/ Len(threads) >= MAX_THREADS)'
  BY <1>2, <1>5 DEF StackInv, Table
<1>8. (\A i, j \in DOMAIN threads : threads[i].id = threads[j].id => i = j)'
  BY DEF StackInv, Table
<1>9. Table'
  BY <1>6, <1>7, <1>8 DEF Table
<1>10. \A u \in Thread : Local(u)'
  BY OthersLocal
<1> QED
  BY <1>1, <1>9, <1>10 DEF StackInv

\* A step that gives t an entry.
LEMMA Registers ==
  ASSUME StackInv, LockInv, NEW t \in Thread, OthersStay(t), Holding(t), UNCHANGED inside,
         ~ Registered(t), Shown(t) = <<>>, my_thread' = Len(threads) + 1,
         threads' = Append(threads, [id |-> t, callstack |-> <<>>, current_depth |-> 0]),
         Shown(t)' = Shown(t), Local(t)'
  PROVE  StackInv'
<1> DEFINE E == [id : Thread, callstack : Seq(Name), current_depth : Nat]
           e == [id |-> t, callstack |-> <<>>, current_depth |-> 0]
<1>1. threads \in Seq(E) /\ e \in E
  BY DEF StackInv, TableTypes
<1>2. /\ threads' \in Seq(E) /\ Len(threads') = Len(threads) + 1
      /\ DOMAIN threads' = DOMAIN threads \cup {Len(threads) + 1}
      /\ threads'[Len(threads) + 1] = e
      /\ \A i \in DOMAIN threads : threads'[i] = threads[i] /\ i # Len(threads) + 1
      /\ Len(threads) \in Nat
  <2> HIDE DEF E, e
  <2>1. threads' = Append(threads, e)
    BY DEF e
  <2> QED
    BY <1>1, <2>1
<1>3. TableTypes'
  BY <1>2 DEF StackInv, TableTypes
<1>4. \A u \in Thread : Shown(u)' = Shown(u)
  BY OthersShow
<1>5. \A i \in DOMAIN threads : threads[i].id \in Thread /\ threads[i].id # t
  BY EntryIs DEF Registered
<1>6. ASSUME NEW i \in DOMAIN threads'
      PROVE  (/\ threads[i].current_depth <= Len(threads[i].callstack)
              /\ SubSeq(threads[i].callstack, 1, threads[i].current_depth) = Shown(threads[i].id))'
  <2>1. CASE i = Len(threads) + 1
    <3>1. threads'[i].id = t /\ threads'[i].callstack = <<>> /\ threads'[i].current_depth = 0
      BY <1>2, <2>1
    <3>2. SubSeq(<<>>, 1, 0) = <<>> /\ Len(<<>>) = 0
      OBVIOUS
    <3>3. /\ threads'[i].current_depth <= Len(threads'[i].callstack)
          /\ SubSeq(threads'[i].callstack, 1, threads'[i].current_depth) = <<>>
      BY <3>1, <3>2
    <3>4. Shown(t)' = <<>>
      OBVIOUS
    <3> QED
      BY <3>1, <3>3, <3>4
  <2>2. CASE i # Len(threads) + 1
    BY <1>2, <1>4, <1>5, <2>2, SMTT(20) DEF StackInv, Table
  <2> QED
    BY <2>1, <2>2
<1>7. \A u \in Thread : (Registered(u) \/ Shown(u) = <<>> \/ Len(threads) >= MAX_THREADS)'
  <2> SUFFICES ASSUME NEW u \in Thread
               PROVE  (Registered(u) \/ Shown(u) = <<>> \/ Len(threads) >= MAX_THREADS)'
    OBVIOUS
  <2>1. Registered(u) => Registered(u)'
    BY <1>2 DEF Registered
  <2> QED
    BY <1>2, <1>4, <2>1, TraceAssumption DEF StackInv, Table
<1>8. (\A i, j \in DOMAIN threads : threads[i].id = threads[j].id => i = j)'
  BY <1>2, <1>5 DEF StackInv, Table
<1>9. Table'
  BY <1>6, <1>7, <1>8 DEF Table
<1>10. \A u \in Thread : Local(u)'
  BY OthersLocal
<1> QED
  BY <1>3, <1>9, <1>10 DEF StackInv

LEMMA StackEntryKeeps ==
  ASSUME StackInv, LockInv, NEW t \in Thread, StackTrace_entry(t)
  PROVE  StackInv'
<1>1. /\ pc[t] = "set" /\ call[t].op = "entry" /\ setStack(t, TRUE)
      /\ pc'[t] = IF my_thread' = 0 THEN "unlock stack" ELSE "log"
      /\ call'[t].op = "entry" /\ call'[t].name = call[t].name
      /\ my_thread' = 0 => call'[t].kind = call[t].kind
      /\ my_thread' # 0 => call'[t].kind = "entry" /\ call'[t].then = "push"
      /\ UNCHANGED inside /\ OthersStay(t)
  <2>1. /\ Go(t, "set", IF my_thread' = 0 THEN "unlock stack" ELSE "log")
        /\ call[t].op = "entry" /\ setStack(t, TRUE) /\ UNCHANGED inside
    BY DEF StackTrace_entry
  <2>2. PICK depth : IF my_thread' = 0 THEN UNCHANGED call ELSE LogNext(t, "entry", depth, "push")
    BY DEF StackTrace_entry
  <2>3. /\ call'[t].op = call[t].op /\ call'[t].name = call[t].name
        /\ my_thread' = 0 => call'[t].kind = call[t].kind
        /\ my_thread' # 0 => call'[t].kind = "entry" /\ call'[t].then = "push"
        /\ \A u \in Thread \ {t} : call'[u] = call[u]
    BY <2>2 DEF LogNext, LockInv, Fields
  <2> QED
    BY <2>1, <2>3 DEF Go, OthersStay, LockInv, Fields
<1>2. Pending(t) /\ Holding(t) /\ Local(t)
  BY <1>1 DEF Pending, Holding, InStack, StackInv
<1>3. my_thread' # 0 => Pending(t)' /\ Shown(t)' = Shown(t)
  BY <1>1, <1>2 DEF Pending, Shown, Logging
<1>4. CASE Registered(t)
  <2>1. threads' = threads /\ my_thread' \in DOMAIN threads /\ threads[my_thread'].id = t
    BY <1>1, <1>4, SetStackIs
  <2>2. my_thread' # 0 /\ my_thread' \in 0 .. Len(threads)
    BY <2>1 DEF StackInv, TableTypes
  <2>3. Local(t)'
    BY <1>1, <1>2, <1>3, <2>1, <2>2 DEF Local, Pending, Holding, Logging, InLog, InStack
  <2> QED
    BY <1>1, <1>2, <1>3, <2>1, <2>2, <2>3, Finds
<1>5. CASE ~ Registered(t) /\ Len(threads) < MAX_THREADS
  <2>1. /\ my_thread' = Len(threads) + 1
        /\ threads' = Append(threads, [id |-> t, callstack |-> <<>>, current_depth |-> 0])
    BY <1>1, <1>5, SetStackIs
  <2>2. threads \in Seq([id : Thread, callstack : Seq(Name), current_depth : Nat])
    BY DEF StackInv, TableTypes
  <2>3. my_thread' # 0 /\ threads'[my_thread'].id = t
    BY <2>1, <2>2
  <2>4. Shown(t) = <<>>
    BY <1>5, <2>2, TraceAssumption DEF StackInv, Table
  <2>5. Local(t)'
    BY <1>1, <1>2, <1>3, <2>3 DEF Local, Pending, Holding, Logging, InLog, InStack
  <2> QED
    BY <1>1, <1>2, <1>3, <1>5, <2>1, <2>3, <2>4, <2>5, Registers
<1>6. CASE ~ Registered(t) /\ ~ Len(threads) < MAX_THREADS
  <2>1. threads' = threads /\ my_thread' = 0
    BY <1>1, <1>6, SetStackIs
  <2>2. Len(threads) \in Nat /\ 0 \in 0 .. Len(threads)
    BY DEF StackInv, TableTypes
  <2>3. Len(threads) >= MAX_THREADS
    BY <1>6, <2>2, TraceAssumption
  <2>4. Local(t)'
    BY <1>1, <1>2, <2>1 DEF Local, Pending, Holding, Logging, InLog, InStack
  <2> QED
    BY <1>1, <1>2, <1>6, <2>1, <2>2, <2>3, <2>4, Finds
<1> QED
  BY <1>4, <1>5, <1>6

LEMMA StackExitKeeps ==
  ASSUME StackInv, LockInv, NEW t \in Thread, StackTrace_exit(t)
  PROVE  StackInv'
<1>1. /\ pc[t] = "set" /\ call[t].op = "exit" /\ setStack(t, FALSE)
      /\ pc'[t] = IF my_thread' = 0 THEN "unlock stack" ELSE "pop"
      /\ UNCHANGED <<call, inside>> /\ OthersStay(t)
  BY DEF StackTrace_exit, Go, OthersStay, LockInv, Fields
<1>2. Pending(t) /\ Holding(t) /\ Local(t)
  BY <1>1 DEF Pending, Holding, InStack, StackInv
<1>3. my_thread' # 0 => Pending(t)' /\ Shown(t)' = Shown(t)
  BY <1>1, <1>2 DEF Pending, Shown
<1>4. CASE Registered(t)
  <2>1. threads' = threads /\ my_thread' \in DOMAIN threads /\ threads[my_thread'].id = t
    BY <1>1, <1>4, SetStackIs
  <2>2. my_thread' # 0 /\ my_thread' \in 0 .. Len(threads)
    BY <2>1 DEF StackInv, TableTypes
  <2>3. Local(t)'
    BY <1>1, <1>2, <1>3, <2>1, <2>2 DEF Local, Pending, Holding, Logging, InLog, InStack
  <2> QED
    BY <1>1, <1>2, <1>3, <2>1, <2>2, <2>3, Finds
<1>5. CASE ~ Registered(t)
  <2>1. threads' = threads /\ my_thread' = 0
    BY <1>1, <1>5, SetStackIs
  <2>2. my_thread' \in 0 .. Len(threads)
    BY <2>1 DEF StackInv, TableTypes
  <2>3. Shown(t) # <<>>
    <3>1. inside[t] \in Seq(Name) /\ call[t].name \in Name
      BY <1>2 DEF Local, StackInv, TableTypes
    <3>2. Append(inside[t], call[t].name) # <<>>
      BY <3>1
    <3> QED
      BY <1>1, <1>2, <3>2 DEF Shown
  <2>4. Local(t)'
    BY <1>1, <1>2, <2>1 DEF Local, Pending, Holding, Logging, InLog, InStack
  <2> QED
    BY <1>1, <1>2, <1>5, <2>1, <2>2, <2>3, <2>4, Finds
<1> QED
  BY <1>4, <1>5

\* The write of slot d + 1 adds to the first d names.
LEMMA WriteAdds ==
  ASSUME NEW S, NEW s \in Seq(S), NEW d \in Nat, d <= Len(s), NEW e \in S
  PROVE  /\ WriteName(s, d + 1, e) \in Seq(S) /\ d + 1 <= Len(WriteName(s, d + 1, e))
         /\ SubSeq(WriteName(s, d + 1, e), 1, d + 1) = Append(SubSeq(s, 1, d), e)
<1> DEFINE w == WriteName(s, d + 1, e)
<1>1. /\ w \in Seq(S) /\ d + 1 <= Len(w) /\ w[d + 1] = e
      /\ \A i \in 1 .. d : w[i] = s[i]
  <2>1. CASE d + 1 <= Len(s)
    BY <2>1, ExceptSeq DEF WriteName
  <2>2. CASE ~ d + 1 <= Len(s)
    BY <2>2 DEF WriteName
  <2> QED
    BY <2>1, <2>2
<1>2. /\ SubSeq(w, 1, d + 1) \in Seq(S) /\ Len(SubSeq(w, 1, d + 1)) = d + 1
      /\ \A i \in 1 .. d + 1 : SubSeq(w, 1, d + 1)[i] = w[i]
  <2> HIDE DEF w
  <2> QED
    BY <1>1
<1>3. /\ SubSeq(s, 1, d) \in Seq(S) /\ Len(SubSeq(s, 1, d)) = d
      /\ \A i \in 1 .. d : SubSeq(s, 1, d)[i] = s[i]
  OBVIOUS
<1>4. /\ Append(SubSeq(s, 1, d), e) \in Seq(S) /\ Len(Append(SubSeq(s, 1, d), e)) = d + 1
      /\ \A i \in 1 .. d : Append(SubSeq(s, 1, d), e)[i] = s[i]
      /\ Append(SubSeq(s, 1, d), e)[d + 1] = e
  BY <1>3
<1>5. SubSeq(w, 1, d + 1) = Append(SubSeq(s, 1, d), e)
  <2>1. \A i \in 1 .. d + 1 : SubSeq(w, 1, d + 1)[i] = Append(SubSeq(s, 1, d), e)[i]
    <3> HIDE DEF w
    <3> TAKE i \in 1 .. d + 1
    <3>1. CASE i = d + 1
      BY <1>1, <1>2, <1>4, <3>1
    <3>2. CASE i # d + 1
      <4>1. i \in 1 .. d
        BY <3>2
      <4> QED
        BY <1>1, <1>2, <1>4, <4>1
    <3> QED
      BY <3>1, <3>2
  <2> HIDE DEF w
  <2> QED
    BY <1>2, <1>4, <2>1, SeqEqual
<1> QED
  BY <1>1, <1>5

LEMMA PushKeeps ==
  ASSUME StackInv, LockInv, NEW t \in Thread, Push(t)
  PROVE  StackInv'
<1>1. pc[t] = "push"
  BY DEF Push, Go
<1>2. /\ Pending(t) /\ Holding(t) /\ Local(t) /\ call[t].op = "entry" /\ my_thread # 0
      /\ threads[my_thread].id = t /\ inside[t] # <<>> /\ call[t].name = Last(inside[t])
      /\ call[t].name \in Name /\ inside[t] \in Seq(Name)
  <2>1. Local(t) /\ call[t].op = "entry"
    BY <1>1 DEF StackInv, Local
  <2>2. Pending(t) /\ Holding(t)
    BY <1>1, <2>1 DEF Pending, Holding, InStack
  <2> QED
    BY <1>1, <2>1, <2>2 DEF StackInv, TableTypes, Local
<1> DEFINE e == threads[my_thread]
           d == e.current_depth
           cs == WriteName(e.callstack, d + 1, call[t].name)
<1>3. my_thread \in DOMAIN threads
  BY <1>2 DEF StackInv, TableTypes
<1>4. /\ e = [id |-> t, callstack |-> e.callstack, current_depth |-> d]
      /\ e.callstack \in Seq(Name) /\ d \in Nat
  BY <1>2, <1>3, EntryIs
<1>5. d <= Len(e.callstack) /\ SubSeq(e.callstack, 1, d) = Front(inside[t])
  <2>1. Shown(t) = Front(inside[t])
    BY <1>2 DEF Shown
  <2> QED
    BY <1>2, <1>3, <2>1 DEF StackInv, Table
<1>6. cs \in Seq(Name) /\ d + 1 <= Len(cs) /\ SubSeq(cs, 1, d + 1) = inside[t]
  <2>1. Append(Front(inside[t]), call[t].name) = inside[t]
    BY <1>2, AppendFront
  <2> HIDE DEF d
  <2>2. /\ cs \in Seq(Name) /\ d + 1 <= Len(cs)
        /\ SubSeq(cs, 1, d + 1) = Append(SubSeq(e.callstack, 1, d), call[t].name)
    BY <1>2, <1>4, <1>5, WriteAdds
  <2> QED
    BY <1>5, <2>1, <2>2
<1>7. threads' = [threads EXCEPT ![my_thread] = [id |-> t, callstack |-> cs, current_depth |-> d + 1]]
  <2>1. threads' = [threads EXCEPT ![my_thread].current_depth = d + 1, ![my_thread].callstack = cs]
    BY DEF Push
  <2> HIDE DEF cs, d
  <2>2. [e EXCEPT !.current_depth = d + 1, !.callstack = cs] = [id |-> t, callstack |-> cs, current_depth |-> d + 1]
    <3> DEFINE n == d + 1
    <3> HIDE DEF e, n
    <3>1. DOMAIN e = {"id", "callstack", "current_depth"} /\ e.id = t
      BY <1>4
    <3>2. [e EXCEPT !.current_depth = n, !.callstack = cs]
            = [x \in DOMAIN e |-> IF x = "callstack" THEN cs
                                  ELSE IF x = "current_depth" THEN n ELSE e[x]]
      OBVIOUS
    <3>3. [e EXCEPT !.current_depth = n, !.callstack = cs] = [id |-> t, callstack |-> cs, current_depth |-> n]
      BY <3>1, <3>2
    <3> QED
      BY <3>3 DEF n
  <2> QED
    BY <1>3, <2>1, <2>2
<1>8. /\ UNCHANGED <<my_thread, inside>> /\ OthersStay(t)
      /\ \/ pc'[t] = "unlock stack" /\ call'[t] = call[t]
         \/ /\ pc'[t] = "log" /\ call'[t].op = "entry" /\ call'[t].then = "unlock stack"
            /\ call'[t].kind = "too deep"
  <2>0. PICK full \in BOOLEAN : \E depth :
          /\ Go(t, "push", IF full THEN "log" ELSE "unlock stack")
          /\ IF full THEN LogNext(t, "too deep", depth, "unlock stack") ELSE UNCHANGED call
          /\ UNCHANGED <<my_thread, inside>>
    BY DEF Push
  <2>1. PICK depth :
          /\ Go(t, "push", IF full THEN "log" ELSE "unlock stack")
          /\ IF full THEN LogNext(t, "too deep", depth, "unlock stack") ELSE UNCHANGED call
          /\ UNCHANGED <<my_thread, inside>>
    BY <2>0
  <2>2. /\ \A u \in Thread \ {t} : call'[u] = call[u]
        /\ IF full THEN /\ call'[t].op = call[t].op /\ call'[t].then = "unlock stack"
                        /\ call'[t].kind = "too deep"
           ELSE call'[t] = call[t]
    <3>1. CASE full
      <4>1. LogNext(t, "too deep", depth, "unlock stack")
        BY <2>1, <3>1
      <4> QED
        BY <3>1, <4>1 DEF LogNext, LockInv, Fields
    <3>2. CASE ~ full
      BY <2>1, <3>2
    <3> QED
      BY <3>1, <3>2
  <2>3. pc'[t] = IF full THEN "log" ELSE "unlock stack"
    BY <2>1 DEF Go, LockInv, Fields
  <2>4. OthersStay(t)
    BY <2>1, <2>2 DEF Go, OthersStay, LockInv, Fields
  <2> QED
    BY <1>2, <2>1, <2>2, <2>3, <2>4
<1>9. ~ Pending(t)' /\ Shown(t)' = inside[t]
  BY <1>8 DEF Pending, Shown, Logging, InLog
<1>10. threads'[my_thread].id = t
  BY <1>3, <1>7
<1>11. Local(t)'
  BY <1>2, <1>8, <1>9, <1>10 DEF Local, Holding, Logging, InLog, InStack
<1> HIDE DEF cs, d
<1>12. d + 1 \in Nat
  BY <1>4
<1> QED
  BY <1>2, <1>6, <1>7, <1>8, <1>9, <1>11, <1>12, Rewrites

LEMMA PopKeeps ==
  ASSUME StackInv, LockInv, NEW t \in Thread, Pop(t)
  PROVE  StackInv'
<1>1. pc[t] = "pop"
  BY DEF Pop, Go
<1>2. /\ Pending(t) /\ Holding(t) /\ Local(t) /\ call[t].op = "exit" /\ my_thread # 0
      /\ threads[my_thread].id = t /\ call[t].name \in Name /\ inside[t] \in Seq(Name)
  <2>1. Local(t) /\ call[t].op = "exit"
    BY <1>1 DEF StackInv, Local
  <2>2. Pending(t) /\ Holding(t)
    BY <1>1, <2>1 DEF Pending, Holding, InStack
  <2> QED
    BY <1>1, <2>1, <2>2 DEF StackInv, TableTypes, Local
<1> DEFINE e == threads[my_thread]
           d == e.current_depth
           cs == e.callstack
<1>3. my_thread \in DOMAIN threads
  BY <1>2 DEF StackInv, TableTypes
<1>4. /\ e = [id |-> t, callstack |-> cs, current_depth |-> d]
      /\ cs \in Seq(Name) /\ d \in Nat
  BY <1>2, <1>3, EntryIs
<1>5. d <= Len(cs) /\ SubSeq(cs, 1, d) = Append(inside[t], call[t].name)
  <2>1. Shown(t) = Append(inside[t], call[t].name)
    BY <1>2 DEF Shown
  <2> QED
    BY <1>2, <1>3, <2>1 DEF StackInv, Table
<1> HIDE DEF d, cs
<1>6. d - 1 \in Nat /\ d - 1 <= Len(cs) /\ cs[d] = call[t].name /\ SubSeq(cs, 1, d - 1) = inside[t]
  <2>1. /\ Len(SubSeq(cs, 1, d)) = d /\ \A i \in 1 .. d : SubSeq(cs, 1, d)[i] = cs[i]
    BY <1>4, <1>5
  <2>2. /\ Len(Append(inside[t], call[t].name)) = Len(inside[t]) + 1
        /\ Append(inside[t], call[t].name)[Len(inside[t]) + 1] = call[t].name
        /\ \A i \in 1 .. Len(inside[t]) : Append(inside[t], call[t].name)[i] = inside[t][i]
        /\ Len(inside[t]) \in Nat
    BY <1>2
  <2>3. d = Len(inside[t]) + 1
    BY <1>5, <2>1, <2>2
  <2>4. d - 1 \in Nat /\ d - 1 <= Len(cs) /\ cs[d] = call[t].name
    BY <1>4, <1>5, <2>1, <2>2, <2>3
  <2>5. ASSUME NEW i \in 1 .. Len(inside[t]) PROVE cs[i] = inside[t][i]
    <3>1. i \in 1 .. d
      BY <2>2, <2>3
    <3>2. SubSeq(cs, 1, d)[i] = cs[i]
      BY <2>1, <3>1
    <3> QED
      BY <1>5, <2>2, <3>2
  <2>6. /\ SubSeq(cs, 1, d - 1) \in Seq(Name) /\ Len(SubSeq(cs, 1, d - 1)) = d - 1
        /\ \A i \in 1 .. d - 1 : SubSeq(cs, 1, d - 1)[i] = cs[i]
    BY <1>4, <2>4
  <2>7. SubSeq(cs, 1, d - 1) = inside[t]
    BY <1>2, <2>2, <2>3, <2>5, <2>6, SeqEqual
  <2> QED
    BY <2>4, <2>7
<1>7. threads' = [threads EXCEPT ![my_thread] = [id |-> t, callstack |-> cs, current_depth |-> d - 1]]
  <2>1. threads' = [threads EXCEPT ![my_thread].current_depth = d - 1]
    BY DEF Pop, d
  <2>2. [e EXCEPT !.current_depth = d - 1] = [id |-> t, callstack |-> cs, current_depth |-> d - 1]
    BY <1>4
  <2> QED
    BY <1>3, <2>1, <2>2
<1>8. pc'[t] = "trace exit" /\ UNCHANGED <<call, my_thread, inside>> /\ OthersStay(t)
  <2>1. (d - 1) + 1 = d /\ d - 1 >= 0
    BY <1>4, <1>6
  <2>2. (d - 1) >= 0 /\ cs[(d - 1) + 1] = call[t].name
    BY <1>6, <2>1
  <2>3. Go(t, "pop", "trace exit") /\ UNCHANGED <<call, my_thread, inside>>
    BY <2>2 DEF Pop, d, cs
  <2> QED
    BY <2>3 DEF Go, OthersStay, LockInv, Fields
<1>9. ~ Pending(t)' /\ Shown(t)' = inside[t]
  BY <1>8 DEF Pending, Shown, Logging, InLog
<1>10. threads'[my_thread].id = t
  BY <1>3, <1>7
<1>11. Local(t)'
  BY <1>2, <1>8, <1>9, <1>10 DEF Local, Holding, Logging, InLog, InStack
<1> QED
  BY <1>2, <1>4, <1>6, <1>7, <1>8, <1>9, <1>11, Rewrites

LEMMA InitStackInv == Init => StackInv
<1> SUFFICES ASSUME Init PROVE StackInv
  OBVIOUS
<1>1. /\ threads = <<>> /\ my_thread = 0 /\ inside = [t \in Thread |-> <<>>]
      /\ \A t \in Thread : pc[t] = "idle" /\ call[t].kind = "message"
  BY DEF Init, NoCall
<1>2. TableTypes
  BY <1>1 DEF TableTypes
<1>3. \A t \in Thread : ~ Pending(t) /\ ~ Holding(t) /\ ~ Logging(t)
  BY <1>1 DEF Pending, Holding, Logging, InLog, InStack
<1>4. \A t \in Thread : Shown(t) = <<>>
  BY <1>1, <1>3 DEF Shown
<1>5. Table
  BY <1>1, <1>4 DEF Table
<1>6. \A t \in Thread : Local(t)
  BY <1>1, <1>3 DEF Local
<1> QED
  BY <1>2, <1>5, <1>6 DEF StackInv

LEMMA NextStackInv == StackInv /\ LockInv /\ [Next]_vars => StackInv'
<1> SUFFICES ASSUME StackInv, LockInv, [Next]_vars PROVE StackInv'
  OBVIOUS
<1>1. ASSUME NEW t \in Thread, Step(t) PROVE StackInv'
  BY <1>1, LockKeeps, SkipKeeps, UnlockKeeps, StackEntryKeeps, PushKeeps, StackExitKeeps,
     PopKeeps, TraceExitKeeps, LogKeeps DEF Step
<1>2. ASSUME NEW t \in Thread, FUNC_EXIT(t) \/ CallLog(t) PROVE StackInv'
  BY <1>2, ExitKeeps, CallLogKeeps
<1>3. ASSUME NEW t \in Thread, NEW f \in Name, FUNC_ENTRY(t, f) PROVE StackInv'
  BY <1>3, EntryKeeps
<1>4. CASE Log_initialize \/ Log_terminate \/ UNCHANGED vars
  <2>1. UNCHANGED <<stack, pc, call, inside>>
    BY <1>4 DEF Log_initialize, Log_terminate, vars, stack
  <2>2. TableTypes'
    BY <2>1 DEF StackInv, TableTypes, stack
  <2>3. \A t \in Thread : /\ Shown(t)' = Shown(t) /\ Registered(t)' = Registered(t)
                          /\ Pending(t)' = Pending(t) /\ Holding(t)' = Holding(t)
                          /\ Logging(t)' = Logging(t)
    BY <2>1 DEF Shown, Pending, Holding, Logging, Registered, stack
  <2>4. \A i \in DOMAIN threads : threads[i].id \in Thread
    BY EntryIs
  <2>5. Table'
    BY <2>1, <2>3, <2>4 DEF StackInv, Table, stack
  <2>6. \A t \in Thread : Local(t)'
    BY <2>1, <2>3 DEF StackInv, Local, stack
  <2> QED
    BY <2>2, <2>5, <2>6 DEF StackInv
<1> QED
  BY <1>1, <1>2, <1>3, <1>4 DEF Next

\* Whatever the number of threads and however deep they nest: a thread works
\* on its own entry of the table, the entry of a thread that is not tracing
\* is the stack of the functions it is in, and no exit misses its entry.
THEOREM TraceStackFollows == Spec => []StackFollows
<1>1. StackInv /\ LockInv => StackFollows
  <2> SUFFICES ASSUME StackInv, LockInv PROVE StackFollows
    OBVIOUS
  <2>1. ASSUME NEW t \in Thread, mutex["stack"] = t, pc[t] # "set", my_thread # 0
        PROVE  threads[my_thread].id = t
    BY <2>1, HoldingIs DEF StackInv, Local
  <2>2. ASSUME NEW i \in DOMAIN threads, pc[threads[i].id] = "idle"
        PROVE  SubSeq(threads[i].callstack, 1, threads[i].current_depth) = inside[threads[i].id]
    <3>1. Shown(threads[i].id) = inside[threads[i].id]
      BY <2>2 DEF Shown, Pending, Logging, InLog
    <3> QED
      BY <3>1 DEF StackInv, Table
  <2>3. \A t \in Thread : call[t].kind # "mismatch"
    BY DEF StackInv, Local
  <2> QED
    BY <2>1, <2>2, <2>3 DEF StackFollows
<1> QED
  BY <1>1, InitStackInv, NextStackInv, TraceLockInvariant, PTL DEF Spec

-----------------------------------------------------------------------------
(***************************************************************************)
(* The indexes of the ring, and what is written between them.              *)
(***************************************************************************)

\* The ring is empty until it is used and when it is off, and the slot of an
\* entry that is not filled yet is the last one.
Before(i) == IF i = 0 THEN max_trace_entries - 1 ELSE i - 1

Indexes ==
  /\ trace_queue \in [Slot -> Entry \cup {NoEntry}] \cup {NULL}
  /\ next_index \in Slot /\ start_index \in Slot \cup {-1}
  /\ start_index = -1 => next_index = 0
  /\ trace_queue = NULL => start_index = -1
  /\ \A t \in Thread : pc[t] \in {"pretrace", "fill"} => trace_queue # NULL
  /\ \A t \in Thread : pc[t] = "fill" => start_index # -1 /\ call[t].slot = Before(next_index)

\* What a thread is about to record is an entry: the depth of a stack is that
\* of the functions of its thread, and they do not nest deeper than MaxNest.
Records ==
  \A t \in Thread :
    /\ Len(inside[t]) <= MaxNest
    /\ call[t].kind \in Kind /\ call[t].depth \in Depth

RingInv == Indexes /\ Records

\* Only one thread is in Log.c between its lock and its unlock.
LEMMA OneLogging ==
  ASSUME LockInv, NEW t \in Thread, NEW u \in Thread, pc[t] \in InLog, pc[u] \in InLog
  PROVE  t = u
<1>1. mutex["log"] = t /\ mutex["log"] = u
  BY DEF LockInv, HoldsExpected, Expected, Mutex
<1> QED
  BY <1>1

\* A step of t outside of Log_pretrace and Fill leaves the ring alone.
LEMMA RingStays ==
  ASSUME Indexes, NEW t \in Thread, OthersStay(t), UNCHANGED ring, pc'[t] # "fill",
         pc'[t] = "pretrace" => trace_queue # NULL
  PROVE  Indexes'
  BY DEF Indexes, OthersStay, ring

LEMMA RecordsStay ==
  ASSUME Records, NEW t \in Thread, OthersStay(t), \A u \in Thread \ {t} : inside'[u] = inside[u],
         Len(inside'[t]) <= MaxNest, call'[t].kind \in Kind, call'[t].depth \in Depth
  PROVE  Records'
  BY DEF Records, OthersStay

LEMMA ProgramKeepsRing ==
  ASSUME RingInv, StackInv, LockInv, NEW t \in Thread,
         FUNC_EXIT(t) \/ CallLog(t) \/ \E f \in Name : FUNC_ENTRY(t, f)
  PROVE  RingInv'
<1>1. /\ OthersStay(t) /\ UNCHANGED ring /\ pc'[t] \notin {"fill", "pretrace"}
      /\ \A u \in Thread \ {t} : inside'[u] = inside[u]
      /\ call'[t].kind = "message" /\ call'[t].depth = 0
  <2>1. CASE FUNC_EXIT(t)
    BY <2>1 DEF FUNC_EXIT, Go, OthersStay, LockInv, Fields, NoCall, StackInv, TableTypes
  <2>2. CASE CallLog(t)
    <3>1. PICK op \in {"log", "heap"} :
            /\ Go(t, "idle", op) /\ UNCHANGED <<ring, inside>>
            /\ call' = [call EXCEPT ![t] = [NoCall EXCEPT !.op = op,
                          !.then = IF op = "heap" THEN "unlock heap" ELSE "idle"]]
      BY <2>2 DEF CallLog
    <3>2. /\ \A u \in Thread \ {t} : call'[u] = call[u]
          /\ call'[t].kind = "message" /\ call'[t].depth = 0
      BY <3>1 DEF LockInv, Fields, NoCall
    <3>3. pc'[t] = op /\ \A u \in Thread \ {t} : pc'[u] = pc[u]
      BY <3>1 DEF Go, LockInv, Fields
    <3> QED
      BY <3>1, <3>2, <3>3 DEF OthersStay
  <2>3. CASE \E f \in Name : FUNC_ENTRY(t, f)
    <3>1. PICK f \in Name :
            /\ Go(t, "idle", "stack") /\ UNCHANGED ring
            /\ call' = [call EXCEPT ![t] = [NoCall EXCEPT !.op = "entry", !.name = f]]
            /\ inside' = [inside EXCEPT ![t] = Append(@, f)]
      BY <2>3 DEF FUNC_ENTRY
    <3>2. /\ \A u \in Thread \ {t} : call'[u] = call[u] /\ inside'[u] = inside[u]
          /\ call'[t].kind = "message" /\ call'[t].depth = 0
      BY <3>1 DEF LockInv, Fields, NoCall, StackInv, TableTypes
    <3>3. pc'[t] = "stack" /\ \A u \in Thread \ {t} : pc'[u] = pc[u]
      BY <3>1 DEF Go, LockInv, Fields
    <3> QED
      BY <3>1, <3>2, <3>3 DEF OthersStay
  <2> QED
    BY <2>1, <2>2, <2>3
<1>2. Len(inside'[t]) <= MaxNest
  <2>1. inside[t] \in Seq(Name) /\ Len(inside[t]) <= MaxNest
    BY DEF StackInv, TableTypes, RingInv, Records
  <2>2. CASE CallLog(t)
    BY <2>1, <2>2 DEF CallLog
  <2>3. CASE FUNC_EXIT(t)
    <3>1. inside'[t] = Front(inside[t]) /\ inside[t] # <<>>
      BY <2>3 DEF FUNC_EXIT, StackInv, TableTypes
    <3>2. Len(Front(inside[t])) = Len(inside[t]) - 1
      BY <2>1, <3>1 DEF Front
    <3> QED
      BY <2>1, <3>1, <3>2, TraceAssumption
  <2>4. ASSUME NEW f \in Name, FUNC_ENTRY(t, f) PROVE Len(inside'[t]) <= MaxNest
    <3>1. inside'[t] = Append(inside[t], f) /\ Len(inside[t]) < MaxNest
      BY <2>4 DEF FUNC_ENTRY, StackInv, TableTypes
    <3> QED
      BY <2>1, <3>1, TraceAssumption
  <2> QED
    BY <2>2, <2>3, <2>4
<1>3. call'[t].kind \in Kind /\ call'[t].depth \in Depth
  BY <1>1, TraceAssumption DEF Kind, Depth
<1> QED
  BY <1>1, <1>2, <1>3, RingStays, RecordsStay DEF RingInv

LEMMA MutexKeepsRing ==
  ASSUME RingInv, StackInv, LockInv, NEW t \in Thread,
         LockStack(t) \/ LockHeap(t) \/ LockLog(t) \/ SkipTrace(t)
  PROVE  RingInv'
<1>1. OthersStay(t) /\ UNCHANGED <<ring, call, inside>>
  BY DEF LockStack, LockHeap, LockLog, Lock, SkipTrace, Go, OthersStay, LockInv, Fields
<1>2. pc'[t] # "fill" /\ (pc'[t] = "pretrace" => trace_queue # NULL)
  <2>1. CASE SkipTrace(t)
    <3>1. Logging(t) /\ pc'[t] = call[t].then /\ call[t].kind \in {"entry", "exit"}
      BY <2>1 DEF SkipTrace, Unrecorded, Go, LockInv, Fields, Logging
    <3> QED
      BY <3>1 DEF LockInv, Returns, Logging, InStack
  <2>2. CASE ~ SkipTrace(t)
    BY <2>2 DEF LockStack, LockHeap, LockLog, Lock, Go, LockInv, Fields
  <2> QED
    BY <2>1, <2>2
<1> QED
  BY <1>1, <1>2, RingStays DEF RingInv, Records

LEMMA UnlockKeepsRing ==
  ASSUME RingInv, StackInv, LockInv, NEW t \in Thread, UnlockStack(t) \/ UnlockHeap(t) \/ UnlockLog(t)
  PROVE  RingInv'
<1>1. PICK m, from, to : Unlock(t, m, from, to) /\ to \in {"idle", call[t].then}
                         /\ (to # "idle" => from = "unlock log")
  BY DEF UnlockStack, UnlockHeap, UnlockLog
<1>2. /\ UNCHANGED <<ring, inside>> /\ pc' = [pc EXCEPT ![t] = to] /\ pc[t] = from
      /\ call' = IF to = "idle" THEN [call EXCEPT ![t] = NoCall] ELSE call
  BY <1>1 DEF Unlock, Go, Return
<1>3. OthersStay(t) /\ pc'[t] = to
  BY <1>2 DEF OthersStay, LockInv, Fields
<1>4. to \notin {"fill", "pretrace"}
  BY <1>1, <1>2 DEF LockInv, Returns, InLog, InStack
<1>5. call'[t].kind \in Kind /\ call'[t].depth \in Depth
  <2>1. CASE to = "idle"
    <3>1. call'[t].kind = "message" /\ call'[t].depth = 0
      BY <1>2, <2>1 DEF LockInv, Fields, NoCall
    <3> QED
      BY <3>1, TraceAssumption DEF Kind, Depth
  <2>2. CASE to # "idle"
    BY <1>2, <2>2 DEF RingInv, Records
  <2> QED
    BY <2>1, <2>2
<1> QED
  BY <1>2, <1>3, <1>4, <1>5, RingStays, RecordsStay DEF RingInv, Records

\* The depth of a stack is that of the functions on it.
LEMMA DepthIs ==
  ASSUME StackInv, NEW i \in DOMAIN threads
  PROVE  threads[i].current_depth = Len(Shown(threads[i].id))
<1>1. /\ threads[i].current_depth \in Nat /\ threads[i].callstack \in Seq(Name)
      /\ threads[i].current_depth <= Len(threads[i].callstack)
      /\ SubSeq(threads[i].callstack, 1, threads[i].current_depth) = Shown(threads[i].id)
  BY EntryIs DEF StackInv, Table
<1>2. Len(SubSeq(threads[i].callstack, 1, threads[i].current_depth)) = threads[i].current_depth
  BY <1>1
<1> QED
  BY <1>1, <1>2

\* A step of StackTrace.c: what it records.
LEMMA StackKeepsRing ==
  ASSUME RingInv, StackInv, LockInv, NEW t \in Thread, OthersStay(t), UNCHANGED <<ring, inside>>,
         pc'[t] \notin {"fill", "pretrace"},
         \/ call'[t] = call[t]
         \/ call'[t].kind \in Kind /\ call'[t].depth \in Nat /\ call'[t].depth <= Len(inside[t])
  PROVE  RingInv'
<1>1. inside[t] \in Seq(Name) /\ Len(inside[t]) <= MaxNest /\ call[t].kind \in Kind /\ call[t].depth \in Depth
  BY DEF StackInv, TableTypes, RingInv, Records
<1>2. Len(inside[t]) \in Nat
  BY <1>1
<1>3. call'[t].kind \in Kind /\ call'[t].depth \in Depth
  BY <1>1, <1>2, TraceAssumption DEF Depth
<1> QED
  BY <1>1, <1>3, RingStays, RecordsStay DEF RingInv

LEMMA StackEntryKeepsRing ==
  ASSUME RingInv, StackInv, LockInv, NEW t \in Thread, StackTrace_entry(t)
  PROVE  RingInv'
<1> DEFINE depth == threads'[my_thread'].current_depth
<1>1. /\ Go(t, "set", IF my_thread' = 0 THEN "unlock stack" ELSE "log")
      /\ call[t].op = "entry" /\ setStack(t, TRUE) /\ UNCHANGED <<ring, inside>>
      /\ IF my_thread' = 0 THEN UNCHANGED call ELSE LogNext(t, "entry", depth, "push")
  BY DEF StackTrace_entry
<1>2. /\ pc[t] = "set" /\ pc'[t] \notin {"fill", "pretrace"}
      /\ \A u \in Thread \ {t} : pc'[u] = pc[u]
  BY <1>1 DEF Go, LockInv, Fields
<1>3. inside[t] # <<>> /\ inside[t] \in Seq(Name) /\ Shown(t) = Front(inside[t])
  BY <1>1, <1>2 DEF Shown, Pending, StackInv, TableTypes, Local
<1>4. my_thread' # 0 => depth \in Nat /\ depth <= Len(inside[t])
  <2>1. Len(Front(inside[t])) <= Len(inside[t]) /\ Len(inside[t]) \in Nat
    BY <1>3 DEF Front
  <2>2. CASE Registered(t)
    <3>1. threads' = threads /\ my_thread' \in DOMAIN threads /\ threads[my_thread'].id = t
      BY <1>1, <2>2, SetStackIs
    <3>2. threads[my_thread'].current_depth = Len(Front(inside[t])) /\ threads[my_thread'].current_depth \in Nat
      BY <1>3, <3>1, DepthIs, EntryIs
    <3> QED
      BY <2>1, <3>1, <3>2
  <2>3. CASE ~ Registered(t) /\ my_thread' # 0
    <3>1. /\ threads' = Append(threads, [id |-> t, callstack |-> <<>>, current_depth |-> 0])
          /\ my_thread' = Len(threads) + 1
      BY <1>1, <2>3, SetStackIs
    <3>2. threads \in Seq([id : Thread, callstack : Seq(Name), current_depth : Nat])
      BY DEF StackInv, TableTypes
    <3>3. depth = 0
      BY <3>1, <3>2
    <3> QED
      BY <2>1, <3>3
  <2> QED
    BY <2>2, <2>3
<1> HIDE DEF depth
<1>5. /\ \A u \in Thread \ {t} : call'[u] = call[u]
      /\ my_thread' = 0 => call' = call
      /\ my_thread' # 0 => call'[t].kind = "entry" /\ call'[t].depth = depth
  BY <1>1, SMTT(20), ZenonT(30) DEF LogNext, LockInv, Fields
<1>6. OthersStay(t)
  BY <1>2, <1>5 DEF OthersStay
<1> QED
  BY <1>1, <1>2, <1>4, <1>5, <1>6, StackKeepsRing DEF Kind

LEMMA PushKeepsRing ==
  ASSUME RingInv, StackInv, LockInv, NEW t \in Thread, Push(t)
  PROVE  RingInv'
<1> DEFINE depth == threads[my_thread].current_depth + 1
<1>1. PICK full \in BOOLEAN :
          /\ Go(t, "push", IF full THEN "log" ELSE "unlock stack")
          /\ IF full THEN LogNext(t, "too deep", depth, "unlock stack") ELSE UNCHANGED call
          /\ UNCHANGED <<ring, inside>>
  BY DEF Push
<1>2. /\ pc[t] = "push" /\ pc'[t] \notin {"fill", "pretrace"}
      /\ \A u \in Thread \ {t} : pc'[u] = pc[u]
  BY <1>1 DEF Go, LockInv, Fields
<1>3. /\ call[t].op = "entry" /\ Pending(t) /\ Holding(t) /\ my_thread # 0 /\ my_thread \in DOMAIN threads
      /\ inside[t] \in Seq(Name)
  <2>1. Local(t) /\ threads \in Seq([id : Thread, callstack : Seq(Name), current_depth : Nat])
        /\ my_thread \in 0 .. Len(threads) /\ inside[t] \in Seq(Name)
    BY DEF StackInv, TableTypes
  <2>2. call[t].op = "entry" /\ Pending(t) /\ Holding(t)
    BY <1>2, <2>1 DEF Local, Pending, Holding, InStack
  <2>3. my_thread # 0
    BY <1>2, <2>1, <2>2 DEF Local
  <2>4. my_thread \in DOMAIN threads
    BY <2>1, <2>3
  <2> QED
    BY <2>1, <2>2, <2>3, <2>4
<1>4. inside[t] # <<>> /\ Shown(t) = Front(inside[t]) /\ threads[my_thread].id = t
  BY <1>2, <1>3 DEF StackInv, Local, Shown
<1>5. depth \in Nat /\ depth <= Len(inside[t])
  <2>1. threads[my_thread].current_depth = Len(Front(inside[t]))
    BY <1>3, <1>4, DepthIs
  <2>2. Len(Front(inside[t])) = Len(inside[t]) - 1 /\ Len(inside[t]) \in Nat \ {0}
    BY <1>3, <1>4 DEF Front
  <2> QED
    BY <2>1, <2>2
<1> HIDE DEF depth
<1>6. /\ \A u \in Thread \ {t} : call'[u] = call[u]
      /\ \/ call'[t] = call[t]
         \/ call'[t].kind = "too deep" /\ call'[t].depth = depth
  <2>1. CASE full
    <3>1. LogNext(t, "too deep", depth, "unlock stack")
      BY <1>1, <2>1
    <3> QED
      BY <3>1 DEF LogNext, LockInv, Fields
  <2>2. CASE ~ full
    BY <1>1, <2>2
  <2> QED
    BY <2>1, <2>2
<1>7. OthersStay(t)
  BY <1>2, <1>6 DEF OthersStay
<1> QED
  BY <1>1, <1>2, <1>5, <1>6, <1>7, StackKeepsRing DEF Kind

\* After Pop finds the name it looks for: Local(t)' says it did.
LEMMA StackExitKeepsRing ==
  ASSUME RingInv, StackInv, StackInv', LockInv, NEW t \in Thread, StackTrace_exit(t) \/ Pop(t)
  PROVE  RingInv'
<1>1. /\ OthersStay(t) /\ UNCHANGED <<ring, inside>>
      /\ pc'[t] \notin {"fill", "pretrace"}
  BY DEF StackTrace_exit, Pop, LogNext, Go, OthersStay, LockInv, Fields
<1>2. call'[t] = call[t]
  <2>1. CASE StackTrace_exit(t)
    BY <2>1 DEF StackTrace_exit
  <2>2. CASE Pop(t)
    <3>1. PICK same \in BOOLEAN :
            \E depth : IF same THEN UNCHANGED call ELSE LogNext(t, "mismatch", depth, "trace exit")
      BY <2>2 DEF Pop
    <3>2. call'[t].kind # "mismatch"
      BY DEF StackInv, Local
    <3> QED
      BY <3>1, <3>2 DEF LogNext, LockInv, Fields
  <2> QED
    BY <2>1, <2>2
<1> QED
  BY <1>1, <1>2, StackKeepsRing

LEMMA TraceExitKeepsRing ==
  ASSUME RingInv, StackInv, LockInv, NEW t \in Thread, TraceExit(t)
  PROVE  RingInv'
<1> DEFINE depth == threads[my_thread].current_depth
<1>1. /\ pc[t] = "trace exit" /\ pc'[t] = "log" /\ OthersStay(t) /\ UNCHANGED <<ring, inside>>
      /\ call'[t].kind = "exit" /\ call'[t].depth = depth
  BY DEF TraceExit, LogNext, Go, OthersStay, LockInv, Fields
<1>2. /\ ~ Pending(t) /\ Holding(t) /\ my_thread # 0 /\ my_thread \in DOMAIN threads
      /\ threads[my_thread].id = t
  <2>1. Local(t) /\ threads \in Seq([id : Thread, callstack : Seq(Name), current_depth : Nat])
        /\ my_thread \in 0 .. Len(threads)
    BY DEF StackInv, TableTypes
  <2>2. ~ Pending(t) /\ Holding(t)
    BY <1>1 DEF Pending, Holding, InStack, Logging, InLog
  <2>3. my_thread # 0 /\ threads[my_thread].id = t
    BY <1>1, <2>1, <2>2 DEF Local
  <2>4. my_thread \in DOMAIN threads
    BY <2>1, <2>3
  <2> QED
    BY <2>1, <2>2, <2>3, <2>4
<1>3. depth = Len(inside[t]) /\ inside[t] \in Seq(Name)
  BY <1>2, DepthIs DEF Shown, StackInv, TableTypes
<1>4. call'[t].kind \in Kind /\ call'[t].depth \in Nat /\ call'[t].depth <= Len(inside[t])
  <2>1. Len(inside[t]) \in Nat
    BY <1>3
  <2> DEFINE len == Len(inside[t])
  <2>2. len <= len
    BY <2>1
  <2>3. call'[t].depth = len
    BY <1>1, <1>3
  <2> HIDE DEF len
  <2>4. call'[t].depth \in Nat /\ call'[t].depth <= len
    BY <2>1, <2>2, <2>3 DEF len
  <2> QED
    BY <1>1, <2>4 DEF Kind, len
<1> QED
  BY <1>1, <1>4, StackKeepsRing

\* A step of Log.c on a ring that is there.
LEMMA PretraceIs ==
  ASSUME RingInv, LockInv, NEW t \in Thread, Log_pretrace(t)
  PROVE  /\ OthersStay(t) /\ UNCHANGED inside /\ pc[t] = "pretrace" /\ pc'[t] = "fill"
         /\ call'[t].kind = call[t].kind /\ call'[t].depth = call[t].depth
         /\ call'[t].slot = next_index
         /\ trace_queue # NULL /\ trace_queue' = trace_queue
         /\ \A u \in Thread : pc[u] # "fill"
         /\ \A u \in Thread \ {t} : pc'[u] \notin InLog
<1>1. /\ OthersStay(t) /\ UNCHANGED <<inside, trace_queue>> /\ pc[t] = "pretrace" /\ pc'[t] = "fill"
      /\ call'[t].kind = call[t].kind /\ call'[t].depth = call[t].depth
      /\ call'[t].slot = next_index
  BY DEF Log_pretrace, Go, OthersStay, LockInv, Fields
<1>2. \A u \in Thread \ {t} : pc[u] \notin InLog
  BY <1>1, OneLogging DEF InLog
<1>3. \A u \in Thread \ {t} : pc'[u] \notin InLog
  BY <1>1, <1>2 DEF OthersStay
<1>4. \A u \in Thread : pc[u] # "fill"
  BY <1>1, <1>2 DEF InLog
<1> QED
  BY <1>1, <1>3, <1>4 DEF RingInv, Indexes

LEMMA FillIs ==
  ASSUME RingInv, LockInv, NEW t \in Thread, Fill(t)
  PROVE  /\ OthersStay(t) /\ UNCHANGED <<inside, call, start_index, next_index>>
         /\ pc[t] = "fill" /\ pc'[t] = "unlock log"
         /\ trace_queue # NULL /\ start_index # -1 /\ call[t].slot = Before(next_index)
         /\ [thread |-> t, kind |-> call[t].kind, depth |-> call[t].depth] \in Entry
         /\ trace_queue' = [trace_queue EXCEPT ![Before(next_index)] =
                              [thread |-> t, kind |-> call[t].kind, depth |-> call[t].depth]]
         /\ \A u \in Thread : pc'[u] # "fill"
<1>1. /\ OthersStay(t) /\ UNCHANGED <<inside, call, start_index, next_index>>
      /\ pc[t] = "fill" /\ pc'[t] = "unlock log"
  BY DEF Fill, Go, OthersStay, LockInv, Fields
<1>2. /\ trace_queue # NULL /\ start_index # -1 /\ call[t].slot = Before(next_index)
      /\ [thread |-> t, kind |-> call[t].kind, depth |-> call[t].depth] \in Entry
  BY <1>1 DEF RingInv, Indexes, Records, Entry
<1>3. \A u \in Thread \ {t} : pc[u] \notin InLog
  BY <1>1, OneLogging DEF InLog
<1>4. \A u \in Thread : pc'[u] # "fill"
  BY <1>1, <1>3 DEF OthersStay, InLog
<1> QED
  BY <1>1, <1>2, <1>4 DEF Fill

LEMMA LogKeepsRing ==
  ASSUME RingInv, LockInv, NEW t \in Thread, Log_pretrace(t) \/ Fill(t)
  PROVE  RingInv'
<1>1. Records'
  BY PretraceIs, FillIs, RecordsStay DEF RingInv, Records
<1>2. CASE Log_pretrace(t)
  <2>1. /\ OthersStay(t) /\ pc'[t] = "fill" /\ call'[t].slot = next_index /\ trace_queue # NULL
        /\ trace_queue' = trace_queue /\ \A u \in Thread \ {t} : pc'[u] \notin InLog
    BY <1>2, PretraceIs
  <2>2. /\ next_index \in Slot /\ start_index \in Slot \cup {-1} /\ (start_index = -1 => next_index = 0)
    BY DEF RingInv, Indexes
  <2>3. /\ next_index' = Wrap(next_index + 1)
        /\ start_index' = CASE next_index = start_index -> Wrap(start_index + 1)
                            [] start_index = -1 -> 0
                            [] OTHER -> start_index
    BY <1>2 DEF Log_pretrace
  <2>4. \A i \in Slot : Wrap(i + 1) \in Slot /\ Before(Wrap(i + 1)) = i /\ i # -1
    BY TraceAssumption DEF Slot, Wrap, Before
  <2>5. 0 \in Slot /\ 0 # -1
    BY TraceAssumption DEF Slot
  <2>6. next_index' \in Slot /\ start_index' \in Slot /\ start_index' # -1
    <3>1. CASE next_index = start_index
      BY <2>2, <2>3, <2>4, <3>1
    <3>2. CASE next_index # start_index /\ start_index = -1
      BY <2>2, <2>3, <2>4, <2>5, <3>2
    <3>3. CASE next_index # start_index /\ start_index # -1
      BY <2>2, <2>3, <2>4, <3>3
    <3> QED
      BY <3>1, <3>2, <3>3
  <2>7. call'[t].slot = Before(next_index')
    BY <2>1, <2>2, <2>3, <2>4
  <2>8. Before(next_index)' = Before(next_index')
    BY DEF Before
  <2>9. Indexes'
    BY <2>1, <2>6, <2>7, <2>8 DEF RingInv, Indexes, InLog
  <2> QED
    BY <1>1, <2>9 DEF RingInv
<1>3. CASE Fill(t)
  <2> DEFINE e == [thread |-> t, kind |-> call[t].kind, depth |-> call[t].depth]
  <2>1. /\ OthersStay(t) /\ UNCHANGED <<call, start_index, next_index>>
        /\ trace_queue # NULL /\ start_index # -1 /\ e \in Entry
        /\ trace_queue' = [trace_queue EXCEPT ![Before(next_index)] = e]
        /\ pc'[t] = "unlock log" /\ \A u \in Thread : pc'[u] # "fill"
    BY <1>3, FillIs
  <2> HIDE DEF e
  <2>2. trace_queue' \in [Slot -> Entry \cup {NoEntry}] /\ trace_queue' # NULL
    BY <2>1, RingAssumption DEF RingInv, Indexes
  <2>3. Indexes'
    BY <2>1, <2>2 DEF RingInv, Indexes, OthersStay
  <2> QED
    BY <1>1, <2>3 DEF RingInv
<1> QED
  BY <1>2, <1>3

LEMMA InitRingInv == Init => RingInv
<1> SUFFICES ASSUME Init PROVE RingInv
  OBVIOUS
<1>1. /\ trace_queue = NULL /\ start_index = -1 /\ next_index = 0
      /\ \A t \in Thread : pc[t] = "idle" /\ call[t].kind = "message" /\ call[t].depth = 0 /\ inside[t] = <<>>
  BY DEF Init, NoCall
<1>2. Indexes
  BY <1>1, TraceAssumption DEF Indexes, Slot
<1>3. Records
  <2>1. Len(<<>>) = 0 /\ 0 <= MaxNest /\ "message" \in Kind /\ 0 \in Depth
    BY TraceAssumption DEF Kind, Depth
  <2> QED
    BY <1>1, <2>1 DEF Records
<1> QED
  BY <1>2, <1>3 DEF RingInv

LEMMA NextRingInv == RingInv /\ StackInv /\ StackInv' /\ LockInv /\ [Next]_vars => RingInv'
<1> SUFFICES ASSUME RingInv, StackInv, StackInv', LockInv, [Next]_vars PROVE RingInv'
  OBVIOUS
<1>1. ASSUME NEW t \in Thread, Step(t) PROVE RingInv'
  BY <1>1, MutexKeepsRing, UnlockKeepsRing, StackEntryKeepsRing, PushKeepsRing, StackExitKeepsRing,
     TraceExitKeepsRing, LogKeepsRing DEF Step
<1>2. ASSUME NEW t \in Thread, FUNC_EXIT(t) \/ CallLog(t) \/ \E f \in Name : FUNC_ENTRY(t, f)
      PROVE  RingInv'
  BY <1>2, ProgramKeepsRing
<1>3. CASE Log_initialize
  <2>1. /\ trace_queue' = [i \in Slot |-> NoEntry] /\ UNCHANGED <<start_index, next_index, pc, call, inside>>
        /\ \A t \in Thread : pc[t] = "idle"
    BY <1>3 DEF Log_initialize, Quiet
  <2>2. trace_queue' \in [Slot -> Entry \cup {NoEntry}] /\ trace_queue' # NULL
    BY <2>1, RingAssumption
  <2> QED
    BY <2>1, <2>2 DEF RingInv, Indexes, Records
<1>4. CASE Log_terminate
  <2>1. /\ trace_queue' = NULL /\ start_index' = -1 /\ next_index' = 0
        /\ UNCHANGED <<pc, call, inside>> /\ \A t \in Thread : pc[t] = "idle"
    BY <1>4 DEF Log_terminate, Quiet
  <2> QED
    BY <2>1, TraceAssumption DEF RingInv, Indexes, Records, Slot
<1>5. CASE UNCHANGED vars
  BY <1>5 DEF vars, RingInv, Indexes, Records
<1> QED
  BY <1>1, <1>2, <1>3, <1>4, <1>5 DEF Next

-----------------------------------------------------------------------------
(***************************************************************************)
(* The ring implements the last entries.                                   *)
(***************************************************************************)

Filling == \E t \in Thread : pc[t] = "fill"

\* The number of entries between the indexes, the slot of the i-th, and the
\* entries of a ring.
Length(s, n) ==
  CASE s = -1 -> 0
    [] s # -1 /\ s < n -> n - s
    [] OTHER -> n - s + max_trace_entries

At(s, i) ==
  IF s + i - 1 < max_trace_entries THEN s + i - 1 ELSE s + i - 1 - max_trace_entries

Items(q, s, n) == [i \in 1 .. Length(s, n) |-> q[(s + i - 1) % max_trace_entries]]

LEMMA RecentIs ==
  /\ Recent = IF trace_queue = NULL THEN <<>>
              ELSE IF Filling THEN Front(Items(trace_queue, start_index, next_index))
                   ELSE Items(trace_queue, start_index, next_index)
  /\ Recent' = IF trace_queue' = NULL THEN <<>>
               ELSE IF Filling' THEN Front(Items(trace_queue', start_index', next_index'))
                    ELSE Items(trace_queue', start_index', next_index')
  BY DEF Recent, Filling, Items, Length

LEMMA Around ==
  ASSUME NEW m \in Nat \ {0}, NEW i \in Nat, i < m + m
  PROVE  i % m = IF i < m THEN i ELSE i - m
  OBVIOUS

LEMMA LengthIs ==
  ASSUME NEW s \in Slot \cup {-1}, NEW n \in Slot
  PROVE  /\ Length(s, n) \in 0 .. max_trace_entries
         /\ s # -1 => Length(s, n) # 0
  BY TraceAssumption DEF Length, Slot

LEMMA AtIs ==
  ASSUME NEW s \in Slot, NEW i \in 1 .. max_trace_entries
  PROVE  (s + i - 1) % max_trace_entries = At(s, i) /\ At(s, i) \in Slot
<1>1. s + i - 1 \in Nat /\ s + i - 1 < max_trace_entries + max_trace_entries
  BY TraceAssumption DEF Slot
<1>2. (s + i - 1) % max_trace_entries = At(s, i)
  <2>1. PICK j \in Nat : j = s + i - 1
    BY <1>1
  <2>2. j % max_trace_entries = IF j < max_trace_entries THEN j ELSE j - max_trace_entries
    <3>1. j < max_trace_entries + max_trace_entries /\ max_trace_entries \in Nat \ {0}
      BY <1>1, <2>1, TraceAssumption
    <3> QED
      BY <3>1, Around
  <2>3. At(s, i) = IF j < max_trace_entries THEN j ELSE j - max_trace_entries
    BY <2>1, TraceAssumption DEF At, Slot
  <2> QED
    BY <2>1, <2>2, <2>3
<1>3. At(s, i) \in Slot
  BY TraceAssumption DEF At, Slot
<1> QED
  BY <1>2, <1>3

LEMMA ItemsAre ==
  ASSUME NEW S, NEW q \in [Slot -> S], NEW s \in Slot \cup {-1}, NEW n \in Slot
  PROVE  /\ Items(q, s, n) \in Seq(S) /\ Len(Items(q, s, n)) = Length(s, n)
         /\ \A i \in 1 .. Length(s, n) : s \in Slot /\ Items(q, s, n)[i] = q[At(s, i)] /\ At(s, i) \in Slot
<1> DEFINE l == Length(s, n)
<1>1. l \in 0 .. max_trace_entries /\ (s = -1 => l = 0) /\ l \in Nat
  BY LengthIs, TraceAssumption DEF Length
<1> HIDE DEF l
<1>2. ASSUME NEW i \in 1 .. l
      PROVE  s \in Slot /\ (s + i - 1) % max_trace_entries = At(s, i) /\ At(s, i) \in Slot
  <2>1. i \in 1 .. max_trace_entries /\ s \in Slot
    BY <1>1, TraceAssumption
  <2> QED
    BY <2>1, AtIs
<1>3. Items(q, s, n) = [i \in 1 .. l |-> q[(s + i - 1) % max_trace_entries]]
  BY DEF Items, l
<1>4. Items(q, s, n) = [i \in 1 .. l |-> q[At(s, i)]]
  BY <1>2, <1>3
<1>5. \A i \in 1 .. l : q[At(s, i)] \in S
  BY <1>2
<1>6. Items(q, s, n) \in Seq(S) /\ Len(Items(q, s, n)) = l
  BY <1>1, <1>4, <1>5
<1> QED
  BY <1>2, <1>4, <1>6 DEF l

\* What Log_pretrace does to the indexes.
LEMMA FullMoves ==
  ASSUME NEW s \in Slot
  PROVE  /\ Length(s, s) = max_trace_entries
         /\ Length(Wrap(s + 1), Wrap(s + 1)) = max_trace_entries
         /\ \A i \in 1 .. max_trace_entries - 1 : At(Wrap(s + 1), i) = At(s, i + 1)
  BY TraceAssumption DEF Length, Wrap, At, Slot

LEMMA FirstMoves ==
  Length(0, Wrap(1)) = 1 /\ Length(-1, 0) = 0
  BY TraceAssumption DEF Length, Wrap, Slot

LEMMA RoomMoves ==
  ASSUME NEW s \in Slot, NEW n \in Slot, n # s
  PROVE  Length(s, Wrap(n + 1)) = Length(s, n) + 1
  BY TraceAssumption DEF Length, Wrap, Slot

\* The slot before next_index is that of the last entry only.
LEMMA LastSlot ==
  ASSUME NEW s \in Slot, NEW n \in Slot
  PROVE  /\ At(s, Length(s, n)) = Before(n)
         /\ \A i \in 1 .. Length(s, n) - 1 : At(s, i) # Before(n)
  BY TraceAssumption DEF Length, At, Before, Slot

LEMMA FrontIs ==
  ASSUME NEW S, NEW s \in Seq(S), s # <<>>
  PROVE  /\ Front(s) \in Seq(S) /\ Len(Front(s)) = Len(s) - 1
         /\ \A i \in 1 .. Len(s) - 1 : Front(s)[i] = s[i]
<1>1. Len(s) - 1 \in Nat /\ \A i \in 1 .. Len(s) - 1 : s[i] \in S
  OBVIOUS
<1>2. Front(s) = [i \in 1 .. Len(s) - 1 |-> s[i]]
  BY DEF Front
<1> QED
  BY <1>1, <1>2

LEMMA TailIs ==
  ASSUME NEW S, NEW s \in Seq(S), s # <<>>
  PROVE  /\ Tail(s) \in Seq(S) /\ Len(Tail(s)) = Len(s) - 1
         /\ \A i \in 1 .. Len(s) - 1 : Tail(s)[i] = s[i + 1]
  OBVIOUS

\* The ring without the entry that is not filled.
LEMMA FrontItems ==
  ASSUME NEW S, NEW q \in [Slot -> S], NEW s \in Slot, NEW n \in Slot
  PROVE  /\ Front(Items(q, s, n)) \in Seq(S) /\ Len(Front(Items(q, s, n))) = Length(s, n) - 1
         /\ \A i \in 1 .. Length(s, n) - 1 : Front(Items(q, s, n))[i] = q[At(s, i)]
<1> DEFINE a == Items(q, s, n)
           l == Length(s, n)
<1>1. /\ a \in Seq(S) /\ Len(a) = l
      /\ \A i \in 1 .. l : s \in Slot /\ a[i] = q[At(s, i)] /\ At(s, i) \in Slot
  BY ItemsAre, Zenon
<1>6. l \in Nat \ {0}
  BY LengthIs, TraceAssumption DEF Slot
<1> HIDE DEF a, l
<1>2. a # <<>>
  BY <1>1, <1>6
<1>3. /\ Front(a) \in Seq(S) /\ Len(Front(a)) = Len(a) - 1
      /\ \A i \in 1 .. Len(a) - 1 : Front(a)[i] = a[i]
  BY <1>1, <1>2, FrontIs
<1>4. \A i \in 1 .. l - 1 : i \in 1 .. l
  BY <1>6
<1>5. \A i \in 1 .. l - 1 : Front(a)[i] = q[At(s, i)]
  BY <1>1, <1>3, <1>4
<1> QED
  BY <1>1, <1>3, <1>5 DEF a, l

LEMMA FrontLength ==
  ASSUME NEW S, NEW q \in [Slot -> S], NEW s \in Slot, NEW n \in Slot
  PROVE  Len(Front(Items(q, s, n))) = Length(s, n) - 1
  BY FrontItems

LEMMA FrontItem ==
  ASSUME NEW S, NEW q \in [Slot -> S], NEW s \in Slot, NEW n \in Slot, NEW i \in 1 .. Length(s, n) - 1
  PROVE  Front(Items(q, s, n))[i] = q[At(s, i)]
  BY FrontItems, ZenonT(30)

\* In a full ring the new slot is that of the oldest entry.
LEMMA PretraceForgets ==
  ASSUME NEW S, NEW q \in [Slot -> S], NEW s \in Slot
  PROVE  /\ Len(Items(q, s, s)) = max_trace_entries
         /\ Front(Items(q, Wrap(s + 1), Wrap(s + 1))) = Tail(Items(q, s, s))
<1> DEFINE a == Items(q, s, s)
           w == Wrap(s + 1)
           b == Front(Items(q, w, w))
           m == max_trace_entries
<1>1. w \in Slot
  BY TraceAssumption DEF Wrap, Slot
<1>2. /\ Length(s, s) = m /\ Length(w, w) = m /\ m \in Nat \ {0}
      /\ \A i \in 1 .. m - 1 : At(w, i) = At(s, i + 1)
  BY FullMoves, TraceAssumption
<1>3. a \in Seq(S) /\ Len(a) = m /\ \A i \in 1 .. m : a[i] = q[At(s, i)]
  <2>1. /\ a \in Seq(S) /\ Len(a) = Length(s, s)
        /\ \A i \in 1 .. Length(s, s) : s \in Slot /\ a[i] = q[At(s, i)] /\ At(s, i) \in Slot
    BY ItemsAre, Zenon
  <2> QED
    BY <1>2, <2>1, Zenon
<1>4. b \in Seq(S) /\ Len(b) = m - 1 /\ \A i \in 1 .. m - 1 : b[i] = q[At(w, i)]
  <2> HIDE DEF w
  <2>1. /\ b \in Seq(S) /\ Len(b) = Length(w, w) - 1
        /\ \A i \in 1 .. Length(w, w) - 1 : b[i] = q[At(w, i)]
    BY <1>1, FrontItems, ZenonT(30)
  <2> QED
    BY <1>2, <2>1, Zenon
<1> HIDE DEF a, b, m
<1>5. Tail(a) \in Seq(S) /\ Len(Tail(a)) = m - 1 /\ \A i \in 1 .. m - 1 : Tail(a)[i] = a[i + 1]
  <2>1. a # <<>>
    BY <1>2, <1>3
  <2> QED
    BY <1>3, <2>1, TailIs
<1>6. ASSUME NEW i \in 1 .. m - 1 PROVE b[i] = Tail(a)[i]
  <2>1. i + 1 \in 1 .. m
    BY <1>2
  <2>2. a[i + 1] = q[At(s, i + 1)]
    BY <1>3, <2>1
  <2> QED
    BY <1>2, <1>4, <1>5, <2>2
<1>7. b = Tail(a)
  BY <1>4, <1>5, <1>6, SeqEqual
<1> QED
  BY <1>3, <1>7 DEF a, b, m

\* While there is room the entries stay, whether the ring was used or not.
LEMMA PretraceStays ==
  ASSUME NEW S, NEW q \in [Slot -> S], NEW s \in Slot \cup {-1}, NEW n \in Slot,
         NEW r \in Slot, NEW w \in Slot
  PROVE  /\ s \in Slot => r = s
         /\ Length(r, w) = Length(s, n) + 1
         => Front(Items(q, r, w)) = Items(q, s, n)
<1> DEFINE a == Items(q, s, n)
           b == Front(Items(q, r, w))
           l == Length(s, n)
<1>1. l \in Nat
  BY LengthIs
<1>2. /\ a \in Seq(S) /\ Len(a) = l
      /\ \A i \in 1 .. l : s \in Slot /\ a[i] = q[At(s, i)] /\ At(s, i) \in Slot
  BY ItemsAre, Zenon
<1>3. /\ b \in Seq(S) /\ Len(b) = Length(r, w) - 1
      /\ \A i \in 1 .. Length(r, w) - 1 : b[i] = q[At(r, i)]
  <2> HIDE DEF a, l
  <2>1. b \in Seq(S)
    BY FrontItems
  <2>3. Len(b) = Length(r, w) - 1
    BY FrontLength
  <2>2. ASSUME NEW i \in 1 .. Length(r, w) - 1 PROVE b[i] = q[At(r, i)]
    BY FrontItem
  <2> QED
    BY <2>1, <2>2, <2>3
<1> HIDE DEF a, b, l
<1> SUFFICES ASSUME s \in Slot => r = s, Length(r, w) = l + 1 PROVE b = a
  BY DEF a, b, l
<1>4. \A i \in 1 .. l : r = s
  BY <1>2
<1>5. Length(r, w) - 1 = l
  BY <1>1
<1>6. \A i \in 1 .. l : b[i] = a[i]
  BY <1>2, <1>3, <1>4, <1>5
<1>7. b = a
  BY <1>2, <1>3, <1>5, <1>6, SeqEqual
<1> QED
  BY <1>7

\* The entry goes to the end.
LEMMA FillFits ==
  ASSUME NEW S, NEW q \in [Slot -> S], NEW s \in Slot, NEW n \in Slot
  PROVE  Len(Front(Items(q, s, n))) < max_trace_entries
<1>1. s \in Slot \cup {-1} /\ s # -1
  BY DEF Slot
<1>2. Length(s, n) \in 0 .. max_trace_entries
  BY <1>1, LengthIs
<1>3. Len(Front(Items(q, s, n))) = Length(s, n) - 1
  BY FrontItems
<1> QED
  BY <1>2, <1>3, TraceAssumption

LEMMA FillAppends ==
  ASSUME NEW S, NEW q \in [Slot -> S], NEW s \in Slot, NEW n \in Slot,
         NEW p \in [Slot -> S]
  PROVE  (\A j \in Slot : j # Before(n) => p[j] = q[j])
         => Items(p, s, n) = Append(Front(Items(q, s, n)), p[Before(n)])
<1> DEFINE f == Front(Items(q, s, n))
           a == Items(p, s, n)
           l == Length(s, n)
<1>1. l \in Nat \ {0} /\ l <= max_trace_entries
  <2>1. s \in Slot \cup {-1} /\ s # -1
    BY DEF Slot
  <2>2. l \in 0 .. max_trace_entries /\ l # 0
    BY <2>1, LengthIs
  <2> QED
    BY <2>2, TraceAssumption
<1>3. /\ f \in Seq(S) /\ Len(f) = l - 1
      /\ \A i \in 1 .. l - 1 : f[i] = q[At(s, i)]
  <2>1. f \in Seq(S)
    BY FrontItems
  <2>2. Len(f) = l - 1
    BY FrontItems
  <2>3. ASSUME NEW i \in 1 .. l - 1 PROVE f[i] = q[At(s, i)]
    BY FrontItem
  <2> QED
    BY <2>1, <2>2, <2>3
<1>4. /\ a \in Seq(S) /\ Len(a) = l
      /\ \A i \in 1 .. l : s \in Slot /\ a[i] = p[At(s, i)] /\ At(s, i) \in Slot
  BY ItemsAre, Zenon
<1>5. At(s, l) = Before(n) /\ \A i \in 1 .. l - 1 : At(s, i) # Before(n)
  BY LastSlot
<1> HIDE DEF f, a, l
<1>2. Before(n) \in Slot
  BY TraceAssumption DEF Before, Slot
<1> SUFFICES ASSUME \A j \in Slot : j # Before(n) => p[j] = q[j]
             PROVE  a = Append(f, p[Before(n)])
  BY DEF a, f
<1> DEFINE e == p[Before(n)]
<1>6. e \in S /\ \A j \in Slot : p[j] = IF j = Before(n) THEN e ELSE q[j]
  BY <1>2, Zenon
<1> HIDE DEF e
<1>7. /\ Append(f, e) \in Seq(S) /\ Len(Append(f, e)) = l /\ Append(f, e)[l] = e
      /\ \A i \in 1 .. l - 1 : Append(f, e)[i] = f[i]
  BY <1>1, <1>3, <1>6
<1>8. ASSUME NEW i \in 1 .. l PROVE a[i] = Append(f, e)[i]
  <2>1. CASE i = l
    BY <1>4, <1>5, <1>6, <1>7, <2>1
  <2>2. CASE i # l
    <3>1. i \in 1 .. l - 1
      BY <1>1, <2>2
    <3> QED
      BY <1>3, <1>4, <1>5, <1>6, <1>7, <3>1
  <2> QED
    BY <2>1, <2>2
<1>9. a = Append(f, e)
  BY <1>4, <1>7, <1>8, SeqEqual
<1> QED
  BY <1>9 DEF e

\* Outside of Log_pretrace and Fill nothing happens to the entries.
LEMMA OthersStutter ==
  ASSUME NEW t \in Thread, OthersStay(t), UNCHANGED ring, pc[t] # "fill", pc'[t] # "fill"
  PROVE  UNCHANGED Last_entries!vars
<1>1. Filling' = Filling
  BY DEF Filling, OthersStay
<1>2. Recent' = Recent
  BY <1>1, RecentIs DEF ring
<1> QED
  BY <1>2 DEF Last_entries!vars, ring

LEMMA PretraceMaps ==
  ASSUME RingInv, LockInv, NEW t \in Thread, Log_pretrace(t)
  PROVE  [Last_entries!Next]_(Last_entries!vars)
<1> DEFINE E == Entry \cup {NoEntry}
<1>1. /\ pc[t] = "pretrace" /\ pc'[t] = "fill"
      /\ trace_queue # NULL /\ trace_queue' = trace_queue /\ \A u \in Thread : pc[u] # "fill"
  BY PretraceIs
<1>2. ~ Filling /\ Filling'
  BY <1>1 DEF Filling
<1>3. /\ Recent = Items(trace_queue, start_index, next_index)
      /\ Recent' = Front(Items(trace_queue, start_index', next_index'))
  BY <1>1, <1>2, RecentIs
<1>4. /\ trace_queue \in [Slot -> E] /\ next_index \in Slot /\ start_index \in Slot \cup {-1}
      /\ start_index = -1 => next_index = 0
  BY <1>1 DEF RingInv, Indexes
<1>5. /\ next_index' = Wrap(next_index + 1) /\ next_index' \in Slot
      /\ start_index' = CASE next_index = start_index -> Wrap(start_index + 1)
                          [] start_index = -1 -> 0
                          [] OTHER -> start_index
  <2>1. next_index' = Wrap(next_index + 1) /\ Wrap(next_index + 1) \in Slot
    BY <1>4, TraceAssumption DEF Log_pretrace, Wrap, Slot
  <2> QED
    BY <2>1 DEF Log_pretrace
<1> HIDE DEF E
<1>6. CASE next_index = start_index
  <2>1. start_index \in Slot /\ start_index' = next_index' /\ next_index' = Wrap(start_index + 1)
    BY <1>4, <1>5, <1>6
  <2>2. /\ Len(Items(trace_queue, start_index, start_index)) = max_trace_entries
        /\ Front(Items(trace_queue, Wrap(start_index + 1), Wrap(start_index + 1)))
             = Tail(Items(trace_queue, start_index, start_index))
    BY <1>4, <2>1, PretraceForgets
  <2>3. Len(Recent) = max_trace_entries /\ Recent' = Tail(Recent)
    BY <1>3, <1>6, <2>1, <2>2
  <2> QED
    BY <1>1, <2>3 DEF Last_entries!Next, Last_entries!Forget
<1>7. CASE next_index # start_index
  <2>1. /\ start_index' = IF start_index = -1 THEN 0 ELSE start_index
        /\ start_index' \in Slot /\ (start_index \in Slot => start_index' = start_index)
    <3>1. 0 \in Slot /\ -1 \notin Slot
      BY TraceAssumption DEF Slot
    <3> QED
      BY <1>4, <1>5, <1>7, <3>1
  <2>2. Length(start_index', next_index') = Length(start_index, next_index) + 1
    <3>1. CASE start_index = -1
      BY <1>4, <1>5, <2>1, <3>1, FirstMoves
    <3>2. CASE start_index # -1
      BY <1>4, <1>5, <1>7, <2>1, <3>2, RoomMoves
    <3> QED
      BY <3>1, <3>2
  <2>3. Recent' = Recent
    BY <1>3, <1>4, <1>5, <2>1, <2>2, PretraceStays
  <2> QED
    BY <1>1, <2>3 DEF Last_entries!vars
<1> QED
  BY <1>6, <1>7

LEMMA FillMaps ==
  ASSUME RingInv, LockInv, NEW t \in Thread, Fill(t)
  PROVE  [Last_entries!Next]_(Last_entries!vars)
<1> DEFINE E == Entry \cup {NoEntry}
           e == [thread |-> t, kind |-> call[t].kind, depth |-> call[t].depth]
<1>1. /\ pc[t] = "fill" /\ UNCHANGED <<start_index, next_index>>
      /\ trace_queue # NULL /\ start_index # -1 /\ e \in Entry
      /\ trace_queue' = [trace_queue EXCEPT ![Before(next_index)] = e]
      /\ \A u \in Thread : pc'[u] # "fill"
  BY FillIs
<1> HIDE DEF e
<1>2. Filling /\ ~ Filling'
  BY <1>1 DEF Filling
<1>3. trace_queue \in [Slot -> E] /\ next_index \in Slot /\ start_index \in Slot /\ e \in E
  BY <1>1 DEF RingInv, Indexes
<1>4. Before(next_index) \in Slot
  BY <1>3, TraceAssumption DEF Before, Slot
<1>5. /\ trace_queue' \in [Slot -> E] /\ trace_queue'[Before(next_index)] = e
      /\ \A j \in Slot : j # Before(next_index) => trace_queue'[j] = trace_queue[j]
  <2> HIDE DEF E
  <2> QED
    BY <1>1, <1>3, <1>4
<1>6. trace_queue' # NULL
  BY <1>5, RingAssumption
<1>7. /\ Recent = Front(Items(trace_queue, start_index, next_index))
      /\ Recent' = Items(trace_queue', start_index, next_index)
  BY <1>1, <1>2, <1>6, RecentIs
<1> HIDE DEF E
<1>8. Len(Recent) < max_trace_entries /\ Recent' = Append(Recent, e)
  <2> DEFINE q == trace_queue
             p == trace_queue'
  <2>1. /\ q \in [Slot -> E] /\ p \in [Slot -> E] /\ p[Before(next_index)] = e
        /\ \A j \in Slot : j # Before(next_index) => p[j] = q[j]
    BY <1>3, <1>5
  <2> HIDE DEF p, q
  <2>2. Len(Front(Items(q, start_index, next_index))) < max_trace_entries
    BY <1>3, <2>1, FillFits
  <2>3. Items(p, start_index, next_index)
          = Append(Front(Items(q, start_index, next_index)), p[Before(next_index)])
    <3>1. \A j \in Slot : j # Before(next_index) => p[j] = q[j]
      BY <2>1
    <3>2. p \in [Slot -> E] /\ q \in [Slot -> E] /\ start_index \in Slot /\ next_index \in Slot
      BY <1>3, <2>1
    <3> QED
      BY <3>1, <3>2, FillAppends, SMTT(20), ZenonT(30)
  <2> QED
    BY <1>7, <2>1, <2>2, <2>3 DEF p, q
<1>9. Last_entries!Add(e)
  BY <1>1, <1>6, <1>8 DEF Last_entries!Add
<1> QED
  BY <1>1, <1>9 DEF Last_entries!Next

LEMMA NextMaps ==
  RingInv /\ StackInv /\ LockInv /\ RingInv' /\ [Next]_vars => [Last_entries!Next]_(Last_entries!vars)
<1> SUFFICES ASSUME RingInv, StackInv, LockInv, RingInv', [Next]_vars
             PROVE  [Last_entries!Next]_(Last_entries!vars)
  OBVIOUS
<1>1. ASSUME NEW t \in Thread,
             \/ LockStack(t) \/ LockLog(t) \/ LockHeap(t) \/ SkipTrace(t)
             \/ FUNC_EXIT(t) \/ CallLog(t) \/ \E f \in Name : FUNC_ENTRY(t, f)
      PROVE  UNCHANGED Last_entries!vars
  <2>1. OthersStay(t) /\ UNCHANGED ring /\ pc[t] # "fill"
    <3>1. CASE LockStack(t) \/ LockLog(t) \/ LockHeap(t) \/ SkipTrace(t)
      BY <3>1 DEF LockStack, LockLog, LockHeap, Lock, SkipTrace, Go, OthersStay, LockInv, Fields
    <3>2. CASE FUNC_EXIT(t) \/ CallLog(t) \/ \E f \in Name : FUNC_ENTRY(t, f)
      BY <3>2 DEF FUNC_EXIT, CallLog, FUNC_ENTRY, Go, OthersStay, LockInv, Fields
    <3> QED
      BY <1>1, <3>1, <3>2
  <2>2. pc'[t] # "fill"
    <3>1. CASE LockStack(t) \/ LockLog(t) \/ LockHeap(t)
      BY <3>1 DEF LockStack, LockLog, LockHeap, Lock, Go, LockInv, Fields
    <3>2. CASE SkipTrace(t)
      <4>1. pc[t] = "log" /\ pc'[t] = call[t].then
        BY <3>2 DEF SkipTrace, Go, LockInv, Fields
      <4> QED
        BY <4>1, AtLog DEF Logging, LockInv, Returns, InLog, InStack
    <3>3. CASE FUNC_EXIT(t) \/ CallLog(t) \/ \E f \in Name : FUNC_ENTRY(t, f)
      BY <3>3 DEF FUNC_EXIT, CallLog, FUNC_ENTRY, Go, LockInv, Fields
    <3> QED
      BY <1>1, <3>1, <3>2, <3>3
  <2> QED
    BY <2>1, <2>2, OthersStutter
<1>2. ASSUME NEW t \in Thread, UnlockStack(t) \/ UnlockLog(t) \/ UnlockHeap(t)
      PROVE  UNCHANGED Last_entries!vars
  <2>1. PICK m, from, to : Unlock(t, m, from, to) /\ to \in {"idle", call[t].then}
                           /\ (to # "idle" => from = "unlock log") /\ from # "fill"
    BY <1>2 DEF UnlockStack, UnlockHeap, UnlockLog
  <2>2. /\ UNCHANGED ring /\ pc' = [pc EXCEPT ![t] = to] /\ pc[t] = from
        /\ call' = IF to = "idle" THEN [call EXCEPT ![t] = NoCall] ELSE call
    BY <2>1 DEF Unlock, Go, Return
  <2>3. OthersStay(t) /\ pc'[t] = to
    BY <2>2 DEF OthersStay, LockInv, Fields
  <2>4. to # "fill"
    BY <2>1, <2>2 DEF LockInv, Returns, InLog, InStack
  <2> QED
    BY <2>1, <2>2, <2>3, <2>4, OthersStutter
<1>3. ASSUME NEW t \in Thread,
             \/ StackTrace_entry(t) \/ Push(t) \/ StackTrace_exit(t) \/ Pop(t) \/ TraceExit(t)
      PROVE  UNCHANGED Last_entries!vars
  <2>1. UNCHANGED ring /\ pc[t] # "fill" /\ pc'[t] # "fill"
    BY <1>3 DEF StackTrace_entry, Push, StackTrace_exit, Pop, TraceExit, Go, LockInv, Fields
  <2>2. OthersStay(t)
    BY <1>3 DEF StackTrace_entry, Push, StackTrace_exit, Pop, TraceExit, LogNext, Go, OthersStay, LockInv, Fields
  <2> QED
    BY <2>1, <2>2, OthersStutter
<1>4. ASSUME NEW t \in Thread, Step(t) PROVE [Last_entries!Next]_(Last_entries!vars)
  BY <1>1, <1>2, <1>3, <1>4, PretraceMaps, FillMaps DEF Step
<1>5. CASE Log_initialize
  <2>1. /\ trace_queue = NULL /\ trace_queue' # NULL /\ start_index = -1 /\ start_index' = -1
        /\ next_index' = 0 /\ \A t \in Thread : pc[t] = "idle" /\ pc'[t] = "idle"
    <3>1. trace_queue' = [i \in Slot |-> NoEntry] /\ trace_queue' \in [Slot -> Entry \cup {NoEntry}]
      BY <1>5 DEF Log_initialize
    <3> QED
      BY <1>5, <3>1, RingAssumption DEF Log_initialize, Quiet, RingInv, Indexes
  <2>2. ~ Filling'
    BY <2>1 DEF Filling
  <2>3. Recent = <<>> /\ Recent' = Items(trace_queue', -1, 0)
    BY <2>1, <2>2, RecentIs
  <2>4. Items(trace_queue', -1, 0) = <<>>
    BY FirstMoves DEF Items
  <2> QED
    BY <2>1, <2>3, <2>4 DEF Last_entries!Next, Last_entries!Begin
<1>6. CASE Log_terminate
  <2>1. trace_queue' = NULL
    BY <1>6 DEF Log_terminate
  <2>2. Recent' = <<>>
    BY <2>1, RecentIs
  <2> QED
    BY <2>1, <2>2 DEF Last_entries!Next, Last_entries!End
<1>7. CASE UNCHANGED vars
  <2>1. Filling' = Filling /\ UNCHANGED ring
    BY <1>7 DEF Filling, vars, ring
  <2>2. Recent' = Recent
    BY <2>1, RecentIs DEF ring
  <2> QED
    BY <2>1, <2>2 DEF Last_entries!vars, ring
<1> QED
  BY <1>1, <1>4, <1>5, <1>6, <1>7 DEF Next

\* For a ring of any length and any number of threads: it holds the last
\* entries in the order they were made.  An entry leaves it only when it is
\* full, the oldest first, and Log_pretrace and the fill that follows are one
\* addition for the reader.
THEOREM TraceImplementsRecent == Spec => ImplementsRecent
<1>1. Init => Last_entries!Init
  <2> SUFFICES ASSUME Init PROVE Last_entries!Init
    OBVIOUS
  <2>1. trace_queue = NULL
    BY DEF Init
  <2>2. Recent = <<>>
    BY <2>1, RecentIs
  <2> QED
    BY <2>1, <2>2 DEF Last_entries!Init
<1>2. Spec => [](RingInv /\ StackInv /\ LockInv)
  BY InitRingInv, InitStackInv, NextStackInv, NextRingInv, TraceLockInvariant, PTL DEF Spec
<1>3. RingInv /\ StackInv /\ LockInv /\ RingInv' /\ [Next]_vars => [Last_entries!Next]_(Last_entries!vars)
  BY NextMaps
<1> QED
  BY <1>1, <1>2, <1>3, PTL DEF Spec, ImplementsRecent, Last_entries!Spec
=============================================================================
