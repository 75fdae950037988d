------------------------------- MODULE Trace -------------------------------
(***************************************************************************)
(* The trace of StackTrace.c and Log.c: what FUNC_ENTRY and FUNC_EXIT do   *)
(* in every function, by any number of threads.                            *)
(*                                                                         *)
(* StackTrace.c keeps a call stack for each thread in one table and one    *)
(* global pointer, my_thread, under stack_mutex; while it holds that, it   *)
(* calls Log.c, which adds an entry to a ring buffer under log_mutex.  Log *)
(* is also called by the program itself and by Heap.c, which then holds    *)
(* heap_mutex.  A call is a sequence of steps, one for each part between   *)
(* two locks or unlocks.                                                   *)
(***************************************************************************)
EXTENDS Integers, Sequences, FiniteSets, SequencesExt

CONSTANTS
  Thread,       \* the threads of the program
  Name,         \* the functions with FUNC_ENTRY and FUNC_EXIT
  MaxNest,      \* bound: how deep the program nests them
  MAX_STACK_DEPTH, MAX_THREADS,
  max_trace_entries,   \* of trace_settings; nothing changes it
  NULL

ASSUME TraceAssumption ==
  /\ NULL \notin Thread \cup Name
  /\ MAX_THREADS \in Nat \ {0} /\ max_trace_entries \in Nat \ {0}
  /\ MaxNest \in Nat /\ MAX_STACK_DEPTH \in Nat \ {0}
  /\ MaxNest <= MAX_STACK_DEPTH

VARIABLES
  mutex,        \* the holder of each mutex, or NULL
  threads,      \* the table of StackTrace.c, thread_count entries long
  my_thread,    \* the index in threads it points to, or 0 for NULL
  trace_queue,  \* the ring, or NULL
  start_index, next_index,
  pc,           \* for each thread where in its call it is
  call,         \* and its arguments and local variables
  inside        \* the functions each thread is in, as the program knows

vars == <<mutex, threads, my_thread, trace_queue, start_index, next_index, pc, call, inside>>
stack == <<threads, my_thread>>
ring  == <<trace_queue, start_index, next_index>>

Mutex == {"stack", "log", "heap"}
Slot  == 0 .. max_trace_entries - 1

\* An entry of the ring: messages 9, 10 and 11 are entry and exit.
Kind  == {"entry", "exit", "message", "too deep", "mismatch"}
Depth == -1 .. MAX_STACK_DEPTH
Entry == [thread : Thread, kind : Kind, depth : Depth]
NoEntry == [thread |-> NULL, kind |-> "none", depth |-> 0]

\* A null pointer is not a ring.
ASSUME RingAssumption == NULL \notin [Slot -> Entry \cup {NoEntry}]

ThreadEntry == [id : Thread, callstack : Seq(Name), current_depth : Depth]

\* then is where a call of Log or Log_stackTrace returns to.
PC == {"idle", "heap", "stack", "set", "push", "log", "pretrace", "fill",
       "unlock log", "unlock stack", "unlock heap", "pop", "trace exit"}
Op == {"none", "entry", "exit", "log", "heap"}
Call == [op : Op, name : Name \cup {NULL}, kind : Kind, depth : Depth,
         slot : Slot, then : PC]
NoCall == [op |-> "none", name |-> NULL, kind |-> "message", depth |-> 0,
           slot |-> 0, then |-> "idle"]

Init ==
  /\ mutex = [m \in Mutex |-> NULL]
  /\ threads = <<>> /\ my_thread = 0
  /\ trace_queue = NULL /\ start_index = -1 /\ next_index = 0
  /\ pc = [t \in Thread |-> "idle"]
  /\ call = [t \in Thread |-> NoCall]
  /\ inside = [t \in Thread |-> <<>>]

Go(t, from, to) == pc[t] = from /\ pc' = [pc EXCEPT ![t] = to]

-----------------------------------------------------------------------------
(***************************************************************************)
(* The program calls.                                                      *)
(***************************************************************************)

\* FUNC_ENTRY at the begin of function f.  Bound: MaxNest.
FUNC_ENTRY(t, f) ==
  /\ Len(inside[t]) < MaxNest
  /\ Go(t, "idle", "stack")
  /\ call' = [call EXCEPT ![t] = [NoCall EXCEPT !.op = "entry", !.name = f]]
  /\ inside' = [inside EXCEPT ![t] = Append(@, f)]
  /\ UNCHANGED <<mutex, stack, ring>>

\* FUNC_EXIT of the function the thread is in.
FUNC_EXIT(t) ==
  /\ inside[t] # <<>>
  /\ Go(t, "idle", "stack")
  /\ call' = [call EXCEPT ![t] = [NoCall EXCEPT !.op = "exit", !.name = Last(inside[t])]]
  /\ inside' = [inside EXCEPT ![t] = Front(@)]
  /\ UNCHANGED <<mutex, stack, ring>>

\* Log, from the program or from a function of Heap.c.
CallLog(t) ==
  \E op \in {"log", "heap"} :
    /\ Go(t, "idle", op)
    /\ call' = [call EXCEPT ![t] = [NoCall EXCEPT !.op = op,
                  !.then = IF op = "heap" THEN "unlock heap" ELSE "idle"]]
    /\ UNCHANGED <<mutex, stack, ring, inside>>

\* Log_initialize and Log_terminate, by the main thread while no other
\* thread traces: neither takes the mutex.
Quiet == \A t \in Thread : pc[t] = "idle"

Log_initialize ==
  /\ Quiet /\ trace_queue = NULL
  /\ trace_queue' = [i \in Slot |-> NoEntry]
  /\ UNCHANGED <<mutex, stack, start_index, next_index, pc, call, inside>>

\* Mutant: the indexes are not reset.
Log_terminateKeeps ==
  /\ Quiet
  /\ trace_queue' = NULL
  /\ UNCHANGED <<mutex, stack, start_index, next_index, pc, call, inside>>

Log_terminate ==
  /\ Quiet
  /\ trace_queue' = NULL /\ start_index' = -1 /\ next_index' = 0
  /\ UNCHANGED <<mutex, stack, pc, call, inside>>

-----------------------------------------------------------------------------
(***************************************************************************)
(* The mutexes.                                                            *)
(***************************************************************************)

Lock(t, m, from, to) ==
  /\ Go(t, from, to)
  /\ mutex[m] = NULL
  /\ mutex' = [mutex EXCEPT ![m] = t]
  /\ UNCHANGED <<stack, ring, call, inside>>

LockStack(t) == Lock(t, "stack", "stack", "set")
LockHeap(t)  == Lock(t, "heap", "heap", "log")

\* Log_stackTrace looks for the ring before it locks, Log after.
Unrecorded(t) == trace_queue = NULL /\ call[t].kind \in {"entry", "exit"}

LockLog(t) ==
  /\ ~ Unrecorded(t)
  /\ Lock(t, "log", "log", IF trace_queue = NULL THEN "unlock log" ELSE "pretrace")

SkipTrace(t) ==
  /\ Unrecorded(t)
  /\ Go(t, "log", call[t].then)
  /\ UNCHANGED <<mutex, stack, ring, call, inside>>

\* The local variables are gone when the call returns.
Return(t, to) == call' = IF to = "idle" THEN [call EXCEPT ![t] = NoCall] ELSE call

Unlock(t, m, from, to) ==
  /\ Go(t, from, to)
  /\ mutex' = [mutex EXCEPT ![m] = NULL]
  /\ Return(t, to)
  /\ UNCHANGED <<stack, ring, inside>>

\* Mutant: the early exit of StackTrace_exit forgets the mutex.
UnlockStackRegistered(t) ==
  /\ Go(t, "unlock stack", "idle")
  /\ mutex' = IF my_thread = 0 THEN mutex ELSE [mutex EXCEPT !["stack"] = NULL]
  /\ Return(t, "idle")
  /\ UNCHANGED <<stack, ring, inside>>

UnlockStack(t) == Unlock(t, "stack", "unlock stack", "idle")
UnlockHeap(t)  == Unlock(t, "heap", "unlock heap", "idle")
UnlockLog(t)   == Unlock(t, "log", "unlock log", call[t].then)

-----------------------------------------------------------------------------
(***************************************************************************)
(* StackTrace.c                                                            *)
(***************************************************************************)

Registered(t) == \E i \in DOMAIN threads : threads[i].id = t
IndexOf(t)    == CHOOSE i \in DOMAIN threads : threads[i].id = t

\* Mutant: a thread that is not in the table gets the entry used last.
setStackKeeps(t, create) ==
  /\ threads' = IF ~ Registered(t) /\ create /\ Len(threads) < MAX_THREADS
                THEN Append(threads, [id |-> t, callstack |-> <<>>, current_depth |-> 0])
                ELSE threads
  /\ my_thread' = IF Registered(t) THEN IndexOf(t) ELSE Len(threads')

\* my_thread is the entry of this thread, a new one if there is none yet and
\* the table has room, or NULL.
setStack(t, create) ==
  LET new == ~ Registered(t) /\ create /\ Len(threads) < MAX_THREADS IN
  /\ threads' = IF new THEN Append(threads, [id |-> t, callstack |-> <<>>, current_depth |-> 0])
                ELSE threads
  /\ my_thread' = CASE Registered(t) -> IndexOf(t)
                    [] new -> Len(threads) + 1
                    [] OTHER -> 0

\* The thread goes on with a log call and then to next.
LogNext(t, kind, depth, next) ==
  call' = [call EXCEPT ![t].kind = kind, ![t].depth = depth, ![t].then = next]

\* StackTrace_entry up to its call of Log_stackTrace.
StackTrace_entry(t) ==
  /\ call[t].op = "entry"
  /\ setStack(t, TRUE)
  /\ Go(t, "set", IF my_thread' = 0 THEN "unlock stack" ELSE "log")
  /\ IF my_thread' = 0 THEN UNCHANGED call
     ELSE LogNext(t, "entry", threads'[my_thread'].current_depth, "push")
  /\ UNCHANGED <<mutex, ring, inside>>

\* Slot d of a callstack is written; it may be one that was used before.
WriteName(s, d, f) == IF d <= Len(s) THEN [s EXCEPT ![d] = f] ELSE Append(s, f)

\* Mutant: the depth is raised before the name is written.
PushAbove(t) ==
  LET depth == threads[my_thread].current_depth + 1
      full  == depth >= MAX_STACK_DEPTH
  IN
  /\ Go(t, "push", IF full THEN "log" ELSE "unlock stack")
  /\ threads' = [threads EXCEPT ![my_thread].current_depth = depth,
                   ![my_thread].callstack = WriteName(@, depth + 1, call[t].name)]
  /\ IF full THEN LogNext(t, "too deep", depth, "unlock stack") ELSE UNCHANGED call
  /\ UNCHANGED <<mutex, my_thread, ring, inside>>

\* The rest of StackTrace_entry: the name goes onto the stack.
Push(t) ==
  LET depth == threads[my_thread].current_depth + 1
      full  == depth >= MAX_STACK_DEPTH
  IN
  /\ Go(t, "push", IF full THEN "log" ELSE "unlock stack")
  /\ threads' = [threads EXCEPT ![my_thread].current_depth = depth,
                   ![my_thread].callstack = WriteName(@, depth, call[t].name)]
  /\ IF full THEN LogNext(t, "too deep", depth, "unlock stack") ELSE UNCHANGED call
  /\ UNCHANGED <<mutex, my_thread, ring, inside>>

\* StackTrace_exit up to setStack.
StackTrace_exit(t) ==
  /\ call[t].op = "exit"
  /\ setStack(t, FALSE)
  /\ Go(t, "set", IF my_thread' = 0 THEN "unlock stack" ELSE "pop")
  /\ UNCHANGED <<mutex, ring, call, inside>>

\* The depth goes down; a negative one, or a name that is not that of this
\* function, is reported.
Pop(t) ==
  LET depth == threads[my_thread].current_depth - 1
      same  == depth >= 0 /\ threads[my_thread].callstack[depth + 1] = call[t].name
  IN
  /\ Go(t, "pop", IF same THEN "trace exit" ELSE "log")
  /\ threads' = [threads EXCEPT ![my_thread].current_depth = depth]
  /\ IF same THEN UNCHANGED call ELSE LogNext(t, "mismatch", depth, "trace exit")
  /\ UNCHANGED <<mutex, my_thread, ring, inside>>

\* The rest of StackTrace_exit.
TraceExit(t) ==
  /\ Go(t, "trace exit", "log")
  /\ LogNext(t, "exit", threads[my_thread].current_depth, "unlock stack")
  /\ UNCHANGED <<mutex, stack, ring, inside>>

-----------------------------------------------------------------------------
(***************************************************************************)
(* Log.c                                                                   *)
(***************************************************************************)

Wrap(i) == IF i = max_trace_entries THEN 0 ELSE i

\* Mutant: a full buffer is not noticed.
Log_pretraceForgets(t) ==
  /\ Go(t, "pretrace", "fill")
  /\ call' = [call EXCEPT ![t].slot = next_index]
  /\ start_index' = IF start_index = -1 THEN 0 ELSE start_index
  /\ next_index' = Wrap(next_index + 1)
  /\ UNCHANGED <<mutex, stack, trace_queue, inside>>

\* The slot of the new entry; in a full buffer it is that of the oldest.
Log_pretrace(t) ==
  /\ Go(t, "pretrace", "fill")
  /\ call' = [call EXCEPT ![t].slot = next_index]
  /\ start_index' = CASE next_index = start_index -> Wrap(start_index + 1)
                      [] start_index = -1 -> 0
                      [] OTHER -> start_index
  /\ next_index' = Wrap(next_index + 1)
  /\ UNCHANGED <<mutex, stack, trace_queue, inside>>

\* Log_trace and Log_stackTrace fill the entry.
Fill(t) ==
  /\ Go(t, "fill", "unlock log")
  /\ trace_queue' = [trace_queue EXCEPT ![call[t].slot] =
                       [thread |-> t, kind |-> call[t].kind, depth |-> call[t].depth]]
  /\ UNCHANGED <<mutex, stack, start_index, next_index, call, inside>>

-----------------------------------------------------------------------------

\* The steps of a call once it has begun.
Step(t) ==
  \/ LockStack(t) \/ LockLog(t) \/ LockHeap(t) \/ SkipTrace(t)
  \/ UnlockStack(t) \/ UnlockLog(t) \/ UnlockHeap(t)
  \/ StackTrace_entry(t) \/ Push(t) \/ StackTrace_exit(t) \/ Pop(t) \/ TraceExit(t)
  \/ Log_pretrace(t) \/ Fill(t)

Next ==
  \/ \E t \in Thread : Step(t) \/ FUNC_EXIT(t) \/ CallLog(t)
  \/ \E t \in Thread, f \in Name : FUNC_ENTRY(t, f)
  \/ Log_initialize \/ Log_terminate

Spec == Init /\ [][Next]_vars

-----------------------------------------------------------------------------
(***************************************************************************)
(* Correctness.                                                            *)
(***************************************************************************)

\* From setStack until it gives stack_mutex back, a thread works on its own
\* entry of the table or on none, although my_thread is one variable for all;
\* so what StackTrace_get and StackTrace_printStack would find without taking
\* the mutex, the stack of a thread that is not tracing, is that of the
\* functions it is in, and no exit ever misses its entry.
StackFollows ==
  /\ \A t \in Thread : mutex["stack"] = t /\ pc[t] # "set" /\ my_thread # 0 =>
       threads[my_thread].id = t
  /\ \A i \in DOMAIN threads :
       LET e == threads[i] IN
       pc[e.id] = "idle" => SubSeq(e.callstack, 1, e.current_depth) = inside[e.id]
  /\ \A t \in Thread : call[t].kind # "mismatch"

\* The entries that are complete, the oldest first.
Recent ==
  LET length == CASE start_index = -1 -> 0
                  [] start_index # -1 /\ start_index < next_index -> next_index - start_index
                  [] OTHER -> next_index - start_index + max_trace_entries
      all == [i \in 1 .. length |-> trace_queue[(start_index + i - 1) % max_trace_entries]]
  IN  IF trace_queue = NULL THEN <<>>
      ELSE IF \E t \in Thread : pc[t] = "fill" THEN Front(all) ELSE all

Last_entries == INSTANCE RecentTrace WITH
  on <- trace_queue # NULL, recent <- Recent, Capacity <- max_trace_entries

\* The ring holds the last entries in the order they were made: start_index
\* and next_index meet both when it is full and when it begins, and each of
\* the two wraps around by itself.
ImplementsRecent == Last_entries!Spec

Holds(t) == {m \in Mutex : mutex[m] = t}

\* What an operation holds outside of Log.c.
Needs(op) == {m \in Mutex : \/ m = "stack" /\ op \in {"entry", "exit"}
                            \/ m = "heap" /\ op = "heap"}

\* The mutexes are taken in one order, log_mutex last, by calls that hold
\* what they must and return with none: no threads ever wait for each other,
\* and none for itself.  Thread.c has no trace points in Thread_lock_mutex
\* for this reason: "recursion beckons".
LockOrder ==
  \A t \in Thread :
    /\ pc[t] \in {"idle", "stack", "heap"} => Holds(t) = {}
    /\ pc[t] = "log" => Holds(t) = Needs(call[t].op)
=============================================================================
