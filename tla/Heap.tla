-------------------------------- MODULE Heap --------------------------------
(***************************************************************************)
(* The heap tracker of Heap.c: threads call mymalloc, myfree, myrealloc,   *)
(* Heap_unlink, Heap_findItem and Heap_terminate, which keep a record of   *)
(* each block in a tree and two totals in a heap_info, all under           *)
(* heap_mutex.                                                             *)
(*                                                                         *)
(* A call is a sequence of steps: it takes the mutex, looks at the tree,   *)
(* changes tree and totals, calls the allocator of the C library, gives    *)
(* the mutex back and returns.  The tree is the ordered map that module    *)
(* Tree implements; the library's allocator is external and is a set of    *)
(* blocks.  free(NULL) only writes to the log and is left out.             *)
(***************************************************************************)
EXTENDS Integers, FiniteSets, FiniteSetsExt

CONSTANTS
  Thread,    \* the threads of the program
  Address,   \* the addresses of the blocks
  Request,   \* the sizes the program asks for
  Failures,  \* which calls of the C library may fail
  NULL

ASSUME HeapAssumption ==
  /\ NULL \notin Thread \cup Address \cup Nat
  /\ Request \subseteq Nat
  /\ Failures \subseteq {"malloc", "realloc"}

VARIABLES
  mutex,         \* the thread that holds heap_mutex, or NULL
  record,        \* the tree: for each address the size in its record, or NULL
  current_size,  \* the two fields of state
  max_size,
  block,         \* C library: for each address the size of its block, or NULL
  unlinked,      \* blocks taken out of the tree by Heap_unlink
  pc,            \* for each thread where in its call it is
  call,          \* for each thread the arguments and local variables
  reported       \* whether Heap_terminate has reported a leak

vars == <<mutex, record, current_size, max_size, block, unlinked, pc, call, reported>>
totals == <<current_size, max_size>>

Pointer == Address \cup {NULL}

\* op is the function, ptr its argument p, size the rounded size, s_size and
\* s_ptr the fields of the record in s, while it is outside the tree.
Op    == {"none", "malloc", "free", "unlink", "realloc", "find", "terminate"}
Call  == [op : Op, ptr : Pointer, size : Nat, s_size : Nat, s_ptr : Pointer]
NoCall == [op |-> "none", ptr |-> NULL, size |-> 0, s_size |-> 0, s_ptr |-> NULL]

PC == {"idle", "lock", "body", "add", "remove", "libc_free", "libc_realloc", "unlock"}

\* Sizes are multiples of four ints.
Heap_roundup(n) == IF n % 16 # 0 THEN n + 16 - (n % 16) ELSE n

\* What may remain when Heap_terminate is called, in bytes.
Slack == 20

Recorded == {a \in Address : record[a] # NULL}

Init ==
  /\ mutex = NULL
  /\ record = [a \in Address |-> NULL]
  /\ current_size = 0 /\ max_size = 0
  /\ block = [a \in Address |-> NULL]
  /\ unlinked = {}
  /\ pc = [t \in Thread |-> "idle"]
  /\ call = [t \in Thread |-> NoCall]
  /\ reported = FALSE

-----------------------------------------------------------------------------
(***************************************************************************)
(* Calling, taking the mutex, and returning.                               *)
(***************************************************************************)

Go(t, from, to) == pc[t] = from /\ pc' = [pc EXCEPT ![t] = to]

\* Mutant: the size is not rounded.
EnterUnrounded(t, op, p, n) ==
  /\ Go(t, "idle", "lock")
  /\ call' = [call EXCEPT ![t] = [NoCall EXCEPT !.op = op, !.ptr = p, !.size = n]]
  /\ UNCHANGED <<mutex, record, totals, block, unlinked, reported>>

\* A thread calls op; p is its pointer argument and n the size asked for.
Enter(t, op, p, n) ==
  /\ Go(t, "idle", "lock")
  /\ call' = [call EXCEPT ![t] = [NoCall EXCEPT !.op = op, !.ptr = p,
                                                !.size = Heap_roundup(n)]]
  /\ UNCHANGED <<mutex, record, totals, block, unlinked, reported>>

\* Bound: as many blocks are asked for as there are addresses.
Room ==
  Cardinality({a \in Address : block[a] # NULL})
    + Cardinality({t \in Thread : call[t].op = "malloc" /\ pc[t] \in {"lock", "body"}})
      < Cardinality(Address)

\* The program may pass any address, also one that was freed already.
Begin(t) ==
  \/ Room /\ \E n \in Request : Enter(t, "malloc", NULL, n)
  \/ \E p \in Address, op \in {"free", "unlink", "find"} : Enter(t, op, p, 0)
  \/ \E p \in Pointer, n \in Request : Enter(t, "realloc", p, n)

\* Thread_lock_mutex; heap_mutex is not recursive, so a thread that holds it
\* waits for itself.
Lock(t) ==
  /\ Go(t, "lock", "body")
  /\ mutex = NULL
  /\ mutex' = t
  /\ UNCHANGED <<record, totals, block, unlinked, call, reported>>

\* Thread_unlock_mutex and return.
Unlock(t) ==
  /\ Go(t, "unlock", "idle")
  /\ mutex' = NULL
  /\ call' = [call EXCEPT ![t] = NoCall]
  /\ UNCHANGED <<record, totals, block, unlinked, reported>>

\* The returns in the middle of mymalloc and myrealloc, which leave the
\* mutex locked.
ReturnNull(t, from) ==
  /\ Go(t, from, "idle")
  /\ call' = [call EXCEPT ![t] = NoCall]
  /\ UNCHANGED <<mutex, record, totals, block, unlinked, reported>>

-----------------------------------------------------------------------------
(***************************************************************************)
(* mymalloc                                                                *)
(***************************************************************************)

\* malloc for the record, for the file name or for the block has failed;
\* what was allocated before is freed again.
MallocFails(t) ==
  /\ call[t].op = "malloc" /\ "malloc" \in Failures
  /\ ReturnNull(t, "body")

\* The three calls of malloc succeed; the block is at a.
MallocGets(t, a) ==
  /\ call[t].op = "malloc"
  /\ block[a] = NULL
  /\ Go(t, "body", "add")
  /\ block' = [block EXCEPT ![a] = call[t].size]
  /\ call' = [call EXCEPT ![t].s_ptr = a, ![t].s_size = call[t].size]
  /\ UNCHANGED <<mutex, record, totals, unlinked, reported>>

\* TreeAdd, whose own malloc of a node is taken to succeed, and the totals.
\* The caller gets s->ptr, read behind the unlock from a record that only a
\* call with this very address would free; the model returns the address.
MallocRecords(t) ==
  LET s == call[t] IN
  /\ s.op = "malloc"
  /\ Go(t, "add", "unlock")
  /\ record' = [record EXCEPT ![s.s_ptr] = s.s_size]
  /\ current_size' = current_size + s.s_size
  /\ max_size' = IF current_size' > max_size THEN current_size' ELSE max_size
  /\ UNCHANGED <<mutex, block, unlinked, call, reported>>

-----------------------------------------------------------------------------
(***************************************************************************)
(* myfree, Heap_unlink and Heap_findItem                                   *)
(***************************************************************************)

\* TreeFind.  Heap_findItem ends here; that it goes on to read the node behind
\* the unlock is left out, and its result too.  A pointer without a record is
\* only written to the log.
FindRecord(t) ==
  LET found == record[call[t].ptr] # NULL IN
  /\ call[t].op \in {"free", "unlink", "find"}
  /\ Go(t, "body", IF found /\ call[t].op # "find" THEN "remove" ELSE "unlock")
  /\ UNCHANGED <<mutex, record, totals, block, unlinked, call, reported>>

\* Mutant: the record stays in the tree.
RemoveNothing(t) ==
  LET p == call[t].ptr IN
  /\ Go(t, "remove", IF call[t].op = "free" THEN "libc_free" ELSE "unlock")
  /\ current_size' = current_size - record[p]
  /\ unlinked' = IF call[t].op = "unlink" THEN unlinked \cup {p} ELSE unlinked
  /\ UNCHANGED <<mutex, record, max_size, block, call, reported>>

\* Mutant: the block is not given back to the C library.
RemoveRecordOnly(t) ==
  LET p == call[t].ptr IN
  /\ Go(t, "remove", "unlock")
  /\ current_size' = current_size - record[p]
  /\ record' = [record EXCEPT ![p] = NULL]
  /\ unlinked' = IF call[t].op = "unlink" THEN unlinked \cup {p} ELSE unlinked
  /\ UNCHANGED <<mutex, max_size, block, call, reported>>

\* The rest of Internal_heap_unlink: the record leaves the tree and is freed.
RemoveRecord(t) ==
  LET p == call[t].ptr IN
  /\ Go(t, "remove", IF call[t].op = "free" THEN "libc_free" ELSE "unlock")
  /\ current_size' = current_size - record[p]
  /\ record' = [record EXCEPT ![p] = NULL]
  /\ unlinked' = IF call[t].op = "unlink" THEN unlinked \cup {p} ELSE unlinked
  /\ UNCHANGED <<mutex, max_size, block, call, reported>>

\* free(((int*)p)-1)
FreeBlock(t) ==
  /\ Go(t, "libc_free", "unlock")
  /\ block' = [block EXCEPT ![call[t].ptr] = NULL]
  /\ UNCHANGED <<mutex, record, totals, unlinked, call, reported>>

-----------------------------------------------------------------------------
(***************************************************************************)
(* myrealloc                                                               *)
(***************************************************************************)

\* Mutant: an early return that forgets the mutex.
ReallocUnknownEarly(t) ==
  /\ call[t].op = "realloc"
  /\ call[t].ptr \notin Recorded
  /\ ReturnNull(t, "body")

\* TreeRemoveKey finds nothing: the call returns NULL after the unlock.  So
\* does a call with NULL, for which there is never a record.
ReallocUnknown(t) ==
  /\ call[t].op = "realloc"
  /\ call[t].ptr \notin Recorded
  /\ Go(t, "body", "unlock")
  /\ UNCHANGED <<mutex, record, totals, block, unlinked, call, reported>>

\* Mutant: the new size is added and the old one is not taken off.
ReallocTakesGrowing(t) ==
  LET p == call[t].ptr IN
  /\ call[t].op = "realloc"
  /\ p \in Recorded
  /\ Go(t, "body", "libc_realloc")
  /\ record' = [record EXCEPT ![p] = NULL]
  /\ call' = [call EXCEPT ![t].s_ptr = p, ![t].s_size = record[p]]
  /\ current_size' = current_size + call[t].size
  /\ max_size' = IF current_size' > max_size THEN current_size' ELSE max_size
  /\ UNCHANGED <<mutex, block, unlinked, reported>>

\* The record leaves the tree and the totals are those of the new size.
ReallocTakes(t) ==
  LET p == call[t].ptr IN
  /\ call[t].op = "realloc"
  /\ p \in Recorded
  /\ Go(t, "body", "libc_realloc")
  /\ record' = [record EXCEPT ![p] = NULL]
  /\ call' = [call EXCEPT ![t].s_ptr = p, ![t].s_size = record[p]]
  /\ current_size' = current_size + call[t].size - record[p]
  /\ max_size' = IF current_size' > max_size THEN current_size' ELSE max_size
  /\ UNCHANGED <<mutex, block, unlinked, reported>>

\* realloc fails and leaves the block as it is; its record is not put back.
ReallocFails(t) ==
  /\ "realloc" \in Failures
  /\ ReturnNull(t, "libc_realloc")

\* realloc leaves the block where it is or moves it to b.
ReallocGets(t, b) ==
  /\ block[b] = NULL \/ b = call[t].ptr
  /\ Go(t, "libc_realloc", "add")
  /\ block' = [block EXCEPT ![call[t].ptr] = NULL, ![b] = call[t].size]
  /\ call' = [call EXCEPT ![t].s_ptr = b]
  /\ UNCHANGED <<mutex, record, totals, unlinked, reported>>

\* Mutant: the record goes back under the old address.
ReallocRecordsOld(t) ==
  /\ call[t].op = "realloc"
  /\ Go(t, "add", "unlock")
  /\ record' = [record EXCEPT ![call[t].ptr] = call[t].size]
  /\ call' = [call EXCEPT ![t].s_size = call[t].size]
  /\ UNCHANGED <<mutex, totals, block, unlinked, reported>>

\* The record goes back into the tree, with the new address and size; the
\* realloc of its file name and TreeAdd's malloc are taken to succeed.
ReallocRecords(t) ==
  /\ call[t].op = "realloc"
  /\ Go(t, "add", "unlock")
  /\ record' = [record EXCEPT ![call[t].s_ptr] = call[t].size]
  /\ call' = [call EXCEPT ![t].s_size = call[t].size]
  /\ UNCHANGED <<mutex, totals, block, unlinked, reported>>

-----------------------------------------------------------------------------
(***************************************************************************)
(* Heap_terminate, which reads the total without the mutex, and HeapScan,  *)
(* which takes it to list the records.                                     *)
(***************************************************************************)

Heap_terminate(t) ==
  /\ Go(t, "idle", IF current_size > Slack THEN "lock" ELSE "idle")
  /\ reported' = (current_size > Slack)
  /\ call' = [call EXCEPT ![t] = IF current_size > Slack
                                 THEN [NoCall EXCEPT !.op = "terminate"] ELSE NoCall]
  /\ UNCHANGED <<mutex, record, totals, block, unlinked>>

HeapScan(t) ==
  /\ call[t].op = "terminate"
  /\ Go(t, "body", "unlock")
  /\ UNCHANGED <<mutex, record, totals, block, unlinked, call, reported>>

\* The program gives a block it has unlinked back to the C library itself.
FreeUnlinked(a) ==
  /\ a \in unlinked
  /\ block' = [block EXCEPT ![a] = NULL]
  /\ unlinked' = unlinked \ {a}
  /\ UNCHANGED <<mutex, record, totals, pc, call, reported>>

-----------------------------------------------------------------------------

\* The steps of a call once it has begun.
Step(t) ==
  \/ Lock(t) \/ Unlock(t)
  \/ MallocFails(t) \/ MallocRecords(t)
  \/ FindRecord(t) \/ RemoveRecord(t) \/ FreeBlock(t)
  \/ ReallocUnknown(t) \/ ReallocTakes(t) \/ ReallocFails(t) \/ ReallocRecords(t)
  \/ HeapScan(t)
  \/ \E a \in Address : MallocGets(t, a) \/ ReallocGets(t, a)

Next ==
  \/ \E t \in Thread : Begin(t) \/ Heap_terminate(t) \/ Step(t)
  \/ \E a \in Address : FreeUnlinked(a)

Spec == Init /\ [][Next]_vars

\* A thread that can go on does so, and is not passed over forever by the
\* others at the mutex.
FairSpec == Spec /\ \A t \in Thread : WF_vars(Step(t)) /\ SF_vars(Lock(t))

-----------------------------------------------------------------------------
(***************************************************************************)
(* Correctness.                                                            *)
(***************************************************************************)

\* Every variable has a value of its kind.
TypeInv ==
  /\ mutex \in Thread \cup {NULL}
  /\ record \in [Address -> Nat \cup {NULL}]
  /\ current_size \in Int /\ max_size \in Nat
  /\ block \in [Address -> Nat \cup {NULL}]
  /\ unlinked \subseteq Address
  /\ pc \in [Thread -> PC]
  /\ call \in [Thread -> Call]
  /\ reported \in BOOLEAN

Inside(t) == pc[t] \notin {"idle", "lock"}

\* Only the thread that holds heap_mutex is between lock and unlock: the
\* tree and the totals are never changed by two threads at once.
OneInside == \A t \in Thread : Inside(t) => mutex = t

\* Every record in the tree describes a block the C library has handed out
\* and not taken back, with its size, and no unlinked block has a record:
\* HeapScan and checkEyecatchers read the memory the records point to.
RecordsLive ==
  /\ \A a \in Recorded : block[a] = record[a]
  /\ \A a \in unlinked : a \notin Recorded /\ block[a] # NULL

\* A pointer that is about to be given to the C library's free or realloc is
\* that of a block in use which no record describes any more, whatever
\* pointers the threads pass and however often: nothing is freed twice.
FreedOnce ==
  \A t \in Thread : pc[t] \in {"libc_free", "libc_realloc"} =>
    /\ block[call[t].ptr] # NULL
    /\ call[t].ptr \notin Recorded \cup unlinked

\* What a call in each phase knows about its local variables: the block it
\* works on has a record exactly until it takes it out and from when it puts
\* it back, and nobody else has changed that since it looked.
LocalsValid ==
  \A t \in Thread :
    /\ call[t].op \in {"free", "unlink", "find"} => call[t].ptr \in Address
    /\ pc[t] = "remove" => call[t].ptr \in Recorded
    /\ pc[t] \in {"libc_free", "libc_realloc"} => call[t].ptr \in Address
    /\ pc[t] = "libc_realloc" => call[t].op = "realloc"
    /\ pc[t] = "add" =>
         /\ call[t].s_ptr \in Address \ (Recorded \cup unlinked)
         /\ block[call[t].s_ptr] = call[t].size
         /\ call[t].op = "malloc" => call[t].s_size = call[t].size

\* Whenever the mutex is free, current_size is the sum over the records and
\* max_size has been at least as high: myrealloc changes the total before it
\* knows the new block and puts the record back two calls later.  No sequence
\* of calls takes more off current_size, a size_t, than it holds.
TotalsAgree ==
  /\ current_size >= 0
  /\ mutex = NULL =>
    /\ current_size = MapThenSumSet(LAMBDA a : record[a], Recorded)
    /\ max_size >= current_size

\* The block a call has got or taken out of the tree, not yet in it again.
InHand(a) ==
  \E t \in Thread :
    \/ pc[t] = "add" /\ call[t].s_ptr = a
    \/ pc[t] \in {"libc_free", "libc_realloc"} /\ call[t].ptr = a

\* A call has returned after a failed allocation and left the mutex locked.
Abandoned == \E t \in Thread : mutex = t /\ pc[t] \in {"idle", "lock"}

\* No block is lost: each one in use has a record, was unlinked on purpose or
\* is in the hands of a call under way, so that "we can check that all
\* memory is freed at shutdown".  Only a failed realloc, which also leaves
\* the mutex locked, may lose one.
AllBlocksKnown ==
  ~ Abandoned =>
    \A a \in Address : block[a] # NULL => a \in Recorded \cup unlinked \/ InHand(a)

\* The size the program may count on at a: that of the record or, while
\* myrealloc has taken it out, that of the record in its hands.
Size(a) ==
  LET holders == {t \in Thread : /\ call[t].op = "realloc" /\ call[t].ptr = a
                                 /\ pc[t] \in {"libc_realloc", "add"}}
  IN  IF a \in Recorded THEN record[a]
      ELSE IF holders # {} THEN call[CHOOSE t \in holders : TRUE].s_size ELSE NULL

Table == INSTANCE AllocationTable WITH
           table <- [a \in Address |-> Size(a)], Round <- Heap_roundup

\* Seen through the table, every call is one step: a block appears, goes or
\* is exchanged at one moment of the call that asked for it.
ImplementsTable == Table!Spec

\* While memory lasts every call returns, although the threads compete for
\* heap_mutex: only the returns after a failed allocation leave it locked
\* behind them.
CallsReturnWithMemory ==
  /\ \A t \in Thread : pc[t] # "idle" ~> pc[t] = "idle" \/ Abandoned
  /\ [][Abandoned' => Abandoned \/ \E t \in Thread : MallocFails(t) \/ ReallocFails(t)]_vars

\* Every call returns, as the comment that malloc and free "will behave in
\* exactly the same way as normal" says, whatever fails.
CallsReturn == \A t \in Thread : pc[t] # "idle" ~> pc[t] = "idle"
=============================================================================
