----------------------------- MODULE HeapProofs -----------------------------
(***************************************************************************)
(* Proofs about Heap for every set of threads, addresses and sizes, and    *)
(* for every choice of the library calls that may fail.                    *)
(*                                                                         *)
(* RecordsLive and FreedOnce are not inductive by themselves: that the     *)
(* block of a call under way is still what it was when the call looked     *)
(* follows from OneInside, and what it was is LocalsValid.                 *)
(*                                                                         *)
(* From there, with what each call was asked for added (KInv): no block is *)
(* lost, the tracker implements the table that Heap.h promises, and its    *)
(* totals agree with its records.                                          *)
(***************************************************************************)
EXTENDS Heap, FiniteSetTheorems, TLAPS

IInv == TypeInv /\ OneInside /\ RecordsLive /\ FreedOnce /\ LocalsValid

\* The size a block gets is a natural number.
LEMMA RoundupNat == \A n \in Nat : Heap_roundup(n) \in Nat
  BY SMT DEF Heap_roundup

\* The invariant holds before the first call.
LEMMA InitIInv == Init => IInv
<1> SUFFICES ASSUME Init PROVE IInv
  OBVIOUS
<1>1. NoCall \in Call
  BY DEF NoCall, Call, Op, Pointer
<1>2. TypeInv
  <2>1. record \in [Address -> Nat \cup {NULL}] /\ block \in [Address -> Nat \cup {NULL}]
    BY DEF Init
  <2>2. pc \in [Thread -> PC] /\ call \in [Thread -> Call]
    BY <1>1 DEF Init, PC
  <2>3. current_size \in Int /\ max_size \in Nat
    BY DEF Init
  <2> QED
    BY <2>1, <2>2, <2>3 DEF Init, TypeInv
<1>3. OneInside /\ FreedOnce
  BY DEF Init, OneInside, Inside, FreedOnce
<1>4. Recorded = {} /\ unlinked = {}
  BY HeapAssumption DEF Init, Recorded
<1>5. RecordsLive
  BY <1>4 DEF RecordsLive
<1>6. LocalsValid
  BY DEF Init, LocalsValid, NoCall
<1> QED
  BY <1>2, <1>3, <1>5, <1>6 DEF IInv

\* FreedOnce and LocalsValid, for one thread.
Mine(t) ==
  /\ pc[t] \in {"libc_free", "libc_realloc"} =>
       block[call[t].ptr] # NULL /\ call[t].ptr \notin Recorded \cup unlinked
  /\ call[t].op \in {"free", "unlink", "find"} => call[t].ptr \in Address
  /\ pc[t] = "remove" => call[t].ptr \in Recorded
  /\ pc[t] \in {"libc_free", "libc_realloc"} => call[t].ptr \in Address
  /\ pc[t] = "libc_realloc" => call[t].op = "realloc"
  /\ pc[t] = "add" =>
       /\ call[t].s_ptr \in Address \ (Recorded \cup unlinked)
       /\ block[call[t].s_ptr] = call[t].size
       /\ call[t].op = "malloc" => call[t].s_size = call[t].size

LEMMA MineAll == FreedOnce /\ LocalsValid <=> \A t \in Thread : Mine(t)
  BY DEF FreedOnce, LocalsValid, Mine

\* A step of a thread that is inside cannot disturb what the others know,
\* for they are outside; nor can a step that leaves the blocks alone.
LEMMA OthersKept ==
  ASSUME IInv, NEW t \in Thread,
         \A u \in Thread \ {t} : pc'[u] = pc[u] /\ call'[u] = call[u],
         Inside(t) \/ UNCHANGED <<record, block, unlinked>>,
         Mine(t)'
  PROVE  FreedOnce' /\ LocalsValid'
<1>1. ASSUME NEW u \in Thread PROVE Mine(u)'
  <2>1. CASE u = t
    BY <2>1
  <2>2. CASE u # t /\ Inside(t)
    <3>1. ~ Inside(u)
      BY <2>2 DEF IInv, OneInside
    <3>2. Mine(u)
      BY MineAll DEF IInv
    <3> QED
      BY <2>2, <3>1, <3>2 DEF Mine, Inside
  <2>3. CASE u # t /\ UNCHANGED <<record, block, unlinked>>
    <3>1. Mine(u)
      BY MineAll DEF IInv
    <3>2. Recorded' = Recorded
      BY <2>3 DEF Recorded
    <3> QED
      BY <2>3, <3>1, <3>2 DEF Mine
  <2> QED
    BY <2>1, <2>2, <2>3
<1> QED
  BY <1>1 DEF FreedOnce, LocalsValid, Mine

\* What the program counters are after a step of t.
LEMMA Moves ==
  ASSUME TypeInv, NEW t \in Thread, NEW from, NEW to \in PC, Go(t, from, to)
  PROVE  /\ pc[t] = from /\ pc'[t] = to
         /\ pc' \in [Thread -> PC]
         /\ \A u \in Thread \ {t} : pc'[u] = pc[u]
  BY DEF Go, TypeInv

\* A step of a thread that has the mutex, or of one that stays outside, only
\* has to keep the types, the records and what the thread itself knows.
LEMMA StepKeeps ==
  ASSUME IInv, NEW t \in Thread, NEW from, NEW to \in PC, Go(t, from, to),
         \/ Inside(t)
         \/ ~ Inside(t)' /\ UNCHANGED <<record, block, unlinked>>,
         mutex' = mutex,
         \A u \in Thread \ {t} : call'[u] = call[u],
         TypeInv', RecordsLive', Mine(t)'
  PROVE  IInv'
<1>1. \A u \in Thread \ {t} : pc'[u] = pc[u]
  BY Moves DEF IInv
<1>2. OneInside'
  BY <1>1 DEF IInv, OneInside, Inside
<1>3. FreedOnce' /\ LocalsValid'
  BY <1>1, OthersKept
<1> QED
  BY <1>2, <1>3 DEF IInv

-----------------------------------------------------------------------------
(***************************************************************************)
(* One lemma for each action.                                              *)
(***************************************************************************)

\* The mutex is free, so nobody is inside.
LEMMA LockKeeps == ASSUME IInv, NEW t \in Thread, Lock(t) PROVE IInv'
<1>1. /\ pc[t] = "lock" /\ pc'[t] = "body" /\ pc' \in [Thread -> PC]
      /\ \A u \in Thread \ {t} : pc'[u] = pc[u]
  BY Moves DEF Lock, IInv, PC
<1>2. UNCHANGED <<record, current_size, max_size, block, unlinked, call, reported>>
  BY DEF Lock, totals
<1>3. TypeInv'
  BY <1>1, <1>2 DEF Lock, IInv, TypeInv
<1>4. OneInside'
  BY <1>1, HeapAssumption DEF Lock, IInv, OneInside, Inside
<1>5. RecordsLive'
  BY <1>2 DEF IInv, RecordsLive, Recorded
<1>6. Mine(t)'
  <2>1. Mine(t)
    BY MineAll DEF IInv
  <2> QED
    BY <1>1, <1>2, <2>1 DEF Mine
<1>7. FreedOnce' /\ LocalsValid'
  BY <1>1, <1>2, <1>6, OthersKept
<1> QED
  BY <1>3, <1>4, <1>5, <1>7 DEF IInv

\* The thread goes outside and nobody has the mutex.
LEMMA UnlockKeeps == ASSUME IInv, NEW t \in Thread, Unlock(t) PROVE IInv'
<1>1. /\ pc[t] = "unlock" /\ pc'[t] = "idle" /\ pc' \in [Thread -> PC]
      /\ \A u \in Thread \ {t} : pc'[u] = pc[u]
  BY Moves DEF Unlock, IInv, PC
<1>2. UNCHANGED <<record, current_size, max_size, block, unlinked, reported>>
  BY DEF Unlock, totals
<1>3. /\ call' \in [Thread -> Call] /\ call'[t] = NoCall
      /\ \A u \in Thread \ {t} : call'[u] = call[u]
  <2>1. NoCall \in Call
    BY DEF NoCall, Call, Op, Pointer
  <2> QED
    BY <2>1 DEF Unlock, IInv, TypeInv
<1>4. TypeInv'
  BY <1>1, <1>2, <1>3 DEF Unlock, IInv, TypeInv
<1>5. OneInside'
  BY <1>1 DEF IInv, OneInside, Inside
<1>6. RecordsLive'
  BY <1>2 DEF IInv, RecordsLive, Recorded
<1>7. Mine(t)'
  BY <1>1, <1>3 DEF Mine, NoCall
<1>8. FreedOnce' /\ LocalsValid'
  BY <1>1, <1>2, <1>3, <1>7, OthersKept
<1> QED
  BY <1>4, <1>5, <1>6, <1>8 DEF IInv

\* A call begins outside with valid arguments.
LEMMA EnterKeeps ==
  ASSUME IInv, NEW t \in Thread, NEW op \in Op, NEW p \in Pointer, NEW n \in Nat,
         op \in {"free", "unlink", "find"} => p \in Address,
         Enter(t, op, p, n)
  PROVE  IInv'
<1> DEFINE c == [NoCall EXCEPT !.op = op, !.ptr = p, !.size = Heap_roundup(n)]
<1>1. c \in Call /\ c.op = op /\ c.ptr = p
  BY RoundupNat DEF NoCall, Call, Pointer
<1>2. /\ pc[t] = "idle" /\ pc'[t] = "lock" /\ pc' \in [Thread -> PC]
  BY Moves DEF Enter, IInv, PC
<1>3. UNCHANGED <<mutex, record, current_size, max_size, block, unlinked, reported>>
  BY DEF Enter, totals
<1>4. /\ call' \in [Thread -> Call] /\ call'[t] = c
      /\ \A u \in Thread \ {t} : call'[u] = call[u]
  BY <1>1 DEF Enter, IInv, TypeInv
<1>5. TypeInv'
  BY <1>2, <1>3, <1>4 DEF IInv, TypeInv
<1>6. RecordsLive'
  BY <1>3 DEF IInv, RecordsLive, Recorded
<1>7. Mine(t)'
  BY <1>1, <1>2, <1>4 DEF Mine
<1> QED
  BY <1>2, <1>3, <1>4, <1>5, <1>6, <1>7, StepKeeps DEF Enter, Inside, PC

LEMMA BeginKeeps == ASSUME IInv, NEW t \in Thread, Begin(t) PROVE IInv'
<1>1. CASE \E n \in Request : Enter(t, "malloc", NULL, n)
  BY <1>1, EnterKeeps, HeapAssumption DEF Op, Pointer
<1>2. CASE \E p \in Address, op \in {"free", "unlink", "find"} : Enter(t, op, p, 0)
  BY <1>2, EnterKeeps DEF Op, Pointer
<1>3. CASE \E p \in Pointer, n \in Request : Enter(t, "realloc", p, n)
  BY <1>3, EnterKeeps, HeapAssumption DEF Op
<1> QED
  BY <1>1, <1>2, <1>3 DEF Begin

\* An early return leaves the mutex with a thread that is no longer inside.
LEMMA ReturnNullKeeps ==
  ASSUME IInv, NEW t \in Thread, NEW from \in PC \ {"idle", "lock"}, ReturnNull(t, from)
  PROVE  IInv'
<1>1. pc[t] = from /\ pc'[t] = "idle" /\ pc' \in [Thread -> PC]
  BY Moves DEF ReturnNull, IInv, PC
<1>2. UNCHANGED <<mutex, record, current_size, max_size, block, unlinked, reported>>
  BY DEF ReturnNull, totals
<1>3. /\ call' \in [Thread -> Call] /\ call'[t] = NoCall
      /\ \A u \in Thread \ {t} : call'[u] = call[u]
  <2>1. NoCall \in Call
    BY DEF NoCall, Call, Op, Pointer
  <2> QED
    BY <2>1 DEF ReturnNull, IInv, TypeInv
<1>4. TypeInv'
  BY <1>1, <1>2, <1>3 DEF IInv, TypeInv
<1>5. RecordsLive'
  BY <1>2 DEF IInv, RecordsLive, Recorded
<1>6. Mine(t)'
  BY <1>1, <1>3 DEF Mine, NoCall
<1> QED
  BY <1>1, <1>2, <1>3, <1>4, <1>5, <1>6, StepKeeps DEF ReturnNull, Inside, PC

\* The steps that only look: to a phase that needs no more than what the
\* thread has just seen.
LEMMA LookKeeps ==
  ASSUME IInv, NEW t \in Thread, NEW to \in {"remove", "unlock"}, Go(t, "body", to),
         to = "remove" => call[t].ptr \in Recorded,
         UNCHANGED <<mutex, record, totals, block, unlinked, call, reported>>
  PROVE  IInv'
<1>1. pc[t] = "body" /\ pc'[t] = to /\ pc' \in [Thread -> PC]
  BY Moves DEF IInv, PC
<1>2. UNCHANGED <<mutex, record, current_size, max_size, block, unlinked, call, reported>>
  BY DEF totals
<1>3. TypeInv'
  BY <1>1, <1>2 DEF IInv, TypeInv
<1>4. RecordsLive'
  BY <1>2 DEF IInv, RecordsLive, Recorded
<1>5. Mine(t)'
  <2>1. Mine(t)
    BY MineAll DEF IInv
  <2> QED
    BY <1>1, <1>2, <2>1 DEF Mine, Recorded
<1> QED
  BY <1>1, <1>2, <1>3, <1>4, <1>5, StepKeeps DEF Inside, PC

LEMMA FindRecordKeeps == ASSUME IInv, NEW t \in Thread, FindRecord(t) PROVE IInv'
<1>1. call[t].ptr \in Address
  BY DEF FindRecord, IInv, LocalsValid
<1> QED
  BY <1>1, LookKeeps DEF FindRecord, Recorded

\* Heap_terminate stays outside.
LEMMA TerminateKeeps == ASSUME IInv, NEW t \in Thread, Heap_terminate(t) PROVE IInv'
<1> DEFINE to == IF current_size > Slack THEN "lock" ELSE "idle"
<1> DEFINE c  == IF current_size > Slack THEN [NoCall EXCEPT !.op = "terminate"] ELSE NoCall
<1>1. c \in Call /\ c.op \notin {"free", "unlink", "find"}
  BY DEF NoCall, Call, Op, Pointer
<1>2. to \in PC /\ to \in {"idle", "lock"} /\ Go(t, "idle", to)
  BY DEF Heap_terminate, PC
<1>3. pc[t] = "idle" /\ pc'[t] = to /\ pc' \in [Thread -> PC]
  BY <1>2, Moves DEF IInv
<1>4. UNCHANGED <<mutex, record, current_size, max_size, block, unlinked>>
  BY DEF Heap_terminate, totals
<1>5. /\ call' \in [Thread -> Call] /\ call'[t] = c
      /\ \A u \in Thread \ {t} : call'[u] = call[u]
  BY <1>1 DEF Heap_terminate, IInv, TypeInv
<1>6. TypeInv'
  BY <1>3, <1>4, <1>5 DEF Heap_terminate, IInv, TypeInv
<1>7. RecordsLive'
  BY <1>4 DEF IInv, RecordsLive, Recorded
<1>8. Mine(t)'
  BY <1>1, <1>2, <1>3, <1>5 DEF Mine
<1> QED
  BY <1>2, <1>3, <1>4, <1>5, <1>6, <1>7, <1>8, StepKeeps DEF Inside

\* mymalloc gets a block that has no record and is not unlinked.
LEMMA MallocGetsKeeps ==
  ASSUME IInv, NEW t \in Thread, NEW a \in Address, MallocGets(t, a) PROVE IInv'
<1>1. /\ pc[t] = "body" /\ pc'[t] = "add" /\ pc' \in [Thread -> PC]
      /\ Go(t, "body", "add") /\ "add" \in PC
  BY Moves DEF MallocGets, IInv, PC
<1>2. UNCHANGED <<mutex, record, current_size, max_size, unlinked, reported>>
  BY DEF MallocGets, totals
<1>3. /\ call' \in [Thread -> Call]
      /\ call'[t] = [call[t] EXCEPT !.s_ptr = a, !.s_size = call[t].size]
      /\ \A u \in Thread \ {t} : call'[u] = call[u]
  <2>1. call[t] \in Call /\ call[t].size \in Nat
    BY DEF IInv, TypeInv, Call
  <2>2. [call[t] EXCEPT !.s_ptr = a, !.s_size = call[t].size] \in Call
    BY <2>1 DEF Call, Pointer
  <2> QED
    BY <2>2 DEF MallocGets, IInv, TypeInv
<1>4. call[t] \in Call
  BY DEF IInv, TypeInv
<1>5. /\ call'[t].s_ptr = a /\ call'[t].s_size = call[t].size
      /\ call'[t].size = call[t].size /\ call'[t].ptr = call[t].ptr
      /\ call'[t].op = call[t].op
  BY <1>3, <1>4 DEF Call
<1>6. /\ block' = [block EXCEPT ![a] = call[t].size] /\ block[a] = NULL
      /\ call[t].size \in Nat
  BY <1>4 DEF MallocGets, Call
<1>7. a \notin Recorded /\ a \notin unlinked
  BY <1>6 DEF IInv, RecordsLive, Recorded
<1>8. TypeInv'
  BY <1>1, <1>2, <1>3, <1>6 DEF IInv, TypeInv
<1>9. RecordsLive'
  BY <1>2, <1>6, <1>7, HeapAssumption DEF IInv, TypeInv, RecordsLive, Recorded
<1>10. Mine(t)'
  <2>1. Mine(t)
    BY MineAll DEF IInv
  <2> QED
    BY <1>1, <1>2, <1>5, <1>6, <1>7, <2>1 DEF IInv, TypeInv, Mine, Recorded
<1> QED
  BY <1>1, <1>2, <1>3, <1>8, <1>9, <1>10, StepKeeps DEF Inside

\* The block that gets its record is in use, with the size recorded.
LEMMA MallocRecordsKeeps ==
  ASSUME IInv, NEW t \in Thread, MallocRecords(t) PROVE IInv'
<1> DEFINE s == call[t]
<1>1. /\ pc[t] = "add" /\ pc'[t] = "unlock" /\ pc' \in [Thread -> PC]
      /\ Go(t, "add", "unlock") /\ "unlock" \in PC
  BY Moves DEF MallocRecords, IInv, PC
<1>2. UNCHANGED <<mutex, block, unlinked, call, reported>>
  BY DEF MallocRecords
<1>3. /\ s \in Call /\ s.op = "malloc" /\ s.s_size \in Nat
  BY DEF MallocRecords, IInv, TypeInv, Call
<1>4. /\ s.s_ptr \in Address \ (Recorded \cup unlinked)
      /\ block[s.s_ptr] = s.s_size
  BY <1>1, <1>3 DEF IInv, LocalsValid
<1>5. record' = [record EXCEPT ![s.s_ptr] = s.s_size]
  BY DEF MallocRecords
<1>6. current_size' \in Int /\ max_size' \in Nat
  <2>1. current_size' = current_size + s.s_size /\ current_size \in Int /\ max_size \in Nat
    BY DEF MallocRecords, IInv, TypeInv
  <2>2. max_size' = IF current_size' > max_size THEN current_size' ELSE max_size
    BY DEF MallocRecords
  <2> QED
    BY <1>3, <2>1, <2>2
<1>7. TypeInv'
  BY <1>1, <1>2, <1>3, <1>4, <1>5, <1>6 DEF IInv, TypeInv
<1>8. RecordsLive'
  BY <1>2, <1>4, <1>5 DEF IInv, TypeInv, RecordsLive, Recorded
<1>9. Mine(t)'
  <2>1. Mine(t)
    BY MineAll DEF IInv
  <2> QED
    BY <1>1, <1>2, <2>1 DEF Mine
<1> QED
  BY <1>1, <1>2, <1>7, <1>8, <1>9, StepKeeps DEF Inside

\* The record that leaves the tree is the one the thread has found.
LEMMA RemoveRecordKeeps ==
  ASSUME IInv, NEW t \in Thread, RemoveRecord(t) PROVE IInv'
<1> DEFINE p  == call[t].ptr
<1> DEFINE to == IF call[t].op = "free" THEN "libc_free" ELSE "unlock"
<1>1. /\ Go(t, "remove", to) /\ to \in PC
  BY DEF RemoveRecord, PC
<1>2. pc[t] = "remove" /\ pc'[t] = to /\ pc' \in [Thread -> PC]
  BY <1>1, Moves DEF IInv
<1>3. UNCHANGED <<mutex, max_size, block, call, reported>>
  BY DEF RemoveRecord
<1>4. p \in Recorded /\ p \in Address /\ record[p] # NULL /\ p \notin unlinked
  BY <1>2 DEF IInv, LocalsValid, RecordsLive, Recorded
<1>5. block[p] = record[p] /\ record[p] \in Nat
  BY <1>4 DEF IInv, TypeInv, RecordsLive
<1>6. /\ record' = [record EXCEPT ![p] = NULL]
      /\ current_size' = current_size - record[p]
      /\ unlinked' = IF call[t].op = "unlink" THEN unlinked \cup {p} ELSE unlinked
  BY DEF RemoveRecord
<1>7. TypeInv'
  <2>1. current_size' \in Int
    BY <1>5, <1>6 DEF IInv, TypeInv
  <2>2. record' \in [Address -> Nat \cup {NULL}] /\ unlinked' \subseteq Address
    BY <1>4, <1>6 DEF IInv, TypeInv
  <2> QED
    BY <1>2, <1>3, <2>1, <2>2 DEF IInv, TypeInv
<1>8. RecordsLive'
  BY <1>3, <1>4, <1>5, <1>6, HeapAssumption DEF IInv, TypeInv, RecordsLive, Recorded
<1>9. Mine(t)'
  <2>1. Mine(t)
    BY MineAll DEF IInv
  <2>2. p \notin Recorded'
    BY <1>4, <1>6 DEF IInv, TypeInv, Recorded
  <2>3. to = "libc_free" => p \notin unlinked'
    BY <1>4, <1>6
  <2>4. block[p] # NULL
    BY <1>4, <1>5
  <2> QED
    BY <1>2, <1>3, <1>4, <2>1, <2>2, <2>3, <2>4 DEF Mine
<1> QED
  BY <1>1, <1>2, <1>3, <1>7, <1>8, <1>9, StepKeeps DEF Inside

\* The block that goes back to the library has no record and is not unlinked.
LEMMA FreeBlockKeeps ==
  ASSUME IInv, NEW t \in Thread, FreeBlock(t) PROVE IInv'
<1> DEFINE p == call[t].ptr
<1>1. /\ pc[t] = "libc_free" /\ pc'[t] = "unlock" /\ pc' \in [Thread -> PC]
      /\ Go(t, "libc_free", "unlock") /\ "unlock" \in PC
  BY Moves DEF FreeBlock, IInv, PC
<1>2. UNCHANGED <<mutex, record, current_size, max_size, unlinked, call, reported>>
  BY DEF FreeBlock, totals
<1>3. p \in Address /\ p \notin Recorded /\ p \notin unlinked
  BY <1>1 DEF IInv, LocalsValid, FreedOnce
<1>4. block' = [block EXCEPT ![p] = NULL]
  BY DEF FreeBlock
<1>5. TypeInv'
  BY <1>1, <1>2, <1>3, <1>4 DEF IInv, TypeInv
<1>6. RecordsLive'
  BY <1>2, <1>3, <1>4 DEF IInv, TypeInv, RecordsLive, Recorded
<1>7. Mine(t)'
  <2>1. Mine(t)
    BY MineAll DEF IInv
  <2> QED
    BY <1>1, <1>2, <2>1 DEF Mine
<1> QED
  BY <1>1, <1>2, <1>5, <1>6, <1>7, StepKeeps DEF Inside

\* The record is taken out, and the block stays as it was.
LEMMA ReallocTakesKeeps ==
  ASSUME IInv, NEW t \in Thread, ReallocTakes(t) PROVE IInv'
<1> DEFINE p == call[t].ptr
<1>1. /\ pc[t] = "body" /\ pc'[t] = "libc_realloc" /\ pc' \in [Thread -> PC]
      /\ Go(t, "body", "libc_realloc") /\ "libc_realloc" \in PC
  BY Moves DEF ReallocTakes, IInv, PC
<1>2. UNCHANGED <<mutex, block, unlinked, reported>>
  BY DEF ReallocTakes
<1>3. p \in Recorded /\ p \in Address /\ record[p] # NULL /\ p \notin unlinked
  BY DEF ReallocTakes, IInv, RecordsLive, Recorded
<1>4. block[p] = record[p] /\ record[p] \in Nat
  BY <1>3 DEF IInv, TypeInv, RecordsLive
<1>5. call[t] \in Call /\ call[t].size \in Nat /\ call[t].op = "realloc"
  BY DEF ReallocTakes, IInv, TypeInv, Call
<1>6. /\ record' = [record EXCEPT ![p] = NULL]
      /\ current_size' = current_size + call[t].size - record[p]
      /\ max_size' = IF current_size' > max_size THEN current_size' ELSE max_size
  BY DEF ReallocTakes
<1>7. /\ call'[t] = [call[t] EXCEPT !.s_ptr = p, !.s_size = record[p]]
      /\ \A u \in Thread \ {t} : call'[u] = call[u]
      /\ call' \in [Thread -> Call]
  <2>1. [call[t] EXCEPT !.s_ptr = p, !.s_size = record[p]] \in Call
    BY <1>3, <1>4, <1>5 DEF Call, Pointer
  <2> QED
    BY <2>1 DEF ReallocTakes, IInv, TypeInv
<1>8. call'[t].ptr = p /\ call'[t].op = "realloc"
  BY <1>5, <1>7 DEF Call
<1>9. TypeInv'
  <2>1. current_size' \in Int /\ max_size' \in Nat
    <3>1. current_size \in Int /\ max_size \in Nat
      BY DEF IInv, TypeInv
    <3> QED
      BY <1>4, <1>5, <1>6, <3>1
  <2>2. record' \in [Address -> Nat \cup {NULL}]
    BY <1>3, <1>6 DEF IInv, TypeInv
  <2> QED
    BY <1>1, <1>2, <1>7, <2>1, <2>2 DEF IInv, TypeInv
<1>10. RecordsLive'
  BY <1>2, <1>3, <1>4, <1>6, HeapAssumption DEF IInv, TypeInv, RecordsLive, Recorded
<1>11. Mine(t)'
  <2>1. p \notin Recorded'
    BY <1>3, <1>6 DEF IInv, TypeInv, Recorded
  <2> QED
    BY <1>1, <1>2, <1>3, <1>4, <1>8, <2>1 DEF Mine
<1> QED
  BY <1>1, <1>2, <1>7, <1>9, <1>10, <1>11, StepKeeps DEF Inside

\* realloc gives back the same block or one that nobody knows of.
LEMMA ReallocGetsKeeps ==
  ASSUME IInv, NEW t \in Thread, NEW b \in Address, ReallocGets(t, b) PROVE IInv'
<1> DEFINE p == call[t].ptr
<1>1. /\ pc[t] = "libc_realloc" /\ pc'[t] = "add" /\ pc' \in [Thread -> PC]
      /\ Go(t, "libc_realloc", "add") /\ "add" \in PC
  BY Moves DEF ReallocGets, IInv, PC
<1>2. UNCHANGED <<mutex, record, current_size, max_size, unlinked, reported>>
  BY DEF ReallocGets, totals
<1>3. p \in Address /\ p \notin Recorded /\ p \notin unlinked
  BY <1>1 DEF IInv, LocalsValid, FreedOnce
<1>4. b \notin Recorded /\ b \notin unlinked
  BY <1>3 DEF ReallocGets, IInv, RecordsLive, Recorded
<1>5. call[t] \in Call /\ call[t].size \in Nat
  BY DEF IInv, TypeInv, Call
<1>6. block' = [block EXCEPT ![p] = NULL, ![b] = call[t].size]
  BY DEF ReallocGets
<1>7. /\ call'[t] = [call[t] EXCEPT !.s_ptr = b]
      /\ \A u \in Thread \ {t} : call'[u] = call[u]
      /\ call' \in [Thread -> Call]
  <2>1. [call[t] EXCEPT !.s_ptr = b] \in Call
    BY <1>5 DEF Call, Pointer
  <2> QED
    BY <2>1 DEF ReallocGets, IInv, TypeInv
<1>8. /\ call'[t].s_ptr = b /\ call'[t].ptr = p /\ call'[t].size = call[t].size
      /\ call'[t].op = call[t].op
  BY <1>5, <1>7 DEF Call
<1>9. call[t].op # "malloc"
  BY <1>1 DEF IInv, LocalsValid
<1>10. block' \in [Address -> Nat \cup {NULL}] /\ block'[b] = call[t].size
  BY <1>3, <1>5, <1>6 DEF IInv, TypeInv
<1>11. TypeInv'
  BY <1>1, <1>2, <1>7, <1>10 DEF IInv, TypeInv
<1>12. RecordsLive'
  BY <1>2, <1>3, <1>4, <1>6 DEF IInv, TypeInv, RecordsLive, Recorded
<1>13. Mine(t)'
  <2>1. Mine(t)
    BY MineAll DEF IInv
  <2> QED
    BY <1>1, <1>2, <1>4, <1>8, <1>9, <1>10, <2>1 DEF Mine, Recorded
<1> QED
  BY <1>1, <1>2, <1>7, <1>11, <1>12, <1>13, StepKeeps DEF Inside

\* The record goes back for a block in use that nobody else has.
LEMMA ReallocRecordsKeeps ==
  ASSUME IInv, NEW t \in Thread, ReallocRecords(t) PROVE IInv'
<1> DEFINE b == call[t].s_ptr
<1>1. /\ pc[t] = "add" /\ pc'[t] = "unlock" /\ pc' \in [Thread -> PC]
      /\ Go(t, "add", "unlock") /\ "unlock" \in PC
  BY Moves DEF ReallocRecords, IInv, PC
<1>2. UNCHANGED <<mutex, current_size, max_size, block, unlinked, reported>>
  BY DEF ReallocRecords, totals
<1>3. b \in Address /\ b \notin unlinked /\ block[b] = call[t].size
  BY <1>1 DEF IInv, LocalsValid
<1>4. call[t] \in Call /\ call[t].size \in Nat /\ call[t].op = "realloc"
  BY DEF ReallocRecords, IInv, TypeInv, Call
<1>5. record' = [record EXCEPT ![b] = call[t].size]
  BY DEF ReallocRecords
<1>6. /\ call'[t] = [call[t] EXCEPT !.s_size = call[t].size]
      /\ \A u \in Thread \ {t} : call'[u] = call[u]
      /\ call' \in [Thread -> Call]
  <2>1. [call[t] EXCEPT !.s_size = call[t].size] \in Call
    BY <1>4 DEF Call
  <2> QED
    BY <2>1 DEF ReallocRecords, IInv, TypeInv
<1>7. call'[t].op = "realloc"
  BY <1>4, <1>6 DEF Call
<1>8. TypeInv'
  BY <1>1, <1>2, <1>3, <1>4, <1>5, <1>6 DEF IInv, TypeInv
<1>9. RecordsLive'
  BY <1>2, <1>3, <1>5 DEF IInv, TypeInv, RecordsLive, Recorded
<1>10. Mine(t)'
  BY <1>1, <1>7 DEF Mine
<1> QED
  BY <1>1, <1>2, <1>6, <1>8, <1>9, <1>10, StepKeeps DEF Inside

\* The program may give back an unlinked block at any time, for no call has
\* it in its hands.
LEMMA FreeUnlinkedKeeps ==
  ASSUME IInv, NEW a \in Address, FreeUnlinked(a) PROVE IInv'
<1>1. UNCHANGED <<mutex, record, current_size, max_size, pc, call, reported>>
  BY DEF FreeUnlinked, totals
<1>2. a \in unlinked /\ block' = [block EXCEPT ![a] = NULL] /\ unlinked' = unlinked \ {a}
  BY DEF FreeUnlinked
<1>3. TypeInv'
  BY <1>1, <1>2 DEF IInv, TypeInv
<1>4. OneInside'
  BY <1>1 DEF IInv, OneInside, Inside
<1>5. RecordsLive'
  BY <1>1, <1>2 DEF IInv, TypeInv, RecordsLive, Recorded
<1>6. ASSUME NEW u \in Thread PROVE Mine(u)'
  <2>1. Mine(u)
    BY MineAll DEF IInv
  <2> QED
    BY <1>1, <1>2, <2>1 DEF IInv, TypeInv, Mine, Recorded
<1>7. FreedOnce' /\ LocalsValid'
  BY <1>6 DEF FreedOnce, LocalsValid, Mine
<1> QED
  BY <1>3, <1>4, <1>5, <1>7 DEF IInv

-----------------------------------------------------------------------------
(***************************************************************************)
(* The theorems.                                                           *)
(***************************************************************************)

\* Every step keeps the invariant.
THEOREM NextKeeps == IInv /\ [Next]_vars => IInv'
<1> SUFFICES ASSUME IInv, [Next]_vars PROVE IInv'
  OBVIOUS
<1>1. ASSUME NEW t \in Thread, Step(t) PROVE IInv'
  <2>1. CASE Lock(t) \/ Unlock(t)
    BY <2>1, LockKeeps, UnlockKeeps
  <2>2. CASE MallocFails(t) \/ ReallocFails(t)
    BY <2>2, ReturnNullKeeps DEF MallocFails, ReallocFails, PC
  <2>3. CASE MallocRecords(t) \/ ReallocRecords(t)
    BY <2>3, MallocRecordsKeeps, ReallocRecordsKeeps
  <2>4. CASE FindRecord(t)
    BY <2>4, FindRecordKeeps
  <2>5. CASE ReallocUnknown(t) \/ HeapScan(t)
    BY <2>5, LookKeeps DEF ReallocUnknown, HeapScan
  <2>6. CASE RemoveRecord(t) \/ FreeBlock(t) \/ ReallocTakes(t)
    BY <2>6, RemoveRecordKeeps, FreeBlockKeeps, ReallocTakesKeeps
  <2>7. CASE \E a \in Address : MallocGets(t, a) \/ ReallocGets(t, a)
    BY <2>7, MallocGetsKeeps, ReallocGetsKeeps
  <2> QED
    BY <1>1, <2>1, <2>2, <2>3, <2>4, <2>5, <2>6, <2>7 DEF Step
<1>2. CASE UNCHANGED vars
  BY <1>2 DEF vars, totals, IInv, TypeInv, OneInside, Inside, RecordsLive, Recorded,
              FreedOnce, LocalsValid
<1> QED
  BY <1>1, <1>2, BeginKeeps, TerminateKeeps, FreeUnlinkedKeeps DEF Next

\* IInv is an invariant of the heap tracker.
THEOREM HeapInvariant == Spec => []IInv
  BY InitIInv, NextKeeps, PTL DEF Spec

\* Only the holder of heap_mutex is ever between lock and unlock, also after
\* the early returns that keep the mutex.
THEOREM HeapExclusion == Spec => []OneInside
<1>1. IInv => OneInside
  BY DEF IInv
<1> QED
  BY <1>1, HeapInvariant, PTL

\* Every record describes a block in use, whichever library calls fail.
THEOREM HeapRecordsLive == Spec => []RecordsLive
<1>1. IInv => RecordsLive
  BY DEF IInv
<1> QED
  BY <1>1, HeapInvariant, PTL

\* No block is given to free or realloc of the C library twice, whatever
\* pointers the threads pass.
THEOREM HeapFreedOnce == Spec => []FreedOnce
<1>1. IInv => FreedOnce
  BY DEF IInv
<1> QED
  BY <1>1, HeapInvariant, PTL

-----------------------------------------------------------------------------
(***************************************************************************)
(* The table of blocks.                                                    *)
(***************************************************************************)

\* Thread t has taken the record of a out, to put another one in.
Holder(t, a) ==
  /\ call[t].op = "realloc" /\ call[t].ptr = a
  /\ pc[t] \in {"libc_realloc", "add"}

\* What a call was asked for, and which calls reach a phase.
Known(t) ==
  /\ call[t].op \in {"malloc", "realloc"} => \E n \in Request : call[t].size = Heap_roundup(n)
  /\ pc[t] = "remove" => call[t].op \in {"free", "unlink"}
  /\ pc[t] = "libc_free" => call[t].op = "free"
  /\ pc[t] = "add" => call[t].op \in {"malloc", "realloc"}
  /\ \A a \in Address : Holder(t, a) => a \notin Recorded
  /\ call[t].op = "realloc" /\ pc[t] \in {"libc_realloc", "add"} => call[t].ptr \in Address

AllKnown == \A t \in Thread : Known(t)

KInv == IInv /\ AllKnown

Acts(t) == Begin(t) \/ Heap_terminate(t) \/ Step(t)

-----------------------------------------------------------------------------
(***************************************************************************)
(* Steps of one thread.                                                    *)
(***************************************************************************)

\* It moves itself only.
LEMMA OthersStay ==
  ASSUME IInv, NEW t \in Thread, Acts(t), NEW u \in Thread \ {t}
  PROVE  pc'[u] = pc[u] /\ call'[u] = call[u]
<1>1. pc \in [Thread -> PC] /\ call \in [Thread -> Call]
  BY DEF IInv, TypeInv
<1>2. CASE Begin(t) \/ Heap_terminate(t)
  BY <1>1, <1>2 DEF Begin, Enter, Heap_terminate, Go
<1>3. CASE Lock(t) \/ Unlock(t) \/ MallocFails(t) \/ MallocRecords(t) \/ FindRecord(t)
  BY <1>1, <1>3 DEF Lock, Unlock, MallocFails, ReturnNull, MallocRecords, FindRecord, Go
<1>4. CASE RemoveRecord(t) \/ FreeBlock(t) \/ HeapScan(t)
  BY <1>1, <1>4 DEF RemoveRecord, FreeBlock, HeapScan, Go
<1>5. CASE ReallocUnknown(t) \/ ReallocTakes(t) \/ ReallocFails(t) \/ ReallocRecords(t)
  BY <1>1, <1>5 DEF ReallocUnknown, ReallocTakes, ReallocFails, ReturnNull, ReallocRecords, Go
<1>6. CASE \E a \in Address : MallocGets(t, a) \/ ReallocGets(t, a)
  BY <1>1, <1>6 DEF MallocGets, ReallocGets, Go
<1> QED
  BY <1>2, <1>3, <1>4, <1>5, <1>6 DEF Acts, Step

\* What the others know stays, for they are outside or nothing changes.
LEMMA OthersKnow ==
  ASSUME KInv, NEW t \in Thread, Acts(t), Inside(t) \/ record' = record, Known(t)'
  PROVE  AllKnown'
<1> SUFFICES ASSUME NEW u \in Thread, u # t
             PROVE  Known(u)'
  BY DEF AllKnown
<1>1. pc'[u] = pc[u] /\ call'[u] = call[u] /\ Known(u)
  BY OthersStay DEF KInv, AllKnown
<1>2. CASE Inside(t)
  <2>1. ~ Inside(u)
    BY <1>2 DEF KInv, IInv, OneInside
  <2> QED
    BY <1>1, <2>1 DEF Known, Holder, Inside
<1>3. CASE record' = record
  BY <1>1, <1>3 DEF Known, Holder, Recorded
<1> QED
  BY <1>2, <1>3

\* A step after which the thread is where nothing is to be known, but what was
\* asked for.
LEMMA RestKnows ==
  ASSUME KInv, NEW t \in Thread, Acts(t), Inside(t) \/ record' = record,
         pc'[t] \in {"idle", "lock", "body", "unlock"},
         \/ call'[t].op \notin {"malloc", "realloc"}
         \/ call'[t].op = call[t].op /\ call'[t].size = call[t].size
  PROVE  AllKnown'
<1>1. Known(t)
  BY DEF KInv, AllKnown
<1>2. Known(t)'
  BY <1>1 DEF Known, Holder
<1> QED
  BY <1>2, OthersKnow

LEMMA BeginKnows == ASSUME KInv, NEW t \in Thread, Begin(t) PROVE AllKnown'
<1>1. PICK op \in Op, p \in Pointer, n \in Nat :
        Enter(t, op, p, n) /\ (op \in {"malloc", "realloc"} => n \in Request)
  <2>1. CASE \E n \in Request : Enter(t, "malloc", NULL, n)
    BY <2>1, HeapAssumption DEF Op, Pointer
  <2>2. CASE \E p \in Address, op \in {"free", "unlink", "find"} : Enter(t, op, p, 0)
    BY <2>2 DEF Op, Pointer
  <2>3. CASE \E p \in Pointer, n \in Request : Enter(t, "realloc", p, n)
    BY <2>3, HeapAssumption DEF Op
  <2> QED
    BY <2>1, <2>2, <2>3 DEF Begin
<1>2. /\ pc'[t] = "lock" /\ record' = record
      /\ call'[t] = [NoCall EXCEPT !.op = op, !.ptr = p, !.size = Heap_roundup(n)]
  BY <1>1 DEF Enter, Go, KInv, IInv, TypeInv
<1>3. call'[t].op = op /\ call'[t].size = Heap_roundup(n)
  BY <1>2 DEF NoCall
<1>4. Known(t)'
  BY <1>1, <1>2, <1>3 DEF Known, Holder
<1> QED
  BY <1>2, <1>4, OthersKnow DEF Acts

\* The calls' own steps.
LEMMA StepKnows == ASSUME KInv, NEW t \in Thread, Step(t) PROVE AllKnown'
<1>1. /\ pc \in [Thread -> PC] /\ call \in [Thread -> Call] /\ record \in [Address -> Nat \cup {NULL}]
      /\ call[t] \in Call /\ Known(t) /\ Mine(t) /\ Acts(t)
  BY MineAll DEF KInv, AllKnown, IInv, TypeInv, Acts
<1>2. CASE Lock(t) \/ ReallocUnknown(t) \/ HeapScan(t)
  BY <1>1, <1>2, RestKnows DEF Lock, ReallocUnknown, HeapScan, Go
<1>3. CASE Unlock(t) \/ MallocFails(t) \/ ReallocFails(t)
  <2>1. pc'[t] = "idle" /\ call'[t] = NoCall /\ record' = record
    BY <1>1, <1>3 DEF Unlock, MallocFails, ReallocFails, ReturnNull, Go
  <2>2. call'[t].op = "none"
    BY <2>1 DEF NoCall
  <2> QED
    BY <1>1, <2>1, <2>2, RestKnows
<1>4. CASE FindRecord(t)
  <2>1. /\ record' = record /\ call' = call /\ pc'[t] \in {"remove", "unlock"}
        /\ pc'[t] = "remove" => call[t].op \in {"free", "unlink"}
    BY <1>1, <1>4 DEF FindRecord, Go
  <2>2. Known(t)'
    BY <1>1, <2>1 DEF Known, Holder
  <2> QED
    BY <1>1, <2>1, <2>2, OthersKnow
<1>5. CASE RemoveRecord(t) \/ FreeBlock(t)
  <2>1. /\ Inside(t) /\ call' = call /\ pc'[t] \in {"libc_free", "unlock"}
        /\ pc'[t] = "libc_free" => call[t].op = "free"
    BY <1>1, <1>5 DEF RemoveRecord, FreeBlock, Go, Inside
  <2>2. Known(t)'
    BY <1>1, <2>1 DEF Known, Holder
  <2> QED
    BY <1>1, <2>1, <2>2, OthersKnow
<1>6. CASE MallocRecords(t) \/ ReallocRecords(t)
  <2>1. Inside(t) /\ pc'[t] = "unlock"
    BY <1>1, <1>6 DEF MallocRecords, ReallocRecords, Go, Inside
  <2>2. call'[t].op = call[t].op /\ call'[t].size = call[t].size
    BY <1>1, <1>6 DEF MallocRecords, ReallocRecords, Call
  <2> QED
    BY <1>1, <2>1, <2>2, RestKnows
<1>7. CASE ReallocTakes(t)
  <2>1. /\ Inside(t) /\ pc'[t] = "libc_realloc" /\ record' = [record EXCEPT ![call[t].ptr] = NULL]
        /\ call[t].ptr \in Recorded /\ call[t].op = "realloc"
    BY <1>1, <1>7 DEF ReallocTakes, Go, Inside
  <2>2. call'[t] = [call[t] EXCEPT !.s_ptr = call[t].ptr, !.s_size = record[call[t].ptr]]
    BY <1>1, <1>7 DEF ReallocTakes
  <2>3. call'[t].op = "realloc" /\ call'[t].size = call[t].size /\ call'[t].ptr = call[t].ptr
    BY <1>1, <2>1, <2>2 DEF Call
  <2>4. call[t].ptr \in Address /\ call[t].ptr \notin Recorded'
    BY <1>1, <2>1 DEF Recorded
  <2>5. Known(t)'
    BY <1>1, <2>1, <2>3, <2>4 DEF Known, Holder
  <2> QED
    BY <1>1, <2>1, <2>5, OthersKnow
<1>8. CASE \E a \in Address : MallocGets(t, a) \/ ReallocGets(t, a)
  <2>1. record' = record /\ pc'[t] = "add" /\ (pc[t] = "libc_realloc" \/ call[t].op = "malloc")
    BY <1>1, <1>8 DEF MallocGets, ReallocGets, Go
  <2>2. /\ call'[t].op = call[t].op /\ call'[t].size = call[t].size /\ call'[t].ptr = call[t].ptr
    BY <1>1, <1>8 DEF MallocGets, ReallocGets, Call
  <2>3. Recorded' = Recorded
    BY <2>1 DEF Recorded
  <2>4. call[t].op \in {"malloc", "realloc"}
    BY <1>1, <2>1 DEF Mine
  <2>5. Known(t)'
    BY <1>1, <2>1, <2>2, <2>3, <2>4 DEF Known, Holder
  <2> QED
    BY <1>1, <2>1, <2>5, OthersKnow
<1> QED
  BY <1>2, <1>3, <1>4, <1>5, <1>6, <1>7, <1>8 DEF Step

LEMMA InitKInv == Init => KInv
  BY InitIInv DEF Init, NoCall, KInv, AllKnown, Known, Holder

LEMMA NextKInv == KInv /\ [Next]_vars => KInv'
<1> SUFFICES ASSUME KInv, [Next]_vars
             PROVE  KInv'
  OBVIOUS
<1>1. IInv'
  BY NextKeeps DEF KInv
<1>2. CASE \E t \in Thread : Heap_terminate(t)
  <2> PICK t \in Thread : Heap_terminate(t)
    BY <1>2
  <2>1. /\ record' = record /\ pc'[t] \in {"idle", "lock"}
        /\ call'[t].op \in {"none", "terminate"}
    BY DEF Heap_terminate, Go, NoCall, KInv, IInv, TypeInv
  <2>2. AllKnown'
    BY <2>1, RestKnows DEF Acts
  <2> QED
    BY <1>1, <2>2 DEF KInv
<1>3. CASE (\E a \in Address : FreeUnlinked(a)) \/ UNCHANGED vars
  <2>1. UNCHANGED <<pc, call, record>>
    BY <1>3 DEF FreeUnlinked, vars
  <2>2. AllKnown'
    BY <2>1 DEF KInv, AllKnown, Known, Holder, Recorded
  <2> QED
    BY <1>1, <2>2 DEF KInv
<1> QED
  BY <1>1, <1>2, <1>3, BeginKnows, StepKnows DEF Next, KInv

-----------------------------------------------------------------------------
(***************************************************************************)
(* No block is lost.                                                       *)
(***************************************************************************)

Hands(t, a) ==
  \/ pc[t] = "add" /\ call[t].s_ptr = a
  \/ pc[t] \in {"libc_free", "libc_realloc"} /\ call[t].ptr = a

Accounted(a) == block[a] # NULL => a \in Recorded \cup unlinked \/ InHand(a)

\* Who has left the mutex locked waits for it, if it calls again.
LEMMA AbandonedStays ==
  ASSUME KInv, [Next]_vars, Abandoned
  PROVE  Abandoned'
<1>1. PICK u \in Thread : mutex = u /\ pc[u] \in {"idle", "lock"}
  BY DEF Abandoned
<1>2. u # NULL /\ pc \in [Thread -> PC] /\ \A t \in Thread : Inside(t) => mutex = t
  BY HeapAssumption DEF KInv, IInv, TypeInv, OneInside
<1>3. ASSUME NEW t \in Thread, Acts(t)
      PROVE  mutex' = mutex /\ pc'[u] \in {"idle", "lock"}
  <2>1. CASE t = u
    BY <1>1, <1>2, <1>3, <2>1 DEF Acts, Begin, Enter, Heap_terminate, Step, Lock, Unlock, MallocFails,
       MallocRecords, FindRecord, RemoveRecord, FreeBlock, ReallocUnknown, ReallocTakes, ReallocFails,
       ReallocRecords, HeapScan, MallocGets, ReallocGets, ReturnNull, Go
  <2>2. CASE t # u
    <3>1. pc'[u] = pc[u]
      BY <1>3, <2>2, OthersStay DEF KInv
    <3>2. ~ Inside(t)
      BY <1>1, <1>2, <2>2
    <3>3. mutex' = mutex
      BY <1>1, <1>2, <1>3, <3>2 DEF Acts, Begin, Enter, Heap_terminate, Step, Lock, Unlock, MallocFails,
         MallocRecords, FindRecord, RemoveRecord, FreeBlock, ReallocUnknown, ReallocTakes, ReallocFails,
         ReallocRecords, HeapScan, MallocGets, ReallocGets, ReturnNull, Go, Inside
    <3> QED
      BY <1>1, <3>1, <3>3
  <2> QED
    BY <2>1, <2>2
<1>4. CASE \E t \in Thread : Acts(t)
  BY <1>1, <1>3, <1>4 DEF Abandoned
<1>5. CASE (\E a \in Address : FreeUnlinked(a)) \/ UNCHANGED vars
  BY <1>1, <1>5 DEF FreeUnlinked, vars, Abandoned
<1> QED
  BY <1>4, <1>5 DEF Next, Acts

\* A step that touches only its own block: the others are accounted for as
\* before.
LEMMA OtherBlocks ==
  ASSUME KInv, NEW t \in Thread, Acts(t), NEW a \in Address, Accounted(a),
         block'[a] # NULL => block[a] # NULL,
         a \in Recorded => a \in Recorded',
         a \in unlinked => a \in unlinked',
         ~ Hands(t, a) \/ Hands(t, a)'
  PROVE  Accounted(a)'
<1> SUFFICES ASSUME block'[a] # NULL
             PROVE  a \in Recorded' \cup unlinked' \/ InHand(a)'
  BY DEF Accounted
<1>1. CASE InHand(a)
  <2>1. PICK u \in Thread : Hands(u, a)
    BY <1>1 DEF InHand, Hands
  <2>2. CASE u = t
    BY <2>1, <2>2 DEF InHand, Hands
  <2>3. CASE u # t
    BY <2>1, <2>3, OthersStay DEF InHand, Hands, KInv
  <2> QED
    BY <2>2, <2>3
<1>2. CASE ~ InHand(a)
  BY <1>2 DEF Accounted
<1> QED
  BY <1>1, <1>2

LEMMA StepAccounts ==
  ASSUME KInv, NEW t \in Thread, Acts(t), \A a \in Address : Accounted(a), ~ Abandoned',
         NEW a \in Address
  PROVE  Accounted(a)'
<1>1. /\ pc \in [Thread -> PC] /\ call \in [Thread -> Call] /\ record \in [Address -> Nat \cup {NULL}]
      /\ block \in [Address -> Nat \cup {NULL}]
      /\ call[t] \in Call /\ Known(t) /\ Mine(t) /\ (Inside(t) => mutex = t) /\ Accounted(a)
  BY MineAll DEF KInv, AllKnown, IInv, TypeInv, OneInside
<1>2. CASE Begin(t) \/ Heap_terminate(t)
  <2>1. UNCHANGED <<block, record, unlinked>> /\ pc[t] = "idle"
    BY <1>2 DEF Begin, Enter, Heap_terminate, Go
  <2> QED
    BY <1>1, <2>1, OtherBlocks DEF Hands, Recorded
<1>3. CASE Lock(t) \/ Unlock(t) \/ MallocFails(t) \/ FindRecord(t) \/ ReallocUnknown(t) \/ HeapScan(t)
  <2>1. UNCHANGED <<block, record, unlinked>> /\ pc[t] \in {"lock", "body", "unlock"}
    BY <1>3 DEF Lock, Unlock, MallocFails, ReturnNull, FindRecord, ReallocUnknown, HeapScan, Go
  <2> QED
    BY <1>1, <2>1, OtherBlocks DEF Hands, Recorded
<1>4. CASE ReallocFails(t)
  <2>1. mutex' = mutex /\ mutex = t /\ pc'[t] = "idle"
    BY <1>1, <1>4 DEF ReallocFails, ReturnNull, Go, Inside
  <2> QED
    BY <2>1 DEF Abandoned
<1>5. CASE MallocRecords(t) \/ ReallocRecords(t)
  <2>1. /\ block' = block /\ unlinked' = unlinked /\ pc[t] = "add"
        /\ \E n \in Nat : record' = [record EXCEPT ![call[t].s_ptr] = n]
    BY <1>1, <1>5 DEF MallocRecords, ReallocRecords, Go, Call
  <2>2. CASE a = call[t].s_ptr
    BY <1>1, <2>1, <2>2, HeapAssumption DEF Accounted, Recorded
  <2>3. CASE a # call[t].s_ptr
    BY <1>1, <2>1, <2>3, OtherBlocks DEF Hands, Recorded
  <2> QED
    BY <2>2, <2>3
<1>6. CASE RemoveRecord(t)
  <2>1. /\ block' = block /\ call' = call /\ pc[t] = "remove"
        /\ record' = [record EXCEPT ![call[t].ptr] = NULL]
        /\ unlinked' = IF call[t].op = "unlink" THEN unlinked \cup {call[t].ptr} ELSE unlinked
        /\ pc'[t] = IF call[t].op = "free" THEN "libc_free" ELSE "unlock"
    BY <1>1, <1>6 DEF RemoveRecord, Go
  <2>2. CASE a = call[t].ptr /\ call[t].op = "unlink"
    BY <2>1, <2>2 DEF Accounted
  <2>3. CASE a = call[t].ptr /\ call[t].op = "free"
    BY <2>1, <2>3 DEF Accounted, InHand
  <2>4. CASE a # call[t].ptr
    BY <1>1, <2>1, <2>4, OtherBlocks DEF Hands, Recorded
  <2> QED
    BY <1>1, <2>1, <2>2, <2>3, <2>4 DEF Known
<1>7. CASE FreeBlock(t)
  <2>1. /\ UNCHANGED <<record, unlinked>> /\ pc[t] = "libc_free"
        /\ block' = [block EXCEPT ![call[t].ptr] = NULL]
    BY <1>7 DEF FreeBlock, Go
  <2>2. CASE a = call[t].ptr
    BY <1>1, <2>1, <2>2 DEF Accounted
  <2>3. CASE a # call[t].ptr
    BY <1>1, <2>1, <2>3, OtherBlocks DEF Hands, Recorded
  <2> QED
    BY <2>2, <2>3
<1>8. CASE ReallocTakes(t)
  <2>1. /\ UNCHANGED <<block, unlinked>> /\ pc[t] = "body" /\ pc'[t] = "libc_realloc"
        /\ record' = [record EXCEPT ![call[t].ptr] = NULL]
    BY <1>1, <1>8 DEF ReallocTakes, Go
  <2>2. call'[t].ptr = call[t].ptr
    BY <1>1, <1>8 DEF ReallocTakes, Call
  <2>3. CASE a = call[t].ptr
    BY <2>1, <2>2, <2>3 DEF Accounted, InHand
  <2>4. CASE a # call[t].ptr
    BY <1>1, <2>1, <2>4, OtherBlocks DEF Hands, Recorded
  <2> QED
    BY <2>3, <2>4
<1>9. ASSUME NEW b \in Address, MallocGets(t, b) \/ ReallocGets(t, b)
      PROVE  Accounted(a)'
  <2>1. UNCHANGED <<record, unlinked>> /\ pc'[t] = "add"
    BY <1>1, <1>9 DEF MallocGets, ReallocGets, Go
  <2>2. call'[t].s_ptr = b
    BY <1>1, <1>9 DEF MallocGets, ReallocGets, Call
  <2>3. CASE a = b
    BY <2>1, <2>2, <2>3 DEF Accounted, InHand
  <2>4. CASE a # b /\ MallocGets(t, b)
    <3>1. block'[a] = block[a] /\ pc[t] = "body"
      BY <1>1, <2>4 DEF MallocGets, Go
    <3> QED
      BY <1>1, <2>1, <3>1, OtherBlocks DEF Hands, Recorded
  <2>5. CASE a # b /\ ReallocGets(t, b)
    <3>1. /\ pc[t] = "libc_realloc" /\ call[t].ptr \in Address
          /\ block' = [block EXCEPT ![call[t].ptr] = NULL, ![b] = call[t].size]
      BY <1>1, <2>5 DEF ReallocGets, Go, Mine
    <3>2. CASE a = call[t].ptr
      BY <1>1, <2>5, <3>1, <3>2 DEF Accounted
    <3>3. CASE a # call[t].ptr
      <4>1. block'[a] = block[a]
        BY <1>1, <2>5, <3>1, <3>3
      <4> QED
        BY <1>1, <2>1, <3>1, <3>3, <4>1, OtherBlocks DEF Hands, Recorded
    <3> QED
      BY <3>2, <3>3
  <2> QED
    BY <1>9, <2>3, <2>4, <2>5
<1> QED
  BY <1>2, <1>3, <1>4, <1>5, <1>6, <1>7, <1>8, <1>9 DEF Acts, Step

LEMMA BlocksStayKnown == KInv /\ AllBlocksKnown /\ [Next]_vars => AllBlocksKnown'
<1> SUFFICES ASSUME KInv, AllBlocksKnown, [Next]_vars, ~ Abandoned'
             PROVE  \A a \in Address : Accounted(a)'
  BY DEF AllBlocksKnown, Accounted
<1>1. \A a \in Address : Accounted(a)
  BY AbandonedStays DEF AllBlocksKnown, Accounted
<1>2. CASE \E t \in Thread : Acts(t)
  BY <1>1, <1>2, StepAccounts
<1>3. CASE \E b \in Address : FreeUnlinked(b)
  <2>1. PICK b \in Address : FreeUnlinked(b)
    BY <1>3
  <2>2. block \in [Address -> Nat \cup {NULL}] /\ UNCHANGED <<record, pc, call>>
    BY <2>1 DEF FreeUnlinked, KInv, IInv, TypeInv
  <2> QED
    BY <1>1, <2>1, <2>2 DEF FreeUnlinked, Accounted, InHand, Recorded
<1>4. CASE UNCHANGED vars
  BY <1>1, <1>4 DEF vars, Accounted, InHand, Recorded
<1> QED
  BY <1>2, <1>3, <1>4 DEF Next, Acts

\* In every state, what each call has read of the tree and taken out of it is
\* what the phase it is in says.
THEOREM HeapKnown == Spec => []KInv
  BY InitKInv, NextKInv, PTL DEF Spec

\* No block is lost but by a failed realloc, which leaves the mutex locked.
THEOREM HeapAllBlocksKnown == Spec => []AllBlocksKnown
<1>1. Init => AllBlocksKnown
  BY DEF Init, AllBlocksKnown
<1> QED
  BY <1>1, InitKInv, NextKInv, BlocksStayKnown, PTL DEF Spec

-----------------------------------------------------------------------------
(***************************************************************************)
(* The refinement.                                                         *)
(***************************************************************************)

\* The size seen at an address: that of its record, or that in the hands of
\* the one thread that has taken the record out.
SizeAt(a) ==
  /\ a \in Recorded => Size(a) = record[a]
  /\ \A t \in Thread : Holder(t, a) => Size(a) = call[t].s_size
  /\ a \notin Recorded /\ (\A t \in Thread : ~ Holder(t, a)) => Size(a) = NULL

LEMMA SizeIs == KInv => \A a \in Address : SizeAt(a)
<1> SUFFICES ASSUME KInv, NEW a \in Address
             PROVE  SizeAt(a)
  OBVIOUS
<1> DEFINE holders == {t \in Thread : /\ call[t].op = "realloc" /\ call[t].ptr = a
                                      /\ pc[t] \in {"libc_realloc", "add"}}
<1>1. \A t \in Thread : Holder(t, a) <=> t \in holders
  BY DEF Holder
<1>2. Size(a) = IF a \in Recorded THEN record[a]
                ELSE IF holders # {} THEN call[CHOOSE t \in holders : TRUE].s_size ELSE NULL
  BY DEF Size
<1> HIDE DEF holders
<1>3. ASSUME NEW t \in Thread, Holder(t, a)
      PROVE  Size(a) = call[t].s_size
  <2>1. a \notin Recorded
    BY <1>3 DEF KInv, AllKnown, Known
  <2>2. ASSUME NEW u \in holders
        PROVE  u = t
    <3>1. u \in Thread /\ Holder(u, a)
      BY <1>1 DEF holders
    <3>2. Inside(u) /\ Inside(t)
      BY <1>3, <3>1 DEF Holder, Inside
    <3> QED
      BY <3>1, <3>2 DEF KInv, IInv, OneInside
  <2>3. t \in holders
    BY <1>1, <1>3
  <2>4. (CHOOSE u \in holders : TRUE) \in holders
    BY <2>3
  <2> QED
    BY <1>2, <2>1, <2>2, <2>3, <2>4
<1>4. a \notin Recorded /\ (\A t \in Thread : ~ Holder(t, a)) => holders = {}
  BY <1>1 DEF holders
<1> QED
  BY <1>2, <1>3, <1>4 DEF SizeAt

LEMMA SizeIsNext == (KInv => \A a \in Address : SizeAt(a))'
  BY SizeIs, PTL

\* The table of the abstract specification.
Seen == [a \in Address |-> Size(a)]

LEMMA InitTable == Init => Table!Init
<1> SUFFICES ASSUME Init
             PROVE  Table!Init
  OBVIOUS
<1>1. ASSUME NEW a \in Address
      PROVE  Size(a) = NULL
  <2>1. a \notin Recorded /\ \A t \in Thread : ~ Holder(t, a)
    BY DEF Init, Recorded, Holder, NoCall
  <2>2. SizeAt(a)
    BY InitKInv, SizeIs
  <2> QED
    BY <2>1, <2>2 DEF SizeAt
<1> QED
  BY <1>1 DEF Table!Init

\* At the steps that do not finish a call's work the size stays.
LEMMA SameSize ==
  ASSUME KInv, KInv', NEW a \in Address,
         a \in Recorded' <=> a \in Recorded,
         a \in Recorded => record'[a] = record[a],
         \A u \in Thread : /\ Holder(u, a)' <=> Holder(u, a)
                           /\ Holder(u, a) => call'[u].s_size = call[u].s_size
  PROVE  Size(a)' = Size(a)
<1>1. SizeAt(a)
  BY SizeIs
<1>2. SizeAt(a)'
  BY SizeIsNext
<1> QED
  BY <1>1, <1>2 DEF SizeAt

\* A step of t that leaves the records, and what t holds, as they are.
LEMMA QuietStep ==
  ASSUME KInv, KInv', NEW t \in Thread, Acts(t), record' = record,
         \A a \in Address : /\ Holder(t, a)' <=> Holder(t, a)
                            /\ Holder(t, a) => call'[t].s_size = call[t].s_size
  PROVE  Seen' = Seen
<1>1. ASSUME NEW a \in Address
      PROVE  Size(a)' = Size(a)
  <2>1. \A u \in Thread \ {t} : (Holder(u, a)' <=> Holder(u, a)) /\ call'[u] = call[u]
    BY OthersStay DEF Holder, KInv
  <2> QED
    BY <2>1, SameSize DEF Recorded
<1> QED
  BY <1>1 DEF Seen

\* A step of t about the records at two addresses at most.
LEMMA OtherSizes ==
  ASSUME KInv, KInv', NEW t \in Thread, Acts(t), NEW a \in Address,
         record'[a] = record[a], ~ Holder(t, a), ~ Holder(t, a)'
  PROVE  Size(a)' = Size(a)
<1>1. \A u \in Thread \ {t} : (Holder(u, a)' <=> Holder(u, a)) /\ call'[u] = call[u]
  BY OthersStay DEF Holder, KInv
<1> QED
  BY <1>1, SameSize DEF Recorded

\* Where t holds a, nobody else does, before and after its step.
LEMMA AloneInside ==
  ASSUME KInv, NEW t \in Thread, Acts(t), Inside(t), NEW u \in Thread \ {t}, NEW a \in Address
  PROVE  ~ Holder(u, a) /\ ~ Holder(u, a)'
<1>1. ~ Inside(u)
  BY DEF KInv, IInv, OneInside
<1> QED
  BY <1>1, OthersStay DEF Holder, Inside, KInv

LEMMA NullNoSize == \A n \in Nat : n # NULL /\ Heap_roundup(n) # NULL
  BY HeapAssumption, RoundupNat

\* A step that changes the size seen at b only.
LEMMA SeenAt ==
  ASSUME NEW b \in Address, NEW v, Size(b)' = v, \A a \in Address \ {b} : Size(a)' = Size(a)
  PROVE  Seen' = [Seen EXCEPT ![b] = v]
  BY DEF Seen

\* mymalloc's record appears.
LEMMA MallocRecordsSeen ==
  ASSUME KInv, KInv', NEW t \in Thread, MallocRecords(t)
  PROVE  \E a \in Address, n \in Request : Table!Allocate(a, n)
<1>1. /\ record \in [Address -> Nat \cup {NULL}] /\ call[t] \in Call /\ Known(t) /\ Mine(t)
      /\ Acts(t) /\ Inside(t) /\ pc[t] = "add" /\ pc'[t] = "unlock" /\ call' = call
      /\ call[t].op = "malloc" /\ record' = [record EXCEPT ![call[t].s_ptr] = call[t].s_size]
  BY MineAll DEF KInv, AllKnown, IInv, TypeInv, MallocRecords, Go, Acts, Step, Inside
<1>2. PICK b \in Address, n \in Request :
        b = call[t].s_ptr /\ b \notin Recorded /\ call[t].s_size = Heap_roundup(n)
  BY <1>1 DEF Known, Mine
<1>3. n \in Nat /\ Heap_roundup(n) # NULL
  BY NullNoSize, HeapAssumption
<1>4. \A a : ~ Holder(t, a) /\ ~ Holder(t, a)'
  BY <1>1 DEF Holder
<1>5. Size(b) = NULL
  BY <1>1, <1>2, <1>4, AloneInside, SizeIs DEF SizeAt
<1>6. Size(b)' = Heap_roundup(n)
  BY <1>1, <1>2, <1>3, SizeIsNext DEF SizeAt, Recorded
<1>7. \A a \in Address \ {b} : Size(a)' = Size(a)
  BY <1>1, <1>2, <1>4, OtherSizes
<1>8. Seen' = [Seen EXCEPT ![b] = Heap_roundup(n)]
  BY <1>6, <1>7, SeenAt
<1> QED
  BY <1>5, <1>8 DEF Table!Allocate, Table!Owned, Seen

\* The record of myfree or Heap_unlink goes.
LEMMA RemoveRecordSeen ==
  ASSUME KInv, KInv', NEW t \in Thread, RemoveRecord(t)
  PROVE  \E a \in Address : Table!Release(a)
<1>1. /\ record \in [Address -> Nat \cup {NULL}] /\ Known(t) /\ Mine(t) /\ Acts(t) /\ Inside(t)
      /\ pc[t] = "remove" /\ pc'[t] \in {"libc_free", "unlock"} /\ call' = call
      /\ record' = [record EXCEPT ![call[t].ptr] = NULL]
  BY MineAll DEF KInv, AllKnown, IInv, TypeInv, RemoveRecord, Go, Acts, Step, Inside
<1>2. PICK b \in Address : b = call[t].ptr /\ b \in Recorded
  BY <1>1 DEF Mine, Recorded
<1>3. \A a : ~ Holder(t, a) /\ ~ Holder(t, a)'
  BY <1>1 DEF Holder
<1>4. Size(b) # NULL
  BY <1>2, SizeIs DEF SizeAt, Recorded
<1>5. Size(b)' = NULL
  <2>1. b \notin Recorded'
    BY <1>1, <1>2 DEF Recorded
  <2>2. \A u \in Thread : ~ Holder(u, b)'
    BY <1>1, <1>3, AloneInside
  <2> QED
    BY <2>1, <2>2, SizeIsNext DEF SizeAt
<1>6. \A a \in Address \ {b} : Size(a)' = Size(a)
  BY <1>1, <1>2, <1>3, OtherSizes
<1>7. Seen' = [Seen EXCEPT ![b] = NULL]
  BY <1>5, <1>6, SeenAt
<1> QED
  BY <1>4, <1>7 DEF Table!Release, Table!Owned, Seen

\* What myrealloc takes out is still seen, in its hands.
LEMMA ReallocTakesSeen ==
  ASSUME KInv, KInv', NEW t \in Thread, ReallocTakes(t)
  PROVE  Seen' = Seen
<1>1. /\ record \in [Address -> Nat \cup {NULL}] /\ call[t] \in Call /\ Acts(t)
      /\ pc[t] = "body" /\ pc'[t] = "libc_realloc" /\ call[t].op = "realloc"
      /\ record' = [record EXCEPT ![call[t].ptr] = NULL]
      /\ call'[t] = [call[t] EXCEPT !.s_ptr = call[t].ptr, !.s_size = record[call[t].ptr]]
  BY DEF KInv, IInv, TypeInv, ReallocTakes, Go, Acts, Step
<1>2. PICK b \in Address : b = call[t].ptr /\ b \in Recorded
  BY DEF ReallocTakes, Recorded
<1>3. call'[t].op = "realloc" /\ call'[t].ptr = b /\ call'[t].s_size = record[b]
  BY <1>1, <1>2 DEF Call
<1>4. Size(b) = record[b]
  BY <1>2, SizeIs DEF SizeAt
<1>5. Size(b)' = call'[t].s_size
  <2>1. Holder(t, b)'
    BY <1>1, <1>3 DEF Holder
  <2> QED
    BY <2>1, SizeIsNext DEF SizeAt
<1>6. ASSUME NEW a \in Address \ {b}
      PROVE  Size(a)' = Size(a)
  <2>1. record'[a] = record[a] /\ ~ Holder(t, a) /\ ~ Holder(t, a)'
    BY <1>1, <1>2, <1>3 DEF Holder
  <2> QED
    BY <1>1, <2>1, OtherSizes
<1> QED
  BY <1>3, <1>4, <1>5, <1>6 DEF Seen

\* What it does not put back is gone.
LEMMA ReallocFailsSeen ==
  ASSUME KInv, KInv', NEW t \in Thread, ReallocFails(t)
  PROVE  \E a \in Address : Table!Release(a)
<1>1. /\ call[t] \in Call /\ Mine(t) /\ Known(t) /\ Acts(t) /\ Inside(t)
      /\ pc[t] = "libc_realloc" /\ pc'[t] = "idle" /\ record' = record
  BY MineAll DEF KInv, AllKnown, IInv, TypeInv, ReallocFails, ReturnNull, Go, Acts, Step, Inside
<1>2. PICK b \in Address : b = call[t].ptr /\ Holder(t, b) /\ b \notin Recorded
  BY <1>1 DEF Mine, Known, Holder
<1>3. Size(b) # NULL
  <2>1. call[t].s_size \in Nat
    BY <1>1 DEF Call
  <2> QED
    BY <1>2, <2>1, NullNoSize, SizeIs DEF SizeAt
<1>4. \A a : ~ Holder(t, a)' /\ (a # b => ~ Holder(t, a))
  BY <1>1, <1>2 DEF Holder
<1>5. Size(b)' = NULL
  <2>1. b \notin Recorded'
    BY <1>1, <1>2 DEF Recorded
  <2>2. \A u \in Thread : ~ Holder(u, b)'
    BY <1>1, <1>4, AloneInside
  <2> QED
    BY <2>1, <2>2, SizeIsNext DEF SizeAt
<1>6. \A a \in Address \ {b} : Size(a)' = Size(a)
  BY <1>1, <1>4, OtherSizes
<1>7. Seen' = [Seen EXCEPT ![b] = NULL]
  BY <1>5, <1>6, SeenAt
<1> QED
  BY <1>3, <1>7 DEF Table!Release, Table!Owned, Seen

\* What it puts back takes the place of what it took out.
LEMMA ReallocRecordsSeen ==
  ASSUME KInv, KInv', NEW t \in Thread, ReallocRecords(t)
  PROVE  \E a, b \in Address, n \in Request : Table!Resize(a, b, n)
<1>1. /\ record \in [Address -> Nat \cup {NULL}] /\ call[t] \in Call /\ Mine(t) /\ Known(t)
      /\ Acts(t) /\ Inside(t) /\ pc[t] = "add" /\ pc'[t] = "unlock" /\ call[t].op = "realloc"
      /\ record' = [record EXCEPT ![call[t].s_ptr] = call[t].size]
  BY MineAll DEF KInv, AllKnown, IInv, TypeInv, ReallocRecords, Go, Acts, Step, Inside
<1>2. PICK a \in Address : a = call[t].ptr /\ Holder(t, a) /\ a \notin Recorded
  BY <1>1 DEF Known, Holder
<1>3. PICK b \in Address, n \in Request :
        b = call[t].s_ptr /\ b \notin Recorded /\ call[t].size = Heap_roundup(n)
  BY <1>1 DEF Known, Mine
<1>4. n \in Nat /\ Heap_roundup(n) # NULL
  BY NullNoSize, HeapAssumption
<1>5. \A c : ~ Holder(t, c)' /\ (c # a => ~ Holder(t, c))
  BY <1>1, <1>2 DEF Holder
<1>6. Size(a) # NULL
  <2>1. call[t].s_size \in Nat
    BY <1>1 DEF Call
  <2> QED
    BY <1>2, <2>1, NullNoSize, SizeIs DEF SizeAt
<1>7. b # a => Size(b) = NULL
  BY <1>1, <1>3, <1>5, AloneInside, SizeIs DEF SizeAt
<1>8. Size(b)' = Heap_roundup(n)
  <2>1. b \in Recorded' /\ record'[b] = Heap_roundup(n)
    BY <1>1, <1>3, <1>4 DEF Recorded
  <2> QED
    BY <2>1, SizeIsNext DEF SizeAt
<1>9. a # b => Size(a)' = NULL
  <2>1. a # b => a \notin Recorded'
    BY <1>1, <1>2, <1>3 DEF Recorded
  <2>2. \A u \in Thread : ~ Holder(u, a)'
    BY <1>1, <1>5, AloneInside
  <2> QED
    BY <2>1, <2>2, SizeIsNext DEF SizeAt
<1>10. \A c \in Address \ {a, b} : Size(c)' = Size(c)
  BY <1>1, <1>3, <1>5, OtherSizes
<1>11. Seen' = [Seen EXCEPT ![a] = NULL, ![b] = Heap_roundup(n)]
  BY <1>8, <1>9, <1>10 DEF Seen
<1> QED
  BY <1>6, <1>7, <1>11 DEF Table!Resize, Table!Owned, Seen

\* The other steps are not seen.
LEMMA QuietSteps ==
  ASSUME KInv, KInv', NEW t \in Thread,
         \/ Begin(t) \/ Heap_terminate(t) \/ Lock(t) \/ Unlock(t) \/ MallocFails(t)
         \/ FindRecord(t) \/ FreeBlock(t) \/ ReallocUnknown(t) \/ HeapScan(t)
         \/ \E b \in Address : MallocGets(t, b) \/ ReallocGets(t, b)
  PROVE  Seen' = Seen
<1>1. call \in [Thread -> Call] /\ call[t] \in Call /\ pc \in [Thread -> PC] /\ Acts(t) /\ Known(t) /\ Mine(t)
  BY MineAll DEF KInv, AllKnown, IInv, TypeInv, Acts, Step
<1>2. record' = record
  BY DEF Begin, Enter, Heap_terminate, Lock, Unlock, MallocFails, ReturnNull, FindRecord, FreeBlock,
     ReallocUnknown, HeapScan, MallocGets, ReallocGets
<1>3. CASE \E b \in Address : ReallocGets(t, b)
  <2>1. PICK b \in Address : ReallocGets(t, b)
    BY <1>3
  <2>2. /\ pc[t] = "libc_realloc" /\ pc'[t] = "add" /\ call'[t] = [call[t] EXCEPT !.s_ptr = b]
    BY <1>1, <2>1 DEF ReallocGets, Go
  <2>3. /\ call'[t].op = call[t].op /\ call'[t].ptr = call[t].ptr /\ call'[t].s_size = call[t].s_size
    BY <1>1, <2>2 DEF Call
  <2>4. \A a : Holder(t, a)' <=> Holder(t, a)
    BY <2>2, <2>3 DEF Holder
  <2> QED
    BY <1>1, <1>2, <2>3, <2>4, QuietStep
<1>4. CASE \E b \in Address : MallocGets(t, b)
  <2>0. PICK b \in Address : MallocGets(t, b)
    BY <1>4
  <2>1. /\ pc[t] = "body" /\ call[t].op = "malloc"
        /\ call'[t] = [call[t] EXCEPT !.s_ptr = b, !.s_size = call[t].size]
    BY <1>1, <2>0 DEF MallocGets, Go
  <2>2. call'[t].op = "malloc"
    BY <1>1, <2>1 DEF Call
  <2>3. \A a : ~ Holder(t, a)' /\ ~ Holder(t, a)
    BY <2>1, <2>2 DEF Holder
  <2> QED
    BY <1>1, <1>2, <2>3, QuietStep
<1>5. CASE \/ Begin(t) \/ Heap_terminate(t) \/ Lock(t) \/ Unlock(t) \/ MallocFails(t)
           \/ FindRecord(t) \/ FreeBlock(t) \/ ReallocUnknown(t) \/ HeapScan(t)
  <2>1. /\ pc[t] \in {"idle", "lock", "body", "libc_free", "unlock"}
        /\ pc'[t] \in {"idle", "lock", "body", "remove", "unlock"}
    BY <1>1, <1>5 DEF Begin, Enter, Heap_terminate, Lock, Unlock, MallocFails, ReturnNull, FindRecord,
       FreeBlock, ReallocUnknown, HeapScan, Go
  <2>2. \A a : ~ Holder(t, a)' /\ ~ Holder(t, a)
    BY <2>1 DEF Holder
  <2> QED
    BY <1>1, <1>2, <2>2, QuietStep
<1> QED
  BY <1>3, <1>4, <1>5

LEMMA NextSeen == KInv /\ KInv' /\ [Next]_vars => Table!Next \/ Seen' = Seen
<1> SUFFICES ASSUME KInv, KInv', [Next]_vars
             PROVE  Table!Next \/ Seen' = Seen
  OBVIOUS
<1>1. ASSUME NEW t \in Thread, Acts(t)
      PROVE  Table!Next \/ Seen' = Seen
  <2>1. CASE MallocRecords(t)
    BY <2>1, MallocRecordsSeen DEF Table!Next
  <2>2. CASE RemoveRecord(t) \/ ReallocFails(t)
    BY <2>2, RemoveRecordSeen, ReallocFailsSeen DEF Table!Next
  <2>3. CASE ReallocRecords(t)
    BY <2>3, ReallocRecordsSeen DEF Table!Next
  <2>4. CASE ReallocTakes(t)
    BY <2>4, ReallocTakesSeen
  <2> QED
    BY <1>1, <2>1, <2>2, <2>3, <2>4, QuietSteps DEF Acts, Step
<1>2. CASE (\E a \in Address : FreeUnlinked(a)) \/ UNCHANGED vars
  <2>1. UNCHANGED <<pc, call, record>>
    BY <1>2 DEF FreeUnlinked, vars
  <2>2. \A a \in Address : Size(a)' = Size(a)
    BY <2>1, SameSize DEF Holder, Recorded
  <2> QED
    BY <2>2 DEF Seen
<1> QED
  BY <1>1, <1>2 DEF Next, Acts

\* The tracker implements the table, whatever the threads do at the same time
\* and whatever fails.
THEOREM HeapImplementsTable == Spec => ImplementsTable
<1>1. KInv /\ KInv' /\ [Next]_vars => [Table!Next]_Seen
  BY NextSeen
<1>2. Spec => []KInv
  BY HeapKnown
<1>3. Init => Table!Init
  BY InitTable
<1> QED
  BY <1>1, <1>2, <1>3, PTL DEF Spec, ImplementsTable, Table!Spec, Seen

-----------------------------------------------------------------------------
(***************************************************************************)
(* Sums over finite sets.  MapThenSumSet takes the elements in the order   *)
(* of CHOOSE; that it does not matter is shown with a smallest set for     *)
(* which it would.                                                         *)
(***************************************************************************)

First(s) == CHOOSE a \in s : TRUE

\* f gives the sum of g over every subset of S.
Sums(f, g, S) ==
  f = [s \in SUBSET S |-> IF s = {} THEN 0 ELSE g[First(s)] + f[s \ {First(s)}]]

Total(g, S) == (CHOOSE f : Sums(f, g, S))[S]

LEMMA SmallestSet ==
  ASSUME NEW S, IsFiniteSet(S), NEW T, T \subseteq SUBSET S, T # {}
  PROVE  \E m \in T : \A s \in T : s \subseteq m => s = m
<1>1. IsWellFoundedOn(StrictSubsetOrdering(S), SUBSET S)
  BY FS_StrictSubsetOrderingWellFounded, FS_FiniteSubsetsOfFinite
<1>2. PICK m \in T : \A s \in T : <<s, m>> \notin StrictSubsetOrdering(S)
  BY <1>1, WFMin
<1> QED
  BY <1>2 DEF StrictSubsetOrdering

LEMMA FirstIn == ASSUME NEW s, s # {} PROVE First(s) \in s
  BY DEF First

LEMMA SumsAt ==
  ASSUME NEW f, NEW g, NEW S, Sums(f, g, S), NEW s \in SUBSET S
  PROVE  f[s] = IF s = {} THEN 0 ELSE g[First(s)] + f[s \ {First(s)}]
<1> DEFINE body(h, t) == IF t = {} THEN 0 ELSE g[First(t)] + h[t \ {First(t)}]
<1>1. f = [t \in SUBSET S |-> body(f, t)]
  BY DEF Sums
<1>2. f[s] = body(f, s)
  <2> HIDE DEF body
  <2> QED
    BY <1>1, Zenon
<1> QED
  BY <1>2

LEMMA SumsAgree ==
  ASSUME NEW f1, NEW g1, NEW S1, Sums(f1, g1, S1),
         NEW f2, NEW g2, NEW S2, Sums(f2, g2, S2),
         NEW S, IsFiniteSet(S), S \subseteq S1, S \subseteq S2
  PROVE  (\A a \in S : g1[a] = g2[a]) => f1[S] = f2[S]
<1> SUFFICES ASSUME \A a \in S : g1[a] = g2[a], f1[S] # f2[S]
             PROVE  FALSE
  OBVIOUS
<1> DEFINE T == {s \in SUBSET S : f1[s] # f2[s]}
<1>1. PICK m \in T : \A s \in T : s \subseteq m => s = m
  <2>1. T \subseteq SUBSET S /\ S \in T
    OBVIOUS
  <2> HIDE DEF T
  <2> QED
    BY <2>1, SmallestSet
<1>2. m \in SUBSET S1 /\ m \in SUBSET S2 /\ m \subseteq S
  OBVIOUS
<1>3. /\ f1[m] = IF m = {} THEN 0 ELSE g1[First(m)] + f1[m \ {First(m)}]
      /\ f2[m] = IF m = {} THEN 0 ELSE g2[First(m)] + f2[m \ {First(m)}]
  BY <1>2, SumsAt
<1>4. m # {}
  BY <1>3
<1>5. First(m) \in m
  BY <1>4, FirstIn
<1>6. m \ {First(m)} \notin T
  BY <1>1, <1>5
<1>7. f1[m \ {First(m)}] = f2[m \ {First(m)}]
  BY <1>2, <1>6
<1>8. g1[First(m)] = g2[First(m)]
  BY <1>2, <1>5
<1> QED
  BY <1>3, <1>7, <1>8

LEMMA SumsExist == ASSUME NEW g, NEW S, IsFiniteSet(S) PROVE \E f : Sums(f, g, S)
<1> SUFFICES ASSUME ~ \E f : Sums(f, g, S)
             PROVE  FALSE
  OBVIOUS
<1> DEFINE F(s) == CHOOSE f : Sums(f, g, s)
           T == {s \in SUBSET S : ~ Sums(F(s), g, s)}
<1>1. PICK m \in T : \A s \in T : s \subseteq m => s = m
  <2>1. T \subseteq SUBSET S /\ S \in T
    OBVIOUS
  <2> HIDE DEF T
  <2> QED
    BY <2>1, SmallestSet
<1> DEFINE Less(s) == s \ {First(s)}
           h == [s \in SUBSET m |-> IF s = {} THEN 0 ELSE g[First(s)] + F(Less(s))[Less(s)]]
<1>2. ASSUME NEW s \in SUBSET m, s # m
      PROVE  Sums(F(s), g, s)
  BY <1>1, <1>2
<1> HIDE DEF F
<1>3. ASSUME NEW r \in SUBSET m, r # m
      PROVE  F(r)[r] = IF r = {} THEN 0 ELSE g[First(r)] + F(r)[Less(r)]
  <2>1. Sums(F(r), g, r) /\ r \in SUBSET r
    BY <1>2, <1>3
  <2> QED
    BY <2>1, SumsAt
<1>4. ASSUME NEW s \in SUBSET m, s # {}
      PROVE  h[Less(s)] = F(Less(s))[Less(s)]
  <2> DEFINE r == Less(s)
  <2>1. r \in SUBSET m /\ r # m
    BY <1>4, FirstIn
  <2>2. Sums(F(r), g, r)
    BY <1>2, <2>1
  <2>3. F(r)[r] = IF r = {} THEN 0 ELSE g[First(r)] + F(r)[Less(r)]
    BY <1>3, <2>1
  <2>4. h[r] = IF r = {} THEN 0 ELSE g[First(r)] + F(Less(r))[Less(r)]
    BY <2>1
  <2>5. CASE r = {}
    BY <2>3, <2>4, <2>5
  <2>6. CASE r # {}
    <3>1. Less(r) \in SUBSET m /\ Less(r) # m /\ Less(r) \subseteq r
      BY <2>1
    <3>2. Sums(F(Less(r)), g, Less(r))
      BY <1>2, <3>1
    <3>3. IsFiniteSet(Less(r))
      BY <3>1, FS_Subset
    <3>4. F(Less(r))[Less(r)] = F(r)[Less(r)]
      <4> HIDE DEF Less
      <4> QED
        BY <2>2, <3>1, <3>2, <3>3, SumsAgree
    <3> QED
      BY <2>3, <2>4, <3>4
  <2> QED
    BY <2>5, <2>6
<1>5. h = [s \in SUBSET m |-> IF s = {} THEN 0 ELSE g[First(s)] + h[Less(s)]]
  BY <1>4
<1>6. Sums(h, g, m)
  BY <1>5 DEF Sums
<1>7. Sums(F(m), g, m)
  BY <1>6 DEF F
<1> QED
  BY <1>1, <1>7

LEMMA TotalSums == ASSUME NEW g, NEW S, IsFiniteSet(S) PROVE Sums(CHOOSE f : Sums(f, g, S), g, S)
  BY SumsExist

LEMMA TotalSame ==
  ASSUME NEW g1, NEW g2, NEW S, IsFiniteSet(S)
  PROVE  (\A a \in S : g1[a] = g2[a]) => Total(g1, S) = Total(g2, S)
  BY TotalSums, SumsAgree DEF Total

LEMMA TotalEmpty == ASSUME NEW g PROVE Total(g, {}) = 0
  BY FS_EmptySet, TotalSums, SumsAt DEF Total

LEMMA TotalFirst ==
  ASSUME NEW g, NEW S, IsFiniteSet(S), S # {}
  PROVE  Total(g, S) = g[First(S)] + Total(g, S \ {First(S)})
<1> DEFINE f == CHOOSE h : Sums(h, g, S)
           R == S \ {First(S)}
           e == CHOOSE h : Sums(h, g, R)
<1>1. Sums(f, g, S) /\ IsFiniteSet(R) /\ R \subseteq S
  BY TotalSums, FS_Subset
<1>2. Sums(e, g, R)
  BY <1>1, TotalSums
<1> HIDE DEF f, e
<1>3. f[S] = g[First(S)] + f[R]
  BY <1>1, SumsAt
<1>4. f[R] = e[R]
  <2> HIDE DEF R
  <2> QED
    BY <1>1, <1>2, SumsAgree
<1> QED
  BY <1>3, <1>4 DEF Total, f, e

LEMMA TotalNat ==
  ASSUME NEW g, NEW S, IsFiniteSet(S)
  PROVE  (\A a \in S : g[a] \in Nat) => Total(g, S) \in Nat
<1> SUFFICES ASSUME \A a \in S : g[a] \in Nat, Total(g, S) \notin Nat
             PROVE  FALSE
  OBVIOUS
<1> DEFINE T == {s \in SUBSET S : Total(g, s) \notin Nat}
<1>1. PICK m \in T : \A s \in T : s \subseteq m => s = m
  <2>1. T \subseteq SUBSET S /\ S \in T
    OBVIOUS
  <2> HIDE DEF T
  <2> QED
    BY <2>1, SmallestSet
<1>2. m # {} /\ IsFiniteSet(m)
  <2>1. m \in SUBSET S /\ Total(g, m) \notin Nat
    OBVIOUS
  <2>2. IsFiniteSet(m)
    BY <2>1, FS_Subset
  <2>3. m # {}
    BY <2>1, TotalEmpty
  <2> QED
    BY <2>2, <2>3
<1>3. First(m) \in m /\ Total(g, m) = g[First(m)] + Total(g, m \ {First(m)})
  BY <1>2, FirstIn, TotalFirst
<1>4. m \ {First(m)} \notin T
  BY <1>1, <1>3
<1>5. Total(g, m \ {First(m)}) \in Nat
  BY <1>4
<1>6. g[First(m)] \in Nat
  BY <1>3
<1>7. Total(g, m) \in Nat
  BY <1>3, <1>5, <1>6
<1> QED
  BY <1>7

LEMMA TotalAny ==
  ASSUME NEW g, NEW S, IsFiniteSet(S), NEW a \in S
  PROVE  (\A b \in S : g[b] \in Nat) => Total(g, S) = g[a] + Total(g, S \ {a})
<1> SUFFICES ASSUME \A b \in S : g[b] \in Nat, Total(g, S) # g[a] + Total(g, S \ {a})
             PROVE  FALSE
  OBVIOUS
<1> DEFINE T == {s \in SUBSET S : \E b \in s : Total(g, s) # g[b] + Total(g, s \ {b})}
<1>1. PICK m \in T : \A s \in T : s \subseteq m => s = m
  <2>1. T \subseteq SUBSET S /\ S \in T
    OBVIOUS
  <2> HIDE DEF T
  <2> QED
    BY <2>1, SmallestSet
<1>2. PICK b \in m : Total(g, m) # g[b] + Total(g, m \ {b})
  OBVIOUS
<1> DEFINE c == First(m)
           r == m \ {b, c}
<1>3. c \in m /\ IsFiniteSet(m)
  BY <1>2, FirstIn, FS_Subset
<1>4. Total(g, m) = g[c] + Total(g, m \ {c})
  BY <1>3, TotalFirst
<1>5. b # c
  BY <1>2, <1>4
<1>6. m \ {c} \notin T /\ m \ {b} \notin T
  BY <1>1, <1>2, <1>3
<1>7. Total(g, m \ {c}) = g[b] + Total(g, r) /\ Total(g, m \ {b}) = g[c] + Total(g, r)
  <2>1. (m \ {c}) \ {b} = r /\ (m \ {b}) \ {c} = r
    OBVIOUS
  <2>2. m \ {c} \in SUBSET S /\ m \ {b} \in SUBSET S /\ b \in m \ {c} /\ c \in m \ {b}
    BY <1>2, <1>3, <1>5
  <2> QED
    BY <1>6, <2>1, <2>2
<1>8. g[b] \in Nat /\ g[c] \in Nat /\ Total(g, r) \in Nat
  <2>1. IsFiniteSet(r) /\ \A d \in r : g[d] \in Nat
    BY <1>3, FS_Subset
  <2> QED
    BY <1>3, <2>1, TotalNat
<1> QED
  BY <1>2, <1>4, <1>7, <1>8

LEMMA TotalPlus ==
  ASSUME NEW g, NEW h, NEW S, IsFiniteSet(S), NEW x, x \notin S
  PROVE  (\A a \in S : g[a] \in Nat /\ h[a] = g[a]) /\ h[x] \in Nat =>
           Total(h, S \cup {x}) = Total(g, S) + h[x]
<1> SUFFICES ASSUME \A a \in S : g[a] \in Nat /\ h[a] = g[a], h[x] \in Nat
             PROVE  Total(h, S \cup {x}) = Total(g, S) + h[x]
  OBVIOUS
<1>1. IsFiniteSet(S \cup {x})
  BY FS_AddElement
<1>2. \A a \in S \cup {x} : h[a] \in Nat
  OBVIOUS
<1>3. (S \cup {x}) \ {x} = S
  OBVIOUS
<1>4. Total(h, S \cup {x}) = h[x] + Total(h, (S \cup {x}) \ {x})
  BY <1>1, <1>2, TotalAny
<1>5. Total(h, S) = Total(g, S)
  BY TotalSame
<1>6. Total(g, S) \in Nat
  BY TotalNat
<1>7. Total(h, (S \cup {x}) \ {x}) = Total(h, S)
  BY <1>3, Zenon
<1> QED
  BY <1>4, <1>5, <1>6, <1>7

-----------------------------------------------------------------------------
(***************************************************************************)
(* The totals.  While myrealloc holds a record outside the tree,           *)
(* current_size already counts the new size.                               *)
(***************************************************************************)

Sum == MapThenSumSet(LAMBDA a : record[a], Recorded)

Owed(t) ==
  IF pc[t] \in {"libc_realloc", "add"} /\ call[t].op = "realloc" THEN call[t].size ELSE 0

SumInv ==
  /\ IsFiniteSet(Recorded)
  /\ current_size \in 0 .. max_size
  /\ mutex = NULL => current_size = Sum
  /\ \A t \in Thread : Inside(t) => current_size = Sum + Owed(t)

LEMMA SumIs == Sum = Total(record, Recorded)
  BY DEF Sum, MapThenSumSet, MapThenFoldSet, Total, Sums, First

LEMMA SumIsNext == Sum' = Total(record', Recorded')
  BY DEF Sum, MapThenSumSet, MapThenFoldSet, Total, Sums, First

LEMMA SumIsNat == ASSUME IInv, IsFiniteSet(Recorded) PROVE Sum \in Nat
<1>1. \A a \in Recorded : record[a] \in Nat
  BY DEF IInv, TypeInv, Recorded
<1> QED
  BY <1>1, SumIs, TotalNat

LEMMA SumStays == record' = record => Recorded' = Recorded /\ Sum' = Sum
  BY SumIs, SumIsNext DEF Recorded

\* A record enters the tree.
LEMMA SumGrows ==
  ASSUME IInv, IsFiniteSet(Recorded), NEW x \in Address \ Recorded, NEW n \in Nat,
         record' = [record EXCEPT ![x] = n]
  PROVE  IsFiniteSet(Recorded') /\ Sum' = Sum + n
<1>1. record \in [Address -> Nat \cup {NULL}] /\ n # NULL
  BY HeapAssumption DEF IInv, TypeInv
<1>2. Recorded' = Recorded \cup {x}
  BY <1>1 DEF Recorded
<1>3. IsFiniteSet(Recorded')
  BY <1>2, FS_AddElement
<1> DEFINE h == record'
           R == Recorded
<1>4. /\ x \notin R /\ h[x] = n /\ h[x] \in Nat /\ IsFiniteSet(R)
      /\ \A a \in R : record[a] \in Nat /\ h[a] = record[a]
  BY <1>1 DEF Recorded
<1>5. Total(h, Recorded') = Total(h, R \cup {x})
  BY <1>2, Zenon
<1>6. Total(h, R \cup {x}) = Total(record, R) + h[x]
  <2> HIDE DEF h, R
  <2> QED
    BY <1>4, TotalPlus
<1> QED
  BY <1>3, <1>4, <1>5, <1>6, SumIs, SumIsNext

\* A record leaves the tree.
LEMMA SumShrinks ==
  ASSUME IInv, IsFiniteSet(Recorded), NEW x \in Recorded,
         record' = [record EXCEPT ![x] = NULL]
  PROVE  /\ IsFiniteSet(Recorded') /\ Sum' \in Nat
         /\ record[x] \in Nat /\ Sum = Sum' + record[x]
<1>1. record \in [Address -> Nat \cup {NULL}] /\ \A a \in Recorded : record[a] \in Nat
  BY DEF IInv, TypeInv, Recorded
<1>2. Recorded' = Recorded \ {x}
  BY <1>1 DEF Recorded
<1>3. IsFiniteSet(Recorded')
  BY <1>2, FS_Subset
<1>4. \A a \in Recorded' : record'[a] = record[a] /\ record'[a] \in Nat
  BY <1>1, <1>2 DEF Recorded
<1>5. Total(record, Recorded) = record[x] + Total(record, Recorded \ {x})
  BY <1>1, TotalAny
<1>6. Total(record', Recorded') = Total(record, Recorded')
  BY <1>3, <1>4, TotalSame, ZenonT(30)
<1>7. Total(record', Recorded') \in Nat
  BY <1>3, <1>4, TotalNat
<1> QED
  BY <1>1, <1>2, <1>3, <1>5, <1>6, <1>7, SumIs, SumIsNext

\* Only the holder of the mutex needs the sum after its step.
LEMMA SumAlone ==
  ASSUME KInv, NEW t \in Thread, Acts(t), Inside(t), mutex' = mutex,
         IsFiniteSet(Recorded'), current_size' \in 0 .. max_size',
         Inside(t)' => current_size' = Sum' + Owed(t)'
  PROVE  SumInv'
<1>1. mutex = t /\ t # NULL /\ \A u \in Thread \ {t} : ~ Inside(u)
  BY HeapAssumption DEF KInv, IInv, OneInside
<1>2. \A u \in Thread \ {t} : ~ Inside(u)'
  BY <1>1, OthersStay DEF KInv, Inside
<1> QED
  BY <1>1, <1>2 DEF SumInv

\* Steps that leave the tree and the totals alone.
LEMMA SumQuiet ==
  ASSUME KInv, SumInv, NEW t \in Thread, Acts(t), UNCHANGED <<record, totals>>
  PROVE  SumInv'
<1>1. /\ pc \in [Thread -> PC] /\ call \in [Thread -> Call] /\ call[t] \in Call /\ Mine(t)
      /\ (Inside(t) => mutex = t) /\ t # NULL
      /\ UNCHANGED <<record, current_size, max_size>>
  BY MineAll, HeapAssumption DEF KInv, IInv, TypeInv, OneInside, totals
<1>2. /\ Recorded' = Recorded /\ Sum' = Sum /\ Sum \in Nat
      /\ IsFiniteSet(Recorded) /\ current_size \in 0 .. max_size
  BY <1>1, SumStays, SumIsNat DEF KInv, SumInv
<1>3. CASE Begin(t) \/ Heap_terminate(t)
  <2>1. mutex' = mutex /\ ~ Inside(t)'
    BY <1>1, <1>3 DEF Begin, Enter, Heap_terminate, Go, Inside
  <2>2. \A u \in Thread : Inside(u)' => Inside(u) /\ Owed(u)' = Owed(u)
    BY <2>1, OthersStay DEF KInv, Inside, Owed
  <2> QED
    BY <1>1, <1>2, <2>1, <2>2 DEF SumInv
<1>4. CASE Lock(t)
  <2>1. mutex = NULL /\ mutex' = t /\ pc'[t] = "body"
    BY <1>1, <1>4 DEF Lock, Go
  <2>2. \A u \in Thread \ {t} : ~ Inside(u)'
    BY <2>1, OthersStay, HeapAssumption DEF KInv, IInv, OneInside, Inside
  <2>3. Owed(t)' = 0
    BY <2>1 DEF Owed
  <2> QED
    BY <1>1, <1>2, <2>1, <2>2, <2>3 DEF SumInv
<1>5. CASE Unlock(t)
  <2>1. pc[t] = "unlock" /\ pc'[t] = "idle"
    BY <1>1, <1>5 DEF Unlock, Go
  <2>2. current_size = Sum
    BY <1>2, <2>1 DEF SumInv, Inside, Owed
  <2>3. \A u \in Thread : ~ Inside(u)'
    BY <1>1, <2>1, OthersStay DEF KInv, IInv, OneInside, Inside
  <2> QED
    BY <1>1, <1>2, <2>2, <2>3 DEF SumInv
<1>6. CASE MallocFails(t) \/ ReallocFails(t)
  <2>1. Inside(t) /\ mutex' = mutex /\ ~ Inside(t)'
    BY <1>1, <1>6 DEF MallocFails, ReallocFails, ReturnNull, Go, Inside
  <2> QED
    BY <1>1, <1>2, <2>1, SumAlone
<1>7. CASE FindRecord(t) \/ FreeBlock(t) \/ ReallocUnknown(t) \/ HeapScan(t)
  <2>1. /\ pc[t] \in {"body", "libc_free"} /\ mutex' = mutex
        /\ pc'[t] \in {"remove", "unlock"}
    BY <1>1, <1>7 DEF FindRecord, FreeBlock, ReallocUnknown, HeapScan, Go
  <2>2. Inside(t) /\ Owed(t) = 0 /\ Owed(t)' = 0
    BY <2>1 DEF Inside, Owed
  <2>3. current_size = Sum + Owed(t)
    BY <2>2 DEF SumInv
  <2> QED
    BY <1>1, <1>2, <2>1, <2>2, <2>3, SumAlone
<1>8. CASE \E a \in Address : MallocGets(t, a) \/ ReallocGets(t, a)
  <2>1. /\ pc[t] \in {"body", "libc_realloc"} /\ mutex' = mutex /\ pc'[t] = "add"
        /\ pc[t] = "body" => call[t].op = "malloc"
    BY <1>1, <1>8 DEF MallocGets, ReallocGets, Go
  <2>2. call'[t].op = call[t].op /\ call'[t].size = call[t].size
    BY <1>1, <1>8 DEF MallocGets, ReallocGets, Call
  <2>3. Inside(t) /\ Owed(t)' = Owed(t)
    BY <1>1, <2>1, <2>2 DEF Inside, Owed, Mine
  <2>4. current_size = Sum + Owed(t)
    BY <2>3 DEF SumInv
  <2> QED
    BY <1>1, <1>2, <2>1, <2>3, <2>4, SumAlone
<1>9. CASE MallocRecords(t) \/ ReallocRecords(t)
  <2>1. /\ pc[t] = "add" /\ call[t].s_ptr \notin Recorded /\ call[t].s_ptr \in Address
        /\ \E n \in Nat : record' = [record EXCEPT ![call[t].s_ptr] = n]
    BY <1>1, <1>9 DEF MallocRecords, ReallocRecords, Go, Call, Mine
  <2>2. call[t].s_ptr \in Recorded'
    BY <2>1, HeapAssumption DEF Recorded, KInv, IInv, TypeInv
  <2> QED
    BY <1>2, <2>1, <2>2
<1>10. CASE RemoveRecord(t) \/ ReallocTakes(t)
  <2>1. /\ call[t].ptr \in Recorded
        /\ record' = [record EXCEPT ![call[t].ptr] = NULL]
    BY <1>1, <1>10 DEF RemoveRecord, ReallocTakes, Go, Mine
  <2>2. call[t].ptr \notin Recorded'
    BY <2>1 DEF Recorded, KInv, IInv, TypeInv
  <2> QED
    BY <1>2, <2>1, <2>2
<1> QED
  BY <1>3, <1>4, <1>5, <1>6, <1>7, <1>8, <1>9, <1>10 DEF Acts, Step

LEMMA MallocRecordsSums ==
  ASSUME KInv, SumInv, NEW t \in Thread, MallocRecords(t) PROVE SumInv'
<1> DEFINE x == call[t].s_ptr
           n == call[t].s_size
<1>1. /\ pc \in [Thread -> PC] /\ call[t] \in Call /\ Mine(t) /\ Inside(t) /\ Acts(t)
      /\ max_size \in Nat /\ current_size = Sum + Owed(t)
  BY MineAll DEF KInv, IInv, TypeInv, SumInv, Acts, Step, MallocRecords, Go, Inside
<1>2. /\ pc[t] = "add" /\ pc'[t] = "unlock" /\ call[t].op = "malloc" /\ mutex' = mutex
      /\ record' = [record EXCEPT ![x] = n] /\ current_size' = current_size + n
      /\ max_size' = IF current_size' > max_size THEN current_size' ELSE max_size
  BY <1>1 DEF MallocRecords, Go
<1>3. x \in Address \ Recorded /\ n \in Nat
  BY <1>1, <1>2 DEF Mine, Call
<1>4. IsFiniteSet(Recorded') /\ Sum' = Sum + n
  BY <1>2, <1>3, SumGrows DEF KInv, SumInv
<1>5. Sum \in Nat
  BY SumIsNat DEF KInv, SumInv
<1>6. Owed(t) = 0 /\ Owed(t)' = 0
  BY <1>2 DEF Owed
<1>7. current_size' = Sum' + Owed(t)' /\ current_size' \in 0 .. max_size'
  BY <1>1, <1>2, <1>3, <1>4, <1>5, <1>6
<1> QED
  BY <1>1, <1>2, <1>4, <1>7, SumAlone

LEMMA ReallocRecordsSums ==
  ASSUME KInv, SumInv, NEW t \in Thread, ReallocRecords(t) PROVE SumInv'
<1> DEFINE x == call[t].s_ptr
           n == call[t].size
<1>1. /\ pc \in [Thread -> PC] /\ call[t] \in Call /\ Mine(t) /\ Inside(t) /\ Acts(t)
      /\ max_size \in Nat /\ current_size = Sum + Owed(t) /\ current_size \in 0 .. max_size
  BY MineAll DEF KInv, IInv, TypeInv, SumInv, Acts, Step, ReallocRecords, Go, Inside
<1>2. /\ pc[t] = "add" /\ pc'[t] = "unlock" /\ call[t].op = "realloc" /\ mutex' = mutex
      /\ record' = [record EXCEPT ![x] = n] /\ current_size' = current_size
      /\ max_size' = max_size
  BY <1>1 DEF ReallocRecords, Go, totals
<1>3. x \in Address \ Recorded /\ n \in Nat
  BY <1>1, <1>2 DEF Mine, Call
<1>4. IsFiniteSet(Recorded') /\ Sum' = Sum + n
  BY <1>2, <1>3, SumGrows DEF KInv, SumInv
<1>5. Sum \in Nat
  BY SumIsNat DEF KInv, SumInv
<1>6. Owed(t) = n /\ Owed(t)' = 0
  BY <1>2 DEF Owed
<1>7. current_size' = Sum' + Owed(t)'
  BY <1>1, <1>2, <1>3, <1>4, <1>5, <1>6
<1> QED
  BY <1>1, <1>2, <1>4, <1>7, SumAlone

LEMMA RemoveRecordSums ==
  ASSUME KInv, SumInv, NEW t \in Thread, RemoveRecord(t) PROVE SumInv'
<1> DEFINE x == call[t].ptr
<1>1. /\ pc \in [Thread -> PC] /\ call[t] \in Call /\ Mine(t) /\ Inside(t) /\ Acts(t)
      /\ max_size \in Nat /\ current_size = Sum + Owed(t) /\ current_size \in 0 .. max_size
  BY MineAll DEF KInv, IInv, TypeInv, SumInv, Acts, Step, RemoveRecord, Go, Inside
<1>2. /\ pc[t] = "remove" /\ pc'[t] \in {"libc_free", "unlock"} /\ mutex' = mutex
      /\ record' = [record EXCEPT ![x] = NULL] /\ current_size' = current_size - record[x]
      /\ max_size' = max_size /\ call' = call
  BY <1>1 DEF RemoveRecord, Go
<1>3. x \in Recorded
  BY <1>1, <1>2 DEF Mine
<1>4. IsFiniteSet(Recorded') /\ Sum' \in Nat /\ record[x] \in Nat /\ Sum = Sum' + record[x]
  BY <1>2, <1>3, SumShrinks DEF KInv, SumInv
<1>5. Owed(t) = 0 /\ Owed(t)' = 0
  BY <1>2 DEF Owed
<1>6. current_size' = Sum' + Owed(t)' /\ current_size' \in 0 .. max_size'
  BY <1>1, <1>2, <1>4, <1>5
<1> QED
  BY <1>1, <1>2, <1>4, <1>6, SumAlone

LEMMA ReallocTakesSums ==
  ASSUME KInv, SumInv, NEW t \in Thread, ReallocTakes(t) PROVE SumInv'
<1> DEFINE x == call[t].ptr
<1>1. /\ pc \in [Thread -> PC] /\ call \in [Thread -> Call] /\ call[t] \in Call /\ Inside(t)
      /\ Acts(t) /\ max_size \in Nat /\ current_size = Sum + Owed(t)
  BY DEF KInv, IInv, TypeInv, SumInv, Acts, Step, ReallocTakes, Go, Inside
<1>2. /\ pc[t] = "body" /\ pc'[t] = "libc_realloc" /\ call[t].op = "realloc" /\ mutex' = mutex
      /\ record' = [record EXCEPT ![x] = NULL] /\ x \in Recorded
      /\ current_size' = current_size + call[t].size - record[x]
      /\ max_size' = IF current_size' > max_size THEN current_size' ELSE max_size
  BY <1>1 DEF ReallocTakes, Go
<1>3. call'[t].op = call[t].op /\ call'[t].size = call[t].size
  BY <1>1 DEF ReallocTakes, Call
<1>4. IsFiniteSet(Recorded') /\ Sum' \in Nat /\ record[x] \in Nat /\ Sum = Sum' + record[x]
  BY <1>2, SumShrinks DEF KInv, SumInv
<1>5. Owed(t) = 0 /\ Owed(t)' = call[t].size
  BY <1>2, <1>3 DEF Owed
<1>6. current_size' = Sum' + call[t].size /\ call[t].size \in Nat
  BY <1>1, <1>2, <1>4, <1>5 DEF Call
<1>7. current_size' = Sum' + Owed(t)' /\ current_size' \in 0 .. max_size'
  BY <1>1, <1>2, <1>4, <1>5, <1>6
<1> QED
  BY <1>1, <1>2, <1>4, <1>7, SumAlone

LEMMA InitSumInv == Init => SumInv
<1> SUFFICES ASSUME Init PROVE SumInv
  OBVIOUS
<1>1. Recorded = {}
  BY DEF Init, Recorded
<1>2. Sum = 0 /\ IsFiniteSet(Recorded)
  BY <1>1, SumIs, TotalEmpty, FS_EmptySet
<1> QED
  BY <1>2 DEF Init, SumInv, Inside

LEMMA NextSumInv == KInv /\ SumInv /\ [Next]_vars => SumInv'
<1> SUFFICES ASSUME KInv, SumInv, [Next]_vars PROVE SumInv'
  OBVIOUS
<1>1. CASE (\E a \in Address : FreeUnlinked(a)) \/ UNCHANGED vars
  <2>1. UNCHANGED <<mutex, record, current_size, max_size, pc, call>>
    BY <1>1 DEF FreeUnlinked, vars, totals
  <2> QED
    BY <2>1, SumStays DEF SumInv, Inside, Owed
<1>2. ASSUME NEW t \in Thread, Acts(t) PROVE SumInv'
  <2>1. CASE UNCHANGED <<record, totals>>
    BY <1>2, <2>1, SumQuiet
  <2>2. CASE MallocRecords(t) \/ ReallocRecords(t) \/ RemoveRecord(t) \/ ReallocTakes(t)
    BY <2>2, MallocRecordsSums, ReallocRecordsSums, RemoveRecordSums, ReallocTakesSums
  <2> QED
    BY <1>2, <2>1, <2>2 DEF Acts, Begin, Enter, Heap_terminate, Step, Lock, Unlock, MallocFails,
       FindRecord, FreeBlock, ReallocUnknown, ReallocFails, HeapScan, MallocGets, ReallocGets,
       ReturnNull
<1> QED
  BY <1>1, <1>2 DEF Next, Acts

\* Whenever the mutex is free current_size is the sum of the sizes in the
\* records and max_size has been as high, and current_size, a size_t, is
\* never taken below zero, whatever fails in between.
THEOREM HeapTotalsAgree == Spec => []TotalsAgree
<1>1. KInv /\ SumInv => TotalsAgree
  BY DEF KInv, IInv, TypeInv, SumInv, TotalsAgree, Sum
<1> QED
  BY <1>1, HeapKnown, InitSumInv, NextSumInv, PTL DEF Spec
=============================================================================
