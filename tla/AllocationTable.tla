-------------------------- MODULE AllocationTable --------------------------
(***************************************************************************)
(* What Heap.h promises the program that includes it: malloc, realloc and  *)
(* free as usual, and beside them a table that has, at every moment, the   *)
(* size of each block the program may still free.  Every call is one step. *)
(***************************************************************************)
EXTENDS Naturals

CONSTANTS Address, Request, Round(_), NULL

VARIABLE table    \* for each address the size of its block, or NULL

Owned == {a \in Address : table[a] # NULL}

Init == table = [a \in Address |-> NULL]

\* mymalloc hands out a block that nobody owns.
Allocate(a, n) ==
  /\ a \notin Owned
  /\ table' = [table EXCEPT ![a] = Round(n)]

\* myfree, and Heap_unlink, end the ownership of one block.
Release(a) ==
  /\ a \in Owned
  /\ table' = [table EXCEPT ![a] = NULL]

\* myrealloc exchanges a block for one of another size, there or elsewhere.
Resize(a, b, n) ==
  /\ a \in Owned
  /\ b \notin Owned \ {a}
  /\ table' = [table EXCEPT ![a] = NULL, ![b] = Round(n)]

Next ==
  \/ \E a \in Address : Release(a)
  \/ \E a \in Address, n \in Request : Allocate(a, n)
  \/ \E a, b \in Address, n \in Request : Resize(a, b, n)

Spec == Init /\ [][Next]_table
=============================================================================
