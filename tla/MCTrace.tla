------------------------------ MODULE MCTrace ------------------------------
(***************************************************************************)
(* Instances of Trace for TLC.                                             *)
(***************************************************************************)
EXTENDS Trace

\* Threads and names are only compared for equality.
Symmetry == Permutations(Thread) \cup Permutations(Name)

\* What was in a callstack above its depth is written before it is read.
Seen ==
  LET live(e) == [id |-> e.id, depth |-> e.current_depth,
                  names |-> SubSeq(e.callstack, 1, e.current_depth)]
  IN  <<mutex, [i \in DOMAIN threads |-> live(threads[i])], my_thread,
        trace_queue, start_index, next_index, pc, call, inside>>
=============================================================================
