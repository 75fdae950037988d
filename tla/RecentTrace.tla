---------------------------- MODULE RecentTrace ----------------------------
(***************************************************************************)
(* What the trace buffer is for: the last entries of the trace, in the     *)
(* order they were made, "so that the function exit/entry history can be   *)
(* captured by default".                                                   *)
(***************************************************************************)
EXTENDS Naturals, Sequences

CONSTANTS Entry, Capacity

VARIABLES
  on,      \* the trace is between Log_initialize and Log_terminate
  recent   \* the entries, the oldest first

vars == <<on, recent>>

Init == on = FALSE /\ recent = <<>>

Begin == ~ on /\ on' = TRUE /\ UNCHANGED recent

End == on' = FALSE /\ recent' = <<>>

\* The oldest entry makes room, and only when there is none left.
Forget == on /\ Len(recent) = Capacity /\ recent' = Tail(recent) /\ UNCHANGED on

Add(e) == on /\ Len(recent) < Capacity /\ recent' = Append(recent, e) /\ UNCHANGED on

Next == Begin \/ End \/ Forget \/ \E e \in Entry : Add(e)

Spec == Init /\ [][Next]_vars
=============================================================================
