------------------------------- MODULE MCHeap -------------------------------
(***************************************************************************)
(* Instances of Heap for TLC.                                              *)
(***************************************************************************)
EXTENDS Heap

\* One size that Heap_roundup leaves alone and one that it does not.
MCRequest == {16, 17}
=============================================================================
