---------------------------- MODULE MCLinkedList ----------------------------
(***************************************************************************)
(* Instances of LinkedList for TLC: the contents have two values, and all  *)
(* those in Odd have one of them, so that a search by value has a choice.  *)
(***************************************************************************)
EXTENDS LinkedList, TLC

CONSTANTS Odd

MCValue   == {"odd", "even"}
MCValueOf == [c \in Content |-> IF c \in Odd THEN "odd" ELSE "even"]
MCSizeOf  == [c \in Content |-> 1]

\* Contents with the same value are only compared for equality.
Symmetry == Permutations(Odd) \cup Permutations(Content \ Odd)

\* The list without the addresses of its elements, which LinkedList.c only
\* compares for equality: states with the same view behave alike.
Shape ==
  LET contents(s) == [i \in DOMAIN s |-> elem[s[i]].content]
  IN  <<contents(Forward), contents(Backward), Position(list.current),
        list.current = NULL, Cardinality(Used), list.count, list.size, freed, rc>>
=============================================================================
