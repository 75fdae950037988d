------------------------------- MODULE MCTree -------------------------------
(***************************************************************************)
(* Instances of Tree for TLC.  The keys are numbers because the compare    *)
(* callback orders them; node addresses are only compared for equality.    *)
(***************************************************************************)
EXTENDS Tree

CONSTANTS MaxKey, MaxNode   \* how many of each there are

MCKey    == 1 .. MaxKey
MCNode   == 1 .. MaxNode
MCTemp   == 0

\* Every key with one content, the repeated ones with a second.
MCContent == [key : MCKey, tag : {1}] \cup [key : Repeated, tag : {2}]
MCSizeOf  == [c \in MCContent |-> c.key * c.key + 3 * c.tag]

\* Bound: second contents come only with the first repetition, and from then
\* on few keys are used.
CONSTANT FewKeys
Bound == \A n \in Live(tree) : IF again THEN tree.content[n].key <= FewKeys
                                        ELSE tree.content[n].tag = 1

\* The tree without the addresses of its nodes: for each node its fields, with
\* the content of the parent for the pointer to it.  Tree.c compares addresses
\* for equality only, so two states with the same view behave alike.
Shape ==
  LET contentOf(n) == IF n = NULL THEN NULL ELSE tree.content[n]
      at[n \in Pointer] ==
        IF n = NULL THEN <<>>
        ELSE <<at[tree.child[n][Left]], tree.content[n], tree.nsize[n], tree.red[n],
               contentOf(tree.parent[n]), at[tree.child[n][Right]]>>
  IN  <<at[tree.root], tree.count, tree.size, rc, again>>
=============================================================================
