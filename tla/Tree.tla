-------------------------------- MODULE Tree --------------------------------
(***************************************************************************)
(* The red-black tree of Tree.c, pointer by pointer.  Heap.c keeps its     *)
(* allocation records in one.                                              *)
(*                                                                         *)
(* The C structure Tree and the nodes reachable from it are one record:    *)
(* root, count and size are the fields of Tree, and parent, child, red,    *)
(* content and nsize give for each address the fields of its Node.  The    *)
(* while loops of Tree.c are recursive functions over that record, so that *)
(* one call of the C interface is one action.  An access through a NULL    *)
(* pointer is an application outside the domain, which TLC reports.        *)
(***************************************************************************)
EXTENDS Integers, FiniteSets, FiniteSetsExt

CONSTANTS
  Key,       \* what the compare callback looks at; a set of integers
  Content,   \* what callers add: records with a key and a tag, which stands
             \* for the rest of it: two contents may have the same key
  Node,      \* the addresses malloc(sizeof(Node)) may return
  Temp,      \* the address of the local variable temp of TreeRemoveNodeIndex
  NULL,
  SizeOf,    \* the size the caller passes to TreeAdd with each content
  Repeated   \* the keys that callers also add when they are there already

ASSUME TreeAssumption ==
  /\ Key \subseteq Int /\ IsFiniteSet(Key)
  /\ Temp \notin Node /\ NULL \notin Node \cup {Temp}
  /\ Content \subseteq [key : Key, tag : Nat]
  /\ SizeOf \in [Content -> Nat]
  /\ Repeated \subseteq Key

Left  == 0
Right == 1

Pointer  == Node \cup {NULL}
Address  == Node \cup {Temp}

\* Every value a tree may have; Temp is a node only while one is removed.
Trees == [root    : Pointer,
          parent  : [Address -> Pointer],
          child   : [Address -> [{Left, Right} -> Pointer]],
          red     : [Address -> BOOLEAN],
          content : [Address -> Content \cup {NULL}],
          nsize   : [Address -> Nat],
          count   : Int,
          size    : Int]

VARIABLES
  tree,      \* the tree
  rc,        \* what the last call returned
  again      \* history: a key was added that was there already

vars == <<tree, rc, again>>

-----------------------------------------------------------------------------
(***************************************************************************)
(* Balancing.                                                              *)
(***************************************************************************)

IsRed(t, n)   == n # NULL /\ t.red[n]
IsBlack(t, n) == ~ IsRed(t, n)

\* Paint all the nodes of S with a colour; S may not hold NULL.
Paint(t, S, red) ==
  [t EXCEPT !.red = [n \in Address |-> IF n \in S THEN red ELSE @[n]]]

\* Mutant: the child that changes sides keeps its old parent pointer.
SetParentForgotten(t, n, up) == t

\* Let n, if there is such a node, point to its parent.
SetParent(t, n, up) == IF n = NULL THEN t ELSE [t EXCEPT !.parent[n] = up]

\* n goes down in the given direction and its other child takes its place.
TreeRotate(t, n, direction) ==
  LET other == t.child[n][1 - direction]
      inner == t.child[other][direction]
      up    == t.parent[n]
      side  == IF t.child[up][direction] = n THEN direction ELSE 1 - direction
      moved == [t.child EXCEPT ![n][1 - direction] = inner,
                               ![other][direction] = n]
  IN  [SetParent(t, inner, n) EXCEPT
        !.child  = IF up = NULL THEN moved ELSE [moved EXCEPT ![up][side] = other],
        !.parent = [@ EXCEPT ![other] = up, ![n] = other],
        !.root   = IF up = NULL THEN other ELSE @]

\* Mutant: a red uncle keeps its colour.
TreeBAASubUncleRed(t, n, which) ==
  LET up    == t.parent[n]
      top   == t.parent[up]
      inner == n = t.child[up][which]
      t1    == IF inner THEN TreeRotate(t, up, 1 - which) ELSE t
      n1    == IF inner THEN up ELSE n
      up1   == t1.parent[n1]
      top1  == t1.parent[up1]
  IN  IF IsRed(t, t.child[top][which])
      THEN <<Paint(Paint(t, {up}, FALSE), {top}, TRUE), top>>
      ELSE <<TreeRotate(Paint(Paint(t1, {up1}, FALSE), {top1}, TRUE), top1, which), n1>>

\* One round after an addition, whose result is the tree and the node to
\* look at next; which is the side of the uncle.
TreeBAASub(t, n, which) ==
  LET up    == t.parent[n]
      top   == t.parent[up]
      uncle == t.child[top][which]
      \* if n is the inner grandchild it changes places with its parent
      inner == n = t.child[up][which]
      t1    == IF inner THEN TreeRotate(t, up, 1 - which) ELSE t
      n1    == IF inner THEN up ELSE n
      up1   == t1.parent[n1]
      top1  == t1.parent[up1]
      t2    == Paint(Paint(t1, {up1}, FALSE), {top1}, TRUE)
  IN  IF IsRed(t, uncle)
      THEN <<Paint(Paint(t, {up, uncle}, FALSE), {top}, TRUE), top>>
      ELSE <<TreeRotate(t2, top1, which), n1>>

TreeBalanceAfterAdd[t \in Trees, n \in Pointer] ==
  IF IsRed(t, t.parent[n]) /\ t.parent[t.parent[n]] # NULL
  THEN LET up    == t.parent[n]
           uncleSide == IF up = t.child[t.parent[up]][Left] THEN Right ELSE Left
           round == TreeBAASub(t, n, uncleSide)
       IN  TreeBalanceAfterAdd[round[1], round[2]]
  ELSE Paint(t, {t.root}, FALSE)

\* Mutant: a removal is not followed by any rebalancing.
TreeBARSubNothing(t, n, which) == <<t, t.root>>

\* One round after a removal; which is the side of the sibling.
TreeBARSub(t, n, which) ==
  LET up    == t.parent[n]
      old   == t.child[up][which]
      t1    == IF IsRed(t, old)
               THEN TreeRotate(Paint(Paint(t, {old}, FALSE), {up}, TRUE), up, 1 - which)
               ELSE t
      sib   == t1.child[t1.parent[n]][which]
      near  == t1.child[sib][1 - which]
      far   == t1.child[sib][which]
      t2    == IF IsBlack(t1, far)
               THEN TreeRotate(Paint(Paint(t1, {near}, FALSE), {sib}, TRUE), sib, which)
               ELSE t1
      up2   == t2.parent[n]
      sib2  == t2.child[up2][which]
      t3    == Paint(Paint(t2, {sib2}, t2.red[up2]), {up2, t2.child[sib2][which]}, FALSE)
      t4    == TreeRotate(t3, up2, 1 - which)
  IN  CASE sib = NULL -> <<t1, t1.parent[n]>>
        [] sib # NULL /\ IsBlack(t1, near) /\ IsBlack(t1, far)
             -> <<Paint(t1, {sib}, TRUE), t1.parent[n]>>
        [] OTHER -> <<t4, t4.root>>

TreeBalanceAfterRemove[t \in Trees, n \in Address] ==
  IF n # t.root /\ IsBlack(t, n)
  THEN LET self  == IF t.content[n] = NULL THEN NULL ELSE n
           side  == IF self = t.child[t.parent[n]][Left] THEN Right ELSE Left
           round == TreeBARSub(t, n, side)
       IN  TreeBalanceAfterRemove[round[1], round[2]]
  ELSE Paint(t, {n}, FALSE)

-----------------------------------------------------------------------------
(***************************************************************************)
(* Searching and walking.                                                  *)
(***************************************************************************)

\* The compare callbacks of Tree.c and Heap.c for numbers: positive, go right.
Compare(c, k) == IF c.key > k THEN -1 ELSE IF c.key = k THEN 0 ELSE 1

\* Where the search for k ends: at the node that has it, or at NULL below
\* the node and on the side where it would be.
Descend(t, k) ==
  LET go[n \in Pointer, up \in Pointer, side \in {Left, Right}] ==
        IF n = NULL \/ Compare(t.content[n], k) = 0
        THEN [node |-> n, parent |-> up, side |-> side]
        ELSE LET s == IF Compare(t.content[n], k) > 0 THEN Right ELSE Left
             IN  go[t.child[n][s], n, s]
  IN  go[t.root, NULL, Left]

TreeFind(t, k) == Descend(t, k).node

TreeMinimum(t, n) ==
  LET go[m \in Node] == IF t.child[m][Left] = NULL THEN m ELSE go[t.child[m][Left]]
  IN  IF n = NULL THEN NULL ELSE go[n]

\* Mutant: one step up, without climbing past the right children.
TreeSuccessorNoClimb(t, n) ==
  IF t.child[n][Right] # NULL THEN TreeMinimum(t, t.child[n][Right]) ELSE t.parent[n]

TreeSuccessor(t, n) ==
  LET up[m \in Node] ==
        IF t.parent[m] # NULL /\ m = t.child[t.parent[m]][Right]
        THEN up[t.parent[m]] ELSE t.parent[m]
  IN  IF t.child[n][Right] # NULL THEN TreeMinimum(t, t.child[n][Right]) ELSE up[n]

TreeNextElement(t, n) ==
  IF n = NULL THEN TreeMinimum(t, t.root) ELSE TreeSuccessor(t, n)

-----------------------------------------------------------------------------
(***************************************************************************)
(* The nodes in use, and what a call does to the tree.                     *)
(***************************************************************************)

Live(t) == {n \in Node : t.content[n] # NULL}

\* The address malloc returns; which one it is does not matter to Tree.c.
NewNode(t) == CHOOSE n \in Node : n \notin Live(t)

\* A node as memset leaves it; addresses that are not in use look like this.
Blank(t, n) ==
  [t EXCEPT !.parent[n] = NULL, !.child[n] = [s \in {Left, Right} |-> NULL],
            !.red[n] = FALSE, !.content[n] = NULL, !.nsize[n] = 0]

EmptyTree ==
  [root    |-> NULL,
   parent  |-> [n \in Address |-> NULL],
   child   |-> [n \in Address |-> [s \in {Left, Right} |-> NULL]],
   red     |-> [n \in Address |-> FALSE],
   content |-> [n \in Address |-> NULL],
   nsize   |-> [n \in Address |-> 0],
   count   |-> 0,
   size    |-> 0]

\* The slot that points to the node below up, or the root.
Hang(t, up, side, n) ==
  IF up = NULL THEN [t EXCEPT !.root = n] ELSE [t EXCEPT !.child[up][side] = n]

\* The new tree; the content it replaced, if any, is what TreeFind had.
TreeAdd(t, c, size) ==
  LET place == Descend(t, c.key)
      found == place.node # NULL
      n     == IF found THEN place.node ELSE NewNode(t)
      t1    == IF found
               THEN [t EXCEPT !.size = @ + size - t.nsize[n]]
               ELSE [Hang(t, place.parent, place.side, n) EXCEPT
                       !.parent[n] = place.parent, !.red[n] = TRUE,
                       !.count = @ + 1, !.size = @ + size]
      t2    == [t1 EXCEPT !.content[n] = c, !.nsize[n] = size]
  IN  TreeBalanceAfterAdd[t2, n]

\* Mutants: size is taken from the node after its content was replaced; the
\* number of nodes is not counted down.
DropLate(was, t, n, gone) == [Blank(t, gone) EXCEPT !.size = @ - t.nsize[n], !.count = @ - 1]
DropUncounted(was, t, n, gone) == [Blank(t, gone) EXCEPT !.size = @ - was.nsize[n]]

\* The node gone is freed; n, in the tree as it was, had the content removed.
Drop(was, t, n, gone) == [Blank(t, gone) EXCEPT !.size = @ - was.nsize[n], !.count = @ - 1]

\* The node that leaves memory is n, or its successor if n has two children,
\* whose content then moves into n.
TreeRemoveNodeIndex(t, n) ==
  LET two    == t.child[n][Left] # NULL /\ t.child[n][Right] # NULL
      gone   == IF two THEN TreeSuccessor(t, n) ELSE n
      below  == t.child[gone][IF t.child[gone][Left] # NULL THEN Left ELSE Right]
      up     == t.parent[gone]
      side   == IF up # NULL /\ gone = t.child[up][Left] THEN Left ELSE Right
      t1     == Hang(SetParent(t, below, up), up, side, below)
      t2     == IF gone = n THEN t1
                ELSE [t1 EXCEPT !.content[n] = t.content[gone], !.nsize[n] = t.nsize[gone]]
      t3     == CASE IsRed(t2, gone) -> t2
                  [] IsBlack(t2, gone) /\ below # NULL -> TreeBalanceAfterRemove[t2, below]
                  [] IsBlack(t2, gone) /\ below = NULL /\ up # NULL
                       -> Blank(TreeBalanceAfterRemove[[t2 EXCEPT !.parent[Temp] = up], Temp],
                                Temp)
                  [] OTHER -> t2
  IN  Drop(t, t3, n, gone)

-----------------------------------------------------------------------------
(***************************************************************************)
(* The interface.                                                          *)
(***************************************************************************)

\* What a call hands back for the node it found.
ContentAt(n) == IF n = NULL THEN NULL ELSE tree.content[n]

Init == tree = EmptyTree /\ rc = NULL /\ again = FALSE

\* Mutant: the content that was replaced is not handed back.
AddForgets(c) ==
  /\ TreeFind(tree, c.key) # NULL => c.key \in Repeated
  /\ TreeFind(tree, c.key) = NULL => Live(tree) # Node
  /\ tree' = TreeAdd(tree, c, SizeOf[c])
  /\ rc' = NULL
  /\ again' = (again \/ TreeFind(tree, c.key) # NULL)

Add(c) ==
  LET n == TreeFind(tree, c.key) IN
  /\ n # NULL => c.key \in Repeated
  /\ n = NULL => Live(tree) # Node          \* bound: the size of Node
  /\ tree' = TreeAdd(tree, c, SizeOf[c])
  /\ rc' = ContentAt(n)
  /\ again' = (again \/ n # NULL)

\* Mutant: the content is read after the node was removed.
RemoveKeyLate(k) ==
  LET n == TreeFind(tree, k) IN
  /\ tree' = IF n = NULL THEN tree ELSE TreeRemoveNodeIndex(tree, n)
  /\ rc' = IF n = NULL THEN NULL ELSE tree'.content[n]
  /\ UNCHANGED again

RemoveKey(k) ==
  LET n == TreeFind(tree, k) IN
  /\ tree' = IF n = NULL THEN tree ELSE TreeRemoveNodeIndex(tree, n)
  /\ rc' = ContentAt(n)
  /\ UNCHANGED again

Find(k) ==
  /\ rc' = ContentAt(TreeFind(tree, k))
  /\ UNCHANGED <<tree, again>>

Next ==
  \/ \E c \in Content : Add(c)
  \/ \E k \in Key : RemoveKey(k)
  \/ \E k \in Key : Find(k)

Spec == Init /\ [][Next]_vars

-----------------------------------------------------------------------------
(***************************************************************************)
(* Correctness.                                                            *)
(***************************************************************************)

\* Every field has a value of its C type; size is a size_t and count counts
\* nodes, so neither may be taken below zero.
TypeOK ==
  /\ tree \in Trees /\ tree.count >= 0 /\ tree.size >= 0
  /\ rc \in Content \cup {NULL}
  /\ again \in BOOLEAN

\* A node hangs below exactly the node its parent pointer names, the root has
\* no parent, and no pointer leads to memory that was given back.
Linked ==
  \A n \in Live(tree) :
    /\ tree.parent[n] = NULL <=> n = tree.root
    /\ tree.parent[n] # NULL =>
         \E s \in {Left, Right} : tree.child[tree.parent[n]][s] = n
    /\ \A s \in {Left, Right} :
         LET m == tree.child[n][s] IN
         m # NULL => m \in Live(tree) /\ tree.parent[m] = n
    /\ tree.child[n][Left] # tree.child[n][Right] \/ tree.child[n][Left] = NULL

\* TreeNextElement, from NULL, visits all the contents in ascending order of
\* their keys and ends.
WalkAscends ==
  LET keyOf(n)  == tree.content[n].key
      Above(k)  == {n \in Live(tree) : keyOf(n) > k}
      Lowest(S) == IF S = {} THEN NULL
                   ELSE CHOOSE n \in S : \A m \in S : keyOf(n) <= keyOf(m)
  IN  /\ TreeNextElement(tree, NULL) = Lowest(Live(tree))
      /\ \A n \in Live(tree) : TreeNextElement(tree, n) = Lowest(Above(keyOf(n)))

\* Parent and child pointers agree and the walk along them ascends, which is
\* what check() of the unit test of Tree.c looks for: TreeRotate and
\* TreeRemoveNodeIndex keep both directions by hand, four assignments at a
\* time, and a pointer to a freed node shows only when a walk comes by.
SearchTree == TypeOK /\ Linked /\ WalkAscends

\* No red node has a red child and the root is black: the check that TreeWalk
\* and TreeMaxDepth carry in comments, whatever was added.
ColoursRight ==
  /\ IsBlack(tree, tree.root)
  /\ \A n \in Live(tree) : IsRed(tree, n) =>
       IsBlack(tree, tree.child[n][Left]) /\ IsBlack(tree, tree.child[n][Right])

\* The number of black nodes on the way down from n, or -1 if it depends on
\* the way.
BlackHeight(t) ==
  LET h[n \in Pointer] ==
        IF n = NULL THEN 0
        ELSE LET l == h[t.child[n][Left]]
                 r == h[t.child[n][Right]]
             IN  IF l = r /\ l # -1 THEN l + (IF t.red[n] THEN 0 ELSE 1) ELSE -1
  IN  h[t.root]

\* As long as no key was added while it was there, no red node has a red
\* child and all the paths down have the same number of black nodes, so that
\* none is more than twice as long as another: after any additions and
\* removals, each of which repaints only the nodes around it.
RedBlack == ~ again => ColoursRight /\ BlackHeight(tree) # -1

\* The fields count and size of the tree are what its nodes add up to, after
\* additions, replacements and removals in any order; size is taken from the
\* node before the content of its successor moves in.
CountsAgree ==
  /\ tree.count = Cardinality(Live(tree))
  /\ tree.size = MapThenSumSet(LAMBDA n : tree.nsize[n], Live(tree))

\* What the searches for all keys find: the set that OrderedMap speaks of.
Items == {tree.content[n] : n \in {TreeFind(tree, k) : k \in Key} \ {NULL}}

Map == INSTANCE OrderedMap WITH items <- Items

\* The pointer structure is an ordered map: every call changes the set of
\* contents and returns a value as the map's operation of that name does,
\* and rebalancing is invisible.
ImplementsMap == Map!Spec
=============================================================================
