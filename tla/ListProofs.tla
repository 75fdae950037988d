----------------------------- MODULE ListProofs -----------------------------
(***************************************************************************)
(* The list of LinkedList.c is a chain, and implements a sequence with a   *)
(* cursor: proofs about LinkedList.                                        *)
(*                                                                         *)
(* The links of the elements alone do not say what a loop visits, so the   *)
(* invariant names the sequence s the list goes through: each element      *)
(* points to its neighbours in s, the elements in use are those of s, no   *)
(* element and no content is in s twice, and the List knows the ends, the  *)
(* number and a cursor in s.  An operation takes s to s with a place cut   *)
(* out or put in.                                                          *)
(***************************************************************************)
EXTENDS LinkedList, FiniteSetTheorems, WellFoundedInduction, TLAPS

-----------------------------------------------------------------------------
(***************************************************************************)
(* Following pointers.                                                     *)
(***************************************************************************)

\* What is at place i of s, or NULL beyond its ends.
At(s, i) == IF i \in 1 .. Len(s) THEN s[i] ELSE NULL

\* No element is in s twice.
Injective(s) == \A i, j \in 1 .. Len(s) : s[i] = s[j] => i = j

\* go[n][x] are the elements a loop of at most n rounds visits from x on.
Walk(go, next, N) ==
  go = [n \in 0 .. N |->
         [x \in Pointer |->
            IF x = NULL \/ n = 0 THEN <<>> ELSE <<x>> \o go[n - 1][next[x]]]]

\* A set of numbers has a smallest one: the well-founded order stands in for
\* induction, which the provers cannot instantiate.
LEMMA NatMin == ASSUME NEW T, T \subseteq Nat, T # {} PROVE \E m \in T : \A n \in T : m <= n
<1>1. OpToRel(<, Nat) = {p \in Nat \X Nat : p[1] < p[2]}
  BY Zenon DEF OpToRel
<1>2. IsWellFoundedOn(OpToRel(<, Nat), Nat)
  BY NatLessThanWellFounded
<1>3. PICK m \in T : \A n \in T : <<n, m>> \notin OpToRel(<, Nat)
  BY <1>2, WFMin
<1>4. \A n \in T : <<n, m>> \notin {p \in Nat \X Nat : p[1] < p[2]}
  BY <1>1, <1>3, Zenon
<1>5. ASSUME NEW n \in T PROVE ~ (n < m)
  BY <1>4
<1>6. \A n \in T : m <= n
  BY <1>5
<1> QED
  BY <1>6

\* Follow is the table that Walk describes, read for all elements and from e.
LEMMA FollowIs ==
  ASSUME NEW next, NEW e
  PROVE  Follow(next, e) =
           (CHOOSE go : Walk(go, next, Cardinality(Elem)))[Cardinality(Elem)][e]
  BY Zenon DEF Follow, Walk

\* What the table says for n rounds.
LEMMA WalkAt ==
  ASSUME NEW go, NEW next, NEW N, Walk(go, next, N), NEW n \in 0 .. N, NEW x \in Pointer
  PROVE  go[n][x] = IF x = NULL \/ n = 0 THEN <<>> ELSE <<x>> \o go[n - 1][next[x]]
<1> DEFINE row(g, m) == [y \in Pointer |->
                          IF y = NULL \/ m = 0 THEN <<>> ELSE <<y>> \o g[m - 1][next[y]]]
<1>1. go = [m \in 0 .. N |-> row(go, m)]
  BY DEF Walk
<1>2. go[n] = row(go, n)
  <2> HIDE DEF row
  <2> QED
    BY <1>1, Zenon
<1> QED
  BY <1>2

\* There is such a table: were there none for N rounds, take the fewest rounds
\* for which there is none and add a row to the table before.
LEMMA WalkExists ==
  ASSUME NEW next \in [Elem -> Pointer], NEW N \in Nat
  PROVE  \E go : Walk(go, next, N)
<1> SUFFICES ASSUME ~ \E go : Walk(go, next, N)
             PROVE  FALSE
  OBVIOUS
<1> DEFINE T == {n \in Nat : ~ \E go : Walk(go, next, n)}
<1>1. PICK m \in T : \A n \in T : m <= n
  <2>1. T \subseteq Nat /\ N \in T
    OBVIOUS
  <2> HIDE DEF T
  <2> QED
    BY <2>1, NatMin
<1>2. PICK g : m = 0 \/ Walk(g, next, m - 1)
  <2>1. m = 0 \/ m - 1 \notin T
    BY <1>1
  <2> QED
    BY <2>1
<1> DEFINE row(h, n) == [x \in Pointer |->
                          IF x = NULL \/ n = 0 THEN <<>> ELSE <<x>> \o h[n - 1][next[x]]]
           f == [n \in 0 .. m |-> row(g, n)]
<1>3. ASSUME NEW n \in 0 .. m - 1, NEW x \in Pointer
      PROVE  f[n][x] = g[n][x]
  <2>1. Walk(g, next, m - 1) /\ n \in 0 .. m
    BY <1>2
  <2>2. g[n][x] = IF x = NULL \/ n = 0 THEN <<>> ELSE <<x>> \o g[n - 1][next[x]]
    BY <2>1, WalkAt
  <2>3. f[n] = row(g, n)
    BY <2>1
  <2> QED
    BY <2>2, <2>3
<1>4. ASSUME NEW n \in 0 .. m
      PROVE  row(g, n) = row(f, n)
  <2>1. ASSUME NEW x \in Pointer, x # NULL, n # 0
        PROVE  g[n - 1][next[x]] = f[n - 1][next[x]]
    <3>1. n - 1 \in 0 .. m - 1 /\ next[x] \in Pointer
      BY <2>1 DEF Pointer
    <3> QED
      BY <1>3, <3>1
  <2> HIDE DEF f
  <2> QED
    BY <2>1
<1>5. f = [n \in 0 .. m |-> row(f, n)]
  <2> HIDE DEF row
  <2> QED
    BY <1>4
<1>6. Walk(f, next, m)
  BY <1>5 DEF Walk
<1> QED
  BY <1>6

\* A sequence without repetition is not longer than there are elements, so
\* the bound of Follow is no restriction on a list in order.
LEMMA NoMoreThanElem ==
  ASSUME NEW s \in Seq(Elem), Injective(s)
  PROVE  Cardinality(Elem) \in Nat /\ Len(s) <= Cardinality(Elem)
<1>1. IsFiniteSet(Elem)
  BY ListAssumption
<1>2. Cardinality(Elem) \in Nat
  BY <1>1, FS_CardinalityType
<1>3. s \in Injection(1 .. Len(s), Elem)
  BY DEF Injective, Injection, IsInjective
<1>4. Cardinality(1 .. Len(s)) <= Cardinality(Elem)
  BY <1>1, <1>3, FS_Injection
<1>5. Cardinality(1 .. Len(s)) = Len(s)
  <2>1. 1 \in Int /\ Len(s) \in Int /\ Len(s) >= 0
    OBVIOUS
  <2>2. Cardinality(1 .. Len(s)) = IF 1 > Len(s) THEN 0 ELSE Len(s) - 1 + 1
    BY <2>1, FS_Interval
  <2> QED
    BY <2>1, <2>2
<1> QED
  BY <1>2, <1>4, <1>5

\* The rest of s from place i on.
From(s, i) == [j \in 1 .. Len(s) + 1 - i |-> s[i + j - 1]]

\* One element before a sequence.
LEMMA Joined ==
  ASSUME NEW e \in Elem, NEW a \in Seq(Elem)
  PROVE  /\ <<e>> \o a \in Seq(Elem) /\ Len(<<e>> \o a) = Len(a) + 1
         /\ (<<e>> \o a)[1] = e
         /\ \A j \in 2 .. Len(a) + 1 : (<<e>> \o a)[j] = a[j - 1]
<1>1. <<e>> \in Seq(Elem) /\ Len(<<e>>) = 1 /\ <<e>>[1] = e
  OBVIOUS
<1> QED
  BY <1>1

\* The rest from i on is the element at i and the rest behind it.
LEMMA FromFirst ==
  ASSUME NEW s \in Seq(Elem), NEW i \in 1 .. Len(s)
  PROVE  <<s[i]>> \o From(s, i + 1) = From(s, i)
<1> DEFINE a == From(s, i + 1)
           b == From(s, i)
<1>1. a \in Seq(Elem) /\ Len(a) = Len(s) - i /\ \A j \in 1 .. Len(s) - i : a[j] = s[i + j]
  BY DEF From
<1>2. b \in Seq(Elem) /\ Len(b) = Len(s) + 1 - i /\ \A j \in 1 .. Len(s) + 1 - i : b[j] = s[i + j - 1]
  BY DEF From
<1> HIDE DEF a, b
<1>3. <<s[i]>> \o a \in Seq(Elem) /\ Len(<<s[i]>> \o a) = Len(b)
  <2>1. s[i] \in Elem
    OBVIOUS
  <2> QED
    BY <1>1, <1>2, <2>1, Joined
<1>4. ASSUME NEW j \in 1 .. Len(b)
      PROVE  (<<s[i]>> \o a)[j] = b[j]
  <2>1. s[i] \in Elem
    OBVIOUS
  <2>2. CASE j = 1
    BY <1>1, <1>2, <2>1, <2>2, Joined
  <2>3. CASE j > 1
    <3>1. j \in 2 .. Len(a) + 1 /\ j - 1 \in 1 .. Len(s) - i /\ j \in 1 .. Len(s) + 1 - i
      BY <1>1, <1>2, <2>3
    <3>2. (<<s[i]>> \o a)[j] = a[j - 1]
      BY <1>1, <2>1, <3>1, Joined
    <3>3. a[j - 1] = s[i + (j - 1)] /\ b[j] = s[i + j - 1]
      BY <1>1, <1>2, <3>1
    <3> QED
      BY <3>2, <3>3
  <2>4. j = 1 \/ j > 1
    BY <1>2
  <2> QED
    BY <2>2, <2>3, <2>4
<1>5. <<s[i]>> \o a = b
  <2>1. PICK c \in Seq(Elem) : c = <<s[i]>> \o a
    BY <1>3
  <2>2. Len(c) = Len(b) /\ \A j \in 1 .. Len(b) : c[j] = b[j]
    BY <1>3, <1>4, <2>1
  <2>3. c = b
    BY <1>2, <2>2
  <2> QED
    BY <2>1, <2>3
<1> QED
  BY <1>5 DEF a, b

\* A loop visits the elements of s if each points to the one behind it.
LEMMA FollowGives ==
  ASSUME NEW next \in [Elem -> Pointer], NEW s \in Seq(Elem), Injective(s),
         \A i \in 1 .. Len(s) : next[s[i]] = At(s, i + 1)
  PROVE  Follow(next, At(s, 1)) = s
<1> DEFINE N  == Cardinality(Elem)
           go == CHOOSE g : Walk(g, next, N)
<1>1. N \in Nat /\ Len(s) <= N
  BY NoMoreThanElem
<1>2. Walk(go, next, N)
  BY <1>1, WalkExists
<1>3. Follow(next, At(s, 1)) = go[N][At(s, 1)]
  BY FollowIs
<1> HIDE DEF go
<1>4. \A i \in 1 .. Len(s) : s[i] \in Elem /\ s[i] \in Pointer /\ s[i] # NULL
  BY ListAssumption DEF Pointer
<1> DEFINE T == {k \in 0 .. Len(s) : \E n \in 0 .. N :
                   n >= k /\ go[n][At(s, Len(s) + 1 - k)] # From(s, Len(s) + 1 - k)}
<1>5. ASSUME T # {} PROVE FALSE
  <2>1. PICK k \in T : \A j \in T : k <= j
    <3>1. T \subseteq Nat
      OBVIOUS
    <3> HIDE DEF T
    <3> QED
      BY <1>5, <3>1, NatMin
  <2>2. PICK n \in 0 .. N : n >= k /\ go[n][At(s, Len(s) + 1 - k)] # From(s, Len(s) + 1 - k)
    OBVIOUS
  <2>3. k \in 0 .. Len(s) /\ n \in Nat
    BY <1>1, <2>2
  <2> DEFINE i == Len(s) + 1 - k
  <2>4. CASE k = 0
    <3>1. At(s, i) = NULL /\ NULL \in Pointer
      BY <2>4 DEF At, Pointer
    <3>2. go[n][NULL] = <<>>
      <4>1. PICK x \in Pointer : x = NULL
        BY <3>1
      <4>2. go[n][x] = IF x = NULL \/ n = 0 THEN <<>> ELSE <<x>> \o go[n - 1][next[x]]
        BY <1>2, WalkAt
      <4> QED
        BY <4>1, <4>2
    <3>3. From(s, i) = <<>>
      BY <2>4 DEF From
    <3> QED
      BY <2>2, <3>1, <3>2, <3>3
  <2>5. CASE k # 0
    <3> HIDE DEF T
    <3>1. i \in 1 .. Len(s) /\ n # 0 /\ n - 1 \in 0 .. N /\ k - 1 \in 0 .. Len(s) /\ n - 1 >= k - 1
      BY <1>1, <2>2, <2>3, <2>5
    <3>2. At(s, i) = s[i] /\ s[i] \in Pointer /\ s[i] # NULL
      BY <1>4, <3>1 DEF At
    <3>3. go[n][s[i]] = IF s[i] = NULL \/ n = 0 THEN <<>> ELSE <<s[i]>> \o go[n - 1][next[s[i]]]
      <4> HIDE DEF i
      <4> QED
        BY <1>2, <2>2, <3>2, WalkAt
    <3>4. next[s[i]] = At(s, i + 1)
      BY <3>1
    <3>5. k - 1 \notin T
      BY <2>1, <2>3, <3>1
    <3>6. go[n - 1][At(s, Len(s) + 1 - (k - 1))] = From(s, Len(s) + 1 - (k - 1))
      BY <3>1, <3>5 DEF T
    <3>7. Len(s) + 1 - (k - 1) = i + 1
      BY <2>3
    <3>8. <<s[i]>> \o From(s, i + 1) = From(s, i)
      BY <3>1, FromFirst
    <3> QED
      BY <2>2, <3>1, <3>2, <3>3, <3>4, <3>6, <3>7, <3>8
  <2> QED
    BY <2>4, <2>5
<1>6. go[N][At(s, 1)] = From(s, 1)
  <2>1. Len(s) \notin T
    <3> HIDE DEF T
    <3> QED
      BY <1>5
  <2>2. go[N][At(s, Len(s) + 1 - Len(s))] = From(s, Len(s) + 1 - Len(s))
    BY <1>1, <2>1
  <2>3. Len(s) + 1 - Len(s) = 1
    OBVIOUS
  <2> QED
    BY <2>2, <2>3
<1>7. From(s, 1) = s
  BY DEF From
<1> QED
  BY <1>3, <1>6, <1>7

-----------------------------------------------------------------------------
(***************************************************************************)
(* The invariant: the elements in use are a chain from first to last.      *)
(***************************************************************************)

\* The contents of the elements in s.
Contents(s) == [i \in 1 .. Len(s) |-> elem[s[i]].content]

\* Each element of s points to its neighbours and holds a content.
Hooked(s) ==
  \A i \in 1 .. Len(s) : /\ elem[s[i]].next = At(s, i + 1)
                         /\ elem[s[i]].prev = At(s, i - 1)
                         /\ elem[s[i]].content \in Content

\* The elements in use are those of s.
InUse(s) == \A e \in Elem : elem[e] # NoElement <=> \E i \in 1 .. Len(s) : s[i] = e

\* A content is in the list at most once.
Once(s) == \A i, j \in 1 .. Len(s) : elem[s[i]].content = elem[s[j]].content => i = j

\* The List knows the ends and the number, and the cursor is in s or NULL.
Ends(s) ==
  /\ list.first = At(s, 1) /\ list.last = At(s, Len(s)) /\ list.count = Len(s)
  /\ list.current = NULL \/ \E i \in 1 .. Len(s) : list.current = s[i]

\* All of it: the list goes through s.
Chain(s) == s \in Seq(Elem) /\ Injective(s) /\ Hooked(s) /\ InUse(s) /\ Once(s) /\ Ends(s)

\* The inductive invariant.
LInv == TypeOK /\ Chain(Forward)

\* What the sequence and its cursor are, as LinkedList substitutes them.
Shown == [i \in DOMAIN Forward |-> elem[Forward[i]].content]
ShownAt == Position(list.current)

\* The parts of the type invariant that the steps need.
LEMMA Types ==
  TypeOK => /\ list \in List /\ list.size >= 0 /\ elem \in [Elem -> ListElement]
            /\ \A e \in Elem : elem[e].next \in Pointer /\ elem[e].prev \in Pointer
            /\ \A e \in Elem : elem[e] = [prev |-> elem[e].prev, next |-> elem[e].next,
                                          content |-> elem[e].content]
  BY DEF TypeOK, ListElement

\* A loop over ListNextElement visits the chain.
LEMMA ForwardIs == \A s : TypeOK /\ Chain(s) => Forward = s
<1> SUFFICES ASSUME NEW s, TypeOK, Chain(s) PROVE Forward = s
  OBVIOUS
<1> DEFINE next == [e \in Elem |-> elem[e].next]
<1>1. next \in [Elem -> Pointer]
  BY Types
<1>2. \A i \in 1 .. Len(s) : next[s[i]] = At(s, i + 1)
  BY DEF Chain, Hooked
<1>3. list.first = At(s, 1) /\ s \in Seq(Elem) /\ Injective(s)
  BY DEF Chain, Ends
<1>4. Follow(next, At(s, 1)) = s
  <2> HIDE DEF next
  <2> QED
    BY <1>1, <1>2, <1>3, FollowGives
<1> QED
  BY <1>3, <1>4 DEF Forward

\* A loop over ListPrevElement visits it from the end.
LEMMA BackwardIs == \A s : TypeOK /\ Chain(s) => Backward = Reverse(s)
<1> SUFFICES ASSUME NEW s, TypeOK, Chain(s) PROVE Backward = Reverse(s)
  OBVIOUS
<1> DEFINE next == [e \in Elem |-> elem[e].prev]
           r == Reverse(s)
<1>1. next \in [Elem -> Pointer]
  BY Types
<1>2. s \in Seq(Elem) /\ Injective(s) /\ Hooked(s)
  BY DEF Chain
<1>3. r \in Seq(Elem) /\ Len(r) = Len(s) /\ \A i \in 1 .. Len(s) : r[i] = s[Len(s) - i + 1]
  BY <1>2 DEF Reverse
<1>4. Injective(r)
  <2>1. ASSUME NEW i \in 1 .. Len(s), NEW j \in 1 .. Len(s), r[i] = r[j] PROVE i = j
    <3>1. Len(s) - i + 1 \in 1 .. Len(s) /\ Len(s) - j + 1 \in 1 .. Len(s)
      BY <1>2
    <3>2. Len(s) - i + 1 = Len(s) - j + 1
      BY <1>2, <1>3, <2>1, <3>1 DEF Injective
    <3> QED
      BY <1>2, <3>2
  <2> QED
    BY <1>3, <2>1 DEF Injective
<1>5. ASSUME NEW i \in 1 .. Len(r) PROVE next[r[i]] = At(r, i + 1)
  <2>1. Len(s) - i + 1 \in 1 .. Len(s) /\ i \in 1 .. Len(s)
    BY <1>2, <1>3
  <2>2. r[i] = s[Len(s) - i + 1] /\ s[Len(s) - i + 1] \in Elem
    BY <1>2, <1>3, <2>1
  <2>3. next[r[i]] = At(s, Len(s) - i + 1 - 1)
    <3>1. next[s[Len(s) - i + 1]] = elem[s[Len(s) - i + 1]].prev
      BY <2>2
    <3>2. elem[s[Len(s) - i + 1]].prev = At(s, Len(s) - i + 1 - 1)
      BY <1>2, <2>1 DEF Hooked
    <3> HIDE DEF next, r
    <3> QED
      BY <2>2, <3>1, <3>2
  <2>4. At(s, Len(s) - i + 1 - 1) = At(r, i + 1)
    <3>1. CASE i = Len(s)
      BY <1>2, <1>3, <3>1 DEF At
    <3>2. CASE i < Len(s)
      <4>1. i + 1 \in 1 .. Len(s) /\ Len(s) - (i + 1) + 1 = Len(s) - i + 1 - 1
            /\ Len(s) - i + 1 - 1 \in 1 .. Len(s)
        BY <1>2, <2>1, <3>2
      <4>2. r[i + 1] = s[Len(s) - (i + 1) + 1]
        BY <1>3, <4>1
      <4> QED
        BY <1>3, <4>1, <4>2 DEF At
    <3> QED
      BY <1>2, <2>1, <3>1, <3>2
  <2> QED
    BY <2>3, <2>4
<1>6. list.last = At(r, 1)
  <2>1. list.last = At(s, Len(s))
    BY DEF Chain, Ends
  <2>2. CASE Len(s) = 0
    BY <1>3, <2>1, <2>2 DEF At
  <2>3. CASE Len(s) > 0
    <3>1. 1 \in 1 .. Len(s) /\ Len(s) - 1 + 1 = Len(s) /\ Len(s) \in 1 .. Len(s)
      BY <1>2, <2>3
    <3>2. r[1] = s[Len(s) - 1 + 1]
      BY <1>3, <3>1
    <3> QED
      BY <1>3, <2>1, <3>1, <3>2 DEF At
  <2> QED
    BY <1>2, <2>2, <2>3
<1>7. Follow(next, At(r, 1)) = r
  <2> HIDE DEF next, r
  <2> QED
    BY <1>1, <1>3, <1>4, <1>5, FollowGives
<1> QED
  BY <1>6, <1>7 DEF Backward

\* The position of the cursor, unfolded.
LEMMA PositionUnfolds ==
  ShownAt = LET I == {i \in 1 .. Len(Forward) : Forward[i] = list.current}
          IN  IF I # {} THEN Min(I) ELSE 0
  BY DEF ShownAt, Position, SelectInSeq

\* What the list shows of a chain: its contents, and where the cursor is.
LEMMA SeenIs ==
  \A s : TypeOK /\ Chain(s) =>
    /\ Shown = Contents(s)
    /\ ShownAt \in 0 .. Len(s)
    /\ ShownAt = 0 <=> list.current = NULL
    /\ \A i \in 1 .. Len(s) : ShownAt = i <=> list.current = s[i]
<1> SUFFICES ASSUME NEW s, TypeOK, Chain(s)
             PROVE  /\ Shown = Contents(s)
                    /\ ShownAt \in 0 .. Len(s)
                    /\ ShownAt = 0 <=> list.current = NULL
                    /\ \A i \in 1 .. Len(s) : ShownAt = i <=> list.current = s[i]
  OBVIOUS
<1>1. Forward = s /\ s \in Seq(Elem) /\ Injective(s)
  BY ForwardIs DEF Chain
<1>2. Shown = Contents(s)
  BY <1>1 DEF Shown, Contents
<1> DEFINE I == {i \in 1 .. Len(s) : s[i] = list.current}
<1>3. ShownAt = IF I # {} THEN Min(I) ELSE 0
  BY <1>1, PositionUnfolds
<1>4. CASE list.current = NULL
  <2>1. I = {}
    BY <1>1, <1>4, ListAssumption
  <2>2. ShownAt = 0
    BY <1>3, <2>1
  <2>3. \A i \in 1 .. Len(s) : list.current # s[i]
    BY <2>1
  <2> QED
    BY <1>1, <1>2, <1>4, <2>2, <2>3
<1>5. CASE list.current # NULL
  <2>1. PICK i \in 1 .. Len(s) : list.current = s[i]
    BY <1>5 DEF Chain, Ends
  <2>2. I = {i}
    BY <1>1, <2>1 DEF Injective
  <2>3. Min(I) = i
    BY <2>2 DEF Min
  <2>4. ShownAt = i
    BY <1>3, <2>2, <2>3
  <2> QED
    BY <1>1, <1>2, <1>5, <2>1, <2>4 DEF Injective
<1> QED
  BY <1>4, <1>5

\* The same facts of the state after a step.
LEMMA ForwardNext == (\A s : TypeOK /\ Chain(s) => Forward = s)'
  BY ForwardIs, PTL

\* What the list shows after a step.
LEMMA SeenNext ==
  (\A s : TypeOK /\ Chain(s) =>
     /\ Shown = Contents(s)
     /\ ShownAt \in 0 .. Len(s)
     /\ ShownAt = 0 <=> list.current = NULL
     /\ \A i \in 1 .. Len(s) : ShownAt = i <=> list.current = s[i])'
  BY SeenIs, PTL

\* The invariant says that the links agree.
LEMMA LInvIs == LInv => LinksAgree
<1> SUFFICES ASSUME TypeOK, Chain(Forward) PROVE LinksAgree
  BY DEF LInv
<1>1. Backward = Reverse(Forward)
  BY BackwardIs
<1>2. ToSet(Forward) = Used
  BY DEF Chain, InUse, ToSet, Used
<1>3. list.count = Len(Forward) /\ (list.current # NULL => list.current \in ToSet(Forward))
  BY DEF Chain, Ends, ToSet
<1> QED
  BY <1>1, <1>2, <1>3 DEF LinksAgree

-----------------------------------------------------------------------------
(***************************************************************************)
(* One element goes, one comes.                                            *)
(***************************************************************************)

\* s without what is at i.
Cut(s, i) == [j \in 1 .. Len(s) - 1 |-> IF j < i THEN s[j] ELSE s[j + 1]]

\* s with e at place i.
Put(s, i, e) ==
  [j \in 1 .. Len(s) + 1 |-> IF j < i THEN s[j] ELSE IF j = i THEN e ELSE s[j - 1]]

\* Two sequences joined.
LEMMA JoinIs ==
  ASSUME NEW S, NEW a \in Seq(S), NEW b \in Seq(S)
  PROVE  /\ a \o b \in Seq(S) /\ Len(a \o b) = Len(a) + Len(b)
         /\ \A j \in 1 .. Len(a) + Len(b) :
              (a \o b)[j] = IF j <= Len(a) THEN a[j] ELSE b[j - Len(a)]
  OBVIOUS

\* RemoveAt of the community modules, place by place.
LEMMA CutIs ==
  ASSUME NEW S, NEW s \in Seq(S), NEW i \in 1 .. Len(s)
  PROVE  /\ Cut(s, i) \in Seq(S) /\ Len(Cut(s, i)) = Len(s) - 1
         /\ RemoveAt(s, i) = Cut(s, i)
<1> DEFINE c == Cut(s, i)
           a == SubSeq(s, 1, i - 1)
           b == SubSeq(s, i + 1, Len(s))
<1>1. c \in Seq(S) /\ Len(c) = Len(s) - 1
  BY DEF Cut
<1>2. a \in Seq(S) /\ Len(a) = i - 1 /\ \A j \in 1 .. i - 1 : a[j] = s[j]
  OBVIOUS
<1>3. b \in Seq(S) /\ Len(b) = Len(s) - i /\ \A j \in 1 .. Len(s) - i : b[j] = s[i + j]
  OBVIOUS
<1>4. PICK d : d = a \o b
  OBVIOUS
<1> HIDE DEF a, b
<1>5. /\ d \in Seq(S) /\ Len(d) = Len(s) - 1
      /\ \A j \in 1 .. Len(s) - 1 : d[j] = IF j <= i - 1 THEN a[j] ELSE b[j - (i - 1)]
  <2>1. /\ d \in Seq(S) /\ Len(d) = Len(a) + Len(b)
        /\ \A j \in 1 .. Len(a) + Len(b) : d[j] = IF j <= Len(a) THEN a[j] ELSE b[j - Len(a)]
    BY <1>2, <1>3, <1>4, JoinIs
  <2>2. Len(a) + Len(b) = Len(s) - 1 /\ Len(a) = i - 1
    BY <1>2, <1>3
  <2> QED
    BY <2>1, <2>2
<1>6. ASSUME NEW j \in 1 .. Len(s) - 1 PROVE d[j] = c[j]
  <2>1. CASE j <= i - 1
    BY <1>2, <1>5, <2>1 DEF Cut
  <2>2. CASE j > i - 1
    <3>1. j - (i - 1) \in 1 .. Len(s) - i /\ i + (j - (i - 1)) = j + 1 /\ ~ (j < i)
      BY <2>2
    <3>2. b[j - (i - 1)] = s[j + 1]
      BY <1>3, <3>1
    <3> QED
      BY <1>5, <2>2, <3>1, <3>2 DEF Cut
  <2> QED
    BY <2>1, <2>2
<1>7. d = c
  <2> HIDE DEF c
  <2> QED
    BY <1>1, <1>5, <1>6
<1> QED
  BY <1>1, <1>4, <1>7 DEF RemoveAt, a, b

\* The same for InsertAt.
LEMMA PutIs ==
  ASSUME NEW S, NEW s \in Seq(S), NEW i \in 1 .. Len(s) + 1, NEW e \in S
  PROVE  /\ Put(s, i, e) \in Seq(S) /\ Len(Put(s, i, e)) = Len(s) + 1
         /\ InsertAt(s, i, e) = Put(s, i, e)
<1> DEFINE c == Put(s, i, e)
           a == SubSeq(s, 1, i - 1)
           b == SubSeq(s, i, Len(s))
<1>1. c \in Seq(S) /\ Len(c) = Len(s) + 1
  <2>1. \A j \in 1 .. Len(s) + 1 : c[j] \in S
    BY DEF Put
  <2> QED
    BY <2>1 DEF Put
<1>2. a \in Seq(S) /\ Len(a) = i - 1 /\ \A j \in 1 .. i - 1 : a[j] = s[j]
  OBVIOUS
<1>3. b \in Seq(S) /\ Len(b) = Len(s) + 1 - i /\ \A j \in 1 .. Len(s) + 1 - i : b[j] = s[i + j - 1]
  OBVIOUS
<1>4. PICK m : m = <<e>>
  OBVIOUS
<1>5. m \in Seq(S) /\ Len(m) = 1 /\ m[1] = e
  BY <1>4
<1> HIDE DEF a, b
<1>6. PICK h : h = a \o m
  OBVIOUS
<1>7. /\ h \in Seq(S) /\ Len(h) = i
      /\ \A j \in 1 .. i : h[j] = IF j <= i - 1 THEN a[j] ELSE m[j - (i - 1)]
  <2>1. /\ h \in Seq(S) /\ Len(h) = Len(a) + Len(m)
        /\ \A j \in 1 .. Len(a) + Len(m) : h[j] = IF j <= Len(a) THEN a[j] ELSE m[j - Len(a)]
    BY <1>2, <1>5, <1>6, JoinIs
  <2>2. Len(a) + Len(m) = i /\ Len(a) = i - 1
    BY <1>2, <1>5
  <2> QED
    BY <2>1, <2>2
<1>8. PICK d : d = h \o b
  OBVIOUS
<1>9. /\ d \in Seq(S) /\ Len(d) = Len(s) + 1
      /\ \A j \in 1 .. Len(s) + 1 : d[j] = IF j <= i THEN h[j] ELSE b[j - i]
  BY <1>3, <1>7, <1>8
<1>10. ASSUME NEW j \in 1 .. Len(s) + 1 PROVE d[j] = c[j]
  <2>1. CASE j < i
    BY <1>2, <1>7, <1>9, <2>1 DEF Put
  <2>2. CASE j = i
    <3>1. h[i] = m[1]
      BY <1>7
    <3> QED
      BY <1>5, <1>9, <2>2, <3>1 DEF Put
  <2>3. CASE j > i
    <3>1. j - i \in 1 .. Len(s) + 1 - i /\ i + (j - i) - 1 = j - 1
      BY <2>3
    <3>2. b[j - i] = s[j - 1]
      BY <1>3, <3>1
    <3> QED
      BY <1>9, <2>3, <3>2 DEF Put
  <2> QED
    BY <2>1, <2>2, <2>3
<1>11. d = c
  <2> HIDE DEF c
  <2> QED
    BY <1>1, <1>9, <1>10
<1> QED
  BY <1>1, <1>4, <1>6, <1>8, <1>11 DEF InsertAt, a, b

\* What the elements look like after one was unhooked.
LEMMA UnhookedIs ==
  ASSUME TypeOK, NEW s, Chain(s), NEW i \in 1 .. Len(s), elem' = Unhooked(s[i])
  PROVE  /\ elem' \in [Elem -> ListElement]
         /\ \A e \in Elem :
              elem'[e] = IF e = s[i] THEN NoElement
                         ELSE [prev |-> IF e = At(s, i + 1) THEN At(s, i - 1) ELSE elem[e].prev,
                               next |-> IF e = At(s, i - 1) THEN At(s, i + 1) ELSE elem[e].next,
                               content |-> elem[e].content]
<1> DEFINE p == At(s, i - 1)
           n == At(s, i + 1)
           one == IF p = NULL THEN elem ELSE [elem EXCEPT ![p].next = n]
           two == IF n = NULL THEN one ELSE [one EXCEPT ![n].prev = p]
<1>1. s \in Seq(Elem) /\ s[i] \in Elem /\ elem[s[i]].next = n /\ elem[s[i]].prev = p
  BY DEF Chain, Hooked
<1>2. p \in Pointer /\ n \in Pointer
  BY <1>1 DEF At, Pointer
<1>3. elem' = [two EXCEPT ![s[i]] = NoElement]
  BY <1>1 DEF Unhooked
<1> HIDE DEF p, n
<1>4. elem \in [Elem -> ListElement]
  BY Types
<1>5. /\ one \in [Elem -> ListElement]
      /\ \A e \in Elem : one[e] = [prev |-> elem[e].prev, next |-> IF e = p THEN n ELSE elem[e].next,
                                   content |-> elem[e].content]
  <2>1. \A e \in Elem : one[e] = [prev |-> elem[e].prev, next |-> IF e = p THEN n ELSE elem[e].next,
                                  content |-> elem[e].content]
    BY <1>2, <1>4, ListAssumption DEF ListElement, Pointer
  <2>2. one \in [Elem -> ListElement]
    BY <1>2, <1>4, ListAssumption DEF ListElement, Pointer
  <2> QED
    BY <2>1, <2>2
<1> HIDE DEF one
<1>6. /\ two \in [Elem -> ListElement]
      /\ \A e \in Elem : two[e] = [prev |-> IF e = n THEN p ELSE elem[e].prev,
                                   next |-> IF e = p THEN n ELSE elem[e].next,
                                   content |-> elem[e].content]
  <2>1. \A e \in Elem : two[e] = [prev |-> IF e = n THEN p ELSE one[e].prev,
                                  next |-> one[e].next, content |-> one[e].content]
    BY <1>2, <1>5, ListAssumption DEF ListElement, Pointer
  <2>2. two \in [Elem -> ListElement]
    BY <1>2, <1>5, ListAssumption DEF ListElement, Pointer
  <2> QED
    BY <1>5, <2>1, <2>2
<1> HIDE DEF two
<1>7. NoElement \in ListElement
  BY DEF NoElement, ListElement, Pointer
<1> QED
  BY <1>1, <1>3, <1>6, <1>7 DEF p, n

\* A number that is not 0.
LEMMA OneOrMore == \A n \in Nat : n >= 1 => n = 1 \/ n > 1
  OBVIOUS

\* An element goes, and the ends and the cursor are moved away from it.
LEMMA Removed ==
  ASSUME TypeOK, NEW s, Chain(s), NEW i \in 1 .. Len(s), elem' = Unhooked(s[i]),
         list'.first = IF At(s, i - 1) = NULL THEN At(s, i + 1) ELSE list.first,
         list'.last = IF At(s, i + 1) = NULL THEN At(s, i - 1) ELSE list.last,
         list'.count = list.count - 1,
         list'.current = NULL \/ \E k \in 1 .. Len(s) : k # i /\ list'.current = s[k]
  PROVE  Chain(Cut(s, i))' /\ Contents(Cut(s, i))' = Cut(Contents(s), i)
<1> DEFINE c == Cut(s, i)
           g(k) == IF k < i THEN k ELSE k - 1
<1>1. /\ s \in Seq(Elem) /\ Injective(s) /\ Hooked(s) /\ InUse(s) /\ Once(s) /\ Ends(s)
      /\ Len(s) \in Nat
  BY DEF Chain
<1>0. Len(s) \in Nat /\ Len(s) >= 1 /\ i \in Nat /\ i >= 1 /\ i <= Len(s)
  BY <1>1
<1>one. Len(s) = 1 \/ Len(s) > 1
  BY <1>0, OneOrMore, Zenon
<1>2. c \in Seq(Elem) /\ Len(c) = Len(s) - 1
  BY <1>1, CutIs
<1>3. ASSUME NEW j \in 1 .. Len(s) - 1
      PROVE  c[j] = IF j < i THEN s[j] ELSE s[j + 1]
  BY DEF Cut
<1>4. ASSUME NEW k \in 1 .. Len(s), k # i
      PROVE  k = IF g(k) < i THEN g(k) ELSE g(k) + 1
  BY <1>4
<1>5. ASSUME NEW k \in 1 .. Len(s), k # i
      PROVE  g(k) \in 1 .. Len(s) - 1 /\ c[g(k)] = s[k]
  <2>1. g(k) \in 1 .. Len(s) - 1
    BY <1>1, <1>5
  <2> QED
    BY <1>3, <1>4, <1>5, <2>1
<1> HIDE DEF c
<1>6. ASSUME NEW k \in 1 .. Len(s), k # i
      PROVE  /\ elem'[s[k]].content = elem[s[k]].content
             /\ elem'[s[k]].next = IF k = i - 1 THEN At(s, i + 1) ELSE At(s, k + 1)
             /\ elem'[s[k]].prev = IF k = i + 1 THEN At(s, i - 1) ELSE At(s, k - 1)
  <2>1. s[k] \in Elem /\ s[k] # s[i] /\ s[k] # NULL
    BY <1>1, <1>6, ListAssumption DEF Injective
  <2>2. elem'[s[k]] = [prev |-> IF s[k] = At(s, i + 1) THEN At(s, i - 1) ELSE elem[s[k]].prev,
                       next |-> IF s[k] = At(s, i - 1) THEN At(s, i + 1) ELSE elem[s[k]].next,
                       content |-> elem[s[k]].content]
    BY <2>1, UnhookedIs
  <2>3. s[k] = At(s, i + 1) <=> k = i + 1
    BY <1>1, <2>1 DEF Injective, At
  <2>4. s[k] = At(s, i - 1) <=> k = i - 1
    BY <1>1, <2>1 DEF Injective, At
  <2> QED
    BY <1>1, <2>2, <2>3, <2>4 DEF Hooked
<1>7. ASSUME NEW j \in 1 .. Len(s) - 1
      PROVE  /\ elem'[c[j]].next = At(c, j + 1)
             /\ elem'[c[j]].prev = At(c, j - 1)
             /\ elem'[c[j]].content = Contents(s)[IF j < i THEN j ELSE j + 1]
             /\ elem'[c[j]].content \in Content
  <2>1. CASE j < i
    <3>1. c[j] = s[j] /\ j \in 1 .. Len(s) /\ j # i
      BY <1>1, <1>3, <2>1
    <3>2. elem'[c[j]].prev = At(c, j - 1)
      <4>1. elem'[c[j]].prev = At(s, j - 1)
        BY <1>6, <2>1, <3>1
      <4>2. CASE j = 1
        BY <4>1, <4>2 DEF At
      <4>3. CASE j > 1
        BY <1>2, <1>3, <2>1, <4>1, <4>3 DEF At
      <4> QED
        BY <4>2, <4>3
    <3>3. elem'[c[j]].next = At(c, j + 1)
      <4>1. CASE j = i - 1
        <5>1. elem'[c[j]].next = At(s, i + 1)
          BY <1>6, <3>1, <4>1
        <5>2. CASE i = Len(s)
          BY <1>1, <1>2, <4>1, <5>1, <5>2 DEF At
        <5>3. CASE i < Len(s)
          <6>1. i \in 1 .. Len(s) - 1 /\ i + 1 \in 1 .. Len(s)
            BY <1>1, <5>3
          <6>2. c[i] = s[i + 1]
            BY <1>3, <6>1
          <6> QED
            BY <1>2, <4>1, <5>1, <6>1, <6>2 DEF At
        <5> QED
          BY <1>1, <5>2, <5>3
      <4>2. CASE j # i - 1
        <5>1. elem'[c[j]].next = At(s, j + 1)
          BY <1>6, <3>1, <4>2
        <5>2. j + 1 \in 1 .. Len(s) - 1 /\ j + 1 < i /\ j + 1 \in 1 .. Len(s)
          BY <1>1, <2>1, <4>2
        <5>3. c[j + 1] = s[j + 1]
          BY <1>3, <5>2
        <5> QED
          BY <1>2, <5>1, <5>2, <5>3 DEF At
      <4> QED
        BY <4>1, <4>2
    <3>4. elem'[c[j]].content = elem[s[j]].content
      BY <1>6, <3>1
    <3> QED
      BY <1>1, <2>1, <3>1, <3>2, <3>3, <3>4 DEF Contents, Hooked
  <2>2. CASE j >= i
    <3>1. c[j] = s[j + 1] /\ j + 1 \in 1 .. Len(s) /\ j + 1 # i
      BY <1>1, <1>3, <2>2
    <3>2. elem'[c[j]].prev = At(c, j - 1)
      <4>1. CASE j = i
        <5>1. elem'[c[j]].prev = At(s, i - 1)
          BY <1>6, <3>1, <4>1
        <5>2. CASE i = 1
          BY <4>1, <5>1, <5>2 DEF At
        <5>3. CASE i > 1
          <6>1. i - 1 \in 1 .. Len(s) - 1 /\ i - 1 < i /\ i - 1 \in 1 .. Len(s)
            BY <1>1, <5>3
          <6>2. c[i - 1] = s[i - 1]
            BY <1>3, <6>1
          <6> QED
            BY <1>2, <4>1, <5>1, <6>1, <6>2 DEF At
        <5> QED
          BY <5>2, <5>3
      <4>2. CASE j > i
        <5>1. elem'[c[j]].prev = At(s, j + 1 - 1) /\ j + 1 - 1 = j
          BY <1>6, <3>1, <4>2
        <5>2. j - 1 \in 1 .. Len(s) - 1 /\ ~ (j - 1 < i) /\ j \in 1 .. Len(s) /\ j - 1 + 1 = j
          BY <1>1, <4>2
        <5>3. c[j - 1] = s[j - 1 + 1]
          BY <1>3, <5>2
        <5> QED
          BY <1>2, <5>1, <5>2, <5>3 DEF At
      <4> QED
        BY <2>2, <4>1, <4>2
    <3>3. elem'[c[j]].next = At(c, j + 1)
      <4>1. elem'[c[j]].next = At(s, j + 1 + 1)
        BY <1>6, <2>2, <3>1
      <4>2. CASE j = Len(s) - 1
        BY <1>1, <1>2, <4>1, <4>2 DEF At
      <4>3. CASE j < Len(s) - 1
        <5>1. j + 1 \in 1 .. Len(s) - 1 /\ ~ (j + 1 < i) /\ j + 1 + 1 \in 1 .. Len(s)
          BY <1>1, <2>2, <4>3
        <5>2. c[j + 1] = s[j + 1 + 1]
          BY <1>3, <5>1
        <5> QED
          BY <1>2, <4>1, <5>1, <5>2 DEF At
      <4> QED
        BY <1>1, <4>2, <4>3
    <3>4. elem'[c[j]].content = elem[s[j + 1]].content
      BY <1>6, <3>1
    <3> QED
      BY <1>1, <2>2, <3>1, <3>2, <3>3, <3>4 DEF Contents, Hooked
  <2> QED
    BY <2>1, <2>2
<1>8. Injective(c)
  <2>1. ASSUME NEW j \in 1 .. Len(s) - 1
        PROVE  \E k \in 1 .. Len(s) : k = (IF j < i THEN j ELSE j + 1) /\ c[j] = s[k]
    <3>1. CASE j < i
      BY <1>1, <1>3, <3>1
    <3>2. CASE ~ (j < i)
      <4>1. j + 1 \in 1 .. Len(s) /\ c[j] = s[j + 1]
        BY <1>1, <1>3, <3>2
      <4> QED
        BY <3>2, <4>1
    <3> QED
      BY <3>1, <3>2
  <2>2. ASSUME NEW j \in 1 .. Len(s) - 1, NEW l \in 1 .. Len(s) - 1, c[j] = c[l]
        PROVE  j = l
    <3>1. PICK k \in 1 .. Len(s) : k = (IF j < i THEN j ELSE j + 1) /\ c[j] = s[k]
      BY <2>1
    <3>2. PICK m \in 1 .. Len(s) : m = (IF l < i THEN l ELSE l + 1) /\ c[l] = s[m]
      BY <2>1
    <3>3. k = m
      BY <1>1, <2>2, <3>1, <3>2 DEF Injective
    <3> QED
      BY <3>1, <3>2, <3>3
  <2> QED
    BY <1>2, <2>2 DEF Injective
<1>9. Hooked(c)'
  BY <1>2, <1>7 DEF Hooked
<1>10. Once(c)'
  <2>1. ASSUME NEW j \in 1 .. Len(s) - 1
        PROVE  \E k \in 1 .. Len(s) : k = (IF j < i THEN j ELSE j + 1) /\ elem'[c[j]].content = elem[s[k]].content
    <3>1. PICK k \in 1 .. Len(s) : k = (IF j < i THEN j ELSE j + 1)
      BY <1>1
    <3>2. elem'[c[j]].content = Contents(s)[k]
      BY <1>7, <3>1
    <3>3. Contents(s)[k] = elem[s[k]].content
      BY DEF Contents
    <3> QED
      BY <3>1, <3>2, <3>3
  <2>2. ASSUME NEW j \in 1 .. Len(s) - 1, NEW l \in 1 .. Len(s) - 1,
               elem'[c[j]].content = elem'[c[l]].content
        PROVE  j = l
    BY <1>1, <2>1, <2>2 DEF Once
  <2> QED
    BY <1>2, <2>2 DEF Once
<1>11. InUse(c)'
  <2>1. ASSUME NEW e \in Elem
        PROVE  elem'[e] # NoElement <=> \E j \in 1 .. Len(s) - 1 : c[j] = e
    <3>1. CASE \E k \in 1 .. Len(s) : k # i /\ s[k] = e
      <4>1. PICK k \in 1 .. Len(s) : k # i /\ s[k] = e
        BY <3>1
      <4>2. elem'[e].content \in Content
        BY <1>1, <1>6, <4>1 DEF Hooked
      <4>3. elem'[e] # NoElement
        BY <4>2, ListAssumption DEF NoElement
      <4> QED
        BY <1>5, <4>1, <4>3
    <3>2. CASE e = s[i]
      <4>1. elem'[s[i]] = NoElement
        <5>1. PICK x \in Elem : x = s[i]
          BY <1>1
        <5>2. elem'[x] = IF x = s[i] THEN NoElement
                         ELSE [prev |-> IF x = At(s, i + 1) THEN At(s, i - 1) ELSE elem[x].prev,
                               next |-> IF x = At(s, i - 1) THEN At(s, i + 1) ELSE elem[x].next,
                               content |-> elem[x].content]
          BY UnhookedIs
        <5> QED
          BY <5>1, <5>2, Zenon
      <4>2. ~ \E j \in 1 .. Len(s) - 1 : c[j] = e
        BY <1>1, <1>3, <3>2 DEF Injective
      <4> QED
        BY <3>2, <4>1, <4>2
    <3>3. CASE \A k \in 1 .. Len(s) : s[k] # e
      <4>1. elem[e] = NoElement
        BY <1>1, <3>3 DEF InUse
      <4>2. e # At(s, i + 1) /\ e # At(s, i - 1) /\ e # s[i]
        BY <3>3, ListAssumption DEF At
      <4>3. elem'[e] = [prev |-> elem[e].prev, next |-> elem[e].next, content |-> elem[e].content]
        BY <4>2, UnhookedIs
      <4>4. elem'[e] = NoElement
        <5>1. elem[e] = [prev |-> elem[e].prev, next |-> elem[e].next, content |-> elem[e].content]
          BY Types
        <5>2. elem'[e] = elem[e]
          BY <4>3, <5>1, Zenon
        <5> QED
          BY <4>1, <5>2, Zenon
      <4>5. ~ \E j \in 1 .. Len(s) - 1 : c[j] = e
        BY <1>1, <1>3, <3>3
      <4> QED
        BY <4>4, <4>5
    <3> QED
      BY <3>1, <3>2, <3>3
  <2> QED
    BY <1>2, <2>1 DEF InUse
<1>12. Ends(c)'
  <2>1. list'.count = Len(c)
    BY <1>1, <1>2 DEF Ends
  <2>2. list'.current = NULL \/ \E j \in 1 .. Len(c) : list'.current = c[j]
    BY <1>2, <1>5
  <2>3. list'.first = At(c, 1)
    <3>1. CASE i = 1
      <4>1. list'.first = At(s, 2)
        BY <3>1 DEF At
      <4>2. CASE Len(s) = 1
        BY <1>2, <4>1, <4>2 DEF At
      <4>3. CASE Len(s) > 1
        <5>1. 1 \in 1 .. Len(s) - 1 /\ 2 \in 1 .. Len(s) /\ ~ (1 < i) /\ 1 + 1 = 2
          BY <1>1, <3>1, <4>3
        <5>2. c[1] = s[1 + 1]
          BY <1>3, <5>1
        <5>3. 1 \in 1 .. Len(c)
          BY <1>2, <5>1
        <5> QED
          BY <4>1, <5>1, <5>2, <5>3 DEF At
      <4> QED
        BY <1>one, <4>2, <4>3
    <3>2. CASE i > 1
      <4>1. i - 1 \in 1 .. Len(s) /\ 1 \in 1 .. Len(s) /\ 1 \in 1 .. Len(s) - 1
        BY <1>1, <3>2
      <4>2. At(s, i - 1) # NULL
        BY <1>1, <4>1, ListAssumption DEF At
      <4>3. list'.first = s[1] /\ c[1] = s[1]
        BY <1>1, <1>3, <3>2, <4>1, <4>2 DEF Ends, At
      <4> QED
        BY <1>2, <4>1, <4>3 DEF At
    <3> QED
      BY <3>1, <3>2
  <2>4. list'.last = At(c, Len(c))
    <3>1. CASE i = Len(s)
      <4>1. list'.last = At(s, Len(s) - 1)
        BY <1>1, <3>1 DEF At
      <4>2. CASE Len(s) = 1
        BY <1>2, <4>1, <4>2 DEF At
      <4>3. CASE Len(s) > 1
        <5>1. Len(s) - 1 \in 1 .. Len(s) - 1 /\ Len(s) - 1 < i /\ Len(s) - 1 \in 1 .. Len(s)
          BY <1>1, <3>1, <4>3
        <5>2. c[Len(s) - 1] = s[Len(s) - 1]
          BY <1>3, <5>1
        <5> QED
          BY <1>2, <4>1, <5>1, <5>2 DEF At
      <4> QED
        BY <1>one, <4>2, <4>3
    <3>2. CASE i < Len(s)
      <4>1. i + 1 \in 1 .. Len(s) /\ Len(s) \in 1 .. Len(s) /\ Len(s) - 1 \in 1 .. Len(s) - 1
            /\ ~ (Len(s) - 1 < i) /\ Len(s) - 1 + 1 = Len(s)
        BY <1>1, <3>2
      <4>2. At(s, i + 1) # NULL
        BY <1>1, <4>1, ListAssumption DEF At
      <4>3. c[Len(s) - 1] = s[Len(s) - 1 + 1]
        BY <1>3, <4>1
      <4>4. list'.last = s[Len(s)]
        BY <1>1, <4>1, <4>2 DEF Ends, At
      <4> QED
        BY <1>2, <4>1, <4>3, <4>4 DEF At
    <3> QED
      BY <1>1, <3>1, <3>2
  <2> QED
    BY <2>1, <2>2, <2>3, <2>4 DEF Ends
<1>13. Contents(c)' = Cut(Contents(s), i)
  <2>1. Len(Contents(s)) = Len(s)
    BY <1>1 DEF Contents
  <2>2. Contents(c)' = [j \in 1 .. Len(s) - 1 |-> elem'[c[j]].content]
    BY <1>2 DEF Contents
  <2>3. Cut(Contents(s), i) = [j \in 1 .. Len(s) - 1 |-> IF j < i THEN Contents(s)[j] ELSE Contents(s)[j + 1]]
    BY <2>1 DEF Cut
  <2> QED
    BY <1>7, <2>2, <2>3
<1>14. Chain(c)'
  BY <1>2, <1>8, <1>9, <1>10, <1>11, <1>12 DEF Chain, Injective
<1> QED
  BY <1>13, <1>14 DEF c

\* What is at a place of s with e put in.
LEMMA PutAt ==
  ASSUME NEW S, NEW s \in Seq(S), NEW i \in 1 .. Len(s) + 1, NEW e \in S, NEW j \in 0 .. Len(s) + 2
  PROVE  At(Put(s, i, e), j) = IF j < i THEN At(s, j) ELSE IF j = i THEN e ELSE At(s, j - 1)
<1> SUFFICES ASSUME NEW p, p = Put(s, i, e)
             PROVE  At(p, j) = IF j < i THEN At(s, j) ELSE IF j = i THEN e ELSE At(s, j - 1)
  OBVIOUS
<1>1. Len(p) = Len(s) + 1 /\ Len(s) \in Nat
  BY PutIs
<1>2. ASSUME NEW k \in 1 .. Len(s) + 1
      PROVE  p[k] = IF k < i THEN s[k] ELSE IF k = i THEN e ELSE s[k - 1]
  BY DEF Put
<1>3. CASE j = 0 \/ j = Len(s) + 2
  <2>1. At(p, j) = NULL
    BY <1>1, <1>3 DEF At
  <2>2. CASE j = 0
    BY <1>1, <2>1, <2>2 DEF At
  <2>3. CASE j = Len(s) + 2
    <3>1. ~ (j < i) /\ j # i /\ j - 1 = Len(s) + 1
      BY <1>1, <2>3
    <3>2. At(s, j - 1) = NULL
      BY <1>1, <3>1 DEF At
    <3> QED
      BY <2>1, <3>1, <3>2
  <2> QED
    BY <1>3, <2>2, <2>3
<1>4. CASE j \in 1 .. Len(s) + 1
  <2>1. At(p, j) = p[j]
    BY <1>1, <1>4 DEF At
  <2>2. CASE j < i
    <3>1. j \in 1 .. Len(s)
      BY <1>1, <1>4, <2>2
    <3> QED
      BY <1>2, <1>4, <2>1, <2>2, <3>1 DEF At
  <2>3. CASE j = i
    BY <1>2, <1>4, <2>1, <2>3
  <2>4. CASE j > i
    <3>1. j - 1 \in 1 .. Len(s) /\ ~ (j < i) /\ j # i
      BY <1>1, <1>4, <2>4
    <3> QED
      BY <1>2, <1>4, <2>1, <3>1 DEF At
  <2> QED
    BY <1>1, <2>2, <2>3, <2>4
<1>5. j = 0 \/ j = Len(s) + 2 \/ j \in 1 .. Len(s) + 1
  BY <1>1
<1> QED
  BY <1>3, <1>4, <1>5

\* The element e, which was not in use, has come to place i of s, with c.
Hooks(s, i, e, c) ==
  \A x \in Elem :
    elem'[x] = IF x = e THEN [prev |-> At(s, i - 1), next |-> At(s, i), content |-> c]
               ELSE [prev |-> IF x = At(s, i) THEN e ELSE elem[x].prev,
                     next |-> IF x = At(s, i - 1) THEN e ELSE elem[x].next,
                     content |-> elem[x].content]

\* An element comes, and the ends are moved to it where it is one of them.
LEMMA Inserted ==
  ASSUME TypeOK, NEW s, Chain(s), NEW i \in 1 .. Len(s) + 1, NEW e \in Elem, elem[e] = NoElement,
         NEW c \in Content, \A k \in 1 .. Len(s) : elem[s[k]].content # c,
         Hooks(s, i, e, c),
         list'.first = IF At(s, i - 1) = NULL THEN e ELSE list.first,
         list'.last = IF At(s, i) = NULL THEN e ELSE list.last,
         list'.count = list.count + 1, list'.current = list.current
  PROVE  Chain(Put(s, i, e))' /\ Contents(Put(s, i, e))' = Put(Contents(s), i, c)
<1> DEFINE p == Put(s, i, e)
<1>1. /\ s \in Seq(Elem) /\ Injective(s) /\ Hooked(s) /\ InUse(s) /\ Once(s) /\ Ends(s)
      /\ Len(s) \in Nat
  BY DEF Chain
<1>2. p \in Seq(Elem) /\ Len(p) = Len(s) + 1
  BY <1>1, PutIs
<1>3. ASSUME NEW j \in 1 .. Len(s) + 1
      PROVE  p[j] = IF j < i THEN s[j] ELSE IF j = i THEN e ELSE s[j - 1]
  BY DEF Put
<1>4. ASSUME NEW j \in 0 .. Len(s) + 2
      PROVE  At(p, j) = IF j < i THEN At(s, j) ELSE IF j = i THEN e ELSE At(s, j - 1)
  BY <1>1, PutAt
<1> HIDE DEF p
<1>5. \A k \in 1 .. Len(s) : s[k] \in Elem /\ s[k] # e /\ s[k] # NULL
  BY <1>1, ListAssumption DEF InUse
<1>6. ASSUME NEW k \in 1 .. Len(s)
      PROVE  /\ elem'[s[k]].content = elem[s[k]].content
             /\ elem'[s[k]].next = IF k = i - 1 THEN e ELSE At(s, k + 1)
             /\ elem'[s[k]].prev = IF k = i THEN e ELSE At(s, k - 1)
  <2>1. s[k] \in Elem /\ s[k] # e /\ s[k] # NULL
    BY <1>5
  <2>2. elem'[s[k]] = [prev |-> IF s[k] = At(s, i) THEN e ELSE elem[s[k]].prev,
                       next |-> IF s[k] = At(s, i - 1) THEN e ELSE elem[s[k]].next,
                       content |-> elem[s[k]].content]
    BY <2>1 DEF Hooks
  <2>3. s[k] = At(s, i) <=> k = i
    BY <1>1, <2>1 DEF Injective, At
  <2>4. s[k] = At(s, i - 1) <=> k = i - 1
    BY <1>1, <2>1 DEF Injective, At
  <2> QED
    BY <1>1, <2>2, <2>3, <2>4 DEF Hooked
<1>7. elem'[e] = [prev |-> At(s, i - 1), next |-> At(s, i), content |-> c]
  BY DEF Hooks
<1>8. ASSUME NEW j \in 1 .. Len(s) + 1
      PROVE  /\ elem'[p[j]].next = At(p, j + 1)
             /\ elem'[p[j]].prev = At(p, j - 1)
             /\ elem'[p[j]].content = IF j < i THEN elem[s[j]].content
                                      ELSE IF j = i THEN c ELSE elem[s[j - 1]].content
  <2>1. j + 1 \in 0 .. Len(s) + 2 /\ j - 1 \in 0 .. Len(s) + 2
    BY <1>1
  <2>2. /\ At(p, j + 1) = IF j + 1 < i THEN At(s, j + 1) ELSE IF j + 1 = i THEN e ELSE At(s, j + 1 - 1)
        /\ At(p, j - 1) = IF j - 1 < i THEN At(s, j - 1) ELSE IF j - 1 = i THEN e ELSE At(s, j - 1 - 1)
    BY <1>4, <2>1
  <2>3. CASE j < i
    <3>1. j \in 1 .. Len(s) /\ p[j] = s[j] /\ j # i /\ j - 1 < i
      BY <1>1, <1>3, <2>3
    <3>2. j + 1 < i \/ j + 1 = i
      BY <1>1, <2>3
    <3>3. j + 1 = i <=> j = i - 1
      BY <1>1
    <3> QED
      BY <1>6, <2>2, <2>3, <3>1, <3>2, <3>3
  <2>4. CASE j = i
    <3>1. p[j] = e /\ j + 1 - 1 = i /\ ~ (j + 1 < i) /\ j + 1 # i /\ j - 1 < i /\ j - 1 = i - 1
      BY <1>1, <1>3, <2>4
    <3> QED
      BY <1>7, <2>2, <2>4, <3>1
  <2>5. CASE j > i
    <3>1. /\ j - 1 \in 1 .. Len(s) /\ p[j] = s[j - 1] /\ ~ (j < i) /\ j # i
          /\ ~ (j + 1 < i) /\ j + 1 # i /\ j + 1 - 1 = j - 1 + 1 /\ ~ (j - 1 < i) /\ j - 1 # i - 1
      BY <1>1, <1>3, <2>5
    <3> QED
      BY <1>6, <2>2, <3>1
  <2> QED
    BY <1>1, <2>3, <2>4, <2>5
<1>9. Hooked(p)'
  <2>1. ASSUME NEW j \in 1 .. Len(s) + 1 PROVE elem'[p[j]].content \in Content
    <3>1. CASE j < i
      <4>1. j \in 1 .. Len(s) /\ elem'[p[j]].content = elem[s[j]].content
        BY <1>1, <1>8, <3>1
      <4> QED
        BY <1>1, <4>1 DEF Hooked
    <3>2. CASE j = i
      BY <1>8, <3>2
    <3>3. CASE j > i
      <4>1. j - 1 \in 1 .. Len(s) /\ ~ (j < i) /\ j # i
        BY <1>1, <3>3
      <4> QED
        BY <1>1, <1>8, <4>1 DEF Hooked
    <3> QED
      BY <1>1, <3>1, <3>2, <3>3
  <2> QED
    BY <1>2, <1>8, <2>1 DEF Hooked
<1>10. ASSUME NEW j \in 1 .. Len(s) + 1, j # i
       PROVE  \E k \in 1 .. Len(s) : /\ k = (IF j < i THEN j ELSE j - 1)
                                     /\ p[j] = s[k] /\ elem'[p[j]].content = elem[s[k]].content
  <2>1. CASE j < i
    <3>1. j \in 1 .. Len(s)
      BY <1>1, <2>1
    <3> QED
      BY <1>3, <1>8, <2>1, <3>1
  <2>2. CASE j > i
    <3>1. j - 1 \in 1 .. Len(s) /\ ~ (j < i)
      BY <1>1, <2>2
    <3> QED
      BY <1>3, <1>8, <1>10, <3>1
  <2> QED
    BY <1>1, <1>10, <2>1, <2>2
<1>11. p[i] = e /\ elem'[p[i]].content = c
  BY <1>3, <1>7
<1>12. ASSUME NEW j \in 1 .. Len(s) + 1, NEW l \in 1 .. Len(s) + 1,
              p[j] = p[l] \/ elem'[p[j]].content = elem'[p[l]].content
       PROVE  j = l
  <2>1. CASE j = i /\ l # i
    <3>1. PICK m \in 1 .. Len(s) : p[l] = s[m] /\ elem'[p[l]].content = elem[s[m]].content
      BY <1>10, <2>1
    <3> QED
      BY <1>5, <1>11, <1>12, <2>1, <3>1
  <2>2. CASE j # i /\ l = i
    <3>1. PICK m \in 1 .. Len(s) : p[j] = s[m] /\ elem'[p[j]].content = elem[s[m]].content
      BY <1>10, <2>2
    <3> QED
      BY <1>5, <1>11, <1>12, <2>2, <3>1
  <2>3. CASE j # i /\ l # i
    <3>1. PICK k \in 1 .. Len(s) : /\ k = (IF j < i THEN j ELSE j - 1)
                                   /\ p[j] = s[k] /\ elem'[p[j]].content = elem[s[k]].content
      BY <1>10, <2>3
    <3>2. PICK m \in 1 .. Len(s) : /\ m = (IF l < i THEN l ELSE l - 1)
                                   /\ p[l] = s[m] /\ elem'[p[l]].content = elem[s[m]].content
      BY <1>10, <2>3
    <3>3. k = m
      BY <1>1, <1>12, <3>1, <3>2, SMTT(20) DEF Injective, Once
    <3> QED
      BY <1>1, <2>3, <3>1, <3>2, <3>3
  <2> QED
    BY <2>1, <2>2, <2>3
<1>13. Injective(p) /\ Once(p)'
  BY <1>2, <1>12 DEF Injective, Once
<1>14. InUse(p)'
  <2>1. ASSUME NEW x \in Elem
        PROVE  elem'[x] # NoElement <=> \E j \in 1 .. Len(s) + 1 : p[j] = x
    <3>1. CASE \E k \in 1 .. Len(s) : s[k] = x
      <4>1. PICK k \in 1 .. Len(s) : s[k] = x
        BY <3>1
      <4>2. elem'[x].content \in Content
        BY <1>1, <1>6, <4>1 DEF Hooked
      <4>3. elem'[x] # NoElement
        BY <4>2, ListAssumption DEF NoElement
      <4>4. \E j \in 1 .. Len(s) + 1 : p[j] = x
        <5>1. CASE k < i
          <6>1. k \in 1 .. Len(s) + 1 /\ p[k] = x
            BY <1>1, <1>3, <4>1, <5>1
          <6> QED
            BY <6>1
        <5>2. CASE k >= i
          <6>1. k + 1 \in 1 .. Len(s) + 1 /\ ~ (k + 1 < i) /\ k + 1 # i /\ k + 1 - 1 = k
            BY <1>1, <5>2
          <6>2. p[k + 1] = s[k + 1 - 1]
            BY <1>3, <6>1
          <6> QED
            BY <4>1, <6>1, <6>2
        <5> QED
          BY <1>1, <5>1, <5>2
      <4> QED
        BY <4>3, <4>4
    <3>2. CASE x = e
      <4>1. elem'[x].content \in Content
        BY <1>7, <3>2
      <4>2. elem'[x] # NoElement
        BY <4>1, ListAssumption DEF NoElement
      <4> QED
        BY <1>1, <1>11, <3>2, <4>2
    <3>3. CASE x # e /\ \A k \in 1 .. Len(s) : s[k] # x
      <4>1. elem[x] = NoElement
        BY <1>1, <3>3 DEF InUse
      <4>2. x # At(s, i) /\ x # At(s, i - 1)
        BY <3>3, ListAssumption DEF At
      <4>3. elem'[x] = [prev |-> elem[x].prev, next |-> elem[x].next, content |-> elem[x].content]
        BY <3>3, <4>2 DEF Hooks
      <4>4. elem'[x] = NoElement
        <5>1. elem[x] = [prev |-> elem[x].prev, next |-> elem[x].next, content |-> elem[x].content]
          BY Types
        <5>2. elem'[x] = elem[x]
          BY <4>3, <5>1, Zenon
        <5> QED
          BY <4>1, <5>2, Zenon
      <4>5. ~ \E j \in 1 .. Len(s) + 1 : p[j] = x
        BY <1>10, <1>11, <3>3
      <4> QED
        BY <4>4, <4>5
    <3> QED
      BY <3>1, <3>2, <3>3
  <2> QED
    BY <1>2, <2>1 DEF InUse
<1>15. Ends(p)'
  <2>1. list'.count = Len(p)
    BY <1>1, <1>2 DEF Ends
  <2>2. list'.current = NULL \/ \E j \in 1 .. Len(p) : list'.current = p[j]
    <3>1. CASE list.current = NULL
      BY <3>1
    <3>2. CASE list.current # NULL
      <4>1. PICK k \in 1 .. Len(s) : list.current = s[k]
        BY <1>1, <3>2 DEF Ends
      <4>2. elem'[s[k]] # NoElement
        <5>1. elem'[s[k]].content \in Content
          BY <1>1, <1>6 DEF Hooked
        <5> QED
          BY <5>1, ListAssumption DEF NoElement
      <4>3. s[k] \in Elem
        BY <1>5
      <4> QED
        BY <1>14, <4>1, <4>2, <4>3 DEF InUse
    <3> QED
      BY <3>1, <3>2
  <2>3. list'.first = At(p, 1)
    <3>1. 1 \in 0 .. Len(s) + 2 /\ (1 < i <=> i # 1)
      BY <1>1
    <3>2. At(p, 1) = IF 1 < i THEN At(s, 1) ELSE IF 1 = i THEN e ELSE At(s, 1 - 1)
      BY <1>4, <3>1
    <3>3. CASE i = 1
      BY <3>2, <3>3 DEF At
    <3>4. CASE i # 1
      <4>1. i - 1 \in 1 .. Len(s)
        BY <1>1, <3>4
      <4>2. At(s, i - 1) # NULL
        BY <1>5, <4>1 DEF At
      <4> QED
        BY <1>1, <3>1, <3>2, <3>4, <4>2 DEF Ends
    <3> QED
      BY <3>3, <3>4
  <2>4. list'.last = At(p, Len(p))
    <3>1. Len(s) + 1 \in 0 .. Len(s) + 2 /\ ~ (Len(s) + 1 < i) /\ Len(s) + 1 - 1 = Len(s)
      BY <1>1
    <3>2. At(p, Len(s) + 1) = IF Len(s) + 1 < i THEN At(s, Len(s) + 1)
                              ELSE IF Len(s) + 1 = i THEN e ELSE At(s, Len(s) + 1 - 1)
      BY <1>4, <3>1
    <3>3. CASE i = Len(s) + 1
      <4>1. At(s, i) = NULL
        BY <1>1, <3>3 DEF At
      <4> QED
        BY <1>2, <3>1, <3>2, <3>3, <4>1
    <3>4. CASE i # Len(s) + 1
      <4>1. i \in 1 .. Len(s)
        BY <1>1, <3>4
      <4>2. At(s, i) # NULL
        BY <1>5, <4>1 DEF At
      <4> QED
        BY <1>1, <1>2, <3>1, <3>2, <3>4, <4>2 DEF Ends
    <3> QED
      BY <3>3, <3>4
  <2> QED
    BY <2>1, <2>2, <2>3, <2>4 DEF Ends
<1>16. Contents(p)' = Put(Contents(s), i, c)
  <2>1. Len(Contents(s)) = Len(s)
    BY <1>1 DEF Contents
  <2>2. Contents(p)' = [j \in 1 .. Len(s) + 1 |-> elem'[p[j]].content]
    BY <1>2 DEF Contents
  <2>3. Put(Contents(s), i, c) = [j \in 1 .. Len(s) + 1 |->
                                   IF j < i THEN Contents(s)[j]
                                   ELSE IF j = i THEN c ELSE Contents(s)[j - 1]]
    BY <2>1 DEF Put
  <2>4. ASSUME NEW j \in 1 .. Len(s) + 1
        PROVE  elem'[p[j]].content = IF j < i THEN Contents(s)[j]
                                     ELSE IF j = i THEN c ELSE Contents(s)[j - 1]
    <3>1. CASE j < i
      <4>1. j \in 1 .. Len(s)
        BY <1>1, <3>1
      <4> QED
        BY <1>8, <3>1, <4>1 DEF Contents
    <3>2. CASE j = i
      BY <1>8, <3>2
    <3>3. CASE j > i
      <4>1. j - 1 \in 1 .. Len(s) /\ ~ (j < i) /\ j # i
        BY <1>1, <3>3
      <4> QED
        BY <1>8, <4>1 DEF Contents
    <3> QED
      BY <1>1, <3>1, <3>2, <3>3
  <2> QED
    BY <2>2, <2>3, <2>4
<1>17. Chain(p)'
  BY <1>2, <1>9, <1>13, <1>14, <1>15 DEF Chain, Injective
<1> QED
  BY <1>16, <1>17 DEF p

-----------------------------------------------------------------------------
(***************************************************************************)
(* The steps of the sequence, in Shown and ShownAt.                          *)
(***************************************************************************)

\* The cursor's position after a step.
LEMMA PositionNext ==
  (ShownAt = LET I == {i \in 1 .. Len(Forward) : Forward[i] = list.current}
             IN  IF I # {} THEN Min(I) ELSE 0)'
  BY PositionUnfolds, PTL

\* The definitions of CursorList with Shown and ShownAt for its variables,
\* from here to InitUnfolds: the search of the sequence, unfolded.
LEMMA FoundUnfolds ==
  ASSUME NEW S
  PROVE  Cursor!Found(S) =
           LET hits == {i \in DOMAIN Shown : Shown[i] \in S}
           IN  CASE ShownAt \in hits -> ShownAt
                 [] ShownAt \notin hits /\ hits # {} -> CHOOSE i \in hits : \A j \in hits : i <= j
                 [] OTHER -> 0
  BY DEF Cursor!Found, Shown, ShownAt

\* The search of the list, unfolded.
LEMMA ItemUnfolds ==
  ASSUME NEW S
  PROVE  ListFindItem(S) =
           LET I == {i \in 1 .. Len(Forward) : Matches(Forward[i], S)}
               i == IF I # {} THEN Min(I) ELSE 0
           IN  CASE Matches(list.current, S) -> list.current
                 [] ~ Matches(list.current, S) /\ i # 0 -> Forward[i]
                 [] OTHER -> NULL
  BY DEF ListFindItem, SelectInSeq

\* Insert, unfolded.
LEMMA InsertUnfolds ==
  ASSUME NEW c, NEW i
  PROVE  Cursor!Insert(c, i) <=>
           /\ c \notin ToSet(Shown)
           /\ Shown' = InsertAt(Shown, i, c)
           /\ ShownAt' = IF ShownAt >= i THEN ShownAt + 1 ELSE ShownAt
           /\ freed' = freed \ {c}
           /\ rc' = NULL
  BY DEF Cursor!Insert, Cursor!InsertAt, InsertAt, Cursor!ToSet, ToSet, Shown, ShownAt

\* Find, unfolded.
LEMMA FindUnfolds ==
  ASSUME NEW S
  PROVE  Cursor!Find(S) <=>
           /\ ShownAt' = IF Cursor!Found(S) = 0 THEN ShownAt ELSE Cursor!Found(S)
           /\ rc' = IF Cursor!Found(S) = 0 THEN NULL ELSE Shown[Cursor!Found(S)]
           /\ Shown' = Shown /\ freed' = freed
  BY DEF Cursor!Find, Shown, ShownAt

\* Where the cursor is when the element at i goes.
CursorGone(i) ==
  IF ShownAt > i \/ (ShownAt = i /\ i = Len(Shown)) THEN (IF ShownAt = i THEN 0 ELSE ShownAt - 1) ELSE ShownAt

\* Unlink, unfolded.
LEMMA UnlinkUnfolds ==
  ASSUME NEW S, NEW free
  PROVE  Cursor!Unlink(S, free) <=>
           \/ /\ Cursor!Found(S) = 0 /\ rc' = FALSE
              /\ Shown' = Shown /\ ShownAt' = ShownAt /\ freed' = freed
           \/ /\ Cursor!Found(S) # 0
              /\ Shown' = RemoveAt(Shown, Cursor!Found(S))
              /\ ShownAt' = CursorGone(Cursor!Found(S))
              /\ freed' = IF free THEN freed \cup {Shown[Cursor!Found(S)]} ELSE freed
              /\ rc' = TRUE
  BY DEF Cursor!Unlink, Cursor!RemoveAt, RemoveAt, Cursor!Without, Cursor!CursorWithout, Shown, ShownAt, CursorGone

\* DetachHead, unfolded.
LEMMA DetachHeadUnfolds ==
  Cursor!DetachHead <=>
    /\ rc' = IF Shown = <<>> THEN NULL ELSE Shown[1]
    /\ Shown' = IF Shown = <<>> THEN Shown ELSE RemoveAt(Shown, 1)
    /\ ShownAt' = IF Shown = <<>> THEN ShownAt ELSE CursorGone(1)
    /\ freed' = freed
  BY DEF Cursor!DetachHead, Cursor!RemoveAt, RemoveAt, Cursor!Without, Cursor!CursorWithout, Shown, ShownAt, CursorGone

\* RemoveHead, unfolded.
LEMMA RemoveHeadUnfolds ==
  Cursor!RemoveHead <=>
    /\ Shown' = IF Shown = <<>> THEN Shown ELSE RemoveAt(Shown, 1)
    /\ ShownAt' = IF Shown = <<>> THEN ShownAt ELSE CursorGone(1)
    /\ freed' = IF Shown = <<>> THEN freed ELSE freed \cup {Shown[1]}
    /\ rc' \in BOOLEAN
  BY DEF Cursor!RemoveHead, Cursor!RemoveAt, RemoveAt, Cursor!Without, Cursor!CursorWithout, Shown, ShownAt, CursorGone

\* PopTail, unfolded.
LEMMA PopTailUnfolds ==
  Cursor!PopTail <=>
    /\ rc' = IF Shown = <<>> THEN NULL ELSE Shown[Len(Shown)]
    /\ Shown' = IF Shown = <<>> THEN Shown ELSE RemoveAt(Shown, Len(Shown))
    /\ ShownAt' = IF ShownAt = Len(Shown) /\ Shown # <<>> THEN ShownAt - 1 ELSE ShownAt
    /\ freed' = freed
  BY DEF Cursor!PopTail, Cursor!RemoveAt, RemoveAt, Cursor!Without, Shown, ShownAt

\* Empty, unfolded.
LEMMA EmptyUnfolds ==
  Cursor!Empty <=>
    /\ Shown' = <<>> /\ ShownAt' = 0
    /\ freed' = freed \cup ToSet(Shown)
    /\ rc' = NULL
  BY DEF Cursor!Empty, Cursor!ToSet, ToSet, Shown, ShownAt

\* Init, unfolded.
LEMMA InitUnfolds ==
  Cursor!Init <=> Shown = <<>> /\ ShownAt = 0 /\ freed = {} /\ rc = NULL
  BY DEF Cursor!Init, Shown, ShownAt

\* A step that changes nothing of the list changes nothing that it shows.
LEMMA StutterIs ==
  UNCHANGED vars => Shown' = Shown /\ ShownAt' = ShownAt /\ UNCHANGED <<freed, rc>>
<1> SUFFICES ASSUME UNCHANGED vars PROVE Shown' = Shown /\ ShownAt' = ShownAt /\ UNCHANGED <<freed, rc>>
  OBVIOUS
<1>1. elem' = elem /\ list' = list /\ freed' = freed /\ rc' = rc
  BY DEF vars
<1>2. Forward' = Forward
  BY <1>1 DEF Forward
<1>3. Shown' = Shown
  BY <1>1, <1>2 DEF Shown
<1>4. ShownAt' = LET I == {i \in 1 .. Len(Forward') : (Forward')[i] = list'.current}
                 IN  IF I # {} THEN Min(I) ELSE 0
  BY PositionNext
<1>5. ShownAt' = ShownAt
  BY <1>1, <1>2, <1>4, PositionUnfolds
<1> QED
  BY <1>1, <1>3, <1>5

\* ListFindItem, which goes by the cursor first and then forward from first,
\* finds the element of the content that a search of the sequence finds.
LEMMA FoundIs ==
  ASSUME TypeOK, NEW s, Chain(s), NEW S
  PROVE  \/ Cursor!Found(S) = 0 /\ ListFindItem(S) = NULL
         \/ /\ Cursor!Found(S) \in 1 .. Len(s)
            /\ ListFindItem(S) = s[Cursor!Found(S)]
            /\ ListFindItem(S) # NULL
<1> DEFINE hits == {i \in DOMAIN Shown : Shown[i] \in S}
           I == {i \in 1 .. Len(Forward) : Matches(Forward[i], S)}
<1>1. /\ Forward = s /\ s \in Seq(Elem) /\ Len(s) \in Nat
      /\ \A i \in 1 .. Len(s) : s[i] \in Elem /\ s[i] # NULL
  BY ForwardIs, ListAssumption DEF Chain
<1>2. /\ Shown = Contents(s) /\ ShownAt \in 0 .. Len(s)
      /\ ShownAt = 0 <=> list.current = NULL
      /\ \A i \in 1 .. Len(s) : ShownAt = i <=> list.current = s[i]
  BY SeenIs
<1>3. hits = I
  BY <1>1, <1>2 DEF Contents, Matches
<1>4. hits \subseteq 1 .. Len(s)
  BY <1>1, <1>2 DEF Contents
<1>5. Matches(list.current, S) <=> ShownAt \in hits
  BY <1>1, <1>2 DEF Contents, Matches
<1>6. Cursor!Found(S) = CASE ShownAt \in hits -> ShownAt
                          [] ShownAt \notin hits /\ hits # {} -> CHOOSE i \in hits : \A j \in hits : i <= j
                          [] OTHER -> 0
  BY FoundUnfolds
<1>7. ListFindItem(S) = LET i == IF I # {} THEN Min(I) ELSE 0 IN
                        CASE Matches(list.current, S) -> list.current
                          [] ~ Matches(list.current, S) /\ i # 0 -> Forward[i]
                          [] OTHER -> NULL
  BY ItemUnfolds
<1> HIDE DEF hits, I
<1>8. CASE ShownAt \in hits
  <2>1. Cursor!Found(S) = ShownAt /\ ListFindItem(S) = list.current
    BY <1>5, <1>6, <1>7, <1>8
  <2>2. ShownAt \in 1 .. Len(s)
    BY <1>4, <1>8
  <2> QED
    BY <1>1, <1>2, <2>1, <2>2
<1>9. CASE ShownAt \notin hits /\ hits # {}
  <2> DEFINE m == CHOOSE i \in hits : \A j \in hits : i <= j
  <2>1. hits \subseteq Nat
    BY <1>1, <1>4
  <2>2. m \in hits
    BY <1>9, <2>1, NatMin
  <2>3. Min(I) = m
    <3>1. Min(hits) = m
      BY DEF Min
    <3>2. Min(hits) = Min(I)
      BY <1>3, Zenon
    <3> QED
      BY <3>1, <3>2, Zenon
  <2>4. Cursor!Found(S) = m
    BY <1>6, <1>9
  <2> HIDE DEF m
  <2>5. m \in 1 .. Len(s) /\ m # 0
    BY <1>4, <2>2
  <2>6. I # {}
    BY <1>3, <1>9, Zenon
  <2>7. ListFindItem(S) = Forward[m]
    BY <1>5, <1>7, <1>9, <2>3, <2>5, <2>6
  <2> QED
    BY <1>1, <2>4, <2>5, <2>7
<1>10. CASE ShownAt \notin hits /\ hits = {}
  <2>1. I = {}
    BY <1>3, <1>10, Zenon
  <2>2. ListFindItem(S) = NULL
    BY <1>5, <1>7, <1>10, <2>1
  <2>3. Cursor!Found(S) = 0
    BY <1>6, <1>10
  <2> QED
    BY <2>2, <2>3
<1> QED
  BY <1>8, <1>9, <1>10

\* What an operation that adds c leaves behind.
LEMMA Added ==
  ASSUME TypeOK, NEW s, Chain(s), NEW i \in 1 .. Len(s) + 1, NEW e, e = NewElem,
         NEW c \in Content, CanAdd(c), Hooks(s, i, e, c), elem' \in [Elem -> ListElement],
         list' \in List, list'.size = list.size + SizeOf[c],
         list'.first = IF At(s, i - 1) = NULL THEN e ELSE list.first,
         list'.last = IF At(s, i) = NULL THEN e ELSE list.last,
         list'.count = list.count + 1, list'.current = list.current,
         freed' = freed \ {c}, rc' = NULL
  PROVE  TypeOK' /\ (\E t : Chain(t))' /\ Cursor!Insert(c, i)
<1>1. s \in Seq(Elem) /\ Len(s) \in Nat /\ InUse(s) /\ Hooked(s)
  BY DEF Chain
<1>2. e \in Elem /\ elem[e] = NoElement
  BY DEF CanAdd, NewElem, Used
<1>3. \A k \in 1 .. Len(s) : elem[s[k]].content # c
  <2>1. ASSUME NEW k \in 1 .. Len(s) PROVE s[k] \in Used
    BY <1>1 DEF InUse, Used
  <2> QED
    BY <2>1 DEF CanAdd
<1>4. TypeOK'
  <2>1. list'.size >= 0
    <3>1. list.size \in Int /\ list.size >= 0 /\ SizeOf[c] \in Nat
      BY ListAssumption DEF TypeOK, List
    <3> QED
      BY <3>1
  <2>2. freed' \subseteq Content
    BY DEF TypeOK
  <2>3. rc' \in Content \cup BOOLEAN \cup {NULL}
    BY Zenon
  <2> QED
    BY <2>1, <2>2, <2>3 DEF TypeOK
<1>5. Chain(Put(s, i, e))' /\ Contents(Put(s, i, e))' = Put(Contents(s), i, c)
  BY <1>2, <1>3, Inserted
<1>6. (\E t : Chain(t))'
  BY <1>5
<1>7. /\ Shown = Contents(s) /\ ShownAt \in 0 .. Len(s)
      /\ ShownAt = 0 <=> list.current = NULL
      /\ \A k \in 1 .. Len(s) : ShownAt = k <=> list.current = s[k]
  BY SeenIs
<1>8. Contents(s) \in Seq(Content) /\ Len(Contents(s)) = Len(s)
  BY <1>1 DEF Contents, Hooked
<1>9. InsertAt(Contents(s), i, c) = Put(Contents(s), i, c)
  BY <1>8, PutIs
<1> DEFINE p == Put(s, i, e)
<1>10. /\ Shown' = Contents(p)' /\ ShownAt' \in 0 .. Len(p)
       /\ ShownAt' = 0 <=> list'.current = NULL
       /\ \A k \in 1 .. Len(p) : ShownAt' = k <=> list'.current = p[k]
  BY <1>4, <1>5, SeenNext
<1>11. Shown' = InsertAt(Shown, i, c)
  BY <1>5, <1>7, <1>9, <1>10
<1>12. c \notin ToSet(Shown)
  BY <1>1, <1>3, <1>7, <1>8 DEF Contents, ToSet
<1>13. ShownAt' = IF ShownAt >= i THEN ShownAt + 1 ELSE ShownAt
  <2>1. CASE ShownAt = 0
    BY <1>7, <1>10, <2>1
  <2>2. CASE ShownAt # 0
    <3>1. PICK k \in 1 .. Len(s) : ShownAt = k
      BY <1>7, <2>2
    <3>2. list'.current = s[k]
      BY <1>7, <3>1
    <3>3. PICK l \in 1 .. Len(s) + 1 : l = IF k >= i THEN k + 1 ELSE k
      BY <1>1
    <3>4. Len(p) = Len(s) + 1
      BY <1>1, <1>2, PutIs
    <3>5. p[l] = s[k]
      <4>1. p[l] = IF l < i THEN s[l] ELSE IF l = i THEN e ELSE s[l - 1]
        BY DEF Put
      <4> QED
        BY <1>1, <3>3, <4>1
    <3>6. ShownAt' = l
      BY <1>10, <3>2, <3>4, <3>5
    <3> QED
      BY <3>1, <3>3, <3>6
  <2> QED
    BY <2>1, <2>2
<1>14. Cursor!Insert(c, i)
  BY <1>11, <1>12, <1>13, InsertUnfolds
<1> QED
  BY <1>4, <1>6, <1>14

\* What one that takes the element at i away leaves behind.
LEMMA Gone ==
  ASSUME TypeOK, NEW s, Chain(s), NEW i \in 1 .. Len(s), elem' = Unhooked(s[i]),
         list' \in List, list'.size = list.size,
         list'.first = IF At(s, i - 1) = NULL THEN At(s, i + 1) ELSE list.first,
         list'.last = IF At(s, i + 1) = NULL THEN At(s, i - 1) ELSE list.last,
         list'.count = list.count - 1,
         NEW d \in {i - 1, i + 1},
         list'.current = IF list.current = s[i] THEN At(s, d) ELSE list.current
  PROVE  /\ (\E t : Chain(t))'
         /\ elem' \in [Elem -> ListElement]
         /\ (freed' \subseteq Content /\ rc' \in Content \cup BOOLEAN \cup {NULL} =>
               /\ Shown' = RemoveAt(Shown, i)
               /\ ShownAt' = IF ShownAt > i THEN ShownAt - 1
                             ELSE IF ShownAt = i /\ d = i - 1 THEN i - 1
                             ELSE IF ShownAt = i /\ i = Len(s) THEN 0 ELSE ShownAt)
<1> DEFINE c == Cut(s, i)
<1>1. /\ s \in Seq(Elem) /\ Len(s) \in Nat /\ Hooked(s) /\ Injective(s)
      /\ \A k \in 1 .. Len(s) : s[k] # NULL
  BY ListAssumption DEF Chain
<1>2. list'.current = NULL \/ \E k \in 1 .. Len(s) : k # i /\ list'.current = s[k]
  <2>1. CASE list.current = s[i]
    BY <1>1, <2>1 DEF At
  <2>2. CASE list.current # s[i]
    BY <2>2 DEF Chain, Ends
  <2> QED
    BY <2>1, <2>2
<1>3. Chain(c)' /\ Contents(c)' = Cut(Contents(s), i)
  BY <1>2, Removed
<1>4. (\E t : Chain(t))'
  BY <1>3
<1>5. elem' \in [Elem -> ListElement]
  BY UnhookedIs
<1>6. ASSUME freed' \subseteq Content, rc' \in Content \cup BOOLEAN \cup {NULL}
      PROVE  /\ Shown' = RemoveAt(Shown, i)
             /\ ShownAt' = IF ShownAt > i THEN ShownAt - 1
                           ELSE IF ShownAt = i /\ d = i - 1 THEN i - 1
                           ELSE IF ShownAt = i /\ i = Len(s) THEN 0 ELSE ShownAt
  <2>1. TypeOK'
    <3>1. list'.size >= 0
      BY DEF TypeOK
    <3> QED
      BY <1>5, <1>6, <3>1, Zenon DEF TypeOK
  <2>2. /\ Shown = Contents(s) /\ ShownAt \in 0 .. Len(s)
        /\ ShownAt = 0 <=> list.current = NULL
        /\ \A k \in 1 .. Len(s) : ShownAt = k <=> list.current = s[k]
    BY SeenIs
  <2>3. /\ Shown' = Contents(c)' /\ ShownAt' \in 0 .. Len(c)
        /\ ShownAt' = 0 <=> list'.current = NULL
        /\ \A k \in 1 .. Len(c) : ShownAt' = k <=> list'.current = c[k]
    BY <1>3, <2>1, SeenNext
  <2>4. Contents(s) \in Seq(Content) /\ Len(Contents(s)) = Len(s)
    BY <1>1 DEF Contents, Hooked
  <2>5. RemoveAt(Contents(s), i) = Cut(Contents(s), i)
    BY <2>4, CutIs
  <2>6. Shown' = RemoveAt(Shown, i)
    BY <1>3, <2>2, <2>3, <2>5
  <2>7. Len(c) = Len(s) - 1
    BY <1>1, CutIs
  <2>8. ASSUME NEW k \in 1 .. Len(s), k # i, list'.current = s[k]
        PROVE  ShownAt' = IF k > i THEN k - 1 ELSE k
    <3>1. PICK l \in 1 .. Len(s) - 1 : l = IF k > i THEN k - 1 ELSE k
      BY <1>1, <2>8
    <3>2. c[l] = IF l < i THEN s[l] ELSE s[l + 1]
      BY DEF Cut
    <3>3. c[l] = s[k]
      BY <1>1, <2>8, <3>1, <3>2
    <3>4. ShownAt' = l
      BY <2>3, <2>7, <2>8, <3>3
    <3> QED
      BY <3>1, <3>4
  <2>9. CASE ShownAt = 0
    <3>1. list'.current = NULL
      BY <1>1, <2>2, <2>9
    <3>2. ShownAt' = 0
      BY <2>3, <3>1
    <3> QED
      BY <2>6, <2>9, <3>2
  <2>10. CASE ShownAt # 0 /\ ShownAt # i
    <3>1. PICK k \in 1 .. Len(s) : ShownAt = k
      BY <2>2, <2>10
    <3>2. list'.current = s[k]
      BY <1>1, <2>2, <2>10, <3>1
    <3> QED
      BY <2>6, <2>8, <2>10, <3>1, <3>2
  <2>11. CASE ShownAt = i
    <3>1. list'.current = At(s, d)
      BY <2>2, <2>11
    <3>2. CASE d = i - 1 /\ i = 1
      <4>1. list'.current = NULL
        BY <3>1, <3>2 DEF At
      <4> QED
        BY <2>3, <2>6, <2>11, <3>2, <4>1
    <3>3. CASE d = i - 1 /\ i # 1
      <4>1. d \in 1 .. Len(s) /\ d # i /\ ~ (d > i)
        BY <1>1, <3>3
      <4>2. list'.current = s[d]
        BY <3>1, <4>1 DEF At
      <4>3. ShownAt' = d
        BY <2>8, <4>1, <4>2
      <4> QED
        BY <2>6, <2>11, <3>3, <4>3
    <3>4. CASE d = i + 1 /\ i = Len(s)
      <4>1. list'.current = NULL
        BY <3>1, <3>4 DEF At
      <4> QED
        BY <2>3, <2>6, <2>11, <3>4, <4>1
    <3>5. CASE d = i + 1 /\ i # Len(s)
      <4>1. d \in 1 .. Len(s) /\ d # i /\ d > i /\ d - 1 = i
        BY <1>1, <3>5
      <4>2. list'.current = s[d]
        BY <3>1, <4>1 DEF At
      <4>3. ShownAt' = i
        BY <2>8, <4>1, <4>2
      <4> QED
        BY <2>6, <2>11, <3>5, <4>3
    <3> QED
      BY <3>2, <3>3, <3>4, <3>5
  <2> QED
    BY <2>9, <2>10, <2>11
<1> QED
  BY <1>4, <1>5, <1>6

\* ListAppend: the new element is the last, and the first if there was none.
LEMMA AppendStep ==
  ASSUME TypeOK, NEW s, Chain(s), NEW c \in Content, ListAppend(c)
  PROVE  TypeOK' /\ (\E t : Chain(t))' /\ Cursor!Insert(c, Len(s) + 1)
<1>1. PICK e : e = NewElem
  OBVIOUS
<1>2. /\ CanAdd(c)
      /\ elem' = LET new == [elem EXCEPT ![e] = [prev |-> list.last, next |-> NULL, content |-> c]]
                 IN  IF list.first = NULL THEN new ELSE [new EXCEPT ![list.last].next = e]
      /\ list' = [list EXCEPT !.first = IF list.first = NULL THEN e ELSE list.first, !.last = e,
                              !.count = list.count + 1, !.size = list.size + SizeOf[c]]
      /\ freed' = freed \ {c} /\ rc' = NULL
  BY <1>1, Zenon DEF ListAppend
<1>3. e \in Elem /\ elem[e] = NoElement
  BY <1>1, <1>2 DEF CanAdd, NewElem, Used
<1>4. /\ s \in Seq(Elem) /\ Len(s) \in Nat /\ list.first = At(s, 1) /\ list.last = At(s, Len(s))
      /\ \A k \in 1 .. Len(s) : s[k] \in Elem /\ s[k] # NULL /\ s[k] # e
  BY <1>3, ListAssumption DEF Chain, Ends, InUse
<1>5. At(s, Len(s) + 1) = NULL
  BY <1>4 DEF At
<1>6. list \in List /\ elem \in [Elem -> ListElement] /\ SizeOf[c] \in Int
  BY ListAssumption DEF TypeOK
<1>7. list.first = NULL <=> At(s, Len(s)) = NULL
  <2>1. CASE Len(s) = 0
    <3>1. At(s, 1) = NULL /\ At(s, Len(s)) = NULL
      BY <1>4, <2>1 DEF At
    <3> QED
      BY <1>4, <3>1
  <2>2. CASE Len(s) # 0
    <3>1. 1 \in 1 .. Len(s) /\ Len(s) \in 1 .. Len(s)
      BY <1>4, <2>2
    <3> QED
      BY <1>4, <3>1 DEF At
  <2> QED
    BY <2>1, <2>2
<1>8. /\ list' \in List /\ list'.size = list.size + SizeOf[c]
      /\ list'.first = IF At(s, Len(s)) = NULL THEN e ELSE list.first
      /\ list'.last = e
      /\ list'.count = list.count + 1 /\ list'.current = list.current
  <2>1. /\ list.count \in Int /\ list.size \in Int /\ list.first \in Pointer
        /\ list.count + 1 \in Int /\ list.size + SizeOf[c] \in Int /\ e \in Pointer
    BY <1>3, <1>6 DEF List, Pointer
  <2>2. list' \in List
    BY <1>2, <1>6, <2>1 DEF List
  <2>3. /\ list'.size = list.size + SizeOf[c]
        /\ list'.first = IF list.first = NULL THEN e ELSE list.first
        /\ list'.last = e
        /\ list'.count = list.count + 1 /\ list'.current = list.current
    BY <1>2, <1>6 DEF List
  <2> QED
    BY <1>7, <2>2, <2>3
<1>9. elem' \in [Elem -> ListElement] /\ Hooks(s, Len(s) + 1, e, c)
  <2>1. list.last \in Pointer /\ list.last # e
    BY <1>3, <1>4, ListAssumption DEF At, Pointer
  <2> DEFINE new == [elem EXCEPT ![e] = [prev |-> list.last, next |-> NULL, content |-> c]]
  <2>2. new \in [Elem -> ListElement] /\ \A x \in Elem : new[x] =
          IF x = e THEN [prev |-> list.last, next |-> NULL, content |-> c] ELSE elem[x]
    BY <1>3, <1>6, <2>1 DEF ListElement, Pointer
  <2>3. elem' = IF list.first = NULL THEN new ELSE [new EXCEPT ![list.last].next = e]
    BY <1>2
  <2> HIDE DEF new
  <2>4. CASE list.first = NULL
    <3>1. list.last = NULL
      BY <1>4, <1>7, <2>4
    <3>2. elem' = new
      BY <2>3, <2>4
    <3>3. ASSUME NEW x \in Elem
          PROVE  elem'[x] = IF x = e THEN [prev |-> list.last, next |-> NULL, content |-> c]
                            ELSE [prev |-> IF x = NULL THEN e ELSE elem[x].prev,
                                  next |-> IF x = list.last THEN e ELSE elem[x].next,
                                  content |-> elem[x].content]
      <4>1. elem[x] = [prev |-> elem[x].prev, next |-> elem[x].next, content |-> elem[x].content]
        BY Types
      <4>2. x # NULL
        BY ListAssumption
      <4> QED
        BY <2>2, <3>1, <3>2, <4>1, <4>2
    <3> QED
      BY <1>4, <1>5, <2>2, <3>2, <3>3 DEF Hooks
  <2>5. CASE list.first # NULL
    <3>1. list.last \in Elem
      BY <1>4, <1>7, <2>1, <2>5 DEF Pointer
    <3>2. elem' = [new EXCEPT ![list.last].next = e]
      BY <2>3, <2>5
    <3>3. elem' \in [Elem -> ListElement]
      BY <1>3, <2>2, <3>1, <3>2 DEF ListElement, Pointer
    <3>4. ASSUME NEW x \in Elem
          PROVE  elem'[x] = IF x = e THEN [prev |-> list.last, next |-> NULL, content |-> c]
                            ELSE [prev |-> IF x = NULL THEN e ELSE elem[x].prev,
                                  next |-> IF x = list.last THEN e ELSE elem[x].next,
                                  content |-> elem[x].content]
      <4>1. elem[x] = [prev |-> elem[x].prev, next |-> elem[x].next, content |-> elem[x].content]
        BY Types
      <4>2. x # NULL
        BY ListAssumption
      <4>3. CASE x = e
        BY <2>1, <2>2, <3>1, <3>2, <4>3
      <4>4. CASE x = list.last
        <5>1. elem'[x] = [new[x] EXCEPT !.next = e]
          BY <2>2, <3>1, <3>2, <4>4
        <5>2. new[x] = elem[x] /\ x # e
          BY <2>1, <2>2, <4>4
        <5> QED
          BY <4>1, <4>2, <4>4, <5>1, <5>2
      <4>5. CASE x # e /\ x # list.last
        <5>1. elem'[x] = elem[x]
          BY <2>2, <3>1, <3>2, <4>5
        <5> QED
          BY <4>1, <4>2, <4>5, <5>1
      <4> QED
        BY <4>3, <4>4, <4>5
    <3> QED
      BY <1>4, <1>5, <3>3, <3>4 DEF Hooks
  <2> QED
    BY <2>4, <2>5
<1>10. Len(s) + 1 \in 1 .. Len(s) + 1 /\ Len(s) + 1 - 1 = Len(s)
  BY <1>4
<1>11. PICK i \in 1 .. Len(s) + 1 : i = Len(s) + 1 /\ i - 1 = Len(s)
  BY <1>10
<1>12. Hooks(s, i, e, c) /\ At(s, i) = NULL /\ At(s, i - 1) = At(s, Len(s))
  BY <1>5, <1>9, <1>11
<1>13. TypeOK' /\ (\E t : Chain(t))' /\ Cursor!Insert(c, i)
  BY <1>1, <1>2, <1>8, <1>9, <1>12, Added
<1> QED
  BY <1>11, <1>13

\* ListInsert before the element at i.
LEMMA InsertStep ==
  ASSUME TypeOK, NEW s, Chain(s), NEW c \in Content, NEW i \in 1 .. Len(s), ListInsert(c, s[i])
  PROVE  TypeOK' /\ (\E t : Chain(t))' /\ Cursor!Insert(c, i)
<1>1. PICK e : e = NewElem
  OBVIOUS
<1>2. PICK before : before = elem[s[i]].prev
  OBVIOUS
<1>3. /\ CanAdd(c)
      /\ elem' = LET new == [elem EXCEPT ![e] = [prev |-> before, next |-> s[i], content |-> c],
                                         ![s[i]].prev = e]
                 IN  IF before = NULL THEN new ELSE [new EXCEPT ![before].next = e]
      /\ list' = [list EXCEPT !.first = IF before = NULL THEN e ELSE list.first,
                              !.count = list.count + 1, !.size = list.size + SizeOf[c]]
      /\ freed' = freed \ {c} /\ rc' = NULL
  BY <1>1, <1>2, Zenon DEF ListInsert
<1>4. e \in Elem /\ elem[e] = NoElement
  BY <1>1, <1>3 DEF CanAdd, NewElem, Used
<1>5. /\ s \in Seq(Elem) /\ Len(s) \in Nat /\ before = At(s, i - 1) /\ Injective(s)
      /\ \A k \in 1 .. Len(s) : s[k] \in Elem /\ s[k] # NULL /\ s[k] # e
  BY <1>2, <1>4, ListAssumption, SMTT(20) DEF Chain, Hooked, InUse
<1>6. At(s, i) = s[i] /\ before \in Pointer /\ before # e /\ before # s[i] /\ s[i] \in Elem /\ s[i] # e
  BY <1>4, <1>5, ListAssumption DEF At, Pointer, Injective
<1>7. list \in List /\ elem \in [Elem -> ListElement] /\ SizeOf[c] \in Int
  BY ListAssumption DEF TypeOK
<1>8. /\ list' \in List /\ list'.size = list.size + SizeOf[c]
      /\ list'.first = IF before = NULL THEN e ELSE list.first
      /\ list'.last = list.last
      /\ list'.count = list.count + 1 /\ list'.current = list.current
  <2>1. /\ list.count \in Int /\ list.size \in Int /\ list.first \in Pointer
        /\ list.count + 1 \in Int /\ list.size + SizeOf[c] \in Int /\ e \in Pointer
    BY <1>4, <1>7 DEF List, Pointer
  <2>2. list' \in List
    BY <1>3, <1>7, <2>1 DEF List
  <2> QED
    BY <1>3, <1>7, <2>2 DEF List
<1> DEFINE put == [elem EXCEPT ![e] = [prev |-> before, next |-> s[i], content |-> c]]
           new == [put EXCEPT ![s[i]].prev = e]
<1>9. put \in [Elem -> ListElement] /\ \A x \in Elem : put[x] =
        IF x = e THEN [prev |-> before, next |-> s[i], content |-> c] ELSE elem[x]
  BY <1>4, <1>6, <1>7 DEF ListElement, Pointer
<1>10. elem' = IF before = NULL THEN new ELSE [new EXCEPT ![before].next = e]
  BY <1>3
<1> HIDE DEF put
<1>11. new \in [Elem -> ListElement] /\ \A x \in Elem : new[x] =
         IF x = s[i] THEN [put[x] EXCEPT !.prev = e] ELSE put[x]
  BY <1>4, <1>6, <1>9 DEF ListElement, Pointer
<1> HIDE DEF new
<1>12. elem' \in [Elem -> ListElement] /\ \A x \in Elem : elem'[x] =
         IF x = before THEN [new[x] EXCEPT !.next = e] ELSE new[x]
  <2>1. CASE before = NULL
    BY <1>10, <1>11, <2>1, ListAssumption
  <2>2. CASE before # NULL
    <3>1. before \in Elem /\ elem' = [new EXCEPT ![before].next = e] /\ e \in Pointer
      BY <1>4, <1>6, <1>10, <2>2 DEF Pointer
    <3>2. \A x \in Elem : elem'[x] = IF x = before THEN [new[x] EXCEPT !.next = e] ELSE new[x]
      BY <1>11, <3>1
    <3>3. elem' \in [Elem -> ListElement]
      BY <1>11, <3>1 DEF ListElement
    <3> QED
      BY <3>2, <3>3
  <2> QED
    BY <2>1, <2>2
<1>13. ASSUME NEW x \in Elem
       PROVE  elem'[x] = IF x = e THEN [prev |-> before, next |-> s[i], content |-> c]
                         ELSE [prev |-> IF x = s[i] THEN e ELSE elem[x].prev,
                               next |-> IF x = before THEN e ELSE elem[x].next,
                               content |-> elem[x].content]
  <2>1. elem[x] = [prev |-> elem[x].prev, next |-> elem[x].next, content |-> elem[x].content]
    BY Types
  <2>2. CASE x = e
    BY <1>6, <1>9, <1>11, <1>12, <2>2
  <2>3. CASE x = s[i]
    <3>1. elem'[x] = [elem[x] EXCEPT !.prev = e]
      BY <1>6, <1>9, <1>11, <1>12, <2>3
    <3> QED
      BY <1>6, <2>1, <2>3, <3>1
  <2>4. CASE x = before
    <3>1. elem'[x] = [elem[x] EXCEPT !.next = e]
      BY <1>6, <1>9, <1>11, <1>12, <2>4
    <3> QED
      BY <1>6, <2>1, <2>4, <3>1
  <2>5. CASE x # e /\ x # s[i] /\ x # before
    <3>1. elem'[x] = elem[x]
      BY <1>9, <1>11, <1>12, <2>5
    <3> QED
      BY <2>1, <2>5, <3>1
  <2> QED
    BY <2>2, <2>3, <2>4, <2>5
<1>14. Hooks(s, i, e, c)
  BY <1>5, <1>6, <1>13 DEF Hooks
<1>15. i \in 1 .. Len(s) + 1 /\ At(s, i) # NULL
  BY <1>5, <1>6
<1>16. list'.last = IF At(s, i) = NULL THEN e ELSE list.last
  BY <1>8, <1>15
<1>17. list'.first = IF At(s, i - 1) = NULL THEN e ELSE list.first
  BY <1>5, <1>8
<1> QED
  BY <1>1, <1>3, <1>8, <1>12, <1>14, <1>15, <1>16, <1>17, Added

\* ListFind moves the cursor alone.
LEMMA FindStep ==
  ASSUME TypeOK, NEW s, Chain(s), NEW S \in Search, ListFind(S)
  PROVE  TypeOK' /\ (\E t : Chain(t))' /\ Cursor!Find(S)
<1>1. PICK e : e = ListFindItem(S)
  OBVIOUS
<1>2. PICK i : i = Cursor!Found(S)
  OBVIOUS
<1>3. (i = 0 /\ e = NULL) \/ (i \in 1 .. Len(s) /\ e = s[i] /\ e # NULL)
  BY <1>1, <1>2, FoundIs
<1>4. /\ list' = IF e = NULL THEN list ELSE [list EXCEPT !.current = e]
      /\ rc' = IF e = NULL THEN NULL ELSE elem[e].content
      /\ elem' = elem /\ freed' = freed
  BY <1>1, Zenon DEF ListFind
<1>5. /\ s \in Seq(Elem) /\ Len(s) \in Nat /\ Injective(s) /\ Hooked(s) /\ Ends(s) /\ list \in List
      /\ \A k \in 1 .. Len(s) : s[k] \in Elem
  BY DEF Chain, TypeOK
<1>6. list' \in List /\ list'.size = list.size
  BY <1>3, <1>4, <1>5 DEF List, Pointer
<1>7. rc' \in Content \cup BOOLEAN \cup {NULL}
  <2>1. rc' = NULL \/ rc' \in Content
    BY <1>3, <1>4, <1>5 DEF Hooked
  <2> QED
    BY <2>1, Zenon
<1>8. TypeOK'
  BY <1>4, <1>6, <1>7, Zenon DEF TypeOK
<1>9. Chain(s)'
  <2>1. /\ list'.first = list.first /\ list'.last = list.last /\ list'.count = list.count
        /\ list'.current = IF e = NULL THEN list.current ELSE e
    BY <1>4, <1>5 DEF List
  <2>2. Ends(s)'
    BY <1>3, <1>5, <2>1 DEF Ends
  <2>3. Hooked(s)' /\ InUse(s)' /\ Once(s)'
    BY <1>4 DEF Chain, Hooked, InUse, Once
  <2> QED
    BY <1>5, <2>2, <2>3 DEF Chain, Injective
<1>10. (\E t : Chain(t))'
  BY <1>9
<1>11. /\ Shown = Contents(s) /\ ShownAt \in 0 .. Len(s)
       /\ ShownAt = 0 <=> list.current = NULL
       /\ \A k \in 1 .. Len(s) : ShownAt = k <=> list.current = s[k]
  BY SeenIs
<1>12. /\ Shown' = Contents(s)' /\ ShownAt' \in 0 .. Len(s)
       /\ ShownAt' = 0 <=> list'.current = NULL
       /\ \A k \in 1 .. Len(s) : ShownAt' = k <=> list'.current = s[k]
  BY <1>8, <1>9, SeenNext
<1>13. Shown' = Shown
  BY <1>4, <1>11, <1>12 DEF Contents
<1>14. ShownAt' = IF i = 0 THEN ShownAt ELSE i
  <2>1. CASE i = 0
    <3>1. list' = list
      BY <1>3, <1>4, <2>1
    <3> QED
      BY <1>5, <1>11, <1>12, <2>1, <3>1
  <2>2. CASE i # 0
    <3>1. i \in 1 .. Len(s) /\ list'.current = s[i]
      BY <1>3, <1>4, <1>5, <2>2 DEF List
    <3> QED
      BY <1>12, <2>2, <3>1
  <2> QED
    BY <2>1, <2>2
<1>15. rc' = IF i = 0 THEN NULL ELSE Shown[i]
  <2>1. CASE i = 0
    BY <1>3, <1>4, <2>1
  <2>2. CASE i # 0
    <3>1. i \in 1 .. Len(s) /\ rc' = elem[s[i]].content
      BY <1>3, <1>4, <2>2
    <3> QED
      BY <1>11, <2>2, <3>1 DEF Contents
  <2> QED
    BY <2>1, <2>2
<1>16. Cursor!Find(S)
  BY <1>2, <1>4, <1>13, <1>14, <1>15, FindUnfolds, Zenon
<1> QED
  BY <1>8, <1>10, <1>16

\* Nothing changes but what the call returns.
LEMMA Same ==
  ASSUME TypeOK, NEW s, Chain(s), list' = list, elem' = elem, freed' \subseteq Content,
         rc' \in Content \cup BOOLEAN \cup {NULL}
  PROVE  TypeOK' /\ (\E t : Chain(t))' /\ Shown' = Shown /\ ShownAt' = ShownAt
<1>1. TypeOK'
  BY Zenon DEF TypeOK
<1>2. Chain(s)'
  BY DEF Chain, Injective, Hooked, InUse, Once, Ends
<1>3. Forward' = Forward
  BY DEF Forward
<1>4. Shown' = Shown
  BY <1>3 DEF Shown
<1>5. ShownAt' = LET I == {i \in 1 .. Len(Forward') : (Forward')[i] = list'.current}
                 IN  IF I # {} THEN Min(I) ELSE 0
  BY PositionNext
<1>6. ShownAt' = ShownAt
  BY <1>3, <1>5, PositionUnfolds
<1> QED
  BY <1>1, <1>2, <1>4, <1>6

\* ListUnlink, for the four functions that call it.
LEMMA UnlinkStep ==
  ASSUME TypeOK, NEW s, Chain(s), NEW S \in Search, NEW free \in BOOLEAN, ListUnlink(S, free)
  PROVE  TypeOK' /\ (\E t : Chain(t))' /\ Cursor!Unlink(S, free)
<1>1. PICK e : e = ListFindItem(S)
  OBVIOUS
<1>2. PICK i : i = Cursor!Found(S)
  OBVIOUS
<1>3. (i = 0 /\ e = NULL) \/ (i \in 1 .. Len(s) /\ e = s[i] /\ e # NULL)
  BY <1>1, <1>2, FoundIs
<1>4. \/ e = NULL /\ rc' = FALSE /\ list' = list /\ elem' = elem /\ freed' = freed
      \/ /\ e # NULL
         /\ elem' = Unhooked(e)
         /\ list' = [list EXCEPT !.first = IF elem[e].prev = NULL THEN elem[e].next ELSE list.first,
                                 !.last = IF elem[e].next = NULL THEN elem[e].prev ELSE list.last,
                                 !.current = CursorAfter(e, elem[e].next),
                                 !.count = list.count - 1]
         /\ freed' = IF free THEN freed \cup {elem[e].content} ELSE freed
         /\ rc' = TRUE
  BY <1>1, Zenon DEF ListUnlink
<1>5. CASE e = NULL
  <2>1. rc' = FALSE /\ list' = list /\ elem' = elem /\ freed' = freed /\ i = 0
    BY <1>3, <1>4, <1>5, Zenon
  <2>2. rc' \in Content \cup BOOLEAN \cup {NULL}
    BY <2>1, Zenon
  <2>3. freed' \subseteq Content
    BY <2>1 DEF TypeOK
  <2>4. TypeOK' /\ (\E t : Chain(t))' /\ Shown' = Shown /\ ShownAt' = ShownAt
    BY <2>1, <2>2, <2>3, Same, Zenon
  <2>5. Cursor!Unlink(S, free)
    BY <1>2, <2>1, <2>4, UnlinkUnfolds, Zenon
  <2> QED
    BY <2>4, <2>5
<1>6. CASE e # NULL
  <2>1. /\ elem' = Unhooked(s[i]) /\ e = s[i] /\ i \in 1 .. Len(s)
        /\ list' = [list EXCEPT !.first = IF elem[e].prev = NULL THEN elem[e].next ELSE list.first,
                                !.last = IF elem[e].next = NULL THEN elem[e].prev ELSE list.last,
                                !.current = CursorAfter(e, elem[e].next),
                                !.count = list.count - 1]
        /\ freed' = IF free THEN freed \cup {elem[e].content} ELSE freed
        /\ rc' = TRUE
    BY <1>3, <1>4, <1>6, Zenon
  <2>2. /\ s \in Seq(Elem) /\ Len(s) \in Nat /\ elem[e].prev = At(s, i - 1) /\ elem[e].next = At(s, i + 1)
        /\ elem[e].content \in Content /\ list \in List /\ freed \subseteq Content
    BY <2>1 DEF Chain, Hooked, TypeOK
  <2>3. At(s, i - 1) \in Pointer /\ At(s, i + 1) \in Pointer
    BY <2>2 DEF At, Pointer
  <2>4. list.count - 1 \in Int /\ CursorAfter(e, elem[e].next) \in Pointer
    BY <2>2, <2>3 DEF List, CursorAfter
  <2>5. list' \in List
    BY <2>1, <2>2, <2>3, <2>4 DEF List
  <2>6. /\ list'.size = list.size /\ list'.count = list.count - 1
        /\ list'.first = IF At(s, i - 1) = NULL THEN At(s, i + 1) ELSE list.first
        /\ list'.last = IF At(s, i + 1) = NULL THEN At(s, i - 1) ELSE list.last
        /\ list'.current = IF list.current = s[i] THEN At(s, i + 1) ELSE list.current
    BY <2>1, <2>2 DEF List, CursorAfter
  <2>7. PICK d \in {i - 1, i + 1} : d = i + 1
    OBVIOUS
  <2>8. rc' \in Content \cup BOOLEAN \cup {NULL}
    BY <2>1, Zenon
  <2>9. freed' \subseteq Content
    BY <2>1, <2>2
  <2>10. /\ (\E t : Chain(t))' /\ elem' \in [Elem -> ListElement] /\ Shown' = RemoveAt(Shown, i)
         /\ ShownAt' = IF ShownAt > i THEN ShownAt - 1
                       ELSE IF ShownAt = i /\ d = i - 1 THEN i - 1
                       ELSE IF ShownAt = i /\ i = Len(s) THEN 0 ELSE ShownAt
    BY <2>1, <2>5, <2>6, <2>7, <2>8, <2>9, Gone, SMTT(20), ZenonT(30)
  <2>11. Shown = Contents(s) /\ ShownAt \in 0 .. Len(s)
    BY SeenIs
  <2>12. Len(Shown) = Len(s) /\ Shown[i] = elem[s[i]].content
    BY <2>1, <2>2, <2>11 DEF Contents
  <2>13. ShownAt' = CursorGone(i)
    BY <2>1, <2>2, <2>7, <2>10, <2>11, <2>12 DEF CursorGone
  <2>14. TypeOK'
    <3>1. list'.size >= 0
      BY <2>6 DEF TypeOK
    <3> QED
      BY <2>5, <2>8, <2>9, <2>10, <3>1, Zenon DEF TypeOK
  <2>15. i # 0
    BY <2>1, <2>2
  <2>16. freed' = IF free THEN freed \cup {Shown[i]} ELSE freed
    BY <2>1, <2>12
  <2>17. Cursor!Unlink(S, free)
    BY <1>2, <2>1, <2>10, <2>13, <2>15, <2>16, UnlinkUnfolds, Zenon
  <2> QED
    BY <2>10, <2>14, <2>17
<1> QED
  BY <1>5, <1>6

\* The first element goes, if there is one.
LEMMA HeadlessIs ==
  ASSUME TypeOK, NEW s, Chain(s), Headless, freed' \subseteq Content,
         rc' \in Content \cup BOOLEAN \cup {NULL}
  PROVE  /\ TypeOK' /\ (\E t : Chain(t))'
         /\ Shown' = IF Shown = <<>> THEN Shown ELSE RemoveAt(Shown, 1)
         /\ ShownAt' = IF Shown = <<>> THEN ShownAt ELSE CursorGone(1)
<1>1. /\ s \in Seq(Elem) /\ Len(s) \in Nat /\ list.count = Len(s) /\ list.first = At(s, 1)
      /\ list.last = At(s, Len(s)) /\ Injective(s) /\ Hooked(s) /\ list \in List
      /\ \A k \in 1 .. Len(s) : s[k] \in Elem /\ s[k] # NULL
  BY ListAssumption DEF Chain, Ends, TypeOK
<1>2. Shown = Contents(s) /\ ShownAt \in 0 .. Len(s) /\ Len(Contents(s)) = Len(s)
  BY <1>1, SeenIs DEF Contents
<1>3. CASE Len(s) = 0
  <2>1. list' = list /\ elem' = elem
    BY <1>1, <1>3 DEF Headless
  <2>2. TypeOK' /\ (\E t : Chain(t))' /\ Shown' = Shown /\ ShownAt' = ShownAt
    BY <2>1, Same
  <2>3. Shown = <<>>
    BY <1>2, <1>3 DEF Contents
  <2> QED
    BY <2>2, <2>3
<1>4. CASE Len(s) # 0
  <2>1. PICK i \in 1 .. Len(s) : i = 1
    BY <1>1, <1>4
  <2>2. PICK e : e = s[i]
    OBVIOUS
  <2>3. list.first = e /\ list.count > 0
    BY <1>1, <1>4, <2>1, <2>2 DEF At
  <2>4. /\ elem' = Unhooked(e)
        /\ list' = [list EXCEPT !.current = CursorAfter(e, elem[e].next),
                                !.last = IF list.last = e THEN NULL ELSE list.last,
                                !.first = elem[e].next,
                                !.count = list.count - 1]
    BY <2>3, Zenon DEF Headless
  <2>5. elem[e].next = At(s, i + 1) /\ At(s, i - 1) = NULL /\ At(s, i + 1) \in Pointer
    BY <1>1, <2>1, <2>2 DEF Hooked, At, Pointer
  <2>6. list.last = e <=> At(s, i + 1) = NULL
    <3>1. CASE Len(s) = 1
      BY <1>1, <2>1, <2>2, <3>1 DEF At
    <3>2. CASE Len(s) > 1
      <4>1. Len(s) \in 1 .. Len(s) /\ Len(s) # i /\ i + 1 \in 1 .. Len(s)
        BY <1>1, <2>1, <3>2
      <4>2. s[Len(s)] # s[i]
        BY <1>1, <4>1 DEF Injective
      <4> QED
        BY <1>1, <2>2, <4>1, <4>2 DEF At
    <3>3. Len(s) = 1 \/ Len(s) > 1
      <4>1. Len(s) >= 1
        BY <1>1, <1>4
      <4> QED
        BY <1>1, <4>1, OneOrMore
    <3> QED
      BY <3>1, <3>2, <3>3
  <2>7. list.count - 1 \in Int /\ CursorAfter(e, elem[e].next) \in Pointer /\ NULL \in Pointer
    BY <1>1, <2>5 DEF List, CursorAfter, Pointer
  <2>8. list' \in List
    BY <1>1, <2>4, <2>5, <2>7 DEF List
  <2>9. /\ list'.size = list.size /\ list'.count = list.count - 1
        /\ list'.first = elem[e].next
        /\ list'.last = IF list.last = e THEN NULL ELSE list.last
        /\ list'.current = CursorAfter(e, elem[e].next)
    BY <1>1, <2>4 DEF List
  <2>10. /\ list'.first = IF At(s, i - 1) = NULL THEN At(s, i + 1) ELSE list.first
         /\ list'.last = IF At(s, i + 1) = NULL THEN At(s, i - 1) ELSE list.last
         /\ list'.current = IF list.current = s[i] THEN At(s, i + 1) ELSE list.current
    BY <2>2, <2>5, <2>6, <2>9 DEF CursorAfter
  <2>11. PICK d \in {i - 1, i + 1} : d = i + 1
    OBVIOUS
  <2>12. /\ (\E t : Chain(t))' /\ elem' \in [Elem -> ListElement] /\ Shown' = RemoveAt(Shown, i)
         /\ ShownAt' = IF ShownAt > i THEN ShownAt - 1
                       ELSE IF ShownAt = i /\ d = i - 1 THEN i - 1
                       ELSE IF ShownAt = i /\ i = Len(s) THEN 0 ELSE ShownAt
    BY <2>2, <2>4, <2>8, <2>9, <2>10, <2>11, Gone
  <2>13. TypeOK'
    <3>1. list'.size >= 0
      BY <2>9 DEF TypeOK
    <3> QED
      BY <2>8, <2>12, <3>1, Zenon DEF TypeOK
  <2>14. Shown # <<>>
    BY <1>2, <1>4
  <2>15. ShownAt' = CursorGone(1)
    BY <1>1, <1>2, <2>1, <2>11, <2>12 DEF CursorGone
  <2> QED
    BY <2>1, <2>12, <2>13, <2>14, <2>15
<1> QED
  BY <1>3, <1>4

\* The content that ListDetachHead returns and ListRemoveHead frees.
LEMMA HeadIs ==
  ASSUME TypeOK, NEW s, Chain(s)
  PROVE  /\ HeadContent = IF Shown = <<>> THEN NULL ELSE Shown[1]
         /\ HeadContent \in Content \cup {NULL}
         /\ Shown # <<>> => HeadContent \in Content
<1>1. /\ s \in Seq(Elem) /\ Len(s) \in Nat /\ list.count = Len(s) /\ list.first = At(s, 1)
      /\ Hooked(s)
  BY DEF Chain, Ends
<1>2. Shown = Contents(s) /\ Len(Contents(s)) = Len(s)
  BY <1>1, SeenIs DEF Contents
<1>3. CASE Len(s) = 0
  <2>1. Shown = <<>>
    BY <1>2, <1>3 DEF Contents
  <2> QED
    BY <1>1, <1>3, <2>1 DEF HeadContent
<1>4. CASE Len(s) # 0
  <2>1. 1 \in 1 .. Len(s) /\ Shown # <<>>
    BY <1>1, <1>2, <1>4
  <2>2. Shown[1] = elem[s[1]].content /\ elem[s[1]].content \in Content
    BY <1>1, <1>2, <2>1 DEF Contents, Hooked
  <2>3. HeadContent = elem[s[1]].content
    BY <1>1, <1>4, <2>1 DEF HeadContent, At
  <2> QED
    BY <2>1, <2>2, <2>3
<1> QED
  BY <1>3, <1>4

\* ListDetachHead is that step, and returns the content.
LEMMA DetachHeadStep ==
  ASSUME TypeOK, NEW s, Chain(s), ListDetachHead
  PROVE  TypeOK' /\ (\E t : Chain(t))' /\ Cursor!DetachHead
<1>1. Headless /\ rc' = HeadContent /\ freed' = freed
  BY DEF ListDetachHead
<1>2. rc' = (IF Shown = <<>> THEN NULL ELSE Shown[1]) /\ rc' \in Content \cup {NULL}
  BY <1>1, HeadIs, Zenon
<1>3. rc' \in Content \cup BOOLEAN \cup {NULL}
  BY <1>2, Zenon
<1>4. freed' \subseteq Content
  BY <1>1 DEF TypeOK
<1>5. /\ TypeOK' /\ (\E t : Chain(t))'
      /\ Shown' = IF Shown = <<>> THEN Shown ELSE RemoveAt(Shown, 1)
      /\ ShownAt' = IF Shown = <<>> THEN ShownAt ELSE CursorGone(1)
  BY <1>1, <1>3, <1>4, HeadlessIs, Zenon
<1>6. Cursor!DetachHead
  BY <1>1, <1>2, <1>5, DetachHeadUnfolds, Zenon
<1> QED
  BY <1>5, <1>6

\* ListRemoveHead is that step, and frees the content.
LEMMA RemoveHeadStep ==
  ASSUME TypeOK, NEW s, Chain(s), ListRemoveHead
  PROVE  TypeOK' /\ (\E t : Chain(t))' /\ Cursor!RemoveHead
<1>1. Headless /\ rc' = FALSE /\ freed' = freed \cup ({HeadContent} \ {NULL})
  BY Zenon DEF ListRemoveHead
<1>2. /\ HeadContent = IF Shown = <<>> THEN NULL ELSE Shown[1]
      /\ HeadContent \in Content \cup {NULL}
      /\ Shown # <<>> => HeadContent \in Content
  BY HeadIs
<1>3. rc' \in Content \cup BOOLEAN \cup {NULL} /\ rc' \in BOOLEAN
  BY <1>1, Zenon
<1>4. freed' \subseteq Content
  BY <1>1, <1>2 DEF TypeOK
<1>5. /\ TypeOK' /\ (\E t : Chain(t))'
      /\ Shown' = IF Shown = <<>> THEN Shown ELSE RemoveAt(Shown, 1)
      /\ ShownAt' = IF Shown = <<>> THEN ShownAt ELSE CursorGone(1)
  BY <1>1, <1>3, <1>4, HeadlessIs, Zenon
<1>6. freed' = IF Shown = <<>> THEN freed ELSE freed \cup {Shown[1]}
  <2>1. CASE Shown = <<>>
    BY <1>1, <1>2, <2>1
  <2>2. CASE Shown # <<>>
    <3>1. HeadContent # NULL /\ HeadContent = Shown[1]
      BY <1>2, <2>2, ListAssumption
    <3> QED
      BY <1>1, <2>2, <3>1
  <2> QED
    BY <2>1, <2>2
<1>7. Cursor!RemoveHead
  BY <1>3, <1>5, <1>6, RemoveHeadUnfolds, Zenon
<1> QED
  BY <1>5, <1>7

\* ListPopTail: the last element goes and the cursor goes back with it.
LEMMA PopTailStep ==
  ASSUME TypeOK, NEW s, Chain(s), ListPopTail
  PROVE  TypeOK' /\ (\E t : Chain(t))' /\ Cursor!PopTail
<1>1. /\ s \in Seq(Elem) /\ Len(s) \in Nat /\ list.count = Len(s) /\ list.first = At(s, 1)
      /\ list.last = At(s, Len(s)) /\ Injective(s) /\ Hooked(s) /\ list \in List
      /\ freed \subseteq Content
      /\ \A k \in 1 .. Len(s) : s[k] \in Elem /\ s[k] # NULL
  BY ListAssumption DEF Chain, Ends, TypeOK
<1>2. Shown = Contents(s) /\ ShownAt \in 0 .. Len(s) /\ Len(Contents(s)) = Len(s)
  BY <1>1, SeenIs DEF Contents
<1>3. CASE Len(s) = 0
  <2>1. list' = list /\ elem' = elem /\ rc' = NULL /\ freed' = freed
    BY <1>1, <1>3 DEF ListPopTail
  <2>2. rc' \in Content \cup BOOLEAN \cup {NULL}
    BY <2>1, Zenon
  <2>3. TypeOK' /\ (\E t : Chain(t))' /\ Shown' = Shown /\ ShownAt' = ShownAt
    BY <1>1, <2>1, <2>2, Same
  <2>4. Shown = <<>>
    BY <1>2, <1>3 DEF Contents
  <2>5. Cursor!PopTail
    BY <2>1, <2>3, <2>4, PopTailUnfolds, Zenon
  <2> QED
    BY <2>3, <2>5
<1>4. CASE Len(s) # 0
  <2>1. PICK i \in 1 .. Len(s) : i = Len(s)
    BY <1>1, <1>4
  <2>2. PICK e : e = s[i]
    OBVIOUS
  <2>3. list.last = e /\ list.count > 0
    BY <1>1, <1>4, <2>1, <2>2 DEF At
  <2>4. /\ elem' = Unhooked(e)
        /\ list' = [list EXCEPT !.current = CursorAfter(e, elem[e].prev),
                                !.first = IF list.first = e THEN NULL ELSE list.first,
                                !.last = elem[e].prev,
                                !.count = list.count - 1]
        /\ rc' = elem[e].content /\ freed' = freed
    BY <2>3, Zenon DEF ListPopTail
  <2>5. /\ elem[e].prev = At(s, i - 1) /\ At(s, i + 1) = NULL /\ At(s, i - 1) \in Pointer
        /\ elem[e].content \in Content
    BY <1>1, <2>1, <2>2 DEF Hooked, At, Pointer
  <2>6. list.first = e <=> At(s, i - 1) = NULL
    <3>1. CASE Len(s) = 1
      BY <1>1, <2>1, <2>2, <3>1 DEF At
    <3>2. CASE Len(s) > 1
      <4>1. 1 \in 1 .. Len(s) /\ 1 # i /\ i - 1 \in 1 .. Len(s)
        BY <1>1, <2>1, <3>2
      <4>2. s[1] # s[i]
        BY <1>1, <4>1 DEF Injective
      <4> QED
        BY <1>1, <2>2, <4>1, <4>2 DEF At
    <3>3. Len(s) = 1 \/ Len(s) > 1
      <4>1. Len(s) >= 1
        BY <1>1, <1>4
      <4> QED
        BY <1>1, <4>1, OneOrMore
    <3> QED
      BY <3>1, <3>2, <3>3
  <2>7. list.count - 1 \in Int /\ CursorAfter(e, elem[e].prev) \in Pointer /\ NULL \in Pointer
    BY <1>1, <2>5 DEF List, CursorAfter, Pointer
  <2>8. list' \in List
    BY <1>1, <2>4, <2>5, <2>7 DEF List
  <2>9. /\ list'.size = list.size /\ list'.count = list.count - 1
        /\ list'.first = IF list.first = e THEN NULL ELSE list.first
        /\ list'.last = elem[e].prev
        /\ list'.current = CursorAfter(e, elem[e].prev)
    BY <1>1, <2>4 DEF List
  <2>10. /\ list'.first = IF At(s, i - 1) = NULL THEN At(s, i + 1) ELSE list.first
         /\ list'.last = IF At(s, i + 1) = NULL THEN At(s, i - 1) ELSE list.last
         /\ list'.current = IF list.current = s[i] THEN At(s, i - 1) ELSE list.current
    BY <2>2, <2>5, <2>6, <2>9 DEF CursorAfter
  <2>11. PICK d \in {i - 1, i + 1} : d = i - 1
    OBVIOUS
  <2>12. rc' \in Content \cup BOOLEAN \cup {NULL}
    BY <2>4, <2>5, Zenon
  <2>13. /\ (\E t : Chain(t))' /\ elem' \in [Elem -> ListElement] /\ Shown' = RemoveAt(Shown, i)
         /\ ShownAt' = IF ShownAt > i THEN ShownAt - 1
                       ELSE IF ShownAt = i /\ d = i - 1 THEN i - 1
                       ELSE IF ShownAt = i /\ i = Len(s) THEN 0 ELSE ShownAt
    BY <1>1, <2>2, <2>4, <2>8, <2>9, <2>10, <2>11, <2>12, Gone
  <2>14. TypeOK'
    <3>1. list'.size >= 0
      BY <2>9 DEF TypeOK
    <3>2. freed' \subseteq Content
      BY <1>1, <2>4
    <3> QED
      BY <2>8, <2>12, <2>13, <3>1, <3>2, Zenon DEF TypeOK
  <2>15. Shown # <<>> /\ Len(Shown) = i /\ Shown[i] = elem[e].content
    BY <1>2, <1>4, <2>1, <2>2 DEF Contents
  <2>16. ShownAt' = IF ShownAt = Len(Shown) /\ Shown # <<>> THEN ShownAt - 1 ELSE ShownAt
    BY <1>1, <1>2, <2>1, <2>11, <2>13, <2>15
  <2>17. rc' = IF Shown = <<>> THEN NULL ELSE Shown[Len(Shown)]
    BY <2>4, <2>15
  <2>18. Shown' = IF Shown = <<>> THEN Shown ELSE RemoveAt(Shown, Len(Shown))
    BY <2>13, <2>15
  <2>19. Cursor!PopTail
    BY <2>4, <2>16, <2>17, <2>18, PopTailUnfolds, Zenon
  <2> QED
    BY <2>13, <2>14, <2>19
<1> QED
  BY <1>3, <1>4

\* A chain without elements shows an empty sequence.
LEMMA EmptyIs ==
  TypeOK /\ Chain(<<>>) => Shown = <<>> /\ ShownAt = 0
<1> SUFFICES ASSUME TypeOK, Chain(<<>>) PROVE Shown = <<>> /\ ShownAt = 0
  OBVIOUS
<1>1. PICK s : s = <<>>
  OBVIOUS
<1>2. Shown = Contents(s) /\ ShownAt \in 0 .. Len(s)
  BY <1>1, SeenIs
<1> QED
  BY <1>1, <1>2 DEF Contents

\* The same of the state after a step.
LEMMA EmptyNext ==
  (TypeOK /\ Chain(<<>>) => Shown = <<>> /\ ShownAt = 0)'
  BY EmptyIs, PTL

\* ListEmpty frees every element and content.
LEMMA EmptyStep ==
  ASSUME TypeOK, NEW s, Chain(s), ListEmpty
  PROVE  TypeOK' /\ (\E t : Chain(t))' /\ Cursor!Empty
<1>1. /\ s \in Seq(Elem) /\ Len(s) \in Nat /\ Hooked(s) /\ InUse(s) /\ list \in List
      /\ elem \in [Elem -> ListElement] /\ freed \subseteq Content
  BY DEF Chain, TypeOK
<1>2. Forward = s /\ Shown = Contents(s) /\ Len(Contents(s)) = Len(s)
  BY <1>1, ForwardIs, SeenIs DEF Contents
<1>3. /\ elem' = [e \in Elem |-> IF e \in ToSet(s) THEN NoElement ELSE elem[e]]
      /\ list' = [list EXCEPT !.first = NULL, !.last = NULL, !.current = NULL,
                              !.count = 0, !.size = 0]
      /\ freed' = freed \cup {elem[e].content : e \in ToSet(s)}
      /\ rc' = NULL
  BY <1>2, Zenon DEF ListEmpty
<1>4. \A e \in Elem : e \in ToSet(s) <=> \E k \in 1 .. Len(s) : s[k] = e
  BY <1>1 DEF ToSet
<1>5. ASSUME NEW e \in Elem PROVE elem'[e] = NoElement
  BY <1>1, <1>3, <1>4 DEF InUse
<1>6. elem' \in [Elem -> ListElement]
  <2>1. NoElement \in ListElement
    BY DEF NoElement, ListElement, Pointer
  <2> QED
    BY <1>3, <1>5, <2>1
<1>7. {elem[e].content : e \in ToSet(s)} = ToSet(Shown)
  BY <1>1, <1>2 DEF ToSet, Contents
<1>8. ToSet(Shown) \subseteq Content
  BY <1>1, <1>2 DEF ToSet, Contents, Hooked
<1>9. TypeOK'
  <2>1. list' \in List /\ list'.size >= 0
    <3>1. /\ list'.first = NULL /\ list'.last = NULL /\ list'.current = NULL
          /\ list'.count = 0 /\ list'.size = 0
      BY <1>1, <1>3 DEF List
    <3>2. list' = [first |-> NULL, last |-> NULL, current |-> NULL, count |-> 0, size |-> 0]
      BY <1>1, <1>3 DEF List
    <3> QED
      BY <3>1, <3>2 DEF List, Pointer
  <2>2. freed' \subseteq Content
    BY <1>1, <1>3, <1>7, <1>8
  <2>3. rc' \in Content \cup BOOLEAN \cup {NULL}
    BY <1>3, Zenon
  <2> QED
    BY <1>6, <2>1, <2>2, <2>3, Zenon DEF TypeOK
<1>10. Chain(<<>>)'
  <2>1. <<>> \in Seq(Elem) /\ Injective(<<>>) /\ Hooked(<<>>)' /\ InUse(<<>>)' /\ Once(<<>>)'
    BY <1>5 DEF Injective, Hooked, InUse, Once
  <2>2. /\ list'.first = NULL /\ list'.last = NULL /\ list'.current = NULL /\ list'.count = 0
    BY <1>1, <1>3 DEF List
  <2>3. Ends(<<>>)'
    BY <2>2 DEF Ends, At
  <2> QED
    BY <2>1, <2>3 DEF Chain, Injective
<1>11. (\E t : Chain(t))'
  BY <1>10
<1>12. Shown' = <<>> /\ ShownAt' = 0
  BY <1>9, <1>10, EmptyNext
<1>13. freed' = freed \cup ToSet(Shown)
  BY <1>3, <1>7, Zenon
<1>14. Cursor!Empty
  BY <1>3, <1>12, <1>13, EmptyUnfolds, Zenon
<1> QED
  BY <1>9, <1>11, <1>14

-----------------------------------------------------------------------------
(***************************************************************************)
(* The theorems.                                                           *)
(***************************************************************************)

\* The list that ListInitialize sets up.
LEMMA InitHolds == Init => LInv /\ Cursor!Init
<1> SUFFICES ASSUME Init PROVE LInv /\ Cursor!Init
  OBVIOUS
<1>1. TypeOK
  <2>1. list \in List /\ list.size >= 0 /\ elem \in [Elem -> ListElement] /\ freed \subseteq Content
    BY DEF Init, List, ListElement, NoElement, Pointer
  <2>2. rc \in Content \cup BOOLEAN \cup {NULL}
    BY Zenon DEF Init
  <2> QED
    BY <2>1, <2>2, Zenon DEF TypeOK
<1>2. Chain(<<>>)
  BY DEF Init, Chain, Injective, Hooked, InUse, Once, Ends, At
<1>3. PICK s : s = <<>>
  OBVIOUS
<1>4. Forward = s
  BY <1>1, <1>2, <1>3, ForwardIs
<1>5. LInv
  BY <1>1, <1>2, <1>3, <1>4 DEF LInv
<1>6. Shown = <<>> /\ ShownAt = 0
  BY <1>1, <1>2, EmptyIs
<1>7. Cursor!Init
  BY <1>6, InitUnfolds, Zenon DEF Init
<1> QED
  BY <1>5, <1>7

\* A chain after the step is the invariant after it.
LEMMA ChainNext == (\A s : TypeOK /\ Chain(s) => LInv)'
<1>1. \A s : TypeOK /\ Chain(s) => LInv
  BY ForwardIs DEF LInv
<1> QED
  BY <1>1, PTL

\* Every operation keeps the invariant and is a step of the sequence.
LEMMA StepHolds ==
  LInv /\ [Next]_vars => LInv' /\ [Cursor!Next]_(Cursor!vars)
<1> SUFFICES ASSUME LInv, [Next]_vars
             PROVE  LInv' /\ [Cursor!Next]_(Cursor!vars)
  OBVIOUS
<1>1. PICK s : s = Forward
  OBVIOUS
<1>2. TypeOK /\ Chain(s) /\ Len(s) \in Nat
  BY <1>1 DEF LInv, Chain
<1>3. ASSUME TypeOK', (\E t : Chain(t))' PROVE LInv'
  BY <1>3, ChainNext
<1>4. Len(Shown) = Len(s)
  BY <1>2, SeenIs DEF Contents
<1>5. ASSUME NEW c \in Content, NEW i \in 1 .. Len(s) + 1, Cursor!Insert(c, i)
      PROVE  Cursor!Next
  BY <1>4, <1>5 DEF Cursor!Next, Shown
<1>6. Search = Cursor!Search
  BY DEF Search, Cursor!Search
<1>7. ASSUME NEW c \in Content, ListAppend(c)
      PROVE  LInv' /\ Cursor!Next
  <2>1. TypeOK' /\ (\E t : Chain(t))' /\ Cursor!Insert(c, Len(s) + 1)
    BY <1>2, <1>7, AppendStep
  <2>2. Len(s) + 1 \in 1 .. Len(s) + 1
    BY <1>2
  <2> QED
    BY <1>3, <1>5, <2>1, <2>2
<1>8. ASSUME NEW c \in Content, NEW index \in ToSet(Forward), ListInsert(c, index)
      PROVE  LInv' /\ Cursor!Next
  <2>1. PICK i \in 1 .. Len(s) : index = s[i]
    BY <1>1, <1>2 DEF ToSet, Chain
  <2>2. ListInsert(c, s[i])
    BY <1>8, <2>1
  <2>3. TypeOK' /\ (\E t : Chain(t))' /\ Cursor!Insert(c, i)
    BY <1>2, <2>2, InsertStep
  <2>4. i \in 1 .. Len(s) + 1
    BY <1>2
  <2> QED
    BY <1>3, <1>5, <2>3, <2>4
<1>9. ASSUME NEW S \in Search, ListFind(S)
      PROVE  LInv' /\ Cursor!Next
  <2>1. TypeOK' /\ (\E t : Chain(t))' /\ Cursor!Find(S)
    BY <1>2, <1>9, FindStep
  <2>2. Cursor!Next
    BY <1>6, <2>1, Zenon DEF Cursor!Next
  <2> QED
    BY <1>3, <2>1, <2>2
<1>10. ASSUME NEW S \in Search, NEW free \in BOOLEAN, ListUnlink(S, free)
       PROVE  LInv' /\ Cursor!Next
  <2>1. TypeOK' /\ (\E t : Chain(t))' /\ Cursor!Unlink(S, free)
    BY <1>2, <1>10, UnlinkStep
  <2>2. Cursor!Next
    BY <1>6, <2>1, Zenon DEF Cursor!Next
  <2> QED
    BY <1>3, <2>1, <2>2
<1>11. CASE ListDetachHead
  BY <1>2, <1>3, <1>11, DetachHeadStep DEF Cursor!Next
<1>12. CASE ListRemoveHead
  BY <1>2, <1>3, <1>12, RemoveHeadStep DEF Cursor!Next
<1>13. CASE ListPopTail
  BY <1>2, <1>3, <1>13, PopTailStep DEF Cursor!Next
<1>14. CASE ListEmpty
  BY <1>2, <1>3, <1>14, EmptyStep DEF Cursor!Next
<1>15. CASE UNCHANGED vars
  <2>1. list' = list /\ elem' = elem /\ freed' = freed /\ rc' = rc
    BY <1>15 DEF vars
  <2>2. freed' \subseteq Content
    BY <1>2, <2>1 DEF TypeOK
  <2>3. rc' \in Content \cup BOOLEAN \cup {NULL}
    BY <1>2, <2>1, Zenon DEF TypeOK
  <2>4. TypeOK' /\ (\E t : Chain(t))' /\ Shown' = Shown /\ ShownAt' = ShownAt
    BY <1>2, <2>1, <2>2, <2>3, Same, Zenon
  <2>5. UNCHANGED Cursor!vars
    BY <2>1, <2>4 DEF Cursor!vars, Shown, ShownAt
  <2> QED
    BY <1>3, <2>4, <2>5
<1> QED
  BY <1>7, <1>8, <1>9, <1>10, <1>11, <1>12, <1>13, <1>14, <1>15 DEF Next

\* Whatever is called in whatever order, for any contents, searches and
\* number of elements: going forward and back through the list shows the same
\* elements, which are those in use, count says how many, and the cursor is
\* never at an element that LinkedList.c has freed.
THEOREM ListLinksAgree == Spec => []LinksAgree
<1>1. Init => LInv
  BY InitHolds
<1>2. LInv /\ [Next]_vars => LInv'
  BY StepHolds
<1> QED
  BY <1>1, <1>2, LInvIs, PTL DEF Spec

\* The list of LinkedList.c implements the sequence with a cursor that
\* LinkedList.h promises: every operation changes the contents shown, the
\* cursor, the contents freed and the value returned as CursorList says.
THEOREM ListImplementsSequence == Spec => ImplementsSequence
<1>1. Init => LInv /\ Cursor!Init
  BY InitHolds
<1>2. LInv /\ [Next]_vars => LInv' /\ [Cursor!Next]_(Cursor!vars)
  BY StepHolds
<1> QED
  BY <1>1, <1>2, PTL DEF Spec, ImplementsSequence, Cursor!Spec
=============================================================================
