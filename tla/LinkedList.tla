----------------------------- MODULE LinkedList -----------------------------
(***************************************************************************)
(* The doubly linked list of LinkedList.c, pointer by pointer.             *)
(*                                                                         *)
(* A List has first, last, current, count and size; each ListElement has   *)
(* prev, next and content.  Each function of the interface is one action.  *)
(* A content is what the caller has allocated; it is in the list at most   *)
(* once, since the list may free it.  An access through a NULL or freed    *)
(* element is an application outside the domain or yields no content.      *)
(***************************************************************************)
EXTENDS Integers, Sequences, FiniteSets, SequencesExt

CONSTANTS
  Content,   \* pointers to contents
  Value,     \* what the callbacks compare
  ValueOf,   \* the value each content has
  SizeOf,    \* the size the caller gives for each content
  Elem,      \* the addresses malloc(sizeof(ListElement)) may return
  MaxSize,   \* bound on the field size of the List
  NULL

ASSUME ListAssumption ==
  /\ NULL \notin Content \cup Elem \cup BOOLEAN
  /\ IsFiniteSet(Elem)
  /\ ValueOf \in [Content -> Value]
  /\ SizeOf \in [Content -> Nat] /\ MaxSize \in Nat

VARIABLES
  list,    \* the List
  elem,    \* the ListElement at each address
  freed,   \* the contents that a call has freed
  rc       \* what the last call returned: a content, a flag, or NULL

vars == <<list, elem, freed, rc>>

Pointer == Elem \cup {NULL}
List == [first : Pointer, last : Pointer, current : Pointer, count : Int, size : Int]
ListElement == [prev : Pointer, next : Pointer, content : Content \cup {NULL}]

\* How an address looks that is not in use.
NoElement == [prev |-> NULL, next |-> NULL, content |-> NULL]

Used == {e \in Elem : elem[e] # NoElement}

\* Which element malloc returns does not matter: one that is not in use.
NewElem == CHOOSE e \in Elem : e \notin Used

Init ==
  /\ list = [first |-> NULL, last |-> NULL, current |-> NULL, count |-> 0, size |-> 0]
  /\ elem = [e \in Elem |-> NoElement]
  /\ freed = {}
  /\ rc = NULL

-----------------------------------------------------------------------------
(***************************************************************************)
(* Going through a list.                                                   *)
(***************************************************************************)

\* The elements a loop visits that starts at e and goes on with next; a loop
\* that is not over after as many elements as there are has gone wrong.
Follow(next, e) ==
  LET go[n \in 0 .. Cardinality(Elem)] ==
        [x \in Pointer |->
           IF x = NULL \/ n = 0 THEN <<>> ELSE <<x>> \o go[n - 1][next[x]]]
  IN  go[Cardinality(Elem)][e]

\* Loops over ListNextElement and ListPrevElement, both begun with NULL.
Forward  == Follow([e \in Elem |-> elem[e].next], list.first)
Backward == Follow([e \in Elem |-> elem[e].prev], list.last)

\* A search is for one content, or by a callback for all that have a value.
Search == {{c} : c \in Content} \cup {{c \in Content : ValueOf[c] = v} : v \in Value}

Matches(e, S) == e # NULL /\ elem[e].content \in S

\* The element ListFindItem returns; if there is one the cursor moves to it.
ListFindItem(S) ==
  LET i == SelectInSeq(Forward, LAMBDA e : Matches(e, S))
  IN  CASE Matches(list.current, S) -> list.current
        [] ~ Matches(list.current, S) /\ i # 0 -> Forward[i]
        [] OTHER -> NULL

-----------------------------------------------------------------------------
(***************************************************************************)
(* The interface.                                                          *)
(***************************************************************************)

\* The caller adds a content that is not in the list.  Bounds: Elem, MaxSize.
CanAdd(c) ==
  /\ \A e \in Used : elem[e].content # c
  /\ Used # Elem
  /\ list.size + SizeOf[c] <= MaxSize

\* ListAppend, and ListInsert with NULL.
ListAppend(c) ==
  LET e == NewElem IN
  /\ CanAdd(c)
  /\ elem' = LET new == [elem EXCEPT ![e] = [prev |-> list.last, next |-> NULL, content |-> c]]
             IN  IF list.first = NULL THEN new ELSE [new EXCEPT ![list.last].next = e]
  /\ list' = [list EXCEPT !.first = IF @ = NULL THEN e ELSE @, !.last = e,
                          !.count = @ + 1, !.size = @ + SizeOf[c]]
  /\ freed' = freed \ {c}
  /\ rc' = NULL

\* Mutant: the element at the position does not learn of its new neighbour.
ListInsertOneWay(c, index) ==
  LET e == NewElem
      before == elem[index].prev
      new == [elem EXCEPT ![e] = [prev |-> before, next |-> index, content |-> c]]
  IN
  /\ CanAdd(c)
  /\ elem' = IF before = NULL THEN new ELSE [new EXCEPT ![before].next = e]
  /\ list' = [list EXCEPT !.first = IF before = NULL THEN e ELSE @,
                          !.count = @ + 1, !.size = @ + SizeOf[c]]
  /\ freed' = freed \ {c}
  /\ rc' = NULL

\* ListInsert before an element of the list.
ListInsert(c, index) ==
  LET e == NewElem
      before == elem[index].prev
      new == [elem EXCEPT ![e] = [prev |-> before, next |-> index, content |-> c],
                          ![index].prev = e]
  IN
  /\ CanAdd(c)
  /\ elem' = IF before = NULL THEN new ELSE [new EXCEPT ![before].next = e]
  /\ list' = [list EXCEPT !.first = IF before = NULL THEN e ELSE @,
                          !.count = @ + 1, !.size = @ + SizeOf[c]]
  /\ freed' = freed \ {c}
  /\ rc' = NULL

\* ListFind and ListFindItem.
ListFind(S) ==
  LET e == ListFindItem(S) IN
  /\ list' = IF e = NULL THEN list ELSE [list EXCEPT !.current = e]
  /\ rc' = IF e = NULL THEN NULL ELSE elem[e].content
  /\ UNCHANGED <<elem, freed>>

\* The elements after e was unhooked from its neighbours and freed.
Unhooked(e) ==
  LET p == elem[e].prev
      n == elem[e].next
      one == IF p = NULL THEN elem ELSE [elem EXCEPT ![p].next = n]
      two == IF n = NULL THEN one ELSE [one EXCEPT ![n].prev = p]
  IN  [two EXCEPT ![e] = NoElement]

\* Mutant: the cursor stays on the element that goes.
CursorAfterStays(e, neighbour) == list.current

\* The cursor stays, unless it is at the element that goes.
CursorAfter(e, neighbour) == IF list.current = e THEN neighbour ELSE list.current

\* ListRemove, ListDetach, ListRemoveItem and ListDetachItem, by ListUnlink.
ListUnlink(S, freeContent) ==
  LET e == ListFindItem(S) IN
  \/ /\ e = NULL
     /\ rc' = FALSE
     /\ UNCHANGED <<list, elem, freed>>
  \/ /\ e # NULL
     /\ elem' = Unhooked(e)
     /\ list' = [list EXCEPT !.first = IF elem[e].prev = NULL THEN elem[e].next ELSE @,
                             !.last = IF elem[e].next = NULL THEN elem[e].prev ELSE @,
                             !.current = CursorAfter(e, elem[e].next),
                             !.count = @ - 1]
     /\ freed' = IF freeContent THEN freed \cup {elem[e].content} ELSE freed
     /\ rc' = TRUE

\* ListDetachHead: the content of the first element, which goes.
Headless ==
  LET e == list.first IN
  IF list.count > 0
  THEN /\ elem' = Unhooked(e)
       /\ list' = [list EXCEPT !.current = CursorAfter(e, elem[e].next),
                               !.last = IF @ = e THEN NULL ELSE @,
                               !.first = elem[e].next,
                               !.count = @ - 1]
  ELSE UNCHANGED <<list, elem>>

HeadContent == IF list.count > 0 THEN elem[list.first].content ELSE NULL

ListDetachHead ==
  /\ Headless
  /\ rc' = HeadContent
  /\ UNCHANGED freed

\* Mutants: NULL is freed too when the list is empty; the content is read
\* when the first element is already the next one.
ListRemoveHeadNull ==
  Headless /\ freed' = freed \cup {HeadContent} /\ rc' = FALSE
ListRemoveHeadLate ==
  /\ Headless
  /\ freed' = freed \cup ({IF list'.count > 0 THEN elem'[list'.first].content ELSE NULL} \ {NULL})
  /\ rc' = FALSE

\* The content is freed and 0 returned, whether there was one or not.
ListRemoveHead ==
  /\ Headless
  /\ freed' = freed \cup ({HeadContent} \ {NULL})
  /\ rc' = FALSE

ListPopTail ==
  LET e == list.last IN
  /\ IF list.count > 0
     THEN /\ elem' = Unhooked(e)
          /\ list' = [list EXCEPT !.current = CursorAfter(e, elem[e].prev),
                                  !.first = IF @ = e THEN NULL ELSE @,
                                  !.last = elem[e].prev,
                                  !.count = @ - 1]
     ELSE UNCHANGED <<list, elem>>
  /\ rc' = IF list.count > 0 THEN elem[list.last].content ELSE NULL
  /\ UNCHANGED freed

\* ListEmpty; ListFree does the same and frees the List, so that nothing can
\* be seen of it afterwards.
ListEmpty ==
  LET gone == ToSet(Forward) IN
  /\ elem' = [e \in Elem |-> IF e \in gone THEN NoElement ELSE elem[e]]
  /\ list' = [list EXCEPT !.first = NULL, !.last = NULL, !.current = NULL,
                          !.count = 0, !.size = 0]
  /\ freed' = freed \cup {elem[e].content : e \in gone}
  /\ rc' = NULL

Next ==
  \/ \E c \in Content : ListAppend(c)
  \/ \E c \in Content, index \in ToSet(Forward) : ListInsert(c, index)
  \/ \E S \in Search : ListFind(S)
  \/ \E S \in Search, freeContent \in BOOLEAN : ListUnlink(S, freeContent)
  \/ ListDetachHead \/ ListRemoveHead \/ ListPopTail \/ ListEmpty

Spec == Init /\ [][Next]_vars

-----------------------------------------------------------------------------
(***************************************************************************)
(* Correctness.                                                            *)
(***************************************************************************)

\* Every variable has a value of its C type, and size, a size_t, is not
\* taken below zero.
TypeOK ==
  /\ list \in List /\ list.size >= 0
  /\ elem \in [Elem -> ListElement]
  /\ freed \subseteq Content
  /\ rc \in Content \cup BOOLEAN \cup {NULL}

\* Going back through the list shows the elements of going forward in
\* reverse, all the elements in use and no other, as many as count says: the
\* eight functions that unhook and hook elements agree on all four ends.  The
\* cursor is at one of them or NULL, never at one that was freed, for
\* ListFindItem reads through it before it looks at anything else.
LinksAgree ==
  /\ TypeOK
  /\ Backward = Reverse(Forward)
  /\ ToSet(Forward) = Used
  /\ list.count = Len(Forward)
  /\ list.current # NULL => list.current \in ToSet(Forward)

Position(e) == SelectInSeq(Forward, LAMBDA x : x = e)

Cursor == INSTANCE CursorList WITH
            seq <- [i \in DOMAIN Forward |-> elem[Forward[i]].content],
            cur <- Position(list.current)

\* The elements and pointers behave as a sequence with a cursor: every call
\* changes the sequence, the cursor, the contents freed and the value
\* returned as it says.
ImplementsSequence == Cursor!Spec
=============================================================================
