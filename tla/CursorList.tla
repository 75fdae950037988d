----------------------------- MODULE CursorList -----------------------------
(***************************************************************************)
(* What LinkedList.h promises: a sequence of pointers to contents with a   *)
(* cursor, which a successful search moves and a removal moves off the     *)
(* element that goes.  A search looks at the cursor's element first.       *)
(***************************************************************************)
EXTENDS Naturals, Sequences, SequencesExt

CONSTANTS Content, Value, ValueOf, NULL

VARIABLES
  seq,     \* the contents, from first to last
  cur,     \* the position of the cursor, or 0
  freed,   \* the contents that a call has freed
  rc       \* what the last call returned

vars == <<seq, cur, freed, rc>>

\* A search is for a content or, with a callback, for all that have a value.
Search == {{c} : c \in Content} \cup {{c \in Content : ValueOf[c] = v} : v \in Value}

\* Where a search ends: at the cursor, else at the first match, else at 0.
Found(S) ==
  LET hits == {i \in DOMAIN seq : seq[i] \in S}
  IN  CASE cur \in hits -> cur
        [] cur \notin hits /\ hits # {} -> CHOOSE i \in hits : \A j \in hits : i <= j
        [] OTHER -> 0

Without(i) == RemoveAt(seq, i)

\* A cursor on the element that goes stays where the next one will be.
CursorWithout(i) ==
  IF cur > i \/ (cur = i /\ i = Len(seq)) THEN (IF cur = i THEN 0 ELSE cur - 1) ELSE cur

Init == seq = <<>> /\ cur = 0 /\ freed = {} /\ rc = NULL

Insert(c, i) ==
  /\ c \notin ToSet(seq)
  /\ seq' = InsertAt(seq, i, c)
  /\ cur' = IF cur >= i THEN cur + 1 ELSE cur
  /\ freed' = freed \ {c}
  /\ rc' = NULL

Find(S) ==
  LET i == Found(S) IN
  /\ cur' = IF i = 0 THEN cur ELSE i
  /\ rc' = IF i = 0 THEN NULL ELSE seq[i]
  /\ UNCHANGED <<seq, freed>>

Unlink(S, free) ==
  LET i == Found(S) IN
  \/ /\ i = 0
     /\ rc' = FALSE
     /\ UNCHANGED <<seq, cur, freed>>
  \/ /\ i # 0
     /\ seq' = Without(i)
     /\ cur' = CursorWithout(i)
     /\ freed' = IF free THEN freed \cup {seq[i]} ELSE freed
     /\ rc' = TRUE

DetachHead ==
  /\ rc' = IF seq = <<>> THEN NULL ELSE seq[1]
  /\ seq' = IF seq = <<>> THEN seq ELSE Without(1)
  /\ cur' = IF seq = <<>> THEN cur ELSE CursorWithout(1)
  /\ UNCHANGED freed

RemoveHead ==
  /\ seq' = IF seq = <<>> THEN seq ELSE Without(1)
  /\ cur' = IF seq = <<>> THEN cur ELSE CursorWithout(1)
  /\ freed' = IF seq = <<>> THEN freed ELSE freed \cup {seq[1]}
  /\ rc' \in BOOLEAN

\* The cursor goes back when the last element goes.
PopTail ==
  /\ rc' = IF seq = <<>> THEN NULL ELSE seq[Len(seq)]
  /\ seq' = IF seq = <<>> THEN seq ELSE Without(Len(seq))
  /\ cur' = IF cur = Len(seq) /\ seq # <<>> THEN cur - 1 ELSE cur
  /\ UNCHANGED freed

Empty ==
  /\ seq' = <<>> /\ cur' = 0
  /\ freed' = freed \cup ToSet(seq)
  /\ rc' = NULL

Next ==
  \/ \E c \in Content, i \in 1 .. Len(seq) + 1 : Insert(c, i)
  \/ \E S \in Search : Find(S)
  \/ \E S \in Search, free \in BOOLEAN : Unlink(S, free)
  \/ DetachHead \/ RemoveHead \/ PopTail \/ Empty

Spec == Init /\ [][Next]_vars
=============================================================================
