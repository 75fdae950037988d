----------------------------- MODULE OrderedMap -----------------------------
(***************************************************************************)
(* What Tree.h promises its callers: a set of contents with at most one    *)
(* content for each key.  Adding a content takes the place of the one with *)
(* the same key, which is returned; removing and finding return the        *)
(* content with the key, or NULL.                                          *)
(***************************************************************************)
CONSTANTS Key, Content, NULL, Repeated

VARIABLES
  items,   \* the contents in the map
  rc       \* what the last call returned

vars == <<items, rc>>

With(k) == {c \in items : c.key = k}

\* The content with key k, or NULL.
Lookup(k) == IF With(k) = {} THEN NULL ELSE CHOOSE c \in With(k) : TRUE

Init == items = {} /\ rc = NULL

Add(c) ==
  /\ With(c.key) # {} => c.key \in Repeated
  /\ items' = (items \ With(c.key)) \cup {c}
  /\ rc' = Lookup(c.key)

RemoveKey(k) ==
  /\ items' = items \ With(k)
  /\ rc' = Lookup(k)

Find(k) ==
  /\ rc' = Lookup(k)
  /\ UNCHANGED items

Next ==
  \/ \E c \in Content : Add(c)
  \/ \E k \in Key : RemoveKey(k) \/ Find(k)

Spec == Init /\ [][Next]_vars
=============================================================================
