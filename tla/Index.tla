------------------------------- MODULE Index --------------------------------
(***************************************************************************)
(* What an index promises to Table: it holds the (key, rid) pairs it was   *)
(* asked to hold, after every step of its own, and opening it again        *)
(* changes nothing.                                                        *)
(***************************************************************************)
EXTENDS Integers

CONSTANTS
  SearchKeys,   \* keys a caller may insert, look up or delete
  Copies        \* a row is named <<key, n>> with n in Copies

VARIABLES
  entries,      \* pairs in the index
  rows          \* pairs that callers have inserted and not deleted

vars == <<entries, rows>>

Rids(key) == {<<key, n>> : n \in Copies}

Init == entries = {} /\ rows = {}

Insert(key, rid) ==
  /\ <<key, rid>> \notin rows
  /\ rows' = rows \cup {<<key, rid>>}
  /\ entries' = rows'

Delete(key, rid) ==
  /\ <<key, rid>> \in rows
  /\ rows' = rows \ {<<key, rid>>}
  /\ entries' = rows'

Next == \E key \in SearchKeys : \E rid \in Rids(key) :
          Insert(key, rid) \/ Delete(key, rid)

Spec == Init /\ [][Next]_vars
=============================================================================
