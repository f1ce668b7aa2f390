----------------------------- MODULE BTreePage ------------------------------
(***************************************************************************)
(* class BTreePage (index/b_tree_page.py) as operators on values.  A node  *)
(* is a record; num_keys is the length of its keys, a leaf's keys and RIDs *)
(* are one sequence of pairs, and the byte layout is left out.             *)
(***************************************************************************)
EXTENDS Integers, SequencesExt, FiniteSetsExt

CONSTANT ORDER      \* keys a node may keep, 100 in the code

ASSUME OrderAssumption == ORDER \in Nat \ {0, 1}

NoLeaf == -1

Leaf(entries, prev, next) ==
  [is_leaf |-> TRUE, entries |-> entries, prev_leaf |-> prev, next_leaf |-> next]
Inner(keys, pointers) ==
  [is_leaf |-> FALSE, keys |-> keys, pointers |-> pointers]

KeysOf(entries) == [i \in 1 .. Len(entries) |-> entries[i][1]]
RidsOf(entries) == [i \in 1 .. Len(entries) |-> entries[i][2]]
Keys(node) == IF node.is_leaf THEN KeysOf(node.entries) ELSE node.keys

is_overflow_Late(node) == Len(Keys(node)) > ORDER + 1
is_overflow(node) == Len(Keys(node)) > ORDER

(* The first position whose key is greater, or the one after the last: new *)
(* keys go behind equal ones, in leaves and in inner nodes.                *)
Place(keys, key) ==
  Min({i \in 1 .. Len(keys) : key < keys[i]} \cup {Len(keys) + 1})

insert(leaf, key, rid) ==
  [leaf EXCEPT !.entries = InsertAt(@, Place(KeysOf(@), key), <<key, rid>>)]

insert_pointer(node, min_key, pointer) ==
  LET i == Place(node.keys, min_key)
  IN  [node EXCEPT !.keys = InsertAt(@, i, min_key),
                   !.pointers = InsertAt(@, i + 1, pointer)]

(* What lookup and remove_key look at: they stop at the first greater key. *)
Reach(leaf, key) ==
  SubSeq(leaf.entries, 1, Place(KeysOf(leaf.entries), key) - 1)

(* The entries with one of the keys, in their order: a loop that appends.  *)
Picked(entries, keys) ==
  LET upto[n \in 0 .. Len(entries)] ==
        IF n = 0 THEN <<>>
        ELSE IF entries[n][1] \in keys THEN Append(upto[n - 1], entries[n])
        ELSE upto[n - 1]
  IN  upto[Len(entries)]

lookup(leaf, key) == RidsOf(Picked(Reach(leaf, key), {key}))

Holds(leaf, key, rid) == Contains(Reach(leaf, key), <<key, rid>>)

(* remove_key drops the first matching entry.                              *)
remove_key(leaf, key, rid) ==
  [leaf EXCEPT !.entries = RemoveFirst(@, <<key, rid>>)]

(* The split index of an overflowing node.                                 *)
Half(node) == Len(Keys(node)) \div 2
UpTo(s, n) == SubSeq(s, 1, n)
From_SkipsOne(s, n) == SubSeq(s, n + 1, Len(s))
From(s, n) == SubSeq(s, n, Len(s))
=============================================================================
