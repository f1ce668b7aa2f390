------------------------------- MODULE Table --------------------------------
(***************************************************************************)
(* class Table (catalog/table.py) as operators on a table value: columns,  *)
(* the slots of a heap file, and indexes in the order in which they were   *)
(* created.  Heap file and trees appear by what HeapFile and BPlusTree are *)
(* shown to keep: a scan finds the valid slots, a tree the entries it was  *)
(* given, as trees do that hold no more copies of a key than half a leaf.  *)
(* Columns that are indexed are INT.                                       *)
(***************************************************************************)
EXTENDS Schema

EmptyTable(columns) ==
  [columns |-> columns, slots |-> <<>>, indices |-> <<>>]

IndexedColumns(t) == {t.indices[i].col : i \in DOMAIN t.indices}
IndexOn(t, col) == CHOOSE index \in ToSet(t.indices) : index.col = col
Value(t, row, col) == row[Position(t.columns, col)]

(* Rids are slot numbers.                                                  *)
Valid(t) == {rid \in DOMAIN t.slots : t.slots[rid].valid}
get(t, rid) == deserialize(t.columns, t.slots[rid].raw)
scan(t) == [rid \in Valid(t) |-> get(t, rid)]

(* A bound of a range is a set: None is empty, a number is alone in it.    *)
InRange(key, start, end) ==
  (\A s \in start : s <= key) /\ (\A e \in end : key <= e)
range_scan(index, start, end) ==
  {e[2] : e \in {f \in index.entries : InRange(f[1], start, end)}}
search(index, key) == range_scan(index, {key}, {key})

(* BPlusTree keeps num_keys in the object and, since the last delete, on   *)
(* page 0 (stored_keys).                                                   *)
Inserted(t, index, row, rid) ==
  [index EXCEPT !.entries = @ \cup {<<Value(t, row, index.col), rid>>},
                !.num_keys = @ + 1]

(* insert, of a row that serialize accepts; its rid is a new slot.         *)
insert(t, row) ==
  LET rid == Len(t.slots) + 1
  IN  [t EXCEPT !.slots = Append(@, [raw |-> serialize(t.columns, row), valid |-> TRUE]),
                !.indices = [i \in DOMAIN @ |-> Inserted(t, @[i], row, rid)]]

(* delete: the heap row first, then the indexes in order up to the first   *)
(* whose tree finds the entry with a count of 0 and raises; that tree has  *)
(* dropped the entry, later ones keep theirs.                              *)
Drops(t, index, rid) == <<Value(t, get(t, rid), index.col), rid>> \in index.entries
Raising(t, rid) ==
  {i \in DOMAIN t.indices : Drops(t, t.indices[i], rid) /\ t.indices[i].num_keys <= 0}
Reached(t, rid) ==
  IF Raising(t, rid) = {} THEN DOMAIN t.indices ELSE 1 .. Min(Raising(t, rid))

Dropped_PacksAny(t, index, rid) ==
  [index EXCEPT !.entries = {e \in @ : e # <<Value(t, get(t, rid), index.col), rid>>},
                !.num_keys = @ - 1,
                !.stored_keys = index.num_keys - 1]
Dropped(t, index, rid) ==
  [index EXCEPT !.entries = {e \in @ : e # <<Value(t, get(t, rid), index.col), rid>>},
                !.num_keys = @ - 1,
                !.stored_keys = IF index.num_keys > 0 THEN index.num_keys - 1 ELSE @]
delete(t, rid) ==
  [t EXCEPT !.slots[rid].valid = FALSE,
            !.indices = [i \in DOMAIN @ |->
               IF i \in Reached(t, rid) /\ Drops(t, @[i], rid)
               THEN Dropped(t, @[i], rid) ELSE @[i]]]

(* Catalog.create_index: a new tree, filled from a scan.                   *)
EntriesOf_AllSlots(t, col) ==
  {<<Value(t, get(t, rid), col), rid>> : rid \in DOMAIN t.slots}
EntriesOf(t, col) == {<<Value(t, get(t, rid), col), rid>> : rid \in Valid(t)}
create_index(t, col) ==
  [t EXCEPT !.indices =
     Append(@, [col |-> col, entries |-> EntriesOf(t, col),
                num_keys |-> Cardinality(Valid(t)), stored_keys |-> 0])]

(* Catalog.load opens the trees from their page 0.                         *)
Reopened(t) ==
  [t EXCEPT !.indices = [i \in DOMAIN t.indices |->
     [t.indices[i] EXCEPT !.num_keys = t.indices[i].stored_keys]]]
=============================================================================
