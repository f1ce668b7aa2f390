----------------------------- MODULE EngineProofs -----------------------------
(***************************************************************************)
(* Theorems about Engine, for all columns, statements, indexes and         *)
(* queries: a scan returns the rows that were inserted and not deleted, as *)
(* they were given; indexes agree with the heap; DELETE removes what it    *)
(* should; and SELECT returns what it means, by whatever plan.             *)
(***************************************************************************)
EXTENDS Engine, SchemaProofs

(***************************************************************************)
(* One table, with the rows that should be in it.                          *)
(***************************************************************************)
SlotType == [raw : Seq(Byte), valid : BOOLEAN]
IndexType == [col : STRING, entries : SUBSET (Int \X Nat), num_keys : Int, stored_keys : Nat]
TableType(columns) ==
  [columns : {columns}, slots : Seq(SlotType), indices : Seq(IndexType)]

IsColumns(columns) ==
  /\ Len(columns) \in Nat /\ DOMAIN columns = 1 .. Len(columns)
  /\ \A i \in DOMAIN columns : columns[i].type \in ColumnTypes
IsIntColumn(columns, col) ==
  HasColumn(columns, col) /\ columns[Position(columns, col)].type = "INT"

(* A row has a value of its type for each column, in those of type INT an  *)
(* integer.                                                                *)
IsRow(columns, row) ==
  /\ Typed(columns, row)
  /\ \A i \in DOMAIN columns : columns[i].type = "INT" => IsInteger(row[i])

(* At most one tree for a column, and columns that can have one.           *)
OneTreeEach(t) ==
  /\ \A i, j \in DOMAIN t.indices : t.indices[i].col = t.indices[j].col => i = j
  /\ \A i \in DOMAIN t.indices : IsIntColumn(t.columns, t.indices[i].col)
(* The valid slots are the rows in kept, as serialize writes them.         *)
Stores(t, kept) ==
  /\ kept = [rid \in Valid(t) |-> kept[rid]]
  /\ \A rid \in Valid(t) : /\ IsRow(t.columns, kept[rid])
                           /\ t.slots[rid].raw = serialize(t.columns, kept[rid])
TableInv(columns, t, kept) ==
  t \in TableType(columns) /\ IsColumns(columns) /\ OneTreeEach(t) /\ Stores(t, kept)

EntriesFor(t, kept, col) == {<<Value(t, kept[rid], col), rid>> : rid \in Valid(t)}
Indexes(t, kept) ==
  \A i \in DOMAIN t.indices : t.indices[i].entries = EntriesFor(t, kept, t.indices[i].col)

(* A scan reads each row as it was given to insert.                        *)
LEMMA ScanIs ==
  ASSUME NEW columns, NEW t, NEW kept, TableInv(columns, t, kept)
  PROVE  scan(t) = kept /\ \A rid \in Valid(t) : get(t, rid) = kept[rid]
<1>1. t.columns = columns /\ IsColumns(columns) /\ Stores(t, kept)
  BY DEF TableInv, TableType
<1>2. PICK n : n = Len(columns)
  OBVIOUS
<1>3. n \in Nat /\ DOMAIN columns = 1 .. n /\ Len(columns) = n
  BY <1>1, <1>2 DEF IsColumns
<1>4. ASSUME NEW rid \in Valid(t) PROVE get(t, rid) = kept[rid]
  <2>1. PICK row : row = kept[rid]
    OBVIOUS
  <2>2. IsRow(columns, row) /\ t.slots[rid].raw = serialize(columns, row)
    BY <1>1, <2>1 DEF Stores
  <2>3. deserialize(columns, serialize(columns, row)) = row
    BY <1>3, <2>2, RowRoundTrip DEF IsRow
  <2>4. get(t, rid) = deserialize(columns, serialize(columns, row))
    BY <1>1, <2>2 DEF get
  <2> QED BY <2>1, <2>3, <2>4
<1>5. scan(t) = [rid \in Valid(t) |-> kept[rid]]
  BY <1>4 DEF scan
<1>6. kept = [rid \in Valid(t) |-> kept[rid]]
  BY <1>1 DEF Stores
<1> QED BY <1>4, <1>5, <1>6

LEMMA ValueIs ==
  ASSUME NEW columns, NEW t, NEW row, NEW col, IsColumns(columns), t.columns = columns,
         IsRow(columns, row), IsIntColumn(columns, col)
  PROVE  Value(t, row, col) \in Int /\ IsInteger(Value(t, row, col))
<1>1. PICK n, p : n = Len(columns) /\ p = Position(columns, col)
  OBVIOUS
<1>2. n \in Nat /\ DOMAIN columns = 1 .. n
  BY <1>1 DEF IsColumns
<1>3. p \in 1 .. n /\ columns[p].type = "INT"
  BY <1>1, <1>2, PositionIs DEF IsIntColumn
<1>4. row[p] \in Int
  BY <1>2, <1>3 DEF IsRow, Typed, IsVarchar
<1>5. IsInteger(row[p])
  BY <1>2, <1>3 DEF IsRow
<1> QED BY <1>1, <1>4, <1>5 DEF Value

LEMMA Serialized ==
  ASSUME NEW columns, IsColumns(columns), NEW row, IsRow(columns, row)
  PROVE  serialize(columns, row) \in Seq(Byte)
<1>1. PICK n : n = Len(columns)
  OBVIOUS
<1>2. n \in Nat /\ DOMAIN columns = 1 .. n
  BY <1>1 DEF IsColumns
<1>3. PICK g, p : /\ Parts(g, Byte, RowFields(columns, row), n)
                  /\ Parts(p, Byte, Lengths(columns, row), n)
                  /\ serialize(columns, row) = p[n] \o g[n]
  BY <1>2, RowParts DEF IsRow
<1>4. PICK x, y : x = p[n] /\ y = g[n]
  OBVIOUS
<1>5. x \in Seq(Byte) /\ y \in Seq(Byte)
  BY <1>2, <1>3, <1>4 DEF Parts
<1>6. x \o y \in Seq(Byte)
  BY <1>5, ConcatProperties
<1> QED BY <1>3, <1>4, <1>6

(* insert adds the row at a rid that no slot had.                          *)
LEMMA InsertKeeps ==
  ASSUME NEW columns, NEW t, NEW kept, TableInv(columns, t, kept), NEW row, IsRow(columns, row),
         NEW u, u = insert(t, row),
         NEW after, after = With(kept, Len(t.slots) + 1, row)
  PROVE  /\ TableInv(columns, u, after)
         /\ Indexes(t, kept) => Indexes(u, after)
<1>1. /\ t \in TableType(columns) /\ IsColumns(columns) /\ OneTreeEach(t) /\ Stores(t, kept)
      /\ t.columns = columns /\ t.slots \in Seq(SlotType) /\ t.indices \in Seq(IndexType)
  BY DEF TableInv, TableType
<1>2. PICK r, s : r = Len(t.slots) + 1 /\ s = [raw |-> serialize(columns, row), valid |-> TRUE]
  OBVIOUS
<1>3. s \in SlotType
  <2>1. serialize(columns, row) \in Seq(Byte)
    BY <1>1, Serialized
  <2> QED BY <1>2, <2>1 DEF SlotType
<1>4. PICK is : is = [i \in DOMAIN t.indices |-> Inserted(t, t.indices[i], row, r)]
  OBVIOUS
<1>5. u = [t EXCEPT !.slots = Append(t.slots, s), !.indices = is]
  BY <1>1, <1>2, <1>4 DEF insert
<1>6. u.columns = columns /\ u.slots = Append(t.slots, s) /\ u.indices = is
  BY <1>1, <1>5 DEF TableType
<1>7. /\ r \in Nat /\ r \notin DOMAIN t.slots /\ DOMAIN u.slots = DOMAIN t.slots \cup {r}
      /\ u.slots \in Seq(SlotType) /\ u.slots[r] = s
      /\ \A q \in DOMAIN t.slots : u.slots[q] = t.slots[q]
  <2>1. PICK n, f, g : n = Len(t.slots) /\ f = t.slots /\ g = u.slots
    OBVIOUS
  <2>2. n \in Nat /\ DOMAIN f = 1 .. n
    BY <1>1, <2>1, LenProperties
  <2>3. /\ g \in Seq(SlotType) /\ Len(g) = n + 1 /\ g[n + 1] = s
        /\ \A q \in 1 .. n : g[q] = f[q]
    BY <1>1, <1>3, <1>6, <2>1, AppendProperties
  <2>4. DOMAIN g = 1 .. n + 1
    BY <2>3, LenProperties
  <2>5. 1 .. n + 1 = (1 .. n) \cup {n + 1} /\ n + 1 \notin 1 .. n /\ n + 1 \in Nat
    BY <2>2
  <2> QED BY <1>2, <2>1, <2>2, <2>3, <2>4, <2>5
<1>8. Valid(u) = Valid(t) \cup {r} /\ r \notin Valid(t) /\ Valid(t) \subseteq DOMAIN t.slots
  <2>1. s.valid = TRUE
    BY <1>2
  <2> QED BY <1>7, <2>1 DEF Valid
<1>9. /\ after = [rid \in Valid(u) |-> after[rid]] /\ after[r] = row
      /\ \A rid \in Valid(t) : after[rid] = kept[rid]
  <2>1. DOMAIN kept = Valid(t)
    BY <1>1 DEF Stores
  <2>2. after = [x \in Valid(u) |-> IF x = r THEN row ELSE kept[x]]
    BY <1>2, <1>8, <2>1 DEF With
  <2> QED BY <1>8, <2>2
<1>10. Stores(u, after)
  <2>1. \A rid \in Valid(u) : /\ IsRow(columns, after[rid])
                              /\ u.slots[rid].raw = serialize(columns, after[rid])
    <3> TAKE rid \in Valid(u)
    <3>1. CASE rid = r
      BY <1>2, <1>7, <1>9, <3>1
    <3>2. CASE rid \in Valid(t)
      BY <1>1, <1>7, <1>8, <1>9, <3>2 DEF Stores
    <3> QED BY <1>8, <3>1, <3>2
  <2> QED BY <1>6, <1>9, <2>1 DEF Stores
<1>11. \A i \in DOMAIN t.indices :
         /\ t.indices[i] \in IndexType /\ is[i].col = t.indices[i].col
         /\ is[i] \in IndexType
         /\ is[i].entries = t.indices[i].entries \cup {<<Value(t, row, t.indices[i].col), r>>}
  <2> TAKE i \in DOMAIN t.indices
  <2>1. PICK x, v : x = t.indices[i] /\ v = Value(t, row, x.col)
    OBVIOUS
  <2>2. x \in IndexType /\ v \in Int
    <3>1. x \in IndexType
      BY <1>1, <2>1
    <3>2. IsIntColumn(columns, x.col)
      BY <1>1, <2>1 DEF OneTreeEach
    <3> QED BY <1>1, <2>1, <3>1, <3>2, ValueIs
  <2>3. is[i] = [x EXCEPT !.entries = @ \cup {<<v, r>>}, !.num_keys = @ + 1]
    BY <1>4, <2>1 DEF Inserted
  <2>4. <<v, r>> \in Int \X Nat
    BY <1>7, <2>2
  <2>5. /\ is[i].col = x.col /\ is[i].entries = x.entries \cup {<<v, r>>}
        /\ is[i] \in IndexType
    <3>1. PICK e, m : e = x.entries \cup {<<v, r>>} /\ m = x.num_keys + 1
      OBVIOUS
    <3>2. is[i] = [x EXCEPT !.entries = e, !.num_keys = m]
      BY <2>2, <2>3, <3>1 DEF IndexType
    <3>3. e \in SUBSET (Int \X Nat) /\ m \in Int
      BY <2>2, <2>4, <3>1 DEF IndexType
    <3> QED BY <2>2, <3>1, <3>2, <3>3 DEF IndexType
  <2> QED BY <2>1, <2>2, <2>5
<1>12. is \in Seq(IndexType) /\ DOMAIN is = DOMAIN t.indices
  <2>1. PICK n : n = Len(t.indices) /\ n \in Nat /\ DOMAIN t.indices = 1 .. n
    BY <1>1, LenProperties
  <2>2. is = [i \in 1 .. n |-> is[i]] /\ \A i \in 1 .. n : is[i] \in IndexType
    BY <1>4, <1>11, <2>1
  <2> QED BY <2>1, <2>2
<1>13. u \in TableType(columns)
  BY <1>1, <1>5, <1>6, <1>7, <1>12 DEF TableType
<1>14. OneTreeEach(u)
  BY <1>1, <1>6, <1>11, <1>12 DEF OneTreeEach
<1>15. ASSUME Indexes(t, kept) PROVE Indexes(u, after)
  <2> SUFFICES ASSUME NEW i \in DOMAIN t.indices
               PROVE  is[i].entries = EntriesFor(u, after, is[i].col)
    BY <1>6, <1>12 DEF Indexes
  <2>1. PICK c : c = t.indices[i].col
    OBVIOUS
  <2>2. \A x : Value(u, x, c) = Value(t, x, c)
    BY <1>1, <1>6 DEF Value
  <2>3. is[i].entries = {<<Value(t, kept[rid], c), rid>> : rid \in Valid(t)}
                          \cup {<<Value(t, row, c), r>>}
    BY <1>11, <1>15, <2>1 DEF Indexes, EntriesFor
  <2>4. \A rid \in Valid(t) : Value(u, after[rid], c) = Value(t, kept[rid], c)
    BY <1>9, <2>2
  <2>5. Value(u, after[r], c) = Value(t, row, c)
    BY <1>9, <2>2
  <2>6. EntriesFor(u, after, c) = {<<Value(u, after[rid], c), rid>> : rid \in Valid(t) \cup {r}}
    BY <1>8 DEF EntriesFor
  <2>7. is[i].entries = EntriesFor(u, after, c)
    BY <2>3, <2>4, <2>5, <2>6
  <2> QED BY <1>11, <2>1, <2>7
<1> QED BY <1>1, <1>10, <1>13, <1>14, <1>15 DEF TableInv

(* delete removes the row at rid, and its entries unless it raises.        *)
LEMMA DeleteKeeps ==
  ASSUME NEW columns, NEW t, NEW kept, TableInv(columns, t, kept), NEW rid \in Valid(t),
         NEW u, u = delete(t, rid),
         NEW after, after = [r \in DOMAIN kept \ {rid} |-> kept[r]]
  PROVE  /\ TableInv(columns, u, after) /\ Valid(u) = Valid(t) \ {rid}
         /\ IndexedColumns(u) = IndexedColumns(t)
         /\ Indexes(t, kept) /\ Raising(t, rid) = {} => Indexes(u, after)
<1>1. /\ t \in TableType(columns) /\ IsColumns(columns) /\ OneTreeEach(t) /\ Stores(t, kept)
      /\ t.columns = columns /\ t.slots \in Seq(SlotType) /\ t.indices \in Seq(IndexType)
  BY DEF TableInv, TableType
<1>2. PICK is : is = [i \in DOMAIN t.indices |->
                        IF i \in Reached(t, rid) /\ Drops(t, t.indices[i], rid)
                        THEN Dropped(t, t.indices[i], rid) ELSE t.indices[i]]
  OBVIOUS
<1>3. PICK ss : ss = [t.slots EXCEPT ![rid].valid = FALSE]
  OBVIOUS
<1>4. u = [t EXCEPT !.slots = ss, !.indices = is]
  BY <1>1, <1>2, <1>3 DEF delete, TableType
<1>5. u.columns = columns /\ u.slots = ss /\ u.indices = is
  BY <1>1, <1>4 DEF TableType
<1>6. rid \in DOMAIN t.slots
  BY DEF Valid
<1>7. /\ ss \in Seq(SlotType) /\ DOMAIN ss = DOMAIN t.slots /\ ~ss[rid].valid
      /\ \A r \in DOMAIN t.slots : r # rid => ss[r] = t.slots[r]
  <2>1. PICK n, f : n = Len(t.slots) /\ f = t.slots
    OBVIOUS
  <2>2. n \in Nat /\ DOMAIN f = 1 .. n /\ f \in [1 .. n -> SlotType] /\ rid \in 1 .. n
    BY <1>1, <1>6, <2>1, LenProperties
  <2>3. f[rid] \in SlotType
    BY <2>2
  <2>4. PICK s : s = [f[rid] EXCEPT !.valid = FALSE]
    OBVIOUS
  <2>5. s \in SlotType /\ s.valid = FALSE
    BY <2>3, <2>4 DEF SlotType
  <2>6. ss = [f EXCEPT ![rid] = s]
    BY <1>3, <2>1, <2>2, <2>4
  <2>7. ss \in [1 .. n -> SlotType] /\ ss[rid] = s /\ \A r \in 1 .. n : r # rid => ss[r] = f[r]
    BY <2>2, <2>5, <2>6
  <2>8. ss \in Seq(SlotType)
    BY <2>2, <2>7
  <2> QED BY <2>1, <2>2, <2>5, <2>7, <2>8
<1>8. Valid(u) = Valid(t) \ {rid} /\ Valid(t) \subseteq DOMAIN t.slots
  BY <1>5, <1>7 DEF Valid
<1>9. after = [r \in Valid(u) |-> kept[r]]
  BY <1>1, <1>8 DEF Stores
<1>10. Stores(u, after)
  <2>1. \A r \in Valid(u) : /\ IsRow(columns, after[r])
                            /\ u.slots[r].raw = serialize(columns, after[r])
    <3> TAKE r \in Valid(u)
    <3>1. r \in Valid(t) /\ r # rid /\ after[r] = kept[r] /\ u.slots[r] = t.slots[r]
      BY <1>5, <1>7, <1>8, <1>9
    <3> QED BY <1>1, <3>1 DEF Stores
  <2>2. after = [r \in Valid(u) |-> after[r]]
    BY <1>9
  <2> QED BY <1>5, <2>1, <2>2 DEF Stores
<1>11. PICK gone : gone = kept[rid] /\ get(t, rid) = gone /\ rid \in Nat
  <2>1. DOMAIN t.slots \subseteq Nat
    BY <1>1, LenProperties
  <2> QED BY <1>6, <2>1, ScanIs
<1>12. \A i \in DOMAIN t.indices :
         /\ t.indices[i] \in IndexType /\ is[i].col = t.indices[i].col /\ is[i] \in IndexType
         /\ i \in Reached(t, rid) =>
              is[i].entries = {e \in t.indices[i].entries :
                                 e # <<Value(t, gone, t.indices[i].col), rid>>}
  <2> TAKE i \in DOMAIN t.indices
  <2>1. PICK x, e, c : /\ x = t.indices[i] /\ e = <<Value(t, gone, x.col), rid>>
                       /\ c = (IF x.num_keys > 0 THEN x.num_keys - 1 ELSE x.stored_keys)
    OBVIOUS
  <2>6. x \in IndexType
    BY <1>1, <2>1
  <2>2. x \in IndexType /\ x.num_keys \in Int /\ x.stored_keys \in Nat
    BY <2>6 DEF IndexType
  <2>3. c \in Nat
    BY <2>1, <2>2
  <2>4. CASE i \in Reached(t, rid) /\ Drops(t, x, rid)
    <3>1. is[i] = [x EXCEPT !.entries = {f \in x.entries : f # e},
                            !.num_keys = x.num_keys - 1, !.stored_keys = c]
      BY <1>2, <1>11, <2>1, <2>2, <2>4 DEF Dropped, IndexType
    <3>2. PICK es, m : es = {f \in x.entries : f # e} /\ m = x.num_keys - 1
      OBVIOUS
    <3>3. es \in SUBSET (Int \X Nat) /\ m \in Int
      BY <2>2, <3>2 DEF IndexType
    <3>4. is[i].col = x.col /\ is[i].entries = es /\ is[i] \in IndexType
      BY <2>2, <2>3, <3>1, <3>2, <3>3 DEF IndexType
    <3> QED BY <2>1, <2>2, <3>2, <3>4
  <2>5. CASE ~(i \in Reached(t, rid) /\ Drops(t, x, rid))
    <3>1. is[i] = x
      BY <1>2, <2>1, <2>5
    <3>2. i \in Reached(t, rid) => e \notin x.entries
      BY <1>11, <2>1, <2>5 DEF Drops
    <3>3. i \in Reached(t, rid) => x.entries = {f \in x.entries : f # e}
      BY <3>2
    <3> QED BY <2>1, <2>2, <3>1, <3>3
  <2> QED BY <2>4, <2>5
<1>13. is \in Seq(IndexType) /\ DOMAIN is = DOMAIN t.indices
  <2>1. PICK n : n = Len(t.indices) /\ n \in Nat /\ DOMAIN t.indices = 1 .. n
    BY <1>1, LenProperties
  <2>2. is = [i \in 1 .. n |-> is[i]] /\ \A i \in 1 .. n : is[i] \in IndexType
    BY <1>2, <1>12, <2>1
  <2> QED BY <2>1, <2>2
<1>14. u \in TableType(columns)
  BY <1>1, <1>4, <1>5, <1>7, <1>13 DEF TableType
<1>15. OneTreeEach(u)
  BY <1>1, <1>5, <1>12, <1>13 DEF OneTreeEach
<1>16. ASSUME Indexes(t, kept), Raising(t, rid) = {} PROVE Indexes(u, after)
  <2> SUFFICES ASSUME NEW i \in DOMAIN t.indices
               PROVE  is[i].entries = EntriesFor(u, after, is[i].col)
    BY <1>5, <1>13 DEF Indexes
  <2>1. PICK c : c = t.indices[i].col
    OBVIOUS
  <2>2. i \in Reached(t, rid)
    BY <1>16 DEF Reached
  <2>3. is[i].entries = {e \in EntriesFor(t, kept, c) : e # <<Value(t, gone, c), rid>>}
    BY <1>12, <1>16, <2>1, <2>2 DEF Indexes
  <2>4. \A x : Value(u, x, c) = Value(t, x, c)
    BY <1>1, <1>5 DEF Value
  <2>5. EntriesFor(u, after, c) = {<<Value(t, kept[r], c), r>> : r \in Valid(t) \ {rid}}
    BY <1>8, <1>9, <2>4 DEF EntriesFor
  <2>6. is[i].entries = EntriesFor(u, after, c)
    BY <1>11, <2>3, <2>5, ZenonT(60) DEF EntriesFor
  <2> QED BY <1>12, <2>1, <2>6
<1>17. IndexedColumns(u) = IndexedColumns(t)
  BY <1>5, <1>12, <1>13 DEF IndexedColumns
<1> QED BY <1>1, <1>8, <1>10, <1>14, <1>15, <1>16, <1>17 DEF TableInv

(* create_index fills a tree from a scan, and a restart opens each tree.   *)
LEMMA CreateKeeps ==
  ASSUME NEW columns, NEW t, NEW kept, TableInv(columns, t, kept),
         NEW col \in STRING, IsIntColumn(columns, col), col \notin IndexedColumns(t),
         NEW u, u = create_index(t, col)
  PROVE  /\ TableInv(columns, u, kept) /\ Valid(u) = Valid(t)
         /\ Indexes(t, kept) => Indexes(u, kept)
<1>1. /\ t \in TableType(columns) /\ IsColumns(columns) /\ OneTreeEach(t) /\ Stores(t, kept)
      /\ t.columns = columns /\ t.slots \in Seq(SlotType) /\ t.indices \in Seq(IndexType)
  BY DEF TableInv, TableType
<1>2. PICK x : x = [col |-> col, entries |-> EntriesOf(t, col),
                    num_keys |-> Cardinality(Valid(t)), stored_keys |-> 0]
  OBVIOUS
<1>3. u = [t EXCEPT !.indices = Append(t.indices, x)]
  BY <1>1, <1>2 DEF create_index, TableType
<1>4. u.columns = columns /\ u.slots = t.slots /\ u.indices = Append(t.indices, x)
  BY <1>1, <1>3 DEF TableType
<1>5. Valid(u) = Valid(t)
  BY <1>4 DEF Valid
<1>6. EntriesOf(t, col) = EntriesFor(t, kept, col)
  <2>1. \A rid \in Valid(t) : get(t, rid) = kept[rid]
    BY ScanIs
  <2> QED BY <2>1 DEF EntriesOf, EntriesFor
<1>7. x \in IndexType
  <2>1. PICK n : n = Len(t.slots) /\ n \in Nat /\ DOMAIN t.slots = 1 .. n
    BY <1>1, LenProperties
  <2>2. Valid(t) \subseteq 1 .. n
    BY <2>1 DEF Valid
  <2>6. IsFiniteSet(1 .. n)
    BY <2>1, FS_Interval
  <2>7. IsFiniteSet(Valid(t))
    BY <2>2, <2>6, FS_Subset
  <2>3. Cardinality(Valid(t)) \in Nat
    BY <2>7, FS_CardinalityType
  <2>4. ASSUME NEW rid \in Valid(t) PROVE <<Value(t, kept[rid], col), rid>> \in Int \X Nat
    <3>1. IsRow(columns, kept[rid])
      BY <1>1 DEF Stores
    <3>2. Value(t, kept[rid], col) \in Int
      BY <1>1, <3>1, ValueIs
    <3> QED BY <2>1, <2>2, <3>2
  <2>5. EntriesOf(t, col) \in SUBSET (Int \X Nat)
    BY <1>6, <2>4 DEF EntriesFor
  <2> QED BY <1>2, <2>3, <2>5 DEF IndexType
<1>8. PICK n : n = Len(t.indices) /\ n \in Nat /\ DOMAIN t.indices = 1 .. n
  BY <1>1, LenProperties
<1>9. PICK is : is = u.indices
  OBVIOUS
<1>10. /\ is \in Seq(IndexType) /\ DOMAIN is = 1 .. n + 1 /\ is[n + 1] = x
       /\ \A i \in 1 .. n : is[i] = t.indices[i]
  <2>1. /\ is \in Seq(IndexType) /\ Len(is) = n + 1 /\ is[n + 1] = x
        /\ \A i \in 1 .. n : is[i] = t.indices[i]
    BY <1>1, <1>4, <1>7, <1>8, <1>9, AppendProperties
  <2> QED BY <2>1, LenProperties
<1>11. u \in TableType(columns)
  BY <1>1, <1>3, <1>4, <1>9, <1>10 DEF TableType
<1>12. \A i \in 1 .. n + 1 : i \in 1 .. n \/ i = n + 1
  BY <1>8
<1>13. OneTreeEach(u)
  <2>1. \A i \in 1 .. n : is[i].col # x.col /\ IsIntColumn(columns, is[i].col)
    BY <1>1, <1>2, <1>8, <1>10 DEF IndexedColumns, OneTreeEach
  <2>2. \A i, j \in 1 .. n : is[i].col = is[j].col => i = j
    BY <1>1, <1>8, <1>10 DEF OneTreeEach
  <2>3. x.col = col
    BY <1>2
  <2>4. \A i, j \in 1 .. n + 1 : is[i].col = is[j].col => i = j
    <3> TAKE i, j \in 1 .. n + 1
    <3>1. CASE i \in 1 .. n /\ j \in 1 .. n
      BY <2>2, <3>1
    <3>2. CASE i \in 1 .. n /\ j = n + 1
      BY <1>10, <2>1, <3>2
    <3>3. CASE j \in 1 .. n /\ i = n + 1
      BY <1>10, <2>1, <3>3
    <3> QED BY <1>12, <3>1, <3>2, <3>3
  <2>5. \A i \in 1 .. n + 1 : IsIntColumn(columns, is[i].col)
    BY <1>10, <1>12, <2>1, <2>3
  <2> QED BY <1>4, <1>9, <1>10, <2>4, <2>5 DEF OneTreeEach
<1>14. Stores(u, kept)
  BY <1>1, <1>4, <1>5 DEF Stores
<1>15. ASSUME Indexes(t, kept) PROVE Indexes(u, kept)
  <2> SUFFICES ASSUME NEW i \in 1 .. n + 1
               PROVE  is[i].entries = EntriesFor(u, kept, is[i].col)
    BY <1>9, <1>10 DEF Indexes
  <2>1. \A c : EntriesFor(u, kept, c) = EntriesFor(t, kept, c)
    BY <1>1, <1>4, <1>5 DEF EntriesFor, Value
  <2>2. CASE i \in 1 .. n
    BY <1>8, <1>10, <1>15, <2>1, <2>2 DEF Indexes
  <2>3. CASE i = n + 1
    BY <1>2, <1>6, <1>10, <2>1, <2>3
  <2> QED BY <1>12, <2>2, <2>3
<1> QED BY <1>1, <1>5, <1>11, <1>13, <1>14, <1>15 DEF TableInv

LEMMA ReopenKeeps ==
  ASSUME NEW columns, NEW t, NEW kept, TableInv(columns, t, kept),
         NEW u, u = Reopened(t)
  PROVE  /\ TableInv(columns, u, kept) /\ Valid(u) = Valid(t)
         /\ Indexes(t, kept) => Indexes(u, kept)
<1>1. /\ t \in TableType(columns) /\ IsColumns(columns) /\ OneTreeEach(t) /\ Stores(t, kept)
      /\ t.columns = columns /\ t.slots \in Seq(SlotType) /\ t.indices \in Seq(IndexType)
  BY DEF TableInv, TableType
<1>2. PICK is : is = [i \in DOMAIN t.indices |->
                        [t.indices[i] EXCEPT !.num_keys = t.indices[i].stored_keys]]
  OBVIOUS
<1>3. u = [t EXCEPT !.indices = is]
  BY <1>2 DEF Reopened
<1>4. u.columns = columns /\ u.slots = t.slots /\ u.indices = is
  BY <1>1, <1>3 DEF TableType
<1>5. Valid(u) = Valid(t)
  BY <1>4 DEF Valid
<1>6. \A i \in DOMAIN t.indices :
        /\ is[i] \in IndexType /\ is[i].col = t.indices[i].col
        /\ is[i].entries = t.indices[i].entries
  <2> TAKE i \in DOMAIN t.indices
  <2>1. PICK x, m : x = t.indices[i] /\ m = x.stored_keys
    OBVIOUS
  <2>4. x \in IndexType
    BY <1>1, <2>1
  <2>2. x \in IndexType /\ m \in Int
    BY <2>1, <2>4 DEF IndexType
  <2>3. is[i] = [x EXCEPT !.num_keys = m]
    BY <1>2, <2>1
  <2> QED BY <2>1, <2>2, <2>3 DEF IndexType
<1>7. is \in Seq(IndexType) /\ DOMAIN is = DOMAIN t.indices
  <2>1. PICK n : n = Len(t.indices) /\ n \in Nat /\ DOMAIN t.indices = 1 .. n
    BY <1>1, LenProperties
  <2>2. is = [i \in 1 .. n |-> is[i]] /\ \A i \in 1 .. n : is[i] \in IndexType
    BY <1>2, <1>6, <2>1
  <2> QED BY <2>1, <2>2
<1>8. u \in TableType(columns)
  BY <1>1, <1>3, <1>4, <1>7 DEF TableType
<1>9. OneTreeEach(u)
  BY <1>1, <1>4, <1>6, <1>7 DEF OneTreeEach
<1>10. Stores(u, kept)
  BY <1>1, <1>4, <1>5 DEF Stores
<1>11. ASSUME Indexes(t, kept) PROVE Indexes(u, kept)
  <2>1. \A c : EntriesFor(u, kept, c) = EntriesFor(t, kept, c)
    BY <1>1, <1>4, <1>5 DEF EntriesFor, Value
  <2> QED BY <1>4, <1>6, <1>7, <1>11, <2>1 DEF Indexes
<1> QED BY <1>1, <1>5, <1>8, <1>9, <1>10, <1>11 DEF TableInv

(***************************************************************************)
(* The inductive invariant: every table has the rows that the history says *)
(* it should, and its trees have theirs until a delete raises; an INSERT   *)
(* has rows left, a DELETE the rids of rows that are still there.          *)
(***************************************************************************)
Fielded(s) == s = [op |-> s.op, table |-> s.table, words |-> s.words,
                   where |-> s.where, rids |-> s.rids]
Inserting(s) ==
  /\ s.op = "insert" /\ s.table \in Names
  /\ s.words \in Seq(Seq(WordType)) /\ s.words # <<>>
Deleting(s, t) == s.op = "delete" /\ s.table \in Names /\ s.rids \subseteq Valid(t)
StmtInv ==
  Fielded(stmt) /\ (stmt = NoStmt \/ Inserting(stmt) \/ Deleting(stmt, tables[stmt.table]))
TablesInv ==
  /\ tables = [n \in Names |-> tables[n]] /\ rows = [n \in Names |-> rows[n]]
  /\ \A n \in Names : TableInv(Columns[n], tables[n], rows[n])
TreesInv == failed \in BOOLEAN /\ (~failed => \A n \in Names : Indexes(tables[n], rows[n]))
EngineInv == TablesInv /\ TreesInv /\ StmtInv

LEMMA NoStmtIs == Fielded(NoStmt) /\ NoStmt.op = "none" /\ NoStmt.rids = {}
BY DEF Fielded, NoStmt

LEMMA ColumnsAre ==
  ASSUME NEW n \in Names
  PROVE  IsColumns(Columns[n])
<1>1. Columns[n] \in Seq(ColumnType)
  BY EngineAssumption
<1>2. PICK c, m : c = Columns[n] /\ m = Len(c)
  OBVIOUS
<1>3. m \in Nat /\ DOMAIN c = 1 .. m /\ \A i \in 1 .. m : c[i] \in ColumnType
  BY <1>1, <1>2, LenProperties
<1>4. \A i \in 1 .. m : c[i].type \in ColumnTypes
  BY <1>3 DEF ColumnType, ColumnTypes
<1> QED BY <1>2, <1>3, <1>4 DEF IsColumns

LEMMA EngineInitial == Init => EngineInv
<1> SUFFICES ASSUME Init PROVE EngineInv
  OBVIOUS
<1>1. ASSUME NEW n \in Names
      PROVE  TableInv(Columns[n], tables[n], rows[n]) /\ Indexes(tables[n], rows[n])
  <2>1. tables[n] = EmptyTable(Columns[n]) /\ rows[n] = <<>>
    BY DEF Init
  <2>2. PICK c, t, kept : c = Columns[n] /\ t = tables[n] /\ kept = rows[n]
    OBVIOUS
  <2>3. t = [columns |-> c, slots |-> <<>>, indices |-> <<>>] /\ kept = <<>> /\ IsColumns(c)
    BY <2>1, <2>2, ColumnsAre DEF EmptyTable
  <2>4. <<>> \in Seq(SlotType) /\ <<>> \in Seq(IndexType) /\ DOMAIN <<>> = {}
    BY EmptySeq
  <2>5. t \in TableType(c) /\ DOMAIN t.indices = {} /\ DOMAIN t.slots = {}
    BY <2>3, <2>4 DEF TableType
  <2>6. Valid(t) = {}
    BY <2>5 DEF Valid
  <2>7. kept = [rid \in {} |-> kept[rid]]
    BY <2>3
  <2>8. TableInv(c, t, kept) /\ Indexes(t, kept)
    BY <2>3, <2>5, <2>6, <2>7 DEF TableInv, OneTreeEach, Stores, Indexes
  <2> QED BY <2>2, <2>8
<1>2. TablesInv
  <2>1. tables = [n \in Names |-> tables[n]] /\ rows = [n \in Names |-> rows[n]]
    BY DEF Init
  <2> QED BY <1>1, <2>1 DEF TablesInv
<1>3. TreesInv
  BY <1>1 DEF TreesInv, Init
<1>4. StmtInv
  BY NoStmtIs DEF StmtInv, Init
<1> QED BY <1>2, <1>3, <1>4 DEF EngineInv

(* A step that changes table n at most.                                    *)
LEMMA TableChanges ==
  ASSUME EngineInv, NEW n \in Names, NEW u, NEW after,
         tables' = [tables EXCEPT ![n] = u], rows' = [rows EXCEPT ![n] = after],
         TableInv(Columns[n], u, after),
         failed' \in BOOLEAN, failed => failed',
         ~failed' /\ Indexes(tables[n], rows[n]) => Indexes(u, after)
  PROVE  TablesInv' /\ TreesInv' /\ tables'[n] = u
<1>1. \A m \in Names : m # n => tables'[m] = tables[m] /\ rows'[m] = rows[m]
  BY DEF EngineInv, TablesInv
<1>2. tables'[n] = u /\ rows'[n] = after
  BY DEF EngineInv, TablesInv
<1>3. tables' = [m \in Names |-> tables'[m]] /\ rows' = [m \in Names |-> rows'[m]]
  BY DEF EngineInv, TablesInv
<1>4. TablesInv'
  BY <1>1, <1>2, <1>3 DEF EngineInv, TablesInv
<1>5. TreesInv'
  <2> SUFFICES ASSUME ~failed', NEW m \in Names PROVE Indexes(tables'[m], rows'[m])
    BY DEF TreesInv
  <2>1. Indexes(tables[m], rows[m])
    BY DEF EngineInv, TreesInv
  <2> QED BY <1>1, <1>2, <2>1
<1> QED BY <1>2, <1>4, <1>5

LEMMA BeginInsertKeeps ==
  ASSUME EngineInv, NEW s \in Inserts, BeginInsert(s)
  PROVE  EngineInv'
<1>1. s.table \in Names /\ s.words \in Seq(Seq(WordType)) \ {<<>>}
  BY EngineAssumption
<1>2. stmt' = [NoStmt EXCEPT !.op = "insert", !.table = s.table, !.words = s.words]
  BY DEF BeginInsert
<1>3. stmt'.op = "insert" /\ stmt'.table = s.table /\ stmt'.words = s.words /\ Fielded(stmt')
  BY <1>2 DEF NoStmt, Fielded
<1>4. StmtInv'
  BY <1>1, <1>3 DEF StmtInv, Inserting
<1>5. TablesInv' /\ TreesInv'
  BY DEF EngineInv, TablesInv, TreesInv, BeginInsert
<1> QED BY <1>4, <1>5 DEF EngineInv

LEMMA RestIs ==
  ASSUME StmtInv, stmt.op = "insert"
  PROVE  /\ Inserting(stmt) /\ stmt.words[1] \in Seq(WordType)
         /\ Fielded(Rest) /\ (Rest = NoStmt \/ Inserting(Rest))
<1>1. Inserting(stmt) /\ Fielded(stmt)
  BY NoStmtIs DEF StmtInv, Deleting
<1>2. PICK ws, l, W : ws = stmt.words /\ l = Len(ws) /\ W = Seq(WordType)
  OBVIOUS
<1>3. ws \in Seq(W) /\ ws # <<>>
  BY <1>1, <1>2 DEF Inserting
<1>4. l \in Nat /\ l # 0 /\ \A i \in 1 .. l : ws[i] \in W
  BY <1>2, <1>3, LenProperties, EmptySeq
<1>5. ws[1] \in W
  BY <1>4
<1>6. CASE l = 1
  BY <1>1, <1>2, <1>5, <1>6, NoStmtIs DEF Rest
<1>7. CASE l # 1
  <2>1. Tail(ws) \in Seq(W) /\ Len(Tail(ws)) = l - 1
    BY <1>2, <1>3, HeadTailProperties
  <2>2. Tail(ws) # <<>>
    <3>1. Len(Tail(ws)) # 0
      BY <1>4, <1>7, <2>1
    <3>2. Len(<<>>) = 0
      OBVIOUS
    <3> QED BY <3>1, <3>2
  <2>3. Rest = [stmt EXCEPT !.words = Tail(ws)]
    BY <1>1, <1>2, <1>7 DEF Rest, Fielded
  <2>4. Fielded(Rest) /\ Rest.op = stmt.op /\ Rest.table = stmt.table /\ Rest.words = Tail(ws)
    BY <1>1, <2>3 DEF Fielded
  <2>5. Inserting(Rest)
    BY <1>1, <1>2, <2>1, <2>2, <2>4 DEF Inserting
  <2> QED BY <1>1, <1>2, <1>5, <2>4, <2>5
<1> QED BY <1>6, <1>7

LEMMA InsertRowKeeps ==
  ASSUME EngineInv, InsertRow
  PROVE  EngineInv'
<1>1. PICK n, t, words, row :
        n = stmt.table /\ t = tables[n] /\ words = stmt.words[1] /\ row = coerce(t.columns, words)
  OBVIOUS
<1>2. /\ stmt.op = "insert" /\ Accepted(t, words) /\ stmt' = Rest /\ failed' = failed
      /\ tables' = [tables EXCEPT ![n] = insert(t, row)]
      /\ rows' = [rows EXCEPT ![n] = With(rows[n], Len(t.slots) + 1, row)]
  <2>1. rows' = [rows EXCEPT ![n] = With(@, Len(t.slots) + 1, row)]
    BY <1>1 DEF InsertRow
  <2>2. rows' = [rows EXCEPT ![n] = With(rows[n], Len(t.slots) + 1, row)]
    BY <2>1 DEF EngineInv, TablesInv
  <2> QED BY <1>1, <2>2 DEF InsertRow
<1>3. n \in Names /\ words \in Seq(WordType) /\ Fielded(Rest) /\ (Rest = NoStmt \/ Inserting(Rest))
  BY <1>1, <1>2, RestIs DEF EngineInv, Inserting
<1>4. TableInv(Columns[n], t, rows[n]) /\ t.columns = Columns[n] /\ IsColumns(Columns[n])
  BY <1>1, <1>3 DEF EngineInv, TablesInv, TableInv, TableType
<1>5. IsRow(Columns[n], row)
  <2>1. PICK c, l, m : c = Columns[n] /\ l = Len(c) /\ m = Len(words)
    OBVIOUS
  <2>2. l \in Nat /\ DOMAIN c = 1 .. l /\ \A i \in 1 .. l : c[i].type \in ColumnTypes
    BY <1>4, <2>1 DEF IsColumns
  <2>3. m \in Nat /\ DOMAIN words = 1 .. m /\ \A i \in 1 .. m : words[i] \in WordType
    BY <1>3, <2>1, LenProperties
  <2>4. \A i \in 1 .. m : words[i].text \in Seq(Int) /\ words[i].number \in Int
    BY <2>3 DEF WordType
  <2>5. Serializable(c, coerce(c, words))
    BY <1>1, <1>2, <1>4, <2>1 DEF Accepted
  <2>7. Coercible(c, words)
    BY <1>2, <1>4, <2>1 DEF Accepted
  <2>6. IsRow(c, coerce(c, words))
    <3>1. Typed(c, coerce(c, words))
      BY <2>1, <2>2, <2>3, <2>4, <2>5, Coerced
    <3>2. \A i \in 1 .. l : c[i].type = "INT" => IsInteger(coerce(c, words)[i])
      BY <2>1, <2>2, <2>3, <2>4, <2>5, <2>7, CoercedInts
    <3> QED BY <2>2, <3>1, <3>2 DEF IsRow
  <2> QED BY <1>1, <1>4, <2>1, <2>6
<1>6. PICK u, after : u = insert(t, row) /\ after = With(rows[n], Len(t.slots) + 1, row)
  OBVIOUS
<1>7. /\ TableInv(Columns[n], u, after)
      /\ Indexes(t, rows[n]) => Indexes(u, after)
  BY <1>4, <1>5, <1>6, InsertKeeps
<1>8. TablesInv' /\ TreesInv'
  <2>1. tables' = [tables EXCEPT ![n] = u] /\ rows' = [rows EXCEPT ![n] = after]
    BY <1>2, <1>6
  <2>2. failed' \in BOOLEAN /\ (failed => failed')
    BY <1>2 DEF EngineInv, TreesInv
  <2> QED BY <1>1, <1>3, <1>7, <2>1, <2>2, TableChanges
<1>9. StmtInv'
  BY <1>2, <1>3 DEF StmtInv, Inserting
<1> QED BY <1>8, <1>9 DEF EngineInv

LEMMA InsertRaisesKeeps ==
  ASSUME EngineInv, InsertRaises
  PROVE  EngineInv'
<1>1. TablesInv' /\ TreesInv'
  BY DEF EngineInv, TablesInv, TreesInv, InsertRaises
<1>2. StmtInv'
  BY NoStmtIs DEF InsertRaises, StmtInv
<1> QED BY <1>1, <1>2 DEF EngineInv

(* A scan, with or without an index, finds rows that are there.            *)
LEMMA ScannedAreValid ==
  ASSUME NEW db, NEW n, NEW where
  PROVE  /\ \A row \in _plan_scan(db, Scan(n, where)).rows :
              \E rid \in Valid(db[n]) : row = RowOf(n, rid, get(db[n], rid))
         /\ {row[n].rid : row \in _plan_scan(db, Scan(n, where)).rows} \subseteq Valid(db[n])
<1>1. PICK node, rids : node = Scan(n, where) /\ rids = Candidates(db[n], where)
  OBVIOUS
<1>2. node.table = n /\ node.predicate = where
  BY <1>1 DEF Scan
<1>3. PICK found : found = {row \in RowsAt(db, n, rids) : Satisfies(db, row, where)}
  OBVIOUS
<1>4. \/ _plan_scan(db, node).rows = {}
      \/ rids \subseteq Valid(db[n]) /\ _plan_scan(db, node).rows = found
  <2>1. PICK names, ok, breaks :
          /\ names = {n} /\ ok = Binds(db, names, ColumnsIn(where))
          /\ breaks = (\/ ByText(db[n], where) \/ ~(rids \subseteq Valid(db[n]))
                       \/ rids # {} /\ ~Comparable(db, where))
    OBVIOUS
  <2>2. _plan_scan(db, node) =
          IF ~ok THEN Unopened(names) ELSE IF breaks THEN Breaks(names) ELSE Ends(names, found)
    BY <1>1, <1>2, <1>3, <2>1 DEF _plan_scan
  <2>3. Unopened(names).rows = {} /\ Breaks(names).rows = {} /\ Ends(names, found).rows = found
    BY DEF Unopened, Breaks, Ends
  <2>4. CASE ~ok
    <3>1. _plan_scan(db, node) = Unopened(names)
      BY <2>2, <2>4
    <3> QED BY <2>3, <3>1
  <2>5. CASE ok /\ breaks
    <3>1. _plan_scan(db, node) = Breaks(names)
      BY <2>2, <2>5
    <3> QED BY <2>3, <3>1
  <2>6. CASE ok /\ ~breaks
    BY <2>1, <2>2, <2>3, <2>6
  <2> QED BY <2>4, <2>5, <2>6
<1>5. \A row \in _plan_scan(db, node).rows :
        \E rid \in Valid(db[n]) : row = RowOf(n, rid, get(db[n], rid))
  BY <1>3, <1>4 DEF RowsAt
<1>6. \A rid : RowOf(n, rid, get(db[n], rid))[n].rid = rid
  BY DEF RowOf
<1> QED BY <1>1, <1>5, <1>6

LEMMA BeginDeleteKeeps ==
  ASSUME EngineInv, NEW s \in Deletes, BeginDelete(s)
  PROVE  EngineInv'
<1>1. s.table \in Names
  BY EngineAssumption
<1>0. PICK where : where = Predicate(s.where, s.table)
  OBVIOUS
<1>2. /\ stmt' = [NoStmt EXCEPT !.op = "delete", !.table = s.table, !.where = where,
                                !.rids = RidsOf(s.table, where)]
      /\ tables' = tables
  BY <1>0 DEF BeginDelete
<1>3. /\ stmt'.op = "delete" /\ stmt'.table = s.table /\ stmt'.rids = RidsOf(s.table, where)
      /\ Fielded(stmt')
  BY <1>2 DEF NoStmt, Fielded
<1>4. RidsOf(s.table, where) \subseteq Valid(tables[s.table])
  BY ScannedAreValid DEF RidsOf
<1>5. StmtInv'
  BY <1>1, <1>2, <1>3, <1>4 DEF StmtInv, Deleting
<1>6. TablesInv' /\ TreesInv'
  BY DEF EngineInv, TablesInv, TreesInv, BeginDelete
<1> QED BY <1>5, <1>6 DEF EngineInv

LEMMA DeleteRowKeeps ==
  ASSUME EngineInv, NEW rid, DeleteRow(rid)
  PROVE  EngineInv'
<1>1. PICK n, t : n = stmt.table /\ t = tables[n]
  OBVIOUS
<1>2. /\ stmt.op = "delete" /\ rid \in stmt.rids
      /\ failed' = (failed \/ Raising(t, rid) # {})
      /\ stmt' = NoStmt \/ stmt' = [stmt EXCEPT !.rids = @ \ {rid}]
  BY <1>1 DEF DeleteRow
<1>3. Deleting(stmt, t) /\ Fielded(stmt)
  BY <1>1, <1>2, NoStmtIs DEF EngineInv, StmtInv, Inserting
<1>4. n \in Names /\ rid \in Valid(t) /\ stmt.rids \subseteq Valid(t)
  BY <1>1, <1>2, <1>3 DEF Deleting
<1>5. PICK u, after : u = delete(t, rid) /\ after = [r \in DOMAIN rows[n] \ {rid} |-> rows[n][r]]
  OBVIOUS
<1>6. tables' = [tables EXCEPT ![n] = u] /\ rows' = [rows EXCEPT ![n] = after]
  BY <1>1, <1>4, <1>5 DEF DeleteRow, EngineInv, TablesInv
<1>7. TableInv(Columns[n], t, rows[n])
  BY <1>1, <1>4 DEF EngineInv, TablesInv
<1>8. /\ TableInv(Columns[n], u, after) /\ Valid(u) = Valid(t) \ {rid}
      /\ Indexes(t, rows[n]) /\ Raising(t, rid) = {} => Indexes(u, after)
  BY <1>4, <1>5, <1>7, DeleteKeeps
<1>9. TablesInv' /\ TreesInv' /\ tables'[n] = u
  <2>1. /\ failed' \in BOOLEAN /\ (failed => failed')
        /\ ~failed' /\ Indexes(tables[n], rows[n]) => Indexes(u, after)
    BY <1>1, <1>2, <1>8 DEF EngineInv, TreesInv
  <2> QED BY <1>4, <1>6, <1>8, <2>1, TableChanges
<1>10. StmtInv'
  <2>1. CASE stmt' = NoStmt
    BY <2>1, NoStmtIs DEF StmtInv
  <2>2. CASE stmt' = [stmt EXCEPT !.rids = @ \ {rid}]
    <3>1. /\ Fielded(stmt') /\ stmt'.op = stmt.op /\ stmt'.table = n
          /\ stmt'.rids = stmt.rids \ {rid}
      BY <1>1, <1>3, <2>2 DEF Fielded
    <3>2. stmt'.rids \subseteq Valid(u)
      BY <1>4, <1>8, <3>1
    <3> QED BY <1>2, <1>4, <1>9, <3>1, <3>2 DEF StmtInv, Deleting
  <2> QED BY <1>2, <2>1, <2>2
<1> QED BY <1>9, <1>10 DEF EngineInv

LEMMA CreateIndexKeeps ==
  ASSUME EngineInv, NEW i \in Indexable, CreateIndex(i[1], i[2])
  PROVE  EngineInv'
<1>1. PICK n, col, t : n = i[1] /\ col = i[2] /\ t = tables[n]
  OBVIOUS
<1>2. n \in Names /\ IsIntColumn(Columns[n], col)
  BY <1>1, EngineAssumption DEF IsIntColumn
<1>3. /\ Idle /\ col \notin IndexedColumns(t) /\ UNCHANGED <<stmt, failed, rows>>
      /\ tables' = [tables EXCEPT ![n] = create_index(@, col)]
  BY <1>1 DEF CreateIndex
<1>4. PICK u, kept : u = create_index(t, col) /\ kept = rows[n]
  OBVIOUS
<1>5. tables' = [tables EXCEPT ![n] = u] /\ rows' = [rows EXCEPT ![n] = kept]
  BY <1>1, <1>2, <1>3, <1>4 DEF EngineInv, TablesInv
<1>6. TableInv(Columns[n], t, kept)
  BY <1>1, <1>2, <1>4 DEF EngineInv, TablesInv
<1>7. col \in STRING
  <2>1. PICK c, m, p : c = Columns[n] /\ m = Len(c) /\ p = Position(c, col)
    OBVIOUS
  <2>2. m \in Nat /\ DOMAIN c = 1 .. m /\ \A j \in 1 .. m : c[j] \in ColumnType
    BY <1>2, <2>1, EngineAssumption, LenProperties
  <2>3. \E j \in 1 .. m : c[j].name = col
    BY <1>2, <2>1, <2>2 DEF IsIntColumn, HasColumn
  <2> QED BY <2>2, <2>3 DEF ColumnType
<1>8. /\ TableInv(Columns[n], u, kept) /\ Valid(u) = Valid(t)
      /\ Indexes(t, kept) => Indexes(u, kept)
  BY <1>2, <1>3, <1>4, <1>6, <1>7, CreateKeeps
<1>9. TablesInv' /\ TreesInv'
  <2>1. /\ failed' \in BOOLEAN /\ (failed => failed')
        /\ ~failed' /\ Indexes(tables[n], rows[n]) => Indexes(u, kept)
    BY <1>1, <1>3, <1>4, <1>8 DEF EngineInv, TreesInv
  <2> QED BY <1>2, <1>5, <1>8, <2>1, TableChanges
<1>10. StmtInv'
  BY <1>3, NoStmtIs DEF StmtInv, Idle
<1> QED BY <1>9, <1>10 DEF EngineInv

LEMMA RestartKeeps ==
  ASSUME EngineInv, Restart
  PROVE  EngineInv'
<1>1. /\ Idle /\ ~failed /\ UNCHANGED <<stmt, failed, rows>>
      /\ tables' = [n \in Names |-> Reopened(tables[n])]
  BY DEF Restart
<1>2. ASSUME NEW n \in Names
      PROVE  TableInv(Columns[n], tables'[n], rows'[n]) /\ Indexes(tables'[n], rows'[n])
  <2>1. PICK t, u, kept : t = tables[n] /\ u = Reopened(t) /\ kept = rows[n]
    OBVIOUS
  <2>2. TableInv(Columns[n], t, kept) /\ Indexes(t, kept)
    BY <1>1, <2>1 DEF EngineInv, TablesInv, TreesInv
  <2>3. TableInv(Columns[n], u, kept) /\ Indexes(u, kept)
    BY <2>1, <2>2, ReopenKeeps
  <2> QED BY <1>1, <2>1, <2>3
<1>3. TablesInv'
  <2>1. tables' = [n \in Names |-> tables'[n]] /\ rows' = [n \in Names |-> rows'[n]]
    BY <1>1 DEF EngineInv, TablesInv
  <2> QED BY <1>2, <2>1 DEF TablesInv
<1>4. TreesInv'
  BY <1>1, <1>2 DEF TreesInv, EngineInv
<1>5. StmtInv'
  BY <1>1, NoStmtIs DEF StmtInv, Idle
<1> QED BY <1>3, <1>4, <1>5 DEF EngineInv

LEMMA EngineStep == EngineInv /\ [Next]_vars => EngineInv'
<1> SUFFICES ASSUME EngineInv, [Next]_vars PROVE EngineInv'
  OBVIOUS
<1>1. CASE \E s \in Inserts : BeginInsert(s)
  BY <1>1, BeginInsertKeeps
<1>2. CASE InsertRow
  BY <1>2, InsertRowKeeps
<1>3. CASE InsertRaises
  BY <1>3, InsertRaisesKeeps
<1>4. CASE \E s \in Deletes : BeginDelete(s)
  BY <1>4, BeginDeleteKeeps
<1>5. CASE \E rid \in stmt.rids : DeleteRow(rid)
  BY <1>5, DeleteRowKeeps
<1>6. CASE \E i \in Indexable : CreateIndex(i[1], i[2])
  BY <1>6, CreateIndexKeeps
<1>7. CASE Restart
  BY <1>7, RestartKeeps
<1>8. CASE UNCHANGED vars
  BY <1>8 DEF vars, EngineInv, TablesInv, TreesInv, StmtInv
<1> QED BY <1>1, <1>2, <1>3, <1>4, <1>5, <1>6, <1>7, <1>8 DEF Next

THEOREM EngineInvariant == Spec => []EngineInv
<1>1. Init => EngineInv
  BY EngineInitial
<1>2. EngineInv /\ [Next]_vars => EngineInv'
  BY EngineStep
<1> QED BY <1>1, <1>2, PTL DEF Spec

(* The type of the state; a DELETE that is in progress names rows that are *)
(* there (stmt, Table.delete).                                             *)
THEOREM TypeCorrect == Spec => []TypeOK
<1>1. ASSUME EngineInv PROVE TypeOK
  <2>1. DOMAIN tables = Names /\ failed \in BOOLEAN
    BY <1>1 DEF EngineInv, TablesInv, TreesInv
  <2>2. ASSUME NEW n \in Names
        PROVE  /\ tables[n].columns = Columns[n]
               /\ \A i, j \in DOMAIN tables[n].indices :
                    tables[n].indices[i].col = tables[n].indices[j].col => i = j
               /\ \A i \in DOMAIN tables[n].indices : tables[n].indices[i].stored_keys \in Nat
               /\ DOMAIN rows[n] \subseteq DOMAIN tables[n].slots
    <3>1. PICK t, kept : t = tables[n] /\ kept = rows[n]
      OBVIOUS
    <3>2. /\ t \in TableType(Columns[n]) /\ OneTreeEach(t) /\ Stores(t, kept)
          /\ t.indices \in Seq(IndexType) /\ t.columns = Columns[n]
      BY <1>1, <3>1 DEF EngineInv, TablesInv, TableInv, TableType
    <3>3. \A i \in DOMAIN t.indices : t.indices[i] \in IndexType
      BY <3>2, LenProperties
    <3>4. \A i \in DOMAIN t.indices : t.indices[i].stored_keys \in Nat
      BY <3>3 DEF IndexType
    <3>5. DOMAIN kept = Valid(t) /\ Valid(t) \subseteq DOMAIN t.slots
      BY <3>2 DEF Stores, Valid
    <3> QED BY <3>1, <3>2, <3>4, <3>5 DEF OneTreeEach
  <2>3. stmt.op = "delete" => stmt.rids \subseteq Valid(tables[stmt.table])
    BY <1>1, NoStmtIs DEF EngineInv, StmtInv, Inserting, Deleting
  <2> QED BY <2>1, <2>2, <2>3 DEF TypeOK
<1> QED BY <1>1, EngineInvariant, PTL

(* What a scan returns is what was inserted and not deleted, for all       *)
(* columns and rows (serialize, deserialize, insert, delete).              *)
THEOREM RowsKept == Spec => []RowsAreExact
<1>1. ASSUME EngineInv PROVE RowsAreExact
  <2> SUFFICES ASSUME NEW n \in Names PROVE scan(tables[n]) = rows[n]
    BY DEF RowsAreExact
  <2>1. TableInv(Columns[n], tables[n], rows[n])
    BY <1>1 DEF EngineInv, TablesInv
  <2> QED BY <2>1, ScanIs
<1> QED BY <1>1, EngineInvariant, PTL

(* Indexes have an entry for each row and no other, until a delete raises  *)
(* (Table.insert, Table.delete, Catalog.create_index, Catalog.load).       *)
THEOREM IndexesKept == Spec => []IndexesAgree
<1>1. ASSUME EngineInv PROVE IndexesAgree
  <2> SUFFICES ASSUME ~failed, NEW n \in Names, NEW index \in ToSet(tables[n].indices)
               PROVE  index.entries = {<<Value(tables[n], rows[n][rid], index.col), rid>> :
                                         rid \in DOMAIN rows[n]}
    BY DEF IndexesAgree
  <2>1. PICK t, kept : t = tables[n] /\ kept = rows[n]
    OBVIOUS
  <2>2. Indexes(t, kept) /\ DOMAIN kept = Valid(t)
    BY <1>1, <2>1 DEF EngineInv, TreesInv, TablesInv, TableInv, Stores
  <2>3. PICK i \in DOMAIN t.indices : index = t.indices[i]
    BY <2>1 DEF ToSet
  <2>4. index.entries = EntriesFor(t, kept, index.col)
    BY <2>2, <2>3 DEF Indexes
  <2> QED BY <2>1, <2>2, <2>4 DEF EntriesFor
<1> QED BY <1>1, EngineInvariant, PTL

(***************************************************************************)
(* What an index yields to a scan: every row that satisfies the predicate, *)
(* when what narrows the range has its column on the left and an integer   *)
(* on the right.                                                           *)
(***************************************************************************)
Compared(key, op, value) ==
  CASE op = "="  -> key = value
    [] op = "<"  -> key < value
    [] op = "<=" -> key < value \/ key = value
    [] op = ">"  -> value < key
    [] op = ">=" -> value < key \/ key = value
Bound == {S \in SUBSET Int : S = {} \/ \E x \in Int : S = {x}}
Bounds == [start : Bound, end : Bound]

LEMMA Extremes ==
  ASSUME NEW S \in Bound, NEW a \in Int
  PROVE  /\ Max(S \cup {a}) \in S \cup {a} /\ \A x \in S \cup {a} : Max(S \cup {a}) >= x
         /\ Min(S \cup {a}) \in S \cup {a} /\ \A x \in S \cup {a} : Min(S \cup {a}) <= x
<1>1. PICK U : U = S \cup {a}
  OBVIOUS
<1>2. (\E x \in U : \A y \in U : x >= y) /\ (\E x \in U : \A y \in U : x <= y)
  <2>1. CASE S = {}
    BY <1>1, <2>1
  <2>2. CASE S # {}
    <3>1. PICK b \in Int : S = {b}
      BY <2>2 DEF Bound
    <3>2. U = {b, a}
      BY <1>1, <3>1
    <3>3. CASE a <= b
      BY <3>1, <3>2, <3>3
    <3>4. CASE b <= a
      BY <3>1, <3>2, <3>4
    <3> QED BY <3>1, <3>3, <3>4
  <2> QED BY <2>1, <2>2
<1>3. Max(U) \in U /\ \A y \in U : Max(U) >= y
  BY <1>2 DEF Max
<1>4. Min(U) \in U /\ \A y \in U : Min(U) <= y
  BY <1>2 DEF Min
<1> QED BY <1>1, <1>3, <1>4

LEMMA NextInteger ==
  ASSUME NEW a \in Int, NEW b \in Int, IsInteger(a), IsInteger(b), a < b
  PROVE  a + Unit <= b /\ a <= b - Unit
BY DEF IsInteger, Unit

LEMMA BoundIs ==
  ASSUME NEW S \in Bound, NEW a \in Int
  PROVE  Raise(S, a) \in Bound /\ Lower(S, a) \in Bound /\ {a} \in Bound
<1>1. PICK U : U = S \cup {a}
  OBVIOUS
<1>2. U \subseteq Int
  BY <1>1 DEF Bound
<1>3. Max(U) \in Int /\ Min(U) \in Int
  BY <1>1, <1>2, Extremes
<1> QED BY <1>1, <1>3 DEF Raise, Lower, Bound

LEMMA Tightened ==
  ASSUME NEW b \in Bounds, NEW op \in Operators, NEW value \in Int
  PROVE  _tighten_bounds(b, op, value) \in Bounds
<1>1. b.start \in Bound /\ b.end \in Bound /\ value + Unit \in Int /\ value - Unit \in Int
  BY DEF Bounds, Unit
<1>2. /\ Raise(b.start, value) \in Bound /\ Raise(b.start, value + Unit) \in Bound
      /\ Lower(b.end, value) \in Bound /\ Lower(b.end, value - Unit) \in Bound
      /\ {value} \in Bound
  BY <1>1, BoundIs
<1> QED BY <1>2 DEF _tighten_bounds, Operators, Bounds

LEMMA TightenedHolds ==
  ASSUME NEW b \in Bounds, NEW op \in Operators, NEW value \in Int, NEW key \in Int,
         IsInteger(key), IsInteger(value), InRange(key, b.start, b.end),
         Compared(key, op, value), NEW r, r = _tighten_bounds(b, op, value)
  PROVE  InRange(key, r.start, r.end)
<1>1. b.start \in Bound /\ b.end \in Bound /\ value + Unit \in Int /\ value - Unit \in Int
  BY DEF Bounds, Unit
<1>2. ASSUME NEW a \in Int, a <= key PROVE \A s \in Raise(b.start, a) : s <= key
  <2>1. PICK m : m = Max(b.start \cup {a})
    OBVIOUS
  <2>2. m \in b.start \cup {a}
    BY <1>1, <2>1, Extremes
  <2>3. m <= key
    BY <1>2, <2>2 DEF InRange
  <2> QED BY <2>1, <2>3 DEF Raise
<1>3. ASSUME NEW a \in Int, key <= a PROVE \A e \in Lower(b.end, a) : key <= e
  <2>1. PICK m : m = Min(b.end \cup {a})
    OBVIOUS
  <2>2. m \in b.end \cup {a}
    BY <1>1, <2>1, Extremes
  <2>3. key <= m
    BY <1>3, <2>2 DEF InRange
  <2> QED BY <2>1, <2>3 DEF Lower
<1>4. CASE op = "="
  BY <1>4 DEF _tighten_bounds, Compared, InRange
<1>5. CASE op = ">"
  <2>1. r = [b EXCEPT !.start = Raise(b.start, value + Unit)]
    BY <1>5 DEF _tighten_bounds, Bounds
  <2>2. value + Unit <= key
    BY <1>5, NextInteger DEF Compared
  <2>3. r.start = Raise(b.start, value + Unit) /\ r.end = b.end
    BY <2>1 DEF Bounds
  <2> QED BY <1>1, <1>2, <2>2, <2>3 DEF InRange
<1>6. CASE op = ">="
  <2>1. r = [b EXCEPT !.start = Raise(b.start, value)]
    BY <1>6 DEF _tighten_bounds, Bounds
  <2>2. value <= key
    BY <1>6 DEF Compared
  <2>3. r.start = Raise(b.start, value) /\ r.end = b.end
    BY <2>1 DEF Bounds
  <2> QED BY <1>1, <1>2, <2>2, <2>3 DEF InRange
<1>7. CASE op = "<"
  <2>1. r = [b EXCEPT !.end = Lower(b.end, value - Unit)]
    BY <1>7 DEF _tighten_bounds, Bounds
  <2>2. key <= value - Unit
    BY <1>7, NextInteger DEF Compared
  <2>3. r.end = Lower(b.end, value - Unit) /\ r.start = b.start
    BY <2>1 DEF Bounds
  <2> QED BY <1>1, <1>3, <2>2, <2>3 DEF InRange
<1>8. CASE op = "<="
  <2>1. r = [b EXCEPT !.end = Lower(b.end, value)]
    BY <1>8 DEF _tighten_bounds, Bounds
  <2>2. key <= value
    BY <1>8 DEF Compared
  <2>3. r.end = Lower(b.end, value) /\ r.start = b.start
    BY <2>1 DEF Bounds
  <2> QED BY <1>1, <1>3, <2>2, <2>3 DEF InRange
<1> QED BY <1>4, <1>5, <1>6, <1>7, <1>8 DEF Operators

(* A conjunct that narrows the range: column, operator, integer.           *)
Narrows(conjunct) ==
  LET c == The(conjunct)
  IN  /\ IsComparison(conjunct) /\ c.left.kind = "column" /\ c.right.kind = "number"
      /\ KeyColumn(conjunct) = c.left.col /\ KeyLiteral(conjunct) = c.right
      /\ c.op \in Operators /\ c.right.number \in Int /\ IsInteger(c.right.number)

(* The comparison of a conjunct that is one, and its place in it.          *)
LEMMA TheIs ==
  ASSUME NEW conjunct \in ConjunctType, IsComparison(conjunct)
  PROVE  /\ The(conjunct) \in ComparisonType
         /\ ComparisonsOf(conjunct) = {The(conjunct)}
         /\ \A both \in ToSet(conjunct) : The(conjunct) \in ToSet(both)
         /\ \E both \in ToSet(conjunct) : TRUE
<1>1. PICK both, c : both = conjunct[1] /\ c = both[1]
  OBVIOUS
<1>2. DOMAIN conjunct = 1 .. 1 /\ both \in Seq(ComparisonType)
  BY <1>1, LenProperties DEF IsComparison, ConjunctType
<1>3. DOMAIN both = 1 .. 1 /\ c \in ComparisonType
  BY <1>1, <1>2, LenProperties DEF IsComparison
<1>4. \A i \in 1 .. 1 : i = 1
  OBVIOUS
<1>5. ToSet(conjunct) = {both}
  BY <1>1, <1>2, <1>4 DEF ToSet
<1>6. ToSet(both) = {c}
  BY <1>1, <1>3, <1>4 DEF ToSet
<1>7. ComparisonsOf(conjunct) = {c}
  BY <1>5, <1>6 DEF ComparisonsOf
<1>8. The(conjunct) = c
  BY <1>1 DEF The
<1> QED BY <1>3, <1>5, <1>6, <1>7, <1>8

LEMMA LookupNarrows ==
  ASSUME NEW t, NEW conjunct \in ConjunctType,
         LooksUp(t, conjunct), LookupIsSound(t, conjunct)
  PROVE  Narrows(conjunct) /\ KeyColumn(conjunct) \in IndexedColumns(t)
<1>1. PICK c, l : c = The(conjunct) /\ l = KeyLiteral(conjunct)
  OBVIOUS
<1>2. /\ IsComparison(conjunct) /\ c.left.kind = "column" /\ l.kind = "number"
      /\ IsInteger(l.number)
  BY <1>1 DEF LooksUp, LookupIsSound
<1>3. PICK o \in ColumnSide(c) : o.col \in IndexedColumns(t)
  BY <1>1 DEF LooksUp
<1>4. ~IsLiteral(c.left)
  BY <1>2 DEF IsLiteral
<1>5. IsLiteral(c.right) /\ ColumnSide(c) = {c.left}
  BY <1>2, <1>3, <1>4 DEF ColumnSide
<1>6. KeyColumn(conjunct) = c.left.col
  <2>1. (CHOOSE x \in {c.left} : TRUE) = c.left
    OBVIOUS
  <2> QED BY <1>1, <1>5, <2>1 DEF KeyColumn
<1>7. l = c.right
  BY <1>1, <1>4 DEF KeyLiteral, LiteralSide
<1>8. c \in ComparisonType
  BY <1>1, <1>2, TheIs
<1>9. c.op \in Operators /\ c.right \in OperandType
  BY <1>8 DEF ComparisonType
<1>10. c.right.number \in Int
  BY <1>2, <1>7, <1>9 DEF OperandType, ColumnRefType, LiteralType
<1> QED BY <1>1, <1>2, <1>3, <1>5, <1>6, <1>7, <1>9, <1>10 DEF Narrows

(* Every key that agrees with what narrows the range is in it.             *)
LEMMA BoundsHold ==
  ASSUME NEW t, NEW predicate, NEW n \in Nat, n = Len(predicate), DOMAIN predicate = 1 .. n,
         \A i \in Narrowing(t, predicate) : Narrows(predicate[i]),
         NEW key \in Int, IsInteger(key),
         \A i \in Narrowing(t, predicate) :
           Compared(key, The(predicate[i]).op, The(predicate[i]).right.number)
  PROVE  InRange(key, BoundsFrom(t, predicate).start, BoundsFrom(t, predicate).end)
<1> DEFINE open == [start |-> {}, end |-> {}]
           next(i, b) == IF i \in Narrowing(t, predicate)
                         THEN _tighten_bounds(b, The(predicate[i]).op,
                                              KeyLiteral(predicate[i]).number)
                         ELSE b
           step == [x \in (1 .. n) \X Bounds |-> next(x[1], x[2])]
           IsUpto(u) == u = [i \in 0 .. n |-> IF i = 0 THEN open
                               ELSE IF i \in Narrowing(t, predicate)
                               THEN _tighten_bounds(u[i - 1], The(predicate[i]).op,
                                                    KeyLiteral(predicate[i]).number)
                               ELSE u[i - 1]]
<1>1. open \in Bounds /\ InRange(key, open.start, open.end)
  <2>1. {} \in Bound
    BY DEF Bound
  <2> QED BY <2>1 DEF Bounds, InRange
<1>2. ASSUME NEW i \in 1 .. n, NEW b \in Bounds PROVE next(i, b) \in Bounds
  <2>1. CASE i \in Narrowing(t, predicate)
    BY <2>1, Tightened DEF Narrows
  <2> QED BY <2>1
<1>3. ASSUME NEW i \in 1 .. n, NEW b \in Bounds, InRange(key, b.start, b.end)
      PROVE  InRange(key, next(i, b).start, next(i, b).end)
  <2>1. CASE i \in Narrowing(t, predicate)
    <3>1. PICK c, r, v : /\ c = The(predicate[i]) /\ v = KeyLiteral(predicate[i]).number
                         /\ r = next(i, b)
      OBVIOUS
    <3>2. /\ c.op \in Operators /\ v \in Int /\ IsInteger(v) /\ Compared(key, c.op, v)
          /\ r = _tighten_bounds(b, c.op, v)
      BY <2>1, <3>1 DEF Narrows
    <3>3. InRange(key, r.start, r.end)
      BY <1>3, <3>2, TightenedHolds
    <3> QED BY <3>1, <3>3
  <2>2. CASE i \notin Narrowing(t, predicate)
    BY <1>3, <2>2
  <2> QED BY <2>1, <2>2
<1>4. \A i \in 1 .. n : \A b \in Bounds : step[<<i, b>>] = next(i, b)
  OBVIOUS
<1>5. PICK u : Iterates(u, n, Bounds, open, step)
  <2>1. \A i \in 1 .. n : \A b \in Bounds : step[<<i, b>>] \in Bounds
    BY <1>2, <1>4
  <2> HIDE DEF open, step, next
  <2> QED BY <1>1, <2>1, Iterated
<1> HIDE DEF step
<1>6. u \in [0 .. n -> Bounds] /\ u[0] = open /\ \A i \in 1 .. n : u[i] = next(i, u[i - 1])
  <2>1. u \in [0 .. n -> Bounds] /\ u[0] = open /\ \A i \in 1 .. n : u[i] = step[<<i, u[i - 1]>>]
    BY <1>5 DEF Iterates
  <2>2. \A i \in 1 .. n : i - 1 \in 0 .. n
    OBVIOUS
  <2> HIDE DEF open, next
  <2> QED BY <1>4, <2>1, <2>2
<1>7. IsUpto(u)
  <2>1. \A i \in 0 .. n : i # 0 => i \in 1 .. n
    OBVIOUS
  <2>2. \A i \in 0 .. n : u[i] = IF i = 0 THEN open ELSE next(i, u[i - 1])
    <3> HIDE DEF open, next
    <3> QED BY <1>6, <2>1
  <2>3. u = [i \in 0 .. n |-> u[i]]
    BY <1>6
  <2> HIDE DEF open
  <2> QED BY <2>2, <2>3
<1>8. PICK w : w = (CHOOSE x : IsUpto(x))
  OBVIOUS
<1>9. IsUpto(w) /\ BoundsFrom(t, predicate) = w[n]
  <2>1. IsUpto(w)
    BY <1>7, <1>8
  <2>2. BoundsFrom(t, predicate) = w[n]
    BY <1>8 DEF BoundsFrom
  <2> QED BY <2>1, <2>2
<1>10. w[0] = open /\ \A i \in 1 .. n : w[i] = next(i, w[i - 1])
  <2>1. 0 \in 0 .. n /\ \A i \in 1 .. n : i \in 0 .. n /\ i # 0
    OBVIOUS
  <2> HIDE DEF open
  <2> QED BY <1>9, <2>1
<1> HIDE DEF open, next, IsUpto
<1> DEFINE Fits(b) == b \in Bounds /\ InRange(key, b.start, b.end)
           good == {i \in Nat : i <= n => Fits(w[i])}
<1>11. 0 \in good
  BY <1>1, <1>10
<1>12. ASSUME NEW i \in Nat, i \in good PROVE i + 1 \in good
  <2> SUFFICES ASSUME i + 1 <= n PROVE Fits(w[i + 1])
    OBVIOUS
  <2>1. i + 1 \in 1 .. n /\ (i + 1) - 1 = i /\ i <= n
    OBVIOUS
  <2>2. Fits(w[i])
    BY <1>12, <2>1
  <2>3. w[i + 1] = next(i + 1, w[i])
    BY <1>10, <2>1
  <2> QED BY <1>2, <1>3, <2>1, <2>2, <2>3
<1>13. n \in good
  <2> HIDE DEF good
  <2> QED BY <1>11, <1>12, Upward
<1> QED BY <1>9, <1>13

LEMMA IndexOnIs ==
  ASSUME NEW t, NEW col \in IndexedColumns(t)
  PROVE  \E i \in DOMAIN t.indices : IndexOn(t, col) = t.indices[i] /\ t.indices[i].col = col
<1>1. PICK index : index = IndexOn(t, col)
  OBVIOUS
<1>2. \E x \in ToSet(t.indices) : x.col = col
  BY DEF IndexedColumns, ToSet
<1>3. index \in ToSet(t.indices) /\ index.col = col
  BY <1>1, <1>2 DEF IndexOn
<1> QED BY <1>1, <1>3 DEF ToSet

LEMMA FirstUsable ==
  ASSUME NEW t, NEW predicate, NEW n \in Nat, DOMAIN predicate = 1 .. n,
         Usable(t, predicate) # {}
  PROVE  Min(Usable(t, predicate)) \in Usable(t, predicate)
<1>1. PICK S : S = Usable(t, predicate)
  OBVIOUS
<1>2. S \in SUBSET Nat /\ S # {}
  BY <1>1 DEF Usable
<1>3. \E x \in S : \A y \in S : x <= y
  BY <1>2, Smallest
<1>4. Min(S) \in S
  BY <1>3 DEF Min
<1> QED BY <1>1, <1>4

(* A comparison with a literal, on a row of table n alone.                 *)
LEMMA LiteralHolds ==
  ASSUME NEW db, NEW n, NEW rid, NEW values,
         NEW conjunct \in ConjunctType, Narrows(conjunct), The(conjunct).left.table = n,
         TrueOf(db, RowOf(n, rid, values), conjunct)
  PROVE  Compared(Value(db[n], values, KeyColumn(conjunct)),
                  The(conjunct).op, The(conjunct).right.number)
<1>1. PICK c, row : c = The(conjunct) /\ row = RowOf(n, rid, values)
  OBVIOUS
<1>2. Holds(db, row, c)
  <2>1. IsComparison(conjunct)
    BY DEF Narrows
  <2>2. \A both \in ToSet(conjunct) : c \in ToSet(both)
    BY <1>1, <2>1, TheIs
  <2> QED BY <1>1, <2>2 DEF TrueOf
<1>3. /\ c.left.kind = "column" /\ c.right.kind = "number" /\ KeyColumn(conjunct) = c.left.col
      /\ c.op \in Operators /\ c.left.table = n
  BY <1>1 DEF Narrows
<1>4. PICK l, r : l = Evaluate(db, row, c.left) /\ r = Evaluate(db, row, c.right)
  OBVIOUS
<1>5. r = c.right.number
  BY <1>3, <1>4 DEF Evaluate
<1>6. l = Value(db[n], values, c.left.col)
  <2>1. row[n].values = values
    BY <1>1 DEF RowOf
  <2>2. c.left.kind # "number" /\ c.left.kind # "text"
    BY <1>3
  <2> QED BY <1>3, <1>4, <2>1, <2>2 DEF Evaluate
<1>7. ~IsText(db, c.left)
  <2>1. ~IsText(db, c.right)
    BY <1>3 DEF IsText
  <2> QED BY <1>2, <2>1 DEF Holds, Alike
<1>8. Compared(l, c.op, r)
  <2>1. CASE c.op = "="
    BY <1>2, <1>4, <1>7, <2>1 DEF Holds, Compared
  <2>2. CASE c.op = "<"
    BY <1>2, <1>4, <1>7, <2>2 DEF Holds, Compared
  <2>3. CASE c.op = "<="
    BY <1>2, <1>4, <1>7, <2>3 DEF Holds, Compared
  <2>4. CASE c.op = ">"
    BY <1>2, <1>4, <1>7, <2>4 DEF Holds, Compared
  <2>5. CASE c.op = ">="
    BY <1>2, <1>4, <1>7, <2>5 DEF Holds, Compared
  <2> QED BY <1>3, <2>1, <2>2, <2>3, <2>4, <2>5 DEF Operators
<1> QED BY <1>1, <1>3, <1>5, <1>6, <1>8

(* A scan that can use an index yields what one without it yields.         *)
LEMMA CandidatesAre ==
  ASSUME NEW db, NEW n, NEW columns, NEW kept, TableInv(columns, db[n], kept),
         Indexes(db[n], kept),
         NEW predicate \in PredicateType, Binds(db, {n}, ColumnsIn(predicate)),
         \A i \in DOMAIN predicate : LookupIsSound(db[n], predicate[i])
  PROVE  /\ Candidates(db[n], predicate) \subseteq Valid(db[n])
         /\ \A rid \in Valid(db[n]) :
              Satisfies(db, RowOf(n, rid, kept[rid]), predicate) =>
                rid \in Candidates(db[n], predicate)
<1>1. PICK t, m : t = db[n] /\ m = Len(predicate)
  OBVIOUS
<1>2. /\ m \in Nat /\ DOMAIN predicate = 1 .. m
      /\ \A i \in 1 .. m : predicate[i] \in ConjunctType
  BY <1>1, LenProperties DEF PredicateType
<1>3. CASE Usable(t, predicate) = {}
  BY <1>1, <1>3 DEF Candidates
<1>4. CASE Usable(t, predicate) # {}
  <2>1. \A i \in Usable(t, predicate) :
          /\ i \in 1 .. m /\ Narrows(predicate[i])
          /\ KeyColumn(predicate[i]) \in IndexedColumns(t)
    <3> TAKE i \in Usable(t, predicate)
    <3>1. i \in 1 .. m /\ LooksUp(t, predicate[i]) /\ LookupIsSound(t, predicate[i])
      BY <1>1, <1>2 DEF Usable
    <3> QED BY <1>2, <3>1, LookupNarrows
  <2>2. PICK col, b : col = IndexColumn(t, predicate) /\ b = BoundsFrom(t, predicate)
    OBVIOUS
  <2>3. col \in IndexedColumns(t)
    BY <1>2, <1>4, <2>1, <2>2, FirstUsable DEF IndexColumn
  <2>4. PICK j \in DOMAIN t.indices : IndexOn(t, col) = t.indices[j] /\ t.indices[j].col = col
    BY <2>3, IndexOnIs
  <2>5. t.indices[j].entries = {<<Value(t, kept[rid], col), rid>> : rid \in Valid(t)}
    BY <1>1, <2>4 DEF Indexes, EntriesFor
  <2>6. Candidates(t, predicate) = range_scan(t.indices[j], b.start, b.end)
    BY <1>4, <2>2, <2>4 DEF Candidates
  <2>7. Candidates(t, predicate) =
          {rid \in Valid(t) : InRange(Value(t, kept[rid], col), b.start, b.end)}
    <3>1. PICK E, rs : /\ E = t.indices[j].entries
                       /\ rs = {e[2] : e \in {f \in E : InRange(f[1], b.start, b.end)}}
      OBVIOUS
    <3>2. Candidates(t, predicate) = rs
      BY <2>6, <3>1 DEF range_scan
    <3>3. \A rid \in Valid(t) : <<Value(t, kept[rid], col), rid>> \in E
      BY <2>5, <3>1
    <3>4. \A e \in E : \E rid \in Valid(t) : e[1] = Value(t, kept[rid], col) /\ e[2] = rid
      BY <2>5, <3>1
    <3>5. ASSUME NEW rid \in rs
          PROVE  rid \in Valid(t) /\ InRange(Value(t, kept[rid], col), b.start, b.end)
      BY <3>1, <3>4
    <3>6. ASSUME NEW rid \in Valid(t), InRange(Value(t, kept[rid], col), b.start, b.end)
          PROVE  rid \in rs
      <4>1. PICK e : e = <<Value(t, kept[rid], col), rid>>
        OBVIOUS
      <4>2. e \in E /\ e[1] = Value(t, kept[rid], col) /\ e[2] = rid
        BY <3>3, <4>1
      <4> QED BY <3>1, <3>6, <4>2
    <3> QED BY <3>2, <3>5, <3>6
  <2>8. ASSUME NEW rid \in Valid(t), Satisfies(db, RowOf(n, rid, kept[rid]), predicate)
        PROVE  InRange(Value(t, kept[rid], col), b.start, b.end)
    <3>1. PICK key, row : key = Value(t, kept[rid], col) /\ row = kept[rid]
      OBVIOUS
    <3>2. key \in Int /\ IsInteger(key)
      <4>1. t.columns = columns /\ IsColumns(columns) /\ IsRow(columns, row)
        BY <1>1, <3>1 DEF TableInv, TableType, Stores
      <4>2. IsIntColumn(columns, col)
        BY <1>1, <2>4, <4>1 DEF TableInv, OneTreeEach
      <4> QED BY <3>1, <4>1, <4>2, ValueIs
    <3>3. ASSUME NEW i \in Narrowing(t, predicate)
          PROVE  /\ Narrows(predicate[i])
                 /\ Compared(key, The(predicate[i]).op, The(predicate[i]).right.number)
      <4>1. i \in 1 .. m /\ Narrows(predicate[i]) /\ KeyColumn(predicate[i]) = col
        BY <2>1, <2>2 DEF Narrowing
      <4>2. PICK conjunct, c : conjunct = predicate[i] /\ c = The(conjunct)
        OBVIOUS
      <4>3. conjunct \in ConjunctType /\ Narrows(conjunct) /\ KeyColumn(conjunct) = col
        BY <1>2, <4>1, <4>2
      <4>4. TrueOf(db, RowOf(n, rid, row), conjunct)
        BY <1>2, <2>8, <3>1, <4>1, <4>2 DEF Satisfies
      <4>5. c.left.table = n
        <5>1. IsComparison(conjunct) /\ c.left.kind = "column"
          BY <4>2, <4>3 DEF Narrows
        <5>3. c \in ComparisonsOf(conjunct)
          BY <4>2, <4>3, <5>1, TheIs
        <5>4. c.left \in ColumnsOf(conjunct)
          BY <5>1, <5>3 DEF ColumnsOf, Operands
        <5>5. conjunct \in ToSet(predicate)
          BY <1>2, <4>1, <4>2 DEF ToSet
        <5>6. c.left \in ColumnsIn(predicate)
          BY <5>4, <5>5 DEF ColumnsIn
        <5> QED BY <5>6 DEF Binds
      <4>6. Compared(Value(db[n], row, KeyColumn(conjunct)), c.op, c.right.number)
        BY <4>2, <4>3, <4>4, <4>5, LiteralHolds
      <4>7. Compared(key, c.op, c.right.number)
        BY <1>1, <3>1, <4>3, <4>6
      <4> QED BY <4>1, <4>2, <4>7
    <3>4. InRange(key, BoundsFrom(t, predicate).start, BoundsFrom(t, predicate).end)
      BY <1>1, <1>2, <3>2, <3>3, BoundsHold
    <3> QED BY <2>2, <3>1, <3>4
  <2> QED BY <1>1, <2>7, <2>8
<1> QED BY <1>3, <1>4

(* The result of a scan, whichever way it reads the table.                 *)
RowsFor(db, n, kept, predicate) ==
  {row \in {RowOf(n, rid, kept[rid]) : rid \in Valid(db[n])} : Satisfies(db, row, predicate)}

LEMMA NotByText ==
  ASSUME NEW t, NEW predicate, \A i \in DOMAIN predicate : LookupIsSound(t, predicate[i])
  PROVE  ~ByText(t, predicate)
<1>1. ASSUME NEW i \in Narrowing(t, predicate) PROVE KeyLiteral(predicate[i]).kind = "number"
  <2>1. i \in DOMAIN predicate /\ LooksUp(t, predicate[i])
    BY DEF Narrowing, Usable
  <2> QED BY <2>1 DEF LookupIsSound
<1> QED BY <1>1 DEF ByText

LEMMA ScanReturns ==
  ASSUME NEW db, NEW n, NEW columns, NEW kept, TableInv(columns, db[n], kept),
         Indexes(db[n], kept),
         NEW predicate \in PredicateType, Binds(db, {n}, ColumnsIn(predicate)),
         Comparable(db, predicate),
         \A i \in DOMAIN predicate : LookupIsSound(db[n], predicate[i])
  PROVE  _plan_scan(db, Scan(n, predicate)) = Ends({n}, RowsFor(db, n, kept, predicate))
<1>1. PICK t, rids : t = db[n] /\ rids = Candidates(t, predicate)
  OBVIOUS
<1>2. /\ rids \subseteq Valid(t)
      /\ \A rid \in Valid(t) : Satisfies(db, RowOf(n, rid, kept[rid]), predicate) => rid \in rids
  BY <1>1, CandidatesAre
<1>3. \A rid \in Valid(t) : get(t, rid) = kept[rid]
  BY <1>1, ScanIs
<1>4. PICK found : found = {row \in RowsAt(db, n, rids) : Satisfies(db, row, predicate)}
  OBVIOUS
<1>5. Scan(n, predicate).table = n /\ Scan(n, predicate).predicate = predicate
  BY DEF Scan
<1>6. _plan_scan(db, Scan(n, predicate)) = Ends({n}, found)
  <2>1. ~ByText(t, predicate)
    BY <1>1, NotByText
  <2> QED BY <1>1, <1>2, <1>4, <1>5, <2>1 DEF _plan_scan
<1>7. RowsAt(db, n, rids) = {RowOf(n, rid, kept[rid]) : rid \in rids}
  BY <1>1, <1>2, <1>3 DEF RowsAt
<1>8. found = {row \in {RowOf(n, rid, kept[rid]) : rid \in Valid(t)} :
                 Satisfies(db, row, predicate)}
  BY <1>2, <1>4, <1>7
<1>9. found = RowsFor(db, n, kept, predicate)
  BY <1>1, <1>8 DEF RowsFor
<1> QED BY <1>6, <1>9

(***************************************************************************)
(* DELETE.  The rids still to be deleted are those of all rows left that   *)
(* satisfy the predicate.                                                  *)
(***************************************************************************)
(* A predicate on rows of one table looks at their values only.            *)
LEMMA SatisfiesByValues ==
  ASSUME NEW db, NEW other, NEW n, db[n].columns = other[n].columns,
         NEW predicate \in PredicateType, Binds(db, {n}, ColumnsIn(predicate)),
         NEW rid, NEW id, NEW values
  PROVE  Satisfies(db, RowOf(n, rid, values), predicate)
           <=> Satisfies(other, RowOf(n, id, values), predicate)
<1>1. PICK row, same : row = RowOf(n, rid, values) /\ same = RowOf(n, id, values)
  OBVIOUS
<1>2. row[n].values = values /\ same[n].values = values
  BY <1>1 DEF RowOf
<1>3. ASSUME NEW o \in OperandType, o.kind = "column" => o.table = n
      PROVE  Evaluate(db, row, o) = Evaluate(other, same, o) /\ (IsText(db, o) <=> IsText(other, o))
  <2>1. CASE o.kind # "column"
    <3>1. o.kind = "number" \/ o.kind = "text"
      BY <2>1 DEF OperandType, ColumnRefType, LiteralType
    <3> QED BY <2>1, <3>1 DEF Evaluate, IsText
  <2>2. CASE o.kind = "column"
    <3>1. o.table = n /\ o.kind # "number" /\ o.kind # "text"
      BY <1>3, <2>2
    <3>2. Evaluate(db, row, o) = Value(db[n], values, o.col)
      BY <1>2, <3>1 DEF Evaluate
    <3>3. Evaluate(other, same, o) = Value(other[n], values, o.col)
      BY <1>2, <3>1 DEF Evaluate
    <3>4. (IsText(db, o) <=> IsText(other, o))
      BY <2>2, <3>1 DEF IsText
    <3> QED BY <3>2, <3>3, <3>4 DEF Value
  <2> QED BY <2>1, <2>2
<1>4. ASSUME NEW i \in DOMAIN predicate, NEW both \in ToSet(predicate[i]), NEW c \in ToSet(both)
      PROVE  Holds(db, row, c) <=> Holds(other, same, c)
  <2>1. c \in ComparisonType
    <3>1. predicate[i] \in Seq(Seq(ComparisonType))
      BY LenProperties DEF PredicateType, ConjunctType
    <3>2. both \in Seq(ComparisonType)
      BY <3>1, LenProperties DEF ToSet
    <3> QED BY <3>2, LenProperties DEF ToSet
  <2>2. c.left \in OperandType /\ c.right \in OperandType
    BY <2>1 DEF ComparisonType
  <2>3. \A o \in {c.left, c.right} : o.kind = "column" => o.table = n
    <3> TAKE o \in {c.left, c.right}
    <3> HAVE o.kind = "column"
    <3>1. o \in ColumnsOf(predicate[i])
      BY DEF ColumnsOf, ComparisonsOf, Operands
    <3>2. o \in ColumnsIn(predicate)
      BY <3>1 DEF ColumnsIn, ToSet
    <3> QED BY <3>2 DEF Binds
  <2>4. /\ Evaluate(db, row, c.left) = Evaluate(other, same, c.left)
        /\ Evaluate(db, row, c.right) = Evaluate(other, same, c.right)
    BY <1>3, <2>2, <2>3
  <2>5. /\ IsText(db, c.left) <=> IsText(other, c.left)
        /\ IsText(db, c.right) <=> IsText(other, c.right)
    BY <1>3, <2>2, <2>3
  <2> QED BY <2>4, <2>5 DEF Holds, Alike
<1>5. ASSUME NEW i \in DOMAIN predicate
      PROVE  TrueOf(db, row, predicate[i]) <=> TrueOf(other, same, predicate[i])
  BY <1>4 DEF TrueOf
<1> QED BY <1>1, <1>5 DEF Satisfies

(* A WHERE that can be planned, qualified: what becomes of its conditions. *)
Plans(from, c, d) ==
  /\ d \in ComparisonType
  /\ d.left = Qualified(c.left, from) /\ d.op = c.op /\ d.right = Qualified(c.right, from)
PlansBoth(from, both, planned) ==
  /\ planned \in Seq(ComparisonType) /\ DOMAIN planned = DOMAIN both
  /\ \A j \in DOMAIN both : Plans(from, both[j], planned[j])
PlansAll(from, where, planned) ==
  /\ planned \in ConjunctType /\ DOMAIN planned = DOMAIN where
  /\ \A i \in DOMAIN where : PlansBoth(from, where[i], planned[i])

LEMMA OperandIs ==
  ASSUME NEW o \in WrittenType, o # Other, NEW from \in STRING
  PROVE  o \in OperandType /\ Qualified(o, from) \in OperandType
<1>1. o \in OperandType
  BY DEF WrittenType
<1>2. CASE o.kind = "column" /\ o.table = Unqualified
  <2>1. o \in ColumnRefType
    BY <1>1, <1>2 DEF OperandType, ColumnRefType, LiteralType
  <2>2. [o EXCEPT !.table = from] \in ColumnRefType
    BY <2>1 DEF ColumnRefType
  <2> QED BY <1>1, <1>2, <2>2 DEF Qualified, OperandType
<1>3. CASE ~(o.kind = "column" /\ o.table = Unqualified)
  BY <1>1, <1>3 DEF Qualified
<1> QED BY <1>1, <1>2, <1>3

LEMMA ComparisonIs ==
  ASSUME NEW l \in OperandType, NEW op \in Operators, NEW r \in OperandType,
         NEW d, d = Cmp(l, op, r)
  PROVE  d \in ComparisonType /\ d.left = l /\ d.op = op /\ d.right = r
BY DEF Cmp, ComparisonType

LEMMA ConditionPlanned ==
  ASSUME NEW c \in ConditionType, IsPlanned(c), NEW from \in STRING,
         NEW d, d = [c EXCEPT !.left = Qualified(@, from), !.right = Qualified(@, from)]
  PROVE  Plans(from, c, d)
<1>1. PICK l, r : l = Qualified(c.left, from) /\ r = Qualified(c.right, from)
  OBVIOUS
<1>2. /\ c.left \in WrittenType /\ c.left # Other /\ c.right \in WrittenType /\ c.right # Other
      /\ c.op \in Operators
  BY DEF ConditionType, IsPlanned, Operands
<1>3. l \in OperandType /\ r \in OperandType
  BY <1>1, <1>2, OperandIs
<1>4. PICK op \in Operators : op = c.op
  BY <1>2
<1>5. PICK e : e = Cmp(l, op, r)
  OBVIOUS
<1>6. d = e
  <2>1. d = Cmp(l, op, r)
    BY <1>1, <1>4 DEF ConditionType, Cmp
  <2> QED BY <1>5, <2>1
<1>7. e \in ComparisonType /\ e.left = l /\ e.op = op /\ e.right = r
  BY <1>3, <1>5, ComparisonIs
<1> QED BY <1>1, <1>4, <1>6, <1>7 DEF Plans

LEMMA BothPlanned ==
  ASSUME NEW both \in Seq(ConditionType), \A c \in ToSet(both) : IsPlanned(c), NEW from \in STRING,
         NEW planned, planned = [j \in DOMAIN both |->
           [both[j] EXCEPT !.left = Qualified(@, from), !.right = Qualified(@, from)]]
  PROVE  PlansBoth(from, both, planned)
<1>1. PICK m : m = Len(both)
  OBVIOUS
<1>2. m \in Nat /\ DOMAIN both = 1 .. m /\ \A j \in 1 .. m : both[j] \in ConditionType
  BY <1>1, LenProperties
<1>3. ASSUME NEW j \in 1 .. m PROVE Plans(from, both[j], planned[j])
  <2>1. PICK c, d : c = both[j] /\ d = planned[j]
    OBVIOUS
  <2>2. c \in ConditionType /\ IsPlanned(c)
    BY <1>2, <2>1 DEF ToSet
  <2>3. d = [c EXCEPT !.left = Qualified(@, from), !.right = Qualified(@, from)]
    BY <1>2, <2>1
  <2> QED BY <2>1, <2>2, <2>3, ConditionPlanned
<1>4. DOMAIN planned = 1 .. m /\ planned = [j \in 1 .. m |-> planned[j]]
  BY <1>2
<1>5. planned \in [1 .. m -> ComparisonType]
  BY <1>3, <1>4 DEF Plans
<1>6. planned \in Seq(ComparisonType)
  BY <1>2, <1>5, SeqDef, ZenonT(60)
<1> QED BY <1>2, <1>3, <1>4, <1>6 DEF PlansBoth

LEMMA WherePlanned ==
  ASSUME NEW where \in WhereType, \A c \in ComparisonsOf(where) : IsPlanned(c),
         NEW from \in STRING
  PROVE  PlansAll(from, where, QualifiedAll(where, from))
<1> DEFINE qualified(both) == [j \in DOMAIN both |->
             [both[j] EXCEPT !.left = Qualified(@, from), !.right = Qualified(@, from)]]
<1>1. PICK m, planned : m = Len(where) /\ planned = QualifiedAll(where, from)
  OBVIOUS
<1>2. m \in Nat /\ DOMAIN where = 1 .. m /\ \A i \in 1 .. m : where[i] \in Seq(ConditionType)
  BY <1>1, LenProperties DEF WhereType
<1>3. planned = [i \in 1 .. m |-> qualified(where[i])]
  BY <1>1, <1>2 DEF QualifiedAll
<1>4. ASSUME NEW i \in 1 .. m PROVE PlansBoth(from, where[i], planned[i])
  <2>1. PICK both, x : both = where[i] /\ x = planned[i]
    OBVIOUS
  <2>2. both \in Seq(ConditionType) /\ both \in ToSet(where)
    BY <1>2, <2>1 DEF ToSet
  <2>3. \A c \in ToSet(both) : IsPlanned(c)
    BY <2>2 DEF ComparisonsOf
  <2>4. x = qualified(both)
    <3> HIDE DEF qualified
    <3> QED BY <1>3, <2>1
  <2> QED BY <2>1, <2>2, <2>3, <2>4, BothPlanned
<1> HIDE DEF qualified
<1>5. DOMAIN planned = 1 .. m /\ planned = [i \in 1 .. m |-> planned[i]]
  BY <1>3
<1>6. planned \in [1 .. m -> Seq(ComparisonType)]
  BY <1>4, <1>5 DEF PlansBoth
<1>7. planned \in ConjunctType
  BY <1>2, <1>6, SeqDef DEF ConjunctType
<1> QED BY <1>1, <1>2, <1>4, <1>5, <1>7 DEF PlansAll

(* Splitting keeps the comparisons and the meaning.                        *)
Splits(where, predicate) ==
  /\ predicate \in PredicateType
  /\ \A x \in ToSet(predicate) : ComparisonsOf(x) \subseteq ComparisonsOf(where)
Agrees(db, where, predicate, row) ==
  (\A x \in ToSet(predicate) : TrueOf(db, row, x)) <=> where = <<>> \/ TrueOf(db, row, where)

LEMMA SplitIs ==
  ASSUME NEW where \in ConjunctType, NEW predicate, predicate = split_conjuncts(where)
  PROVE  /\ Splits(where, predicate)
         /\ \A db, row : Agrees(db, where, predicate, row)
<1>1. PICK m : m = Len(where)
  OBVIOUS
<1>2. m \in Nat /\ DOMAIN where = 1 .. m /\ \A i \in 1 .. m : where[i] \in Seq(ComparisonType)
  BY <1>1, LenProperties DEF ConjunctType
<1>3. CASE where = <<>>
  <2>1. predicate = <<>>
    BY <1>3 DEF split_conjuncts
  <2>2. predicate \in PredicateType
    BY <2>1, EmptySeq DEF PredicateType
  <2>3. ToSet(predicate) = {}
    BY <2>1 DEF ToSet
  <2> QED BY <1>3, <2>2, <2>3 DEF Splits, Agrees
<1>4. CASE where # <<>> /\ m = 1
  <2>1. PICK both, n : both = where[1] /\ n = Len(both)
    OBVIOUS
  <2>2. both \in Seq(ComparisonType)
    BY <1>2, <1>4, <2>1
  <2>3. n \in Nat /\ DOMAIN both = 1 .. n /\ \A j \in 1 .. n : both[j] \in ComparisonType
    BY <2>1, <2>2, LenProperties
  <2>4. predicate = [j \in 1 .. n |-> <<<<both[j]>>>>]
    BY <1>1, <1>4, <2>1, <2>3 DEF split_conjuncts
  <2>5. ASSUME NEW c \in ComparisonType
        PROVE  /\ <<<<c>>>> \in ConjunctType /\ ComparisonsOf(<<<<c>>>>) = {c}
               /\ \A db, row : TrueOf(db, row, <<<<c>>>>) <=> Holds(db, row, c)
    <3>1. PICK one : one = <<c>>
      OBVIOUS
    <3>2. one \in Seq(ComparisonType) /\ ToSet(one) = {c}
      BY <3>1 DEF ToSet
    <3>3. <<one>> \in ConjunctType /\ ToSet(<<one>>) = {one}
      BY <3>2 DEF ToSet, ConjunctType
    <3>4. ComparisonsOf(<<one>>) = {c}
      BY <3>2, <3>3 DEF ComparisonsOf
    <3>5. \A db, row : TrueOf(db, row, <<one>>) <=> Holds(db, row, c)
      BY <3>2, <3>3 DEF TrueOf
    <3> QED BY <3>1, <3>3, <3>4, <3>5
  <2>6. \A j \in 1 .. n : predicate[j] = <<<<both[j]>>>>
    BY <2>4
  <2>7. predicate \in PredicateType
    <3>1. predicate \in [1 .. n -> ConjunctType]
      BY <2>3, <2>4, <2>5
    <3> QED BY <2>3, <3>1, SeqDef DEF PredicateType
  <2>8. ToSet(predicate) = {<<<<c>>>> : c \in ToSet(both)}
    <3>1. DOMAIN predicate = 1 .. n
      BY <2>4
    <3> QED BY <2>3, <2>6, <3>1 DEF ToSet
  <2>9. ToSet(where) = {both}
    <3>1. DOMAIN where = {1}
      BY <1>2, <1>4
    <3> QED BY <2>1, <3>1 DEF ToSet
  <2>10. \A c \in ToSet(both) : c \in ComparisonType
    BY <2>3 DEF ToSet
  <2>11. Splits(where, predicate)
    <3>1. ComparisonsOf(where) = ToSet(both)
      BY <2>9 DEF ComparisonsOf
    <3>2. ASSUME NEW x \in ToSet(predicate) PROVE ComparisonsOf(x) \subseteq ToSet(both)
      <4>1. PICK c \in ToSet(both) : x = <<<<c>>>>
        BY <2>8
      <4>2. ComparisonsOf(x) = {c}
        BY <2>5, <2>10, <4>1
      <4> QED BY <4>2
    <3> QED BY <2>7, <3>1, <3>2 DEF Splits
  <2>12. ASSUME NEW db, NEW row PROVE Agrees(db, where, predicate, row)
    <3>1. TrueOf(db, row, where) <=> \A c \in ToSet(both) : Holds(db, row, c)
      BY <2>9 DEF TrueOf
    <3>2. \A c \in ToSet(both) : TrueOf(db, row, <<<<c>>>>) <=> Holds(db, row, c)
      BY <2>5, <2>10
    <3>3. (\A x \in ToSet(predicate) : TrueOf(db, row, x))
            <=> \A c \in ToSet(both) : TrueOf(db, row, <<<<c>>>>)
      BY <2>8
    <3> QED BY <1>4, <3>1, <3>2, <3>3 DEF Agrees
  <2> QED BY <2>11, <2>12
<1>5. CASE where # <<>> /\ m # 1
  <2>1. predicate = <<where>>
    BY <1>1, <1>5 DEF split_conjuncts
  <2>2. predicate \in PredicateType /\ ToSet(predicate) = {where}
    BY <2>1 DEF PredicateType, ToSet
  <2> QED BY <1>5, <2>2 DEF Splits, Agrees
<1> QED BY <1>3, <1>4, <1>5

LEMMA PredicateIs ==
  ASSUME NEW where \in WhereType, \A c \in ComparisonsOf(where) : IsPlanned(c),
         NEW from \in STRING
  PROVE  Predicate(where, from) \in PredicateType
<1>1. PICK planned : planned = QualifiedAll(where, from)
  OBVIOUS
<1>2. planned \in ConjunctType
  BY <1>1, WherePlanned DEF PlansAll
<1>3. split_conjuncts(planned) \in PredicateType
  BY <1>2, SplitIs DEF Splits
<1> QED BY <1>1, <1>3 DEF Predicate

LookupsAreSound(t, predicate) == \A i \in DOMAIN predicate : LookupIsSound(t, predicate[i])

LEMMA SoundByColumns ==
  ASSUME NEW t, NEW u, IndexedColumns(t) = IndexedColumns(u), NEW predicate
  PROVE  LookupsAreSound(t, predicate) <=> LookupsAreSound(u, predicate)
BY DEF LookupsAreSound, LookupIsSound, LooksUp

(* The DELETE in progress; Exact says that no row it should delete is      *)
(* missing from rids, once failed no more.                                 *)
DeletesRight(db, n, kept, where, rids) ==
  /\ where \in PredicateType /\ Binds(db, {n}, ColumnsIn(where))
  /\ \A rid \in rids : Satisfies(db, RowOf(n, 0, kept[rid]), where)
DeletesAll(db, n, kept, where, rids) ==
  LookupsAreSound(db[n], where) =>
    \A rid \in Valid(db[n]) : Satisfies(db, RowOf(n, 0, kept[rid]), where) => rid \in rids
DeleteInv ==
  stmt.op = "delete" =>
    /\ DeletesRight(tables, stmt.table, rows[stmt.table], stmt.where, stmt.rids)
    /\ ~failed => DeletesAll(tables, stmt.table, rows[stmt.table], stmt.where, stmt.rids)

LEMMA BeginDeleteIsExact ==
  ASSUME EngineInv, NEW s \in Deletes, BeginDelete(s)
  PROVE  DeleteInv'
<1>1. PICK n, where, rids, t, kept :
        /\ n = s.table /\ where = Predicate(s.where, s.table) /\ rids = RidsOf(n, where)
        /\ t = tables[n] /\ kept = rows[n]
  OBVIOUS
<1>2. n \in Names /\ where \in PredicateType
  <2>1. s.table \in Names /\ s.where \in WhereType
    BY EngineAssumption
  <2>2. s.table \in STRING
    BY <2>1, QueryAssumption
  <2>3. \A c \in ComparisonsOf(s.where) : IsPlanned(c)
    BY DEF BeginDelete, IsPlannedAll
  <2> QED BY <1>1, <2>1, <2>2, <2>3, PredicateIs
<1>3. /\ rids # {} /\ tables' = tables /\ rows' = rows /\ failed' = failed
      /\ stmt'.table = n /\ stmt'.where = where /\ stmt'.rids = rids
  <2>1. stmt' = [NoStmt EXCEPT !.op = "delete", !.table = n, !.where = where, !.rids = rids]
    BY <1>1 DEF BeginDelete
  <2> QED BY <1>1, <2>1 DEF BeginDelete, NoStmt
<1>4. TableInv(Columns[n], t, kept)
  BY <1>1, <1>2 DEF EngineInv, TablesInv
<1>5. PICK result : result = _plan_scan(tables, Scan(n, where))
  OBVIOUS
<1>6. rids = {row[n].rid : row \in result.rows}
  BY <1>1, <1>5 DEF RidsOf
<1>7. Scan(n, where).table = n /\ Scan(n, where).predicate = where
  BY DEF Scan
<1>8. Binds(tables, {n}, ColumnsIn(where))
  <2>1. CASE ~Binds(tables, {n}, ColumnsIn(where))
    <3>1. result = Unopened({n})
      BY <1>5, <1>7, <2>1 DEF _plan_scan
    <3>2. result.rows = {}
      BY <3>1 DEF Unopened
    <3> QED BY <1>3, <1>6, <3>2
  <2> QED BY <2>1
<1>9. ASSUME NEW row \in result.rows
      PROVE  \E rid \in Valid(t) : row = RowOf(n, rid, kept[rid]) /\ Satisfies(tables, row, where)
  <2>1. PICK rid \in Valid(t) : row = RowOf(n, rid, get(t, rid))
    BY <1>1, <1>5, ScannedAreValid
  <2>2. get(t, rid) = kept[rid]
    BY <1>4, ScanIs
  <2>3. Satisfies(tables, row, where)
    <3>1. PICK found : found = {x \in RowsAt(tables, n, Candidates(t, where)) :
                                  Satisfies(tables, x, where)}
      OBVIOUS
    <3>2. result = Breaks({n}) \/ result = Ends({n}, found)
      BY <1>1, <1>5, <1>7, <1>8, <3>1 DEF _plan_scan
    <3>3. Breaks({n}).rows = {} /\ Ends({n}, found).rows = found
      BY DEF Breaks, Ends
    <3>4. CASE result = Breaks({n})
      BY <3>3, <3>4
    <3>5. CASE result = Ends({n}, found)
      BY <3>1, <3>3, <3>5
    <3> QED BY <3>2, <3>4, <3>5
  <2> QED BY <2>1, <2>2, <2>3
<1>14. Comparable(tables, where)
  <2>1. PICK candidates, found :
          /\ candidates = Candidates(t, where)
          /\ found = {x \in RowsAt(tables, n, candidates) : Satisfies(tables, x, where)}
    OBVIOUS
  <2>2. CASE ~Comparable(tables, where) /\ candidates # {}
    <3>1. result = Breaks({n})
      BY <1>1, <1>5, <1>7, <1>8, <2>1, <2>2 DEF _plan_scan
    <3>2. result.rows = {}
      BY <3>1 DEF Breaks
    <3> QED BY <1>3, <1>6, <3>2
  <2>3. CASE ~Comparable(tables, where) /\ candidates = {}
    <3>1. found = {}
      BY <2>1, <2>3 DEF RowsAt
    <3>2. result = Breaks({n}) \/ result = Ends({n}, found)
      BY <1>1, <1>5, <1>7, <1>8, <2>1 DEF _plan_scan
    <3>3. result.rows = {}
      BY <3>1, <3>2 DEF Breaks, Ends
    <3> QED BY <1>3, <1>6, <3>3
  <2> QED BY <2>2, <2>3
<1>10. \A rid : RowOf(n, rid, kept[rid])[n].rid = rid
  BY DEF RowOf
<1>11. \A rid : Satisfies(tables, RowOf(n, rid, kept[rid]), where)
                  <=> Satisfies(tables, RowOf(n, 0, kept[rid]), where)
  BY <1>2, <1>8, SatisfiesByValues
<1>12. DeletesRight(tables, n, kept, where, rids)
  <2>1. ASSUME NEW rid \in rids PROVE Satisfies(tables, RowOf(n, 0, kept[rid]), where)
    <3>1. PICK row \in result.rows : row[n].rid = rid
      BY <1>6
    <3>2. PICK id \in Valid(t) : row = RowOf(n, id, kept[id]) /\ Satisfies(tables, row, where)
      BY <1>9, <3>1
    <3>3. id = rid
      BY <1>10, <3>1, <3>2
    <3> QED BY <1>11, <3>2, <3>3
  <2> QED BY <1>2, <1>8, <2>1 DEF DeletesRight
<1>13. ASSUME ~failed PROVE DeletesAll(tables, n, kept, where, rids)
  <2> SUFFICES ASSUME LookupsAreSound(t, where), NEW rid \in Valid(t),
                      Satisfies(tables, RowOf(n, 0, kept[rid]), where)
               PROVE  rid \in rids
    BY <1>1 DEF DeletesAll
  <2>1. Indexes(t, kept)
    BY <1>1, <1>2, <1>13 DEF EngineInv, TreesInv
  <2>2. result = Ends({n}, {row \in {RowOf(n, r, kept[r]) : r \in Valid(t)} :
                              Satisfies(tables, row, where)})
    <3>1. PICK db : db = tables
      OBVIOUS
    <3>2. TableInv(Columns[n], db[n], kept) /\ Indexes(db[n], kept)
      BY <1>1, <1>4, <2>1, <3>1
    <3>3. \A i \in DOMAIN where : LookupIsSound(db[n], where[i])
      BY <1>1, <3>1 DEF LookupsAreSound
    <3>4. Binds(db, {n}, ColumnsIn(where)) /\ Comparable(db, where)
      BY <1>8, <1>14, <3>1
    <3>5. _plan_scan(db, Scan(n, where)) = Ends({n}, RowsFor(db, n, kept, where))
      BY <1>2, <3>2, <3>3, <3>4, ScanReturns
    <3> QED BY <1>1, <1>5, <3>1, <3>5 DEF RowsFor
  <2>3. result.rows = {row \in {RowOf(n, r, kept[r]) : r \in Valid(t)} :
                         Satisfies(tables, row, where)}
    BY <2>2 DEF Ends
  <2>4. RowOf(n, rid, kept[rid]) \in result.rows
    BY <1>11, <2>3
  <2> QED BY <1>6, <1>10, <2>4
<1> QED BY <1>1, <1>3, <1>12, <1>13 DEF DeleteInv

(* What deleting one of the rids leaves.                                   *)
LEMMA DeleteRowIsExact ==
  ASSUME EngineInv, DeleteInv, NEW rid, DeleteRow(rid)
  PROVE  /\ DeleteInv'
         /\ stmt.table \in Names /\ DOMAIN rows[stmt.table] = Valid(tables[stmt.table])
         /\ rows'[stmt.table] = [r \in Valid(tables[stmt.table]) \ {rid} |-> rows[stmt.table][r]]
         /\ rid \in stmt.rids
         /\ DeletesRight(tables, stmt.table, rows[stmt.table], stmt.where, stmt.rids)
         /\ stmt' = NoStmt /\ ~failed' =>
              /\ stmt.rids = {rid}
              /\ DeletesAll(tables, stmt.table, rows[stmt.table], stmt.where, stmt.rids)
<1>1. PICK n, t, kept, where, rids, u :
        /\ n = stmt.table /\ t = tables[n] /\ kept = rows[n] /\ where = stmt.where
        /\ rids = stmt.rids /\ u = delete(t, rid)
  OBVIOUS
<1>2. /\ stmt.op = "delete" /\ rid \in rids /\ failed' = (failed \/ Raising(t, rid) # {})
      /\ stmt' = IF Raising(t, rid) # {} \/ rids = {rid} THEN NoStmt
                 ELSE [stmt EXCEPT !.rids = @ \ {rid}]
  BY <1>1 DEF DeleteRow
<1>3. Deleting(stmt, t) /\ Fielded(stmt)
  BY <1>1, <1>2, NoStmtIs DEF EngineInv, StmtInv, Inserting
<1>4. n \in Names /\ rid \in Valid(t) /\ rids \subseteq Valid(t)
  BY <1>1, <1>2, <1>3 DEF Deleting
<1>5. TableInv(Columns[n], t, kept) /\ DOMAIN kept = Valid(t)
  BY <1>1, <1>4 DEF EngineInv, TablesInv, TableInv, Stores
<1>6. PICK after : after = [r \in DOMAIN kept \ {rid} |-> kept[r]]
  OBVIOUS
<1>7. /\ tables' = [tables EXCEPT ![n] = u] /\ rows' = [rows EXCEPT ![n] = after]
      /\ tables'[n] = u /\ rows'[n] = after
  BY <1>1, <1>4, <1>6 DEF DeleteRow, EngineInv, TablesInv
<1>8. /\ TableInv(Columns[n], u, after) /\ Valid(u) = Valid(t) \ {rid}
      /\ IndexedColumns(u) = IndexedColumns(t) /\ u.columns = t.columns
  <2>1. /\ TableInv(Columns[n], u, after) /\ Valid(u) = Valid(t) \ {rid}
        /\ IndexedColumns(u) = IndexedColumns(t)
    BY <1>1, <1>4, <1>5, <1>6, DeleteKeeps
  <2>2. u.columns = t.columns
    BY <1>5, <2>1 DEF TableInv, TableType
  <2> QED BY <2>1, <2>2
<1>9. /\ DeletesRight(tables, n, kept, where, rids)
      /\ ~failed => DeletesAll(tables, n, kept, where, rids)
  BY <1>1, <1>2 DEF DeleteInv
<1>10. where \in PredicateType /\ Binds(tables, {n}, ColumnsIn(where))
  BY <1>9 DEF DeletesRight
<1>11. \A v : Satisfies(tables, RowOf(n, 0, v), where)
                <=> Satisfies(tables', RowOf(n, 0, v), where)
  <2>1. PICK db : db = tables'
    OBVIOUS
  <2>2. tables[n].columns = db[n].columns
    BY <1>1, <1>7, <1>8, <2>1
  <2>3. \A v : Satisfies(tables, RowOf(n, 0, v), where) <=> Satisfies(db, RowOf(n, 0, v), where)
    BY <1>10, <2>2, SatisfiesByValues
  <2> QED BY <2>1, <2>3
<1>12. DeleteInv'
  <2>1. CASE stmt' = NoStmt
    BY <2>1, NoStmtIs DEF DeleteInv
  <2>2. CASE Raising(t, rid) = {} /\ stmt' = [stmt EXCEPT !.rids = @ \ {rid}]
    <3>1. /\ stmt'.table = n /\ stmt'.where = where /\ stmt'.rids = rids \ {rid}
          /\ failed' = failed
      BY <1>1, <1>2, <1>3, <2>2 DEF Fielded, EngineInv, TreesInv
    <3>2. Binds(tables', {n}, ColumnsIn(where))
      BY <1>1, <1>7, <1>8, <1>10 DEF Binds
    <3>3. \A r \in rids \ {rid} : after[r] = kept[r]
      BY <1>4, <1>5, <1>6
    <3>4. DeletesRight(tables', n, after, where, rids \ {rid})
      BY <1>9, <1>10, <1>11, <3>2, <3>3 DEF DeletesRight
    <3>5. ASSUME ~failed, LookupsAreSound(tables'[n], where), NEW r \in Valid(u),
                 Satisfies(tables', RowOf(n, 0, after[r]), where)
          PROVE  r \in rids \ {rid}
      <4>1. r \in Valid(t) /\ r # rid /\ after[r] = kept[r]
        BY <1>5, <1>6, <1>8
      <4>2. LookupsAreSound(t, where)
        BY <1>7, <1>8, <3>5, SoundByColumns
      <4>3. Satisfies(tables, RowOf(n, 0, kept[r]), where)
        BY <1>11, <3>5, <4>1
      <4> QED BY <1>1, <1>9, <3>5, <4>1, <4>2, <4>3 DEF DeletesAll
    <3>6. ~failed => DeletesAll(tables', n, after, where, rids \ {rid})
      BY <1>7, <3>5 DEF DeletesAll
    <3> QED BY <1>7, <3>1, <3>4, <3>6 DEF DeleteInv
  <2> QED BY <1>2, <2>1, <2>2
<1>13. ASSUME stmt' = NoStmt, ~failed' PROVE rids = {rid} /\ ~failed
  <2>1. Raising(t, rid) = {} /\ ~failed
    BY <1>2, <1>13
  <2>2. CASE rids # {rid}
    <3>1. stmt' = [stmt EXCEPT !.rids = @ \ {rid}]
      BY <1>2, <2>1, <2>2
    <3>2. stmt'.op = "delete"
      BY <1>2, <1>3, <3>1 DEF Fielded
    <3> QED BY <1>13, <3>2, NoStmtIs
  <2> QED BY <2>1, <2>2
<1> QED BY <1>1, <1>2, <1>4, <1>5, <1>6, <1>7, <1>9, <1>12, <1>13

LEMMA DeleteStep == EngineInv /\ DeleteInv /\ [Next]_vars => DeleteInv'
<1> SUFFICES ASSUME EngineInv, DeleteInv, [Next]_vars PROVE DeleteInv'
  OBVIOUS
<1>1. CASE \E s \in Inserts : BeginInsert(s)
  <2>1. PICK s \in Inserts : BeginInsert(s)
    BY <1>1
  <2>2. stmt' = [NoStmt EXCEPT !.op = "insert", !.table = s.table, !.words = s.words]
    BY <2>1 DEF BeginInsert
  <2>3. stmt'.op = "insert"
    BY <2>2 DEF NoStmt
  <2> QED BY <2>3 DEF DeleteInv
<1>2. CASE InsertRow
  <2>1. stmt' = Rest /\ stmt.op = "insert"
    BY <1>2 DEF InsertRow
  <2>2. Rest = NoStmt \/ Inserting(Rest)
    BY <2>1, RestIs DEF EngineInv
  <2> QED BY <2>1, <2>2, NoStmtIs DEF DeleteInv, Inserting
<1>3. CASE InsertRaises
  BY <1>3, NoStmtIs DEF InsertRaises, DeleteInv
<1>4. CASE \E s \in Deletes : BeginDelete(s)
  BY <1>4, BeginDeleteIsExact
<1>5. CASE \E rid \in stmt.rids : DeleteRow(rid)
  BY <1>5, DeleteRowIsExact
<1>6. CASE \E i \in Indexable : CreateIndex(i[1], i[2])
  BY <1>6, NoStmtIs DEF CreateIndex, Idle, DeleteInv
<1>7. CASE Restart
  BY <1>7, NoStmtIs DEF Restart, Idle, DeleteInv
<1>8. CASE UNCHANGED vars
  BY <1>8 DEF vars, DeleteInv
<1> QED BY <1>1, <1>2, <1>3, <1>4, <1>5, <1>6, <1>7, <1>8 DEF Next

THEOREM DeletesInvariant == Spec => [](EngineInv /\ DeleteInv)
<1>1. Init => EngineInv /\ DeleteInv
  BY EngineInitial, NoStmtIs DEF Init, DeleteInv
<1>2. EngineInv /\ DeleteInv /\ [Next]_vars => (EngineInv /\ DeleteInv)'
  BY EngineStep, DeleteStep
<1> QED BY <1>1, <1>2, PTL DEF Spec

(* A DELETE removes rows that satisfy its predicate only, and when it ends *)
(* without raising has removed them all, with or without an index          *)
(* (_plan_delete, _find_index_lookup, Table.delete).                       *)
THEOREM DeletedExactly == Spec => DeleteIsExact
<1> DEFINE Exact ==
      stmt.op = "delete" /\ ScanIsSound(Scan(stmt.table, stmt.where)) =>
        LET n == stmt.table
        IN  /\ \A rid \in DOMAIN rows[n] \ DOMAIN scan(tables'[n]) :
                 Matches(n, rows[n][rid], stmt.where)
            /\ stmt' = NoStmt /\ ~failed' =>
                 \A rid \in DOMAIN scan(tables'[n]) :
                   ~Matches(n, scan(tables'[n])[rid], stmt.where)
<1>1. EngineInv /\ EngineInv' /\ DeleteInv /\ [Next]_vars => [Exact]_vars
  <2> SUFFICES ASSUME EngineInv, EngineInv', DeleteInv, Next, stmt.op = "delete",
                      ScanIsSound(Scan(stmt.table, stmt.where))
               PROVE  Exact
    OBVIOUS
  <2>1. PICK rid : DeleteRow(rid)
    BY NoStmtIs DEF Next, BeginInsert, InsertRow, InsertRaises, BeginDelete, CreateIndex,
                    Restart, Idle
  <2>2. PICK n, kept, where : n = stmt.table /\ kept = rows[n] /\ where = stmt.where
    OBVIOUS
  <2>3. /\ n \in Names /\ DOMAIN kept = Valid(tables[n])
        /\ rows'[n] = [r \in Valid(tables[n]) \ {rid} |-> kept[r]]
        /\ rid \in stmt.rids
        /\ DeletesRight(tables, n, kept, where, stmt.rids)
        /\ stmt' = NoStmt /\ ~failed' =>
             stmt.rids = {rid} /\ DeletesAll(tables, n, kept, where, stmt.rids)
    BY <2>1, <2>2, DeleteRowIsExact
  <2>4. scan(tables'[n]) = rows'[n]
    BY <2>3, ScanIs DEF EngineInv, TablesInv
  <2>5. LookupsAreSound(tables[n], where)
    BY <2>2 DEF ScanIsSound, Scan, LookupsAreSound
  <2>6. ASSUME NEW r \in DOMAIN kept \ DOMAIN rows'[n] PROVE Matches(n, kept[r], where)
    <3>1. r = rid
      BY <2>3
    <3> QED BY <2>3, <3>1 DEF DeletesRight, Matches
  <2>7. ASSUME stmt' = NoStmt, ~failed', NEW r \in DOMAIN rows'[n]
        PROVE  ~Matches(n, rows'[n][r], where)
    <3>1. r \in Valid(tables[n]) /\ r # rid /\ rows'[n][r] = kept[r]
      BY <2>3
    <3> QED BY <2>3, <2>5, <2>7, <3>1 DEF DeletesAll, Matches
  <2> QED BY <2>2, <2>4, <2>6, <2>7
<1>2. Spec => [][Exact]_vars
  BY <1>1, DeletesInvariant, PTL DEF Spec
<1> QED BY <1>2 DEF DeleteIsExact

(***************************************************************************)
(* SELECT.  Rows of several tables.                                        *)
(***************************************************************************)
RecordsOf(kept, n) == {[rid |-> rid, values |-> kept[n][rid]] : rid \in DOMAIN kept[n]}
IsCombination(kept, names, row) ==
  row = [n \in names |-> row[n]] /\ \A n \in names : row[n] \in RecordsOf(kept, n)

LEMMA CombinationIs ==
  ASSUME NEW kept, NEW names, NEW row
  PROVE  row \in Combinations(kept, names) <=> IsCombination(kept, names, row)
<1>1. ASSUME row \in Combinations(kept, names) PROVE IsCombination(kept, names, row)
  <2>1. PICK rid \in RidsOfEach(kept, names) :
          row = [n \in names |-> [rid |-> rid[n], values |-> kept[n][rid[n]]]]
    BY <1>1 DEF Combinations
  <2>2. \A n \in names : rid[n] \in DOMAIN kept[n]
    BY DEF RidsOfEach
  <2>3. \A n \in names : row[n] \in RecordsOf(kept, n)
    BY <2>1, <2>2 DEF RecordsOf
  <2> QED BY <2>1, <2>3 DEF IsCombination
<1>2. ASSUME IsCombination(kept, names, row) PROVE row \in Combinations(kept, names)
  <2>1. PICK rid : rid = [n \in names |-> row[n].rid]
    OBVIOUS
  <2>2. ASSUME NEW n \in names
        PROVE  rid[n] \in DOMAIN kept[n] /\ row[n] = [rid |-> rid[n], values |-> kept[n][rid[n]]]
    <3>1. PICK r \in DOMAIN kept[n] : row[n] = [rid |-> r, values |-> kept[n][r]]
      BY <1>2 DEF IsCombination, RecordsOf
    <3>2. rid[n] = r
      BY <2>1, <3>1
    <3> QED BY <3>1, <3>2
  <2>3. rid \in [names -> UNION {DOMAIN kept[n] : n \in names}]
    BY <2>1, <2>2
  <2>4. rid \in RidsOfEach(kept, names)
    BY <2>2, <2>3 DEF RidsOfEach
  <2>5. row = [n \in names |-> [rid |-> rid[n], values |-> kept[n][rid[n]]]]
    BY <1>2, <2>2 DEF IsCombination
  <2> QED BY <2>4, <2>5 DEF Combinations
<1> QED BY <1>1, <1>2

(* An operand looks at the part of its own table.                          *)
LEMMA SameValue ==
  ASSUME NEW db, NEW row, NEW other, NEW o \in OperandType,
         o.kind = "column" => row[o.table] = other[o.table]
  PROVE  Evaluate(db, row, o) = Evaluate(db, other, o)
<1>1. o.kind = "number" \/ o.kind = "text" \/ o.kind = "column"
  BY DEF OperandType, ColumnRefType, LiteralType
<1>2. CASE o.kind = "number" \/ o.kind = "text"
  BY <1>2 DEF Evaluate
<1>3. CASE o.kind = "column"
  BY <1>3 DEF Evaluate
<1> QED BY <1>1, <1>2, <1>3

LEMMA SatisfiesIs ==
  ASSUME NEW db, NEW row, NEW predicate
  PROVE  Satisfies(db, row, predicate) <=> \A x \in ToSet(predicate) : TrueOf(db, row, x)
BY DEF Satisfies, ToSet

LEMMA SameTruth ==
  ASSUME NEW db, NEW row, NEW other, NEW conjunct \in ConjunctType,
         \A o \in ColumnsOf(conjunct) : row[o.table] = other[o.table]
  PROVE  TrueOf(db, row, conjunct) <=> TrueOf(db, other, conjunct)
<1>1. ASSUME NEW both \in ToSet(conjunct), NEW c \in ToSet(both)
      PROVE  Holds(db, row, c) <=> Holds(db, other, c)
  <2>1. c \in ComparisonType
    <3>1. both \in Seq(ComparisonType)
      BY LenProperties DEF ToSet, ConjunctType
    <3> QED BY <3>1, LenProperties DEF ToSet
  <2>2. c.left \in OperandType /\ c.right \in OperandType
    BY <2>1 DEF ComparisonType
  <2>3. \A o \in {c.left, c.right} : o.kind = "column" => o \in ColumnsOf(conjunct)
    BY DEF ColumnsOf, ComparisonsOf, Operands
  <2>4. /\ Evaluate(db, row, c.left) = Evaluate(db, other, c.left)
        /\ Evaluate(db, row, c.right) = Evaluate(db, other, c.right)
    BY <2>2, <2>3, SameValue
  <2> QED BY <2>4 DEF Holds
<1> QED BY <1>1 DEF TrueOf

LEMMA SamePredicate ==
  ASSUME NEW db, NEW row, NEW other, NEW predicate \in PredicateType,
         \A o \in ColumnsIn(predicate) : row[o.table] = other[o.table]
  PROVE  Satisfies(db, row, predicate) <=> Satisfies(db, other, predicate)
<1>1. ASSUME NEW x \in ToSet(predicate) PROVE TrueOf(db, row, x) <=> TrueOf(db, other, x)
  <2>1. x \in ConjunctType
    BY LenProperties DEF ToSet, PredicateType
  <2>2. ColumnsOf(x) \subseteq ColumnsIn(predicate)
    BY DEF ColumnsIn
  <2> QED BY <2>1, <2>2, SameTruth
<1> QED BY <1>1, SatisfiesIs

(* A row of tables names beside one of a further table n.                  *)
Beside(kept, names, n, a, b, row) ==
  /\ IsCombination(kept, names, a) /\ IsCombination(kept, {n}, b)
  /\ row = Merged(a, b) /\ row = Merged(b, a) /\ IsCombination(kept, names \cup {n}, row)
  /\ \A m \in names : row[m] = a[m]
  /\ row[n] = b[n]
LEMMA MergedCombination ==
  ASSUME NEW kept, NEW names, NEW n, n \notin names, NEW a, NEW b,
         IsCombination(kept, names, a), IsCombination(kept, {n}, b)
  PROVE  Beside(kept, names, n, a, b, Merged(a, b))
<1>1. DOMAIN a = names /\ DOMAIN b = {n}
  BY DEF IsCombination
<1>2. PICK c : c = Merged(a, b)
  OBVIOUS
<1>3. c = [m \in names \cup {n} |-> IF m = n THEN b[n] ELSE a[m]] /\ Merged(b, a) = c
  BY <1>1, <1>2 DEF Merged
<1>4. c[n] = b[n] /\ \A m \in names : c[m] = a[m]
  BY <1>3
<1>5. \A m \in names \cup {n} : c[m] \in RecordsOf(kept, m)
  BY <1>4 DEF IsCombination
<1>6. IsCombination(kept, names \cup {n}, c)
  BY <1>3, <1>5 DEF IsCombination
<1> QED BY <1>2, <1>3, <1>4, <1>6 DEF Beside

LEMMA SplitCombination ==
  ASSUME NEW kept, NEW names, NEW n, n \notin names, NEW row,
         IsCombination(kept, names \cup {n}, row)
  PROVE  \E a, b : Beside(kept, names, n, a, b, row)
<1>1. PICK a, b : a = [m \in names |-> row[m]] /\ b = [m \in {n} |-> row[m]]
  OBVIOUS
<1>2. b[n] = row[n] /\ \A m \in names : a[m] = row[m]
  BY <1>1
<1>3. IsCombination(kept, names, a) /\ IsCombination(kept, {n}, b)
  BY <1>1, <1>2 DEF IsCombination
<1>4. Beside(kept, names, n, a, b, Merged(a, b))
  BY <1>3, MergedCombination
<1>5. PICK c : c = Merged(a, b)
  OBVIOUS
<1>6. c = row
  BY <1>2, <1>4, <1>5 DEF Beside, IsCombination
<1> QED BY <1>4, <1>5, <1>6

(* The rows of one table.                                                  *)
LEMMA RowsForAre ==
  ASSUME NEW db, NEW n, NEW kept, DOMAIN kept[n] = Valid(db[n]), NEW predicate, NEW row
  PROVE  row \in RowsFor(db, n, kept[n], predicate)
           <=> IsCombination(kept, {n}, row) /\ Satisfies(db, row, predicate)
<1>1. ASSUME NEW rid \in Valid(db[n]), row = RowOf(n, rid, kept[n][rid])
      PROVE  IsCombination(kept, {n}, row)
  BY <1>1 DEF IsCombination, RowOf, RecordsOf
<1>2. ASSUME IsCombination(kept, {n}, row)
      PROVE  \E rid \in Valid(db[n]) : row = RowOf(n, rid, kept[n][rid])
  <2>1. PICK rid \in Valid(db[n]) : row[n] = [rid |-> rid, values |-> kept[n][rid]]
    BY <1>2 DEF IsCombination, RecordsOf
  <2>2. row = [m \in {n} |-> [rid |-> rid, values |-> kept[n][rid]]]
    BY <1>2, <2>1 DEF IsCombination
  <2>3. row = RowOf(n, rid, kept[n][rid])
    BY <2>2 DEF RowOf
  <2> QED BY <2>3
<1> QED BY <1>1, <1>2 DEF RowsFor

(***************************************************************************)
(* A plan that the planner gets right, and what its first i joins return.  *)
(***************************************************************************)
TablesHold(db, kept) ==
  \A n \in Names : TableInv(Columns[n], db[n], kept[n]) /\ Indexes(db[n], kept[n])
PlannedScan(db, node) ==
  /\ node.table \in Names /\ node = Scan(node.table, node.predicate)
  /\ node.predicate \in PredicateType
  /\ Binds(db, {node.table}, ColumnsIn(node.predicate))
  /\ Comparable(db, node.predicate)
  /\ LookupsAreSound(db[node.table], node.predicate)
PlannedJoin(db, plan, i) ==
  /\ JoinIsSound(db, plan, i)
  /\ \A o \in Operands(plan.ons[i]) :
       o \in ColumnRefType /\ HasColumn(db[o.table].columns, o.col)
Planned(db, plan, k) ==
  /\ k \in Nat /\ Len(plan.ons) = k /\ DOMAIN plan.ons = 1 .. k /\ DOMAIN plan.scans = 1 .. k + 1
  /\ \A i \in 1 .. k + 1 : PlannedScan(db, plan.scans[i])
  /\ \A i, j \in 1 .. k + 1 : plan.scans[i].table = plan.scans[j].table => i = j
  /\ \A i \in 1 .. k : PlannedJoin(db, plan, i)

NamesTo(plan, i) == {plan.scans[j].table : j \in 1 .. i + 1}
IsJoined(db, kept, plan, i, row) ==
  /\ IsCombination(kept, NamesTo(plan, i), row)
  /\ \A j \in 1 .. i + 1 : Satisfies(db, row, plan.scans[j].predicate)
  /\ \A j \in 1 .. i : Holds(db, row, plan.ons[j])
RowsTo(db, kept, plan, i) ==
  {row \in Combinations(kept, NamesTo(plan, i)) : IsJoined(db, kept, plan, i, row)}
Matched(db, a, on, b) ==
  Alike(db, on) /\ Evaluate(db, a, on.left) = Evaluate(db, b, on.right)

LEMMA RowsToAre ==
  ASSUME NEW db, NEW kept, NEW plan, NEW i, NEW row
  PROVE  row \in RowsTo(db, kept, plan, i) <=> IsJoined(db, kept, plan, i, row)
BY CombinationIs DEF RowsTo, IsJoined

(* What the i-th join is about: the tables before it, ON, the new scan.    *)
JoinOf(db, plan, i, names, on, node) ==
  /\ PlannedScan(db, node) /\ node.table \notin names /\ names \subseteq Names
  /\ NamesTo(plan, i) = names \cup {node.table}
  /\ on.op = "=" /\ on.left \in ColumnRefType /\ on.right \in ColumnRefType
  /\ on.left.table \in names /\ on.right.table = node.table
  /\ Binds(db, names, {on.left}) /\ Binds(db, {node.table}, {on.right})
LEMMA JoinAt ==
  ASSUME NEW db, NEW plan, NEW k, Planned(db, plan, k), NEW i \in 1 .. k,
         NEW names, names = NamesTo(plan, i - 1),
         NEW on, on = plan.ons[i], NEW node, node = plan.scans[i + 1]
  PROVE  JoinOf(db, plan, i, names, on, node)
<1>1. /\ i - 1 \in Nat /\ (i - 1) + 1 = i /\ i \in 1 .. k + 1 /\ i + 1 \in 1 .. k + 1
      /\ 1 .. i + 1 = (1 .. i) \cup {i + 1} /\ i + 1 \notin 1 .. i
      /\ 1 .. i \subseteq 1 .. k + 1
  BY DEF Planned
<1>2. PlannedScan(db, node) /\ PlannedJoin(db, plan, i)
  BY <1>1 DEF Planned
<1>3. PICK tab : tab = [j \in 1 .. k + 1 |-> plan.scans[j].table]
  OBVIOUS
<1>4. \A j \in 1 .. i : tab[j] = plan.scans[j].table /\ tab[j] # node.table /\ tab[j] \in Names
  BY <1>1, <1>3 DEF Planned, PlannedScan
<1>5. NamesTo(plan, i - 1) = {plan.scans[j].table : j \in 1 .. i}
  BY <1>1 DEF NamesTo
<1>6. NamesTo(plan, i) = NamesTo(plan, i - 1) \cup {node.table}
  BY <1>1, <1>5 DEF NamesTo
<1>7. node.table \notin NamesTo(plan, i - 1) /\ NamesTo(plan, i - 1) \subseteq Names
  BY <1>4, <1>5
<1>8. /\ on.op = "=" /\ on.right.table = node.table
      /\ \E j \in 1 .. i : on.left.table = plan.scans[j].table
  BY <1>2 DEF PlannedJoin, JoinIsSound
<1>9. \A o \in {on.left, on.right} :
        o \in ColumnRefType /\ HasColumn(db[o.table].columns, o.col)
  BY <1>2 DEF PlannedJoin, Operands
<1>10. on.left.table \in NamesTo(plan, i - 1)
  BY <1>5, <1>8
<1>11. Binds(db, NamesTo(plan, i - 1), {on.left}) /\ Binds(db, {node.table}, {on.right})
  BY <1>8, <1>9, <1>10 DEF Binds
<1> QED BY <1>1, <1>2, <1>6, <1>7, <1>8, <1>9, <1>10, <1>11 DEF JoinOf

(* Two rows that agree on the tables before a join.                        *)
LEMMA AgreeBefore ==
  ASSUME NEW db, NEW plan, NEW k, Planned(db, plan, k), NEW i \in 1 .. k,
         NEW a, NEW c, \A m \in NamesTo(plan, i - 1) : c[m] = a[m]
  PROVE  /\ \A j \in 1 .. i :
              Satisfies(db, c, plan.scans[j].predicate) <=> Satisfies(db, a, plan.scans[j].predicate)
         /\ \A j \in 1 .. i - 1 : Holds(db, c, plan.ons[j]) <=> Holds(db, a, plan.ons[j])
<1>1. /\ (i - 1) + 1 = i /\ \A j \in 1 .. i : j \in 1 .. k + 1
      /\ \A j \in 1 .. i - 1 : j \in 1 .. k /\ j + 1 \in 1 .. i
                                 /\ \A m \in 1 .. (j - 1) + 1 : m \in 1 .. i
  BY DEF Planned
<1>2. \A j \in 1 .. i : plan.scans[j].table \in NamesTo(plan, i - 1)
  BY <1>1 DEF NamesTo
<1>3. ASSUME NEW j \in 1 .. i
      PROVE  Satisfies(db, c, plan.scans[j].predicate) <=> Satisfies(db, a, plan.scans[j].predicate)
  <2>1. PICK node : node = plan.scans[j]
    OBVIOUS
  <2>2. PlannedScan(db, node) /\ node.table \in NamesTo(plan, i - 1)
    BY <1>1, <1>2, <2>1 DEF Planned
  <2>3. \A o \in ColumnsIn(node.predicate) : c[o.table] = a[o.table]
    BY <2>2 DEF PlannedScan, Binds
  <2>4. Satisfies(db, c, node.predicate) <=> Satisfies(db, a, node.predicate)
    BY <2>2, <2>3, SamePredicate DEF PlannedScan
  <2> QED BY <2>1, <2>4
<1>4. ASSUME NEW j \in 1 .. i - 1
      PROVE  Holds(db, c, plan.ons[j]) <=> Holds(db, a, plan.ons[j])
  <2>1. PICK on, node, names :
          on = plan.ons[j] /\ node = plan.scans[j + 1] /\ names = NamesTo(plan, j - 1)
    OBVIOUS
  <2>2. /\ on.left \in ColumnRefType /\ on.right \in ColumnRefType
        /\ on.left.table \in names /\ on.right.table = node.table
    <3>1. j \in 1 .. k
      BY <1>1
    <3>2. JoinOf(db, plan, j, names, on, node)
      BY <2>1, <3>1, JoinAt
    <3> QED BY <3>2 DEF JoinOf
  <2>3. names \subseteq NamesTo(plan, i - 1)
    BY <1>1, <2>1 DEF NamesTo
  <2>4. on.left.table \in NamesTo(plan, i - 1) /\ on.right.table \in NamesTo(plan, i - 1)
    BY <1>1, <1>2, <2>1, <2>2, <2>3
  <2>5. on.left \in OperandType /\ on.right \in OperandType
    BY <2>2 DEF OperandType
  <2>6. /\ Evaluate(db, c, on.left) = Evaluate(db, a, on.left)
        /\ Evaluate(db, c, on.right) = Evaluate(db, a, on.right)
    BY <2>4, <2>5, SameValue
  <2>7. Holds(db, c, on) <=> Holds(db, a, on)
    BY <2>6 DEF Holds
  <2> QED BY <2>1, <2>7
<1> QED BY <1>3, <1>4

(* The rows after a join are pairs of a row before it and one of its table *)
(* on which ON holds.                                                      *)
LEMMA JoinedPair ==
  ASSUME NEW db, NEW kept, NEW plan, NEW k, Planned(db, plan, k), NEW i \in 1 .. k,
         NEW on, on = plan.ons[i], NEW node, node = plan.scans[i + 1],
         NEW a, NEW b, NEW n, n = node.table, DOMAIN kept[n] = Valid(db[n])
  PROVE  a \in RowsTo(db, kept, plan, i - 1) /\ b \in RowsFor(db, n, kept[n], node.predicate)
           /\ Matched(db, a, on, b)
         => Merged(a, b) \in RowsTo(db, kept, plan, i) /\ Merged(b, a) = Merged(a, b)
<1> SUFFICES ASSUME a \in RowsTo(db, kept, plan, i - 1),
                    b \in RowsFor(db, n, kept[n], node.predicate), Matched(db, a, on, b)
             PROVE  Merged(a, b) \in RowsTo(db, kept, plan, i) /\ Merged(b, a) = Merged(a, b)
  OBVIOUS
<1>1. PICK names, c : names = NamesTo(plan, i - 1) /\ c = Merged(a, b)
  OBVIOUS
<1>2. /\ i - 1 \in Nat /\ (i - 1) + 1 = i
      /\ n \notin names /\ NamesTo(plan, i) = names \cup {n} /\ PlannedScan(db, node)
      /\ on.op = "=" /\ on.left \in ColumnRefType /\ on.right \in ColumnRefType
      /\ on.left.table \in names /\ on.right.table = n
  <2>1. i - 1 \in Nat /\ (i - 1) + 1 = i
    BY DEF Planned
  <2>2. JoinOf(db, plan, i, names, on, node)
    BY <1>1, JoinAt
  <2> QED BY <1>1, <2>1, <2>2 DEF JoinOf
<1>3. IsJoined(db, kept, plan, i - 1, a)
  BY RowsToAre
<1>4. IsCombination(kept, {n}, b) /\ Satisfies(db, b, node.predicate)
  BY RowsForAre
<1>5. /\ IsCombination(kept, names \cup {n}, c) /\ c[n] = b[n] /\ Merged(b, a) = c
      /\ \A m \in names : c[m] = a[m]
  <2>1. IsCombination(kept, names, a)
    BY <1>1, <1>3 DEF IsJoined
  <2>2. Beside(kept, names, n, a, b, Merged(a, b))
    BY <1>2, <1>4, <2>1, MergedCombination
  <2> QED BY <1>1, <2>2 DEF Beside
<1>6. /\ \A j \in 1 .. i : Satisfies(db, c, plan.scans[j].predicate)
      /\ \A j \in 1 .. i - 1 : Holds(db, c, plan.ons[j])
  <2>1. /\ \A j \in 1 .. i : Satisfies(db, a, plan.scans[j].predicate)
        /\ \A j \in 1 .. i - 1 : Holds(db, a, plan.ons[j])
    BY <1>2, <1>3 DEF IsJoined
  <2> QED BY <1>1, <1>5, <2>1, AgreeBefore
<1>7. Satisfies(db, c, node.predicate)
  <2>1. \A o \in ColumnsIn(node.predicate) : c[o.table] = b[o.table]
    BY <1>2, <1>5 DEF PlannedScan, Binds
  <2>2. node.predicate \in PredicateType
    BY <1>2 DEF PlannedScan
  <2> QED BY <1>4, <2>1, <2>2, SamePredicate
<1>8. Holds(db, c, on)
  <2>1. on.left \in OperandType /\ on.right \in OperandType
    BY <1>2 DEF OperandType
  <2>2. Evaluate(db, c, on.left) = Evaluate(db, a, on.left)
    BY <1>2, <1>5, <2>1, SameValue
  <2>3. Evaluate(db, c, on.right) = Evaluate(db, b, on.right)
    BY <1>2, <1>5, <2>1, SameValue
  <2> QED BY <1>2, <2>2, <2>3 DEF Holds, Matched
<1>9. IsJoined(db, kept, plan, i, c)
  <2>1. /\ \A j \in 1 .. i + 1 : j \in 1 .. i \/ j = i + 1
        /\ \A j \in 1 .. i : j \in 1 .. i - 1 \/ j = i
    BY <1>2
  <2> QED BY <1>2, <1>5, <1>6, <1>7, <1>8, <2>1 DEF IsJoined
<1> QED BY <1>1, <1>5, <1>9, RowsToAre

LEMMA PairJoined ==
  ASSUME NEW db, NEW kept, NEW plan, NEW k, Planned(db, plan, k), NEW i \in 1 .. k,
         NEW on, on = plan.ons[i], NEW node, node = plan.scans[i + 1],
         NEW row \in RowsTo(db, kept, plan, i), NEW n, n = node.table, DOMAIN kept[n] = Valid(db[n])
  PROVE  \E a \in RowsTo(db, kept, plan, i - 1) :
           \E b \in RowsFor(db, n, kept[n], node.predicate) :
             row = Merged(a, b) /\ Matched(db, a, on, b)
<1>1. PICK names : names = NamesTo(plan, i - 1)
  OBVIOUS
<1>2. /\ i - 1 \in Nat /\ (i - 1) + 1 = i
      /\ n \notin names /\ NamesTo(plan, i) = names \cup {n} /\ PlannedScan(db, node)
      /\ on.op = "=" /\ on.left \in ColumnRefType /\ on.right \in ColumnRefType
      /\ on.left.table \in names /\ on.right.table = n
  <2>1. i - 1 \in Nat /\ (i - 1) + 1 = i
    BY DEF Planned
  <2>2. JoinOf(db, plan, i, names, on, node)
    BY <1>1, JoinAt
  <2> QED BY <1>1, <2>1, <2>2 DEF JoinOf
<1>3. IsJoined(db, kept, plan, i, row)
  BY RowsToAre
<1>4. PICK a, b : Beside(kept, names, n, a, b, row)
  <2>1. IsCombination(kept, names \cup {n}, row)
    BY <1>2, <1>3 DEF IsJoined
  <2> QED BY <1>2, <2>1, SplitCombination
<1>5. /\ IsCombination(kept, names, a) /\ IsCombination(kept, {n}, b)
      /\ row = Merged(a, b) /\ b[n] = row[n] /\ \A m \in names : a[m] = row[m]
  BY <1>4 DEF Beside
<1>6. IsJoined(db, kept, plan, i - 1, a)
  <2>1. i \in 1 .. i /\ 1 .. i \subseteq 1 .. i + 1 /\ 1 .. i - 1 \subseteq 1 .. i
    BY <1>2
  <2>2. /\ \A j \in 1 .. i : Satisfies(db, row, plan.scans[j].predicate)
        /\ \A j \in 1 .. i - 1 : Holds(db, row, plan.ons[j])
    BY <1>3, <2>1 DEF IsJoined
  <2>3. /\ \A j \in 1 .. i : Satisfies(db, a, plan.scans[j].predicate)
        /\ \A j \in 1 .. i - 1 : Holds(db, a, plan.ons[j])
    BY <1>1, <1>5, <2>2, AgreeBefore
  <2> QED BY <1>1, <1>2, <1>5, <2>3 DEF IsJoined
<1>7. b \in RowsFor(db, n, kept[n], node.predicate)
  <2>1. Satisfies(db, row, node.predicate)
    <3>1. i + 1 \in 1 .. i + 1
      BY <1>2
    <3> QED BY <1>3, <3>1 DEF IsJoined
  <2>2. \A o \in ColumnsIn(node.predicate) : b[o.table] = row[o.table]
    BY <1>2, <1>5 DEF PlannedScan, Binds
  <2>3. node.predicate \in PredicateType
    BY <1>2 DEF PlannedScan
  <2>4. Satisfies(db, b, node.predicate)
    BY <2>1, <2>2, <2>3, SamePredicate
  <2> QED BY <1>5, <2>4, RowsForAre
<1>8. Matched(db, a, on, b)
  <2>1. on.left \in OperandType /\ on.right \in OperandType
    BY <1>2 DEF OperandType
  <2>2. Evaluate(db, row, on.left) = Evaluate(db, a, on.left)
    BY <1>2, <1>5, <2>1, SameValue
  <2>3. Evaluate(db, row, on.right) = Evaluate(db, b, on.right)
    BY <1>2, <1>5, <2>1, SameValue
  <2>4. i \in 1 .. i
    BY <1>2
  <2>5. Holds(db, row, on)
    BY <1>3, <2>4 DEF IsJoined
  <2> QED BY <1>2, <2>2, <2>3, <2>5 DEF Holds, Matched
<1> QED BY <1>5, <1>6, <1>7, <1>8, RowsToAre

(***************************************************************************)
(* The joins.                                                              *)
(***************************************************************************)
LEMMA NumberIs ==
  ASSUME NEW columns, NEW t, NEW row, NEW col, IsColumns(columns), t.columns = columns,
         IsRow(columns, row), HasColumn(columns, col), ~IsVarchar(columns[Position(columns, col)])
  PROVE  Value(t, row, col) \in Int
<1>1. PICK n, p : n = Len(columns) /\ p = Position(columns, col)
  OBVIOUS
<1>2. n \in Nat /\ DOMAIN columns = 1 .. n
  BY <1>1 DEF IsColumns
<1>3. p \in 1 .. n
  BY <1>1, <1>2, PositionIs
<1>4. row[p] \in Int
  BY <1>1, <1>2, <1>3 DEF IsRow, Typed
<1> QED BY <1>1, <1>4 DEF Value

LEMMA SearchIs ==
  ASSUME NEW columns, NEW t, NEW kept, TableInv(columns, t, kept), Indexes(t, kept),
         NEW col \in IndexedColumns(t), NEW key \in Int
  PROVE  search(IndexOn(t, col), key) = {rid \in Valid(t) : Value(t, kept[rid], col) = key}
<1>1. PICK i \in DOMAIN t.indices : IndexOn(t, col) = t.indices[i] /\ t.indices[i].col = col
  BY IndexOnIs
<1>2. PICK index : index = t.indices[i]
  OBVIOUS
<1>3. index.entries = {<<Value(t, kept[rid], col), rid>> : rid \in Valid(t)}
  BY <1>1, <1>2 DEF Indexes, EntriesFor
<1>4. ASSUME NEW rid \in Valid(t) PROVE Value(t, kept[rid], col) \in Int
  <2>1. IsRow(columns, kept[rid]) /\ IsColumns(columns) /\ t.columns = columns
    BY DEF TableInv, TableType, Stores
  <2>2. IsIntColumn(columns, col)
    BY <1>1, <2>1 DEF TableInv, OneTreeEach
  <2> QED BY <2>1, <2>2, ValueIs
<1>5. \A k \in Int : InRange(k, {key}, {key}) <=> k = key
  BY DEF InRange
<1>6. search(index, key) = {e[2] : e \in {f \in index.entries : InRange(f[1], {key}, {key})}}
  BY DEF search, range_scan
<1>7. ASSUME NEW rid \in search(index, key)
      PROVE  rid \in Valid(t) /\ Value(t, kept[rid], col) = key
  <2>1. PICK e \in index.entries : InRange(e[1], {key}, {key}) /\ rid = e[2]
    BY <1>6
  <2>2. PICK r \in Valid(t) : e = <<Value(t, kept[r], col), r>>
    BY <1>3
  <2>3. PICK k : k = Value(t, kept[r], col)
    OBVIOUS
  <2>4. e[1] = k /\ e[2] = r /\ k \in Int
    BY <1>4, <2>2, <2>3
  <2> QED BY <1>5, <2>1, <2>3, <2>4
<1>8. ASSUME NEW rid \in Valid(t), Value(t, kept[rid], col) = key
      PROVE  rid \in search(index, key)
  <2>1. PICK e : e = <<key, rid>>
    OBVIOUS
  <2>2. e \in index.entries /\ e[1] = key /\ e[2] = rid
    BY <1>3, <1>8, <2>1
  <2> QED BY <1>5, <1>6, <2>2
<1> QED BY <1>1, <1>2, <1>7, <1>8

(* The column at which a row of table n is looked at.                      *)
LEMMA ColumnValue ==
  ASSUME NEW db, NEW n, NEW rid, NEW values, NEW o \in ColumnRefType, o.table = n
  PROVE  Evaluate(db, RowOf(n, rid, values), o) = Value(db[n], values, o.col)
<1>1. PICK row : row = RowOf(n, rid, values)
  OBVIOUS
<1>2. row[n].values = values
  BY <1>1 DEF RowOf
<1>3. o.kind = "column"
  BY DEF ColumnRefType
<1> QED BY <1>1, <1>2, <1>3 DEF Evaluate

(* An index join pairs each row of probe with those of table n whose       *)
(* column is equal, all of them.                                           *)
Pairing(db, left, key, right, probe_key, row) ==
  \E a \in left : \E b \in right :
    Evaluate(db, b, key) = Evaluate(db, a, probe_key) /\ row = Merged(a, b)
EndsPairing(db, left, key, right, probe_key, names, result) ==
  \E found : /\ result = Ends(names, found)
             /\ \A row : row \in found <=> Pairing(db, left, key, right, probe_key, row)
LEMMA IndexJoinReturns ==
  ASSUME NEW db, NEW kept, TablesHold(db, kept), NEW n \in Names,
         NEW key \in ColumnRefType, key.table = n, key.col \in IndexedColumns(db[n]),
         NEW open_key, NEW probe_key, NEW names, NEW left,
         \A row \in left : Evaluate(db, row, probe_key) \in Int, ~IsText(db, probe_key),
         Binds(db, names, {probe_key}), Binds(db, {n}, {open_key})
  PROVE  EndsPairing(db, left, key, RowsFor(db, n, kept[n], <<>>), probe_key, names \cup {n},
                     IndexJoin(db, n, key.col, open_key, Ends(names, left), probe_key))
<1>1. PICK t, ids, probe, right : /\ t = db[n] /\ probe = Ends(names, left)
                                  /\ ids = [a \in left |-> search(IndexOn(t, key.col),
                                                                  Evaluate(db, a, probe_key))]
                                  /\ right = RowsFor(db, n, kept[n], <<>>)
  OBVIOUS
<1>2. TableInv(Columns[n], t, kept[n]) /\ Indexes(t, kept[n])
  BY <1>1 DEF TablesHold
<1>3. ASSUME NEW a \in left
      PROVE  ids[a] = {rid \in Valid(t) : Value(t, kept[n][rid], key.col) = Evaluate(db, a, probe_key)}
  BY <1>1, <1>2, SearchIs
<1>4. probe.names = names /\ probe.rows = left /\ probe.outcome = "ends"
  BY <1>1 DEF Ends
<1>5. PICK found : found = UNION {{Merged(a, b) : b \in RowsAt(db, n, ids[a])} : a \in left}
  OBVIOUS
<1>6. IndexJoin(db, n, key.col, open_key, probe, probe_key) = Ends(names \cup {n}, found)
  <2>1. \A a \in left : ids[a] \subseteq Valid(db[n])
    BY <1>1, <1>3
  <2>2. \A a \in left : search(IndexOn(db[n], key.col), Evaluate(db, a, probe_key)) = ids[a]
    BY <1>1
  <2>3. PICK merged : merged =
          UNION {{Merged(row, other) :
                    other \in RowsAt(db, n, search(IndexOn(db[n], key.col), Evaluate(db, row, probe_key)))} :
                   row \in probe.rows}
    OBVIOUS
  <2>4. merged = found
    BY <1>4, <1>5, <2>2, <2>3
  <2>5. IndexJoin(db, n, key.col, open_key, probe, probe_key) = Ends(names \cup {n}, merged)
    <3>1. ~ \E row \in probe.rows :
             ~(search(IndexOn(db[n], key.col), Evaluate(db, row, probe_key)) \subseteq Valid(db[n]))
      BY <1>4, <2>1, <2>2
    <3> QED BY <1>4, <2>3, <3>1 DEF IndexJoin, IsRead
  <2> QED BY <2>4, <2>5
<1>7. \A rid \in Valid(t) : get(t, rid) = kept[n][rid]
  BY <1>2, ScanIs
<1>8. right = {RowOf(n, rid, kept[n][rid]) : rid \in Valid(t)}
  <2>1. DOMAIN <<>> = {}
    OBVIOUS
  <2> QED BY <1>1, <2>1 DEF RowsFor, Satisfies
<1>9. ASSUME NEW a \in left, NEW b
      PROVE  b \in RowsAt(db, n, ids[a])
               <=> b \in right /\ Evaluate(db, b, key) = Evaluate(db, a, probe_key)
  <2>1. ASSUME NEW rid \in Valid(t)
        PROVE  Evaluate(db, RowOf(n, rid, kept[n][rid]), key) = Value(t, kept[n][rid], key.col)
    <3>1. PICK values : values = kept[n][rid]
      OBVIOUS
    <3>2. Evaluate(db, RowOf(n, rid, values), key) = Value(db[n], values, key.col)
      BY ColumnValue
    <3> QED BY <1>1, <3>1, <3>2
  <2>2. RowsAt(db, n, ids[a]) = {RowOf(n, rid, kept[n][rid]) : rid \in ids[a]}
    BY <1>1, <1>3, <1>7 DEF RowsAt
  <2> QED BY <1>3, <1>8, <2>1, <2>2
<1>10. \A row : row \in found <=> Pairing(db, left, key, right, probe_key, row)
  BY <1>5, <1>9 DEF Pairing
<1> QED BY <1>1, <1>6, <1>10 DEF EndsPairing

(* Any set of these pairs is what the join should return.                  *)
ArePairs(db, left, on, right, found) ==
  \A row : row \in found <=>
    \E a \in left : \E b \in right : Matched(db, a, on, b) /\ row = Merged(a, b)
LEMMA PairsAre ==
  ASSUME NEW db, NEW kept, NEW plan, NEW k, Planned(db, plan, k), NEW i \in 1 .. k,
         NEW on, on = plan.ons[i], NEW node, node = plan.scans[i + 1],
         NEW n, n = node.table, DOMAIN kept[n] = Valid(db[n]), NEW found,
         ArePairs(db, RowsTo(db, kept, plan, i - 1), on,
                  RowsFor(db, n, kept[n], node.predicate), found)
  PROVE  found = RowsTo(db, kept, plan, i)
<1>1. PICK left, right : /\ left = RowsTo(db, kept, plan, i - 1)
                         /\ right = RowsFor(db, n, kept[n], node.predicate)
  OBVIOUS
<1>2. \A row : row \in found <=>
        \E a \in left : \E b \in right : Matched(db, a, on, b) /\ row = Merged(a, b)
  BY <1>1 DEF ArePairs
<1>3. ASSUME NEW row \in found PROVE row \in RowsTo(db, kept, plan, i)
  <2>1. PICK a \in left, b \in right : Matched(db, a, on, b) /\ row = Merged(a, b)
    BY <1>2
  <2> QED BY <1>1, <2>1, JoinedPair
<1>4. ASSUME NEW row \in RowsTo(db, kept, plan, i) PROVE row \in found
  <2>1. \E a \in left : \E b \in right : row = Merged(a, b) /\ Matched(db, a, on, b)
    BY <1>1, PairJoined
  <2> QED BY <1>2, <2>1
<1> QED BY <1>3, <1>4

EndsPairs(db, left, on, right, names, result) ==
  \E found : result = Ends(names, found) /\ ArePairs(db, left, on, right, found)
LEMMA HashJoinReturns ==
  ASSUME NEW db, NEW names, NEW left, NEW n, NEW right, NEW on,
         Binds(db, names, {on.left}), Binds(db, {n}, {on.right})
  PROVE  EndsPairs(db, left, on, right, names \cup {n},
                   _hash_join(db, Ends(names, left), on, Ends({n}, right)))
<1>1. PICK l, r, pairs, found :
        /\ l = Ends(names, left) /\ r = Ends({n}, right)
        /\ pairs = {p \in left \X right :
             /\ Alike(db, on)
             /\ Evaluate(db, p[1], on.left) = Evaluate(db, p[2], on.right)}
        /\ found = {Merged(p[1], p[2]) : p \in pairs}
  OBVIOUS
<1>2. /\ l.names = names /\ l.rows = left /\ l.outcome = "ends"
      /\ r.names = {n} /\ r.rows = right /\ r.outcome = "ends"
  BY <1>1 DEF Ends
<1>3. _hash_join(db, l, on, r) = Ends(names \cup {n}, found)
  BY <1>1, <1>2 DEF _hash_join, IsRead
<1>4. ArePairs(db, left, on, right, found)
  <2>1. ASSUME NEW row \in found
        PROVE  \E a \in left : \E b \in right : Matched(db, a, on, b) /\ row = Merged(a, b)
    BY <1>1 DEF Matched
  <2>2. ASSUME NEW a \in left, NEW b \in right, Matched(db, a, on, b)
        PROVE  Merged(a, b) \in found
    <3>1. PICK p : p = <<a, b>>
      OBVIOUS
    <3>2. p \in pairs /\ p[1] = a /\ p[2] = b
      BY <1>1, <2>2, <3>1 DEF Matched
    <3> QED BY <1>1, <3>2
  <2> QED BY <2>1, <2>2 DEF ArePairs
<1> QED BY <1>1, <1>3, <1>4 DEF EndsPairs

ReadsFirst(db, kept, plan, n, predicate) ==
  /\ NamesTo(plan, 0) = {n}
  /\ RowsTo(db, kept, plan, 0) = RowsFor(db, n, kept[n], predicate)
LEMMA FirstRows ==
  ASSUME NEW db, NEW kept, NEW plan, NEW k, Planned(db, plan, k),
         NEW node, node = plan.scans[1], NEW n, n = node.table, DOMAIN kept[n] = Valid(db[n])
  PROVE  ReadsFirst(db, kept, plan, n, node.predicate)
<1>1. 1 .. 0 + 1 = {1} /\ 1 .. 0 = {}
  OBVIOUS
<1>2. NamesTo(plan, 0) = {n}
  BY <1>1 DEF NamesTo
<1>3. \A row : IsJoined(db, kept, plan, 0, row)
        <=> IsCombination(kept, {n}, row) /\ Satisfies(db, row, node.predicate)
  BY <1>1, <1>2 DEF IsJoined
<1>4. PICK predicate : predicate = node.predicate
  OBVIOUS
<1>5. \A row : row \in RowsTo(db, kept, plan, 0) <=> row \in RowsFor(db, n, kept[n], predicate)
  <2> TAKE row
  <2>1. row \in RowsTo(db, kept, plan, 0) <=> IsJoined(db, kept, plan, 0, row)
    BY RowsToAre
  <2>2. row \in RowsFor(db, n, kept[n], predicate)
          <=> IsCombination(kept, {n}, row) /\ Satisfies(db, row, predicate)
    BY RowsForAre
  <2> QED BY <1>3, <1>4, <2>1, <2>2
<1> QED BY <1>2, <1>4, <1>5 DEF ReadsFirst

(* Numbers, at a column of that type.                                      *)
LEMMA NumbersOf ==
  ASSUME NEW db, NEW kept, TablesHold(db, kept), NEW names, NEW o \in ColumnRefType,
         o.table \in names, o.table \in Names, HasColumn(db[o.table].columns, o.col),
         ~IsText(db, o), NEW row, IsCombination(kept, names, row)
  PROVE  Evaluate(db, row, o) \in Int
<1>1. PICK n, t, columns : n = o.table /\ t = db[n] /\ columns = Columns[n]
  OBVIOUS
<1>2. TableInv(columns, t, kept[n])
  BY <1>1 DEF TablesHold
<1>3. IsColumns(columns) /\ t.columns = columns
  BY <1>2 DEF TableInv, TableType
<1>4. PICK rid \in Valid(t) : row[n].values = kept[n][rid]
  <2>1. DOMAIN kept[n] = Valid(t)
    BY <1>2 DEF TableInv, Stores
  <2> QED BY <1>1, <2>1 DEF IsCombination, RecordsOf
<1>5. IsRow(columns, kept[n][rid])
  BY <1>2, <1>3 DEF TableInv, Stores
<1>7. o.kind = "column"
  BY DEF ColumnRefType
<1>8. ~IsVarchar(columns[Position(columns, o.col)])
  BY <1>1, <1>3, <1>7 DEF IsText
<1>6. Value(t, kept[n][rid], o.col) \in Int
  BY <1>1, <1>3, <1>5, <1>8, NumberIs
<1> QED BY <1>1, <1>4, <1>6, <1>7 DEF Evaluate

(* An indexed column holds numbers.                                        *)
LEMMA IndexedNumber ==
  ASSUME NEW db, NEW kept, TablesHold(db, kept), NEW o \in ColumnRefType, o.table \in Names,
         o.col \in IndexedColumns(db[o.table])
  PROVE  ~IsText(db, o)
<1>1. PICK n, t : n = o.table /\ t = db[n]
  OBVIOUS
<1>2. TableInv(Columns[n], t, kept[n])
  BY <1>1 DEF TablesHold
<1>3. t.columns = Columns[n]
  BY <1>2 DEF TableInv, TableType
<1>4. PICK i \in DOMAIN t.indices : t.indices[i].col = o.col
  BY <1>1 DEF IndexedColumns
<1>5. IsIntColumn(Columns[n], o.col)
  BY <1>2, <1>3, <1>4 DEF TableInv, OneTreeEach
<1>6. o.kind = "column"
  BY DEF ColumnRefType
<1> QED BY <1>1, <1>3, <1>5, <1>6 DEF IsText, IsIntColumn, IsVarchar

LEMMA SlotsAre ==
  ASSUME NEW db, NEW kept, TablesHold(db, kept), NEW n \in Names
  PROVE  DOMAIN kept[n] = Valid(db[n])
BY DEF TablesHold, TableInv, Stores

LEMMA ScanAt ==
  ASSUME NEW db, NEW kept, TablesHold(db, kept), NEW node, PlannedScan(db, node)
  PROVE  _plan_scan(db, node)
           = Ends({node.table}, RowsFor(db, node.table, kept[node.table], node.predicate))
<1>1. PICK n, predicate : n = node.table /\ predicate = node.predicate
  OBVIOUS
<1>2. /\ n \in Names /\ node = Scan(n, predicate) /\ predicate \in PredicateType
      /\ Binds(db, {n}, ColumnsIn(predicate)) /\ Comparable(db, predicate)
      /\ \A i \in DOMAIN predicate : LookupIsSound(db[n], predicate[i])
  BY <1>1 DEF PlannedScan, LookupsAreSound
<1>3. TableInv(Columns[n], db[n], kept[n]) /\ Indexes(db[n], kept[n])
  BY <1>2 DEF TablesHold
<1>4. _plan_scan(db, Scan(n, predicate)) = Ends({n}, RowsFor(db, n, kept[n], predicate))
  BY <1>2, <1>3, ScanReturns
<1> QED BY <1>1, <1>2, <1>4

(* A join, by any of the three operators, returns the rows it should.      *)
LEMMA JoinReturns ==
  ASSUME NEW db, NEW kept, TablesHold(db, kept),
         NEW plan, NEW k, Planned(db, plan, k), NEW i \in 1 .. k
  PROVE  _plan_join(db, plan, Ends(NamesTo(plan, i - 1), RowsTo(db, kept, plan, i - 1)), i)
           = Ends(NamesTo(plan, i), RowsTo(db, kept, plan, i))
<1>1. PICK on, node, n, from, names, rest, left, right, scanned :
        /\ on = plan.ons[i] /\ node = plan.scans[i + 1] /\ n = node.table
        /\ from = plan.scans[1] /\ names = NamesTo(plan, i - 1)
        /\ rest = RowsTo(db, kept, plan, i - 1) /\ left = Ends(names, rest)
        /\ scanned = RowsFor(db, n, kept[n], node.predicate) /\ right = Ends({n}, scanned)
  OBVIOUS
<1>2. JoinOf(db, plan, i, names, on, node)
  BY <1>1, JoinAt
<1>3. /\ PlannedScan(db, node) /\ n \in Names /\ names \subseteq Names
      /\ NamesTo(plan, i) = names \cup {n}
      /\ on.left \in ColumnRefType /\ on.right \in ColumnRefType
      /\ on.left.table \in names /\ on.right.table = n
      /\ Binds(db, names, {on.left}) /\ Binds(db, {n}, {on.right})
  BY <1>1, <1>2 DEF JoinOf, PlannedScan
<1>4. /\ HasColumn(db[on.left.table].columns, on.left.col)
      /\ HasColumn(db[on.right.table].columns, on.right.col)
  BY <1>3 DEF Binds
<1>5. DOMAIN kept[n] = Valid(db[n])
  BY <1>3, SlotsAre
<1>6. _plan_scan(db, node) = right
  <2>1. _plan_scan(db, node)
          = Ends({node.table}, RowsFor(db, node.table, kept[node.table], node.predicate))
    BY <1>3, ScanAt
  <2> QED BY <1>1, <2>1
<1>7. /\ left.outcome = "ends" /\ left.names = names /\ left.rows = rest
      /\ right.outcome = "ends" /\ right.names = {n} /\ right.rows = scanned
  BY <1>1 DEF Ends
<1>8. PICK result : result = _plan_join(db, plan, left, i)
  OBVIOUS
<1>9. result = IF ProbesRight(db, node, on)
               THEN IndexJoin(db, n, on.right.col, on.right, left, on.left)
               ELSE IF ProbesLeft(db, from.table, on)
               THEN IndexJoin(db, from.table, on.right.col, on.left, right, on.right)
               ELSE _hash_join(db, left, on, right)
  BY <1>1, <1>6, <1>7, <1>8 DEF _plan_join, IsOpen
<1>10. JoinIsSound(db, plan, i)
  BY DEF Planned, PlannedJoin
<1>11. ASSUME EndsPairs(db, rest, on, scanned, names \cup {n}, result)
       PROVE  result = Ends(NamesTo(plan, i), RowsTo(db, kept, plan, i))
  <2>1. PICK found : ArePairs(db, rest, on, scanned, found) /\ result = Ends(names \cup {n}, found)
    BY <1>11 DEF EndsPairs
  <2>2. found = RowsTo(db, kept, plan, i)
    BY <1>1, <1>5, <2>1, PairsAre
  <2> QED BY <1>3, <2>1, <2>2
<1>12. CASE ProbesRight(db, node, on)
  <2>1. node.predicate = <<>> /\ ~IsText(db, on.left)
    BY <1>1, <1>10, <1>12 DEF JoinIsSound
  <2>2. ASSUME NEW row \in rest PROVE Evaluate(db, row, on.left) \in Int
    <3>1. IsCombination(kept, names, row)
      BY <1>1, RowsToAre DEF IsJoined
    <3> QED BY <1>3, <1>4, <2>1, <3>1, NumbersOf
  <2>3. on.right.col \in IndexedColumns(db[n])
    BY <1>1, <1>12 DEF ProbesRight
  <2>4. EndsPairing(db, rest, on.right, RowsFor(db, n, kept[n], <<>>), on.left, names \cup {n},
                    IndexJoin(db, n, on.right.col, on.right, Ends(names, rest), on.left))
    <3>1. PICK key, probe_key : key = on.right /\ probe_key = on.left
      OBVIOUS
    <3>2. /\ key \in ColumnRefType /\ key.table = n /\ key.col \in IndexedColumns(db[n])
          /\ Binds(db, names, {probe_key}) /\ Binds(db, {n}, {key})
          /\ \A row \in rest : Evaluate(db, row, probe_key) \in Int
          /\ ~IsText(db, probe_key)
      BY <1>3, <2>1, <2>2, <2>3, <3>1
    <3>3. EndsPairing(db, rest, key, RowsFor(db, n, kept[n], <<>>), probe_key, names \cup {n},
                      IndexJoin(db, n, key.col, key, Ends(names, rest), probe_key))
      BY <1>3, <3>2, IndexJoinReturns
    <3> QED BY <3>1, <3>3
  <2>5. EndsPairing(db, rest, on.right, scanned, on.left, names \cup {n}, result)
    BY <1>1, <1>9, <1>12, <2>1, <2>4
  <2>6. EndsPairs(db, rest, on, scanned, names \cup {n}, result)
    <3>1. PICK found : /\ result = Ends(names \cup {n}, found)
                       /\ \A row : row \in found <=>
                            Pairing(db, rest, on.right, scanned, on.left, row)
      BY <2>5 DEF EndsPairing
    <3>2. ~IsText(db, on.right)
      BY <1>3, <2>3, IndexedNumber
    <3>3. Alike(db, on)
      BY <2>1, <3>2 DEF Alike
    <3>4. ArePairs(db, rest, on, scanned, found)
      BY <3>1, <3>3 DEF ArePairs, Pairing, Matched
    <3> QED BY <3>1, <3>4 DEF EndsPairs
  <2> QED BY <1>1, <1>8, <1>11, <2>6
<1>13. CASE ~ProbesRight(db, node, on) /\ ProbesLeft(db, from.table, on)
  <2>1. i = 1 /\ from.predicate = <<>> /\ on.left.col = on.right.col /\ ~IsText(db, on.right)
    BY <1>1, <1>10, <1>13 DEF JoinIsSound
  <2>2. PICK m : m = from.table
    OBVIOUS
  <2>3. m \in Names /\ names = {m} /\ rest = RowsFor(db, m, kept[m], <<>>)
    <3>1. 1 \in 1 .. k + 1 /\ i - 1 = 0
      BY <2>1 DEF Planned
    <3>2. m \in Names
      BY <1>1, <2>2, <3>1 DEF Planned, PlannedScan
    <3>3. DOMAIN kept[m] = Valid(db[m])
      BY <3>2, SlotsAre
    <3>4. ReadsFirst(db, kept, plan, m, from.predicate)
      BY <1>1, <2>2, <3>3, FirstRows
    <3> QED BY <1>1, <2>1, <3>1, <3>2, <3>4 DEF ReadsFirst
  <2>4. on.left.table = m /\ on.left.col \in IndexedColumns(db[m])
    BY <1>3, <1>13, <2>1, <2>2, <2>3 DEF ProbesLeft
  <2>5. ASSUME NEW row \in scanned PROVE Evaluate(db, row, on.right) \in Int
    <3>1. IsCombination(kept, {n}, row)
      BY <1>1, <1>5, RowsForAre
    <3> QED BY <1>3, <1>4, <2>1, <3>1, NumbersOf
  <2>6. EndsPairing(db, scanned, on.left, RowsFor(db, m, kept[m], <<>>), on.right, {n} \cup {m},
                    IndexJoin(db, m, on.left.col, on.left, Ends({n}, scanned), on.right))
    <3>1. PICK key, probe_key, just : key = on.left /\ probe_key = on.right /\ just = {n}
      OBVIOUS
    <3>2. /\ key \in ColumnRefType /\ key.table = m /\ key.col \in IndexedColumns(db[m])
          /\ Binds(db, just, {probe_key}) /\ Binds(db, {m}, {key})
          /\ \A row \in scanned : Evaluate(db, row, probe_key) \in Int
          /\ ~IsText(db, probe_key)
      BY <1>3, <2>1, <2>3, <2>4, <2>5, <3>1
    <3>3. EndsPairing(db, scanned, key, RowsFor(db, m, kept[m], <<>>), probe_key, just \cup {m},
                      IndexJoin(db, m, key.col, key, Ends(just, scanned), probe_key))
      BY <2>3, <3>2, IndexJoinReturns
    <3> QED BY <3>1, <3>3
  <2>7. ASSUME NEW a \in rest, NEW b \in scanned, Matched(db, a, on, b)
        PROVE  Merged(b, a) = Merged(a, b)
    BY <1>1, <1>5, <2>7, JoinedPair
  <2>8. EndsPairing(db, scanned, on.left, rest, on.right, {n} \cup {m}, result)
    <3>1. result = IndexJoin(db, m, on.left.col, on.left, right, on.right)
      BY <1>9, <1>13, <2>1, <2>2
    <3> QED BY <1>1, <2>3, <2>6, <3>1
  <2>9. EndsPairs(db, rest, on, scanned, names \cup {n}, result)
    <3>1. PICK found : /\ result = Ends({n} \cup {m}, found)
                       /\ \A row : row \in found <=>
                            Pairing(db, scanned, on.left, rest, on.right, row)
      BY <2>8 DEF EndsPairing
    <3>2. ~IsText(db, on.left)
      BY <1>3, <2>3, <2>4, IndexedNumber
    <3>3. Alike(db, on)
      BY <2>1, <3>2 DEF Alike
    <3>4. ArePairs(db, rest, on, scanned, found)
      BY <2>7, <3>1, <3>3 DEF ArePairs, Pairing, Matched
    <3>5. {n} \cup {m} = names \cup {n}
      BY <2>3
    <3> QED BY <3>1, <3>4, <3>5 DEF EndsPairs
  <2> QED BY <1>1, <1>8, <1>11, <2>9
<1>14. CASE ~ProbesRight(db, node, on) /\ ~ProbesLeft(db, from.table, on)
  <2>1. EndsPairs(db, rest, on, scanned, names \cup {n},
                  _hash_join(db, Ends(names, rest), on, Ends({n}, scanned)))
    BY <1>3, HashJoinReturns
  <2>2. result = _hash_join(db, left, on, right)
    BY <1>9, <1>14
  <2> QED BY <1>1, <1>8, <1>11, <2>1, <2>2
<1> QED BY <1>12, <1>13, <1>14

(* All joins of a plan, one after the other.                               *)
LEMMA JoinsReturn ==
  ASSUME NEW db, NEW kept, TablesHold(db, kept), NEW plan, NEW k, Planned(db, plan, k)
  PROVE  RunJoins(db, plan) = Ends(NamesTo(plan, k), RowsTo(db, kept, plan, k))
<1> DEFINE IsRun(f) == f = [i \in 0 .. Len(plan.ons) |->
                              IF i = 0 THEN _plan_scan(db, plan.scans[1])
                              ELSE _plan_join(db, plan, f[i - 1], i)]
<1>1. k \in Nat /\ Len(plan.ons) = k /\ 1 \in 1 .. k + 1
  BY DEF Planned
<1>2. PICK u : u = [i \in 0 .. k |-> Ends(NamesTo(plan, i), RowsTo(db, kept, plan, i))]
  OBVIOUS
<1>3. _plan_scan(db, plan.scans[1]) = u[0]
  <2>1. PICK node, n : node = plan.scans[1] /\ n = node.table
    OBVIOUS
  <2>2. PlannedScan(db, node) /\ n \in Names
    BY <1>1, <2>1 DEF Planned, PlannedScan
  <2>3. _plan_scan(db, node) = Ends({n}, RowsFor(db, n, kept[n], node.predicate))
    BY <2>1, <2>2, ScanAt
  <2>4. DOMAIN kept[n] = Valid(db[n])
    BY <2>2, SlotsAre
  <2>5. ReadsFirst(db, kept, plan, n, node.predicate)
    BY <2>1, <2>4, FirstRows
  <2>6. 0 \in 0 .. k
    BY <1>1
  <2> QED BY <1>2, <2>1, <2>3, <2>5, <2>6 DEF ReadsFirst
<1>4. ASSUME NEW i \in 1 .. k PROVE _plan_join(db, plan, u[i - 1], i) = u[i]
  <2>1. i \in 0 .. k /\ i - 1 \in 0 .. k
    BY <1>1
  <2> QED BY <1>2, <2>1, JoinReturns
<1>5. IsRun(u)
  <2>1. \A i \in 0 .. k : i # 0 => i \in 1 .. k
    BY <1>1
  <2>2. \A i \in 0 .. k : u[i] = IF i = 0 THEN _plan_scan(db, plan.scans[1])
                                 ELSE _plan_join(db, plan, u[i - 1], i)
    BY <1>3, <1>4, <2>1
  <2>3. u = [i \in 0 .. k |-> u[i]]
    BY <1>2
  <2> QED BY <1>1, <2>2, <2>3
<1>6. PICK w : w = (CHOOSE f : IsRun(f))
  OBVIOUS
<1>7. IsRun(w) /\ RunJoins(db, plan) = w[k]
  <2>1. IsRun(w)
    BY <1>5, <1>6
  <2>2. RunJoins(db, plan) = w[k]
    BY <1>1, <1>6 DEF RunJoins
  <2> QED BY <2>1, <2>2
<1>8. w[0] = u[0] /\ \A i \in 1 .. k : w[i] = _plan_join(db, plan, w[i - 1], i)
  <2>1. 0 \in 0 .. k /\ \A i \in 1 .. k : i \in 0 .. k /\ i # 0
    BY <1>1
  <2> QED BY <1>1, <1>3, <1>7, <2>1
<1> HIDE DEF IsRun
<1> DEFINE good == {i \in Nat : i <= k => w[i] = u[i]}
<1>9. 0 \in good
  BY <1>8
<1>10. ASSUME NEW i \in Nat, i \in good PROVE i + 1 \in good
  <2> SUFFICES ASSUME i + 1 <= k PROVE w[i + 1] = u[i + 1]
    OBVIOUS
  <2>1. PICK j : j = i + 1
    OBVIOUS
  <2>2. j \in 1 .. k /\ j - 1 = i /\ i <= k
    BY <1>1, <2>1
  <2>3. w[i] = u[i]
    BY <1>10, <2>2
  <2>4. w[j] = _plan_join(db, plan, w[i], j) /\ u[j] = _plan_join(db, plan, u[i], j)
    BY <1>4, <1>8, <2>2
  <2> QED BY <2>1, <2>3, <2>4
<1>11. w[k] = u[k]
  <2>1. k \in good
    <3> HIDE DEF good
    <3> QED BY <1>1, <1>9, <1>10, Upward
  <2> QED BY <1>1, <2>1
<1>12. k \in 0 .. k
  BY <1>1
<1> QED BY <1>2, <1>7, <1>11, <1>12

(***************************************************************************)
(* Pushing down.                                                           *)
(***************************************************************************)
LEMMA Appended ==
  ASSUME NEW V, NEW s \in Seq(V), NEW v \in V, NEW x
  PROVE  x \in ToSet(Append(s, v)) <=> x \in ToSet(s) \/ x = v
<1>1. PICK n, r : n = Len(s) /\ r = Append(s, v)
  OBVIOUS
<1>2. /\ n \in Nat /\ DOMAIN s = 1 .. n /\ DOMAIN r = 1 .. n + 1 /\ r[n + 1] = v
      /\ \A i \in 1 .. n : r[i] = s[i]
  <2>1. r \in Seq(V) /\ Len(r) = n + 1
    BY <1>1, AppendProperties
  <2> QED BY <1>1, <2>1, LenProperties, AppendProperties
<1>3. \A i : i \in 1 .. n + 1 <=> i \in 1 .. n \/ i = n + 1
  BY <1>2
<1> QED BY <1>1, <1>2, <1>3 DEF ToSet

LEMMA ConjunctsAre ==
  ASSUME NEW V, NEW predicate \in Seq(V), NEW numbers
  PROVE  /\ Conjuncts(predicate, numbers) \in Seq(V)
         /\ \A x : x \in ToSet(Conjuncts(predicate, numbers))
                     <=> \E i \in DOMAIN predicate : i \in numbers /\ x = predicate[i]
<1> DEFINE n == Len(predicate)
           next(i, s) == IF i \in numbers THEN Append(s, predicate[i]) ELSE s
           step == [x \in (1 .. n) \X Seq(V) |-> next(x[1], x[2])]
           IsUpto(u) == u = [i \in 0 .. n |-> IF i = 0 THEN <<>>
                               ELSE IF i \in numbers THEN Append(u[i - 1], predicate[i])
                               ELSE u[i - 1]]
<1>1. n \in Nat /\ DOMAIN predicate = 1 .. n /\ \A i \in 1 .. n : predicate[i] \in V
  BY LenProperties
<1> HIDE DEF n
<1>2. ASSUME NEW i \in 1 .. n, NEW s \in Seq(V) PROVE next(i, s) \in Seq(V)
  BY <1>1, AppendProperties
<1>3. \A i \in 1 .. n : \A s \in Seq(V) : step[<<i, s>>] = next(i, s)
  OBVIOUS
<1>4. PICK u : Iterates(u, n, Seq(V), <<>>, step)
  <2>1. \A i \in 1 .. n : \A s \in Seq(V) : step[<<i, s>>] \in Seq(V)
    BY <1>2, <1>3
  <2>2. <<>> \in Seq(V)
    BY EmptySeq
  <2> HIDE DEF step, next
  <2> QED BY <1>1, <2>1, <2>2, Iterated
<1> HIDE DEF step
<1>5. u \in [0 .. n -> Seq(V)] /\ u[0] = <<>> /\ \A i \in 1 .. n : u[i] = next(i, u[i - 1])
  <2>1. u \in [0 .. n -> Seq(V)] /\ u[0] = <<>> /\ \A i \in 1 .. n : u[i] = step[<<i, u[i - 1]>>]
    BY <1>4 DEF Iterates
  <2>2. \A i \in 1 .. n : i - 1 \in 0 .. n
    BY <1>1
  <2> HIDE DEF next
  <2> QED BY <1>3, <2>1, <2>2
<1>6. IsUpto(u)
  <2>1. \A i \in 0 .. n : i # 0 => i \in 1 .. n
    BY <1>1
  <2>2. \A i \in 0 .. n : u[i] = IF i = 0 THEN <<>> ELSE next(i, u[i - 1])
    <3> HIDE DEF next
    <3> QED BY <1>5, <2>1
  <2>3. u = [i \in 0 .. n |-> u[i]]
    BY <1>5
  <2> QED BY <2>2, <2>3
<1>7. PICK w : w = (CHOOSE x : IsUpto(x))
  OBVIOUS
<1>8. IsUpto(w) /\ Conjuncts(predicate, numbers) = w[n]
  <2>1. IsUpto(w)
    BY <1>6, <1>7
  <2>2. Conjuncts(predicate, numbers) = w[n]
    BY <1>7 DEF Conjuncts, n
  <2> QED BY <2>1, <2>2
<1>9. w[0] = <<>> /\ \A i \in 1 .. n : w[i] = next(i, w[i - 1])
  <2>1. 0 \in 0 .. n /\ \A i \in 1 .. n : i \in 0 .. n /\ i # 0
    BY <1>1
  <2> QED BY <1>8, <2>1
<1> HIDE DEF IsUpto
<1> DEFINE Picks(i, s) ==
             /\ s \in Seq(V)
             /\ \A x : x \in ToSet(s) <=> \E j \in 1 .. i : j \in numbers /\ x = predicate[j]
           good == {i \in Nat : i <= n => Picks(i, w[i])}
<1>10. 0 \in good
  <2>1. <<>> \in Seq(V) /\ ToSet(<<>>) = {} /\ 1 .. 0 = {}
    BY EmptySeq DEF ToSet
  <2> QED BY <1>9, <2>1
<1>11. ASSUME NEW i \in Nat, i \in good PROVE i + 1 \in good
  <2> SUFFICES ASSUME i + 1 <= n PROVE Picks(i + 1, w[i + 1])
    OBVIOUS
  <2>1. PICK j, s, r : j = i + 1 /\ s = w[i] /\ r = w[j]
    OBVIOUS
  <2>2. j \in 1 .. n /\ j - 1 = i /\ i <= n /\ \A m : m \in 1 .. j <=> m \in 1 .. i \/ m = j
    BY <1>1, <2>1
  <2>3. Picks(i, s)
    BY <1>11, <2>1, <2>2
  <2>4. r = next(j, s)
    BY <1>9, <2>1, <2>2
  <2>5. r \in Seq(V)
    <3> HIDE DEF next
    <3> QED BY <1>2, <2>2, <2>3, <2>4
  <2>6. CASE j \in numbers
    <3>1. r = Append(s, predicate[j])
      BY <2>4, <2>6
    <3>2. predicate[j] \in V
      BY <1>1, <2>2
    <3>3. \A x : x \in ToSet(r) <=> x \in ToSet(s) \/ x = predicate[j]
      BY <2>3, <3>1, <3>2, Appended
    <3> QED BY <2>1, <2>2, <2>3, <2>5, <2>6, <3>3
  <2>7. CASE j \notin numbers
    <3>1. r = s
      BY <2>4, <2>7
    <3> QED BY <2>1, <2>2, <2>3, <2>5, <2>7, <3>1
  <2> QED BY <2>6, <2>7
<1>12. Picks(n, w[n])
  <2>1. n \in good
    <3> HIDE DEF good
    <3> QED BY <1>1, <1>10, <1>11, Upward
  <2> QED BY <1>1, <2>1
<1> QED BY <1>1, <1>8, <1>12

(***************************************************************************)
(* From a query to its plan.                                               *)
(***************************************************************************)
Ordered(q, k) ==
  /\ k \in Nat /\ Len(q.joins) = k /\ DOMAIN q.joins = 1 .. k
  /\ \A i \in 1 .. k : q.joins[i] \in JoinType
  /\ \A i \in 1 .. k + 1 : TableAt(q, i) \in Names
  /\ \A i, j \in 1 .. k + 1 : TableAt(q, i) = TableAt(q, j) => i = j
  /\ TablesOf(q) = {TableAt(q, i) : i \in 1 .. k + 1}
  /\ q.from \in TablesOf(q) /\ q.from \in Names
  /\ q.where \in WhereType /\ q.select \in Seq(WrittenType)

LEMMA QueryIs ==
  ASSUME NEW q \in Queries
  PROVE  \E k : Ordered(q, k)
<1>1. PICK joins, k : joins = q.joins /\ k = Len(joins)
  OBVIOUS
<1>2. /\ q.from \in Names /\ joins \in Seq(JoinType)
      /\ q.where \in WhereType /\ q.select \in Seq(WrittenType)
      /\ \A i, j \in 1 .. k + 1 : TableAt(q, i) = TableAt(q, j) => i = j
  <2>1. q \in QueryType
    BY QueryAssumption
  <2>2. \A i, j \in 1 .. Len(q.joins) + 1 : TableAt(q, i) = TableAt(q, j) => i = j
    BY QueryAssumption
  <2> QED BY <1>1, <2>1, <2>2 DEF QueryType
<1>3. k \in Nat /\ DOMAIN joins = 1 .. k /\ \A i \in 1 .. k : joins[i] \in JoinType
  BY <1>1, <1>2, LenProperties
<1>4. ASSUME NEW i \in 1 .. k + 1 PROVE TableAt(q, i) \in Names
  <2>1. CASE i = 1
    BY <1>2, <2>1 DEF TableAt
  <2>2. CASE i # 1
    <3>1. i - 1 \in 1 .. k
      BY <1>3, <2>2
    <3>2. joins[i - 1] \in JoinType
      BY <1>3, <3>1
    <3>3. joins[i - 1].table \in Names
      BY <3>2 DEF JoinType
    <3> QED BY <1>1, <2>2, <3>3 DEF TableAt
  <2> QED BY <2>1, <2>2
<1>5. TablesOf(q) = {TableAt(q, i) : i \in 1 .. k + 1}
  BY <1>1 DEF TablesOf
<1>6. q.from \in TablesOf(q)
  <2>1. 1 \in 1 .. k + 1 /\ TableAt(q, 1) = q.from
    BY <1>3 DEF TableAt
  <2> QED BY <1>5, <2>1
<1> QED BY <1>1, <1>2, <1>3, <1>4, <1>5, <1>6 DEF Ordered

(* Qualifying.                                                             *)
BareAreFroms(q) ==
  \A o \in Referred(q) : o.table = Unqualified => OwnersOf(q, o.col) = {q.from}

LEMMA QualifiedIs ==
  ASSUME NEW q \in Queries, BareAreFroms(q), q.from \in Names, NEW o \in OperandType,
         o.kind = "column" => o \in Referred(q), NEW p, p = Qualified(o, q.from)
  PROVE  /\ p \in OperandType /\ p = Owned(q, o)
         /\ p.kind = "column" => p.table \in TablesOf(q) /\ HasColumn(Columns[p.table], p.col)
<1>1. PICK from : from = q.from
  OBVIOUS
<1>2. from \in STRING
  BY <1>1, QueryAssumption
<1>3. CASE o.kind = "column" /\ o.table = Unqualified
  <2>1. o \in ColumnRefType
    BY <1>3 DEF OperandType, ColumnRefType, LiteralType
  <2>2. OwnersOf(q, o.col) = {from}
    BY <1>1, <1>3 DEF BareAreFroms
  <2>3. Owned(q, o) = Col(from, o.col)
    BY <1>3, <2>2 DEF Owned, Owner
  <2>4. p = [o EXCEPT !.table = from]
    BY <1>1, <1>3 DEF Qualified
  <2>5. /\ p = Col(from, o.col) /\ p \in ColumnRefType
        /\ p.kind = "column" /\ p.table = from /\ p.col = o.col
    BY <1>2, <2>1, <2>4 DEF Col, ColumnRefType
  <2> QED BY <2>2, <2>3, <2>5 DEF OperandType, OwnersOf
<1>4. CASE ~(o.kind = "column" /\ o.table = Unqualified)
  <2>1. p = o /\ Owned(q, o) = o
    BY <1>4 DEF Qualified, Owned
  <2>2. o.kind = "column" => o.table \in OwnersOf(q, o.col)
    BY <1>4, QueryAssumption
  <2> QED BY <2>1, <2>2 DEF OwnersOf
<1> QED BY <1>3, <1>4

(* A WHERE that can be planned, with all its columns qualified.            *)
OfTables(q, c) ==
  /\ c \in ComparisonType
  /\ \A o \in Operands(c) :
       o.kind = "column" => o.table \in TablesOf(q) /\ HasColumn(Columns[o.table], o.col)
ComparesOwned(q, c, d) ==
  /\ OfTables(q, d)
  /\ d.left = Owned(q, c.left) /\ d.op = c.op /\ d.right = Owned(q, c.right)
LooksAtOwned(q, where, planned) ==
  /\ planned \in ConjunctType /\ DOMAIN planned = DOMAIN where
  /\ \A i \in DOMAIN where :
       /\ DOMAIN planned[i] = DOMAIN where[i]
       /\ \A j \in DOMAIN where[i] : ComparesOwned(q, where[i][j], planned[i][j])

LEMMA ConditionIs ==
  ASSUME NEW q \in Queries, BareAreFroms(q), q.from \in Names,
         NEW c \in ConditionType, IsPlanned(c),
         \A o \in Operands(c) : o.kind = "column" => o \in Referred(q),
         NEW d, Plans(q.from, c, d)
  PROVE  ComparesOwned(q, c, d)
<1>1. PICK from, l, r : from = q.from /\ l = c.left /\ r = c.right
  OBVIOUS
<1>2. l \in WrittenType /\ l # Other /\ r \in WrittenType /\ r # Other /\ from \in STRING
  BY <1>1, QueryAssumption DEF ConditionType, IsPlanned, Operands
<1>3. l \in OperandType /\ r \in OperandType
  BY <1>2, OperandIs
<1>4. (l.kind = "column" => l \in Referred(q)) /\ (r.kind = "column" => r \in Referred(q))
  BY <1>1 DEF Operands
<1>5. PICK m, n : m = Qualified(l, q.from) /\ n = Qualified(r, q.from)
  OBVIOUS
<1>6. /\ m = Owned(q, l)
      /\ m.kind = "column" => m.table \in TablesOf(q) /\ HasColumn(Columns[m.table], m.col)
  BY <1>3, <1>4, <1>5, QualifiedIs
<1>7. /\ n = Owned(q, r)
      /\ n.kind = "column" => n.table \in TablesOf(q) /\ HasColumn(Columns[n.table], n.col)
  BY <1>3, <1>4, <1>5, QualifiedIs
<1>8. d \in ComparisonType /\ d.left = m /\ d.op = c.op /\ d.right = n
  BY <1>1, <1>5 DEF Plans
<1> QED BY <1>1, <1>6, <1>7, <1>8 DEF OfTables, Operands, ComparesOwned

LEMMA WhereIs ==
  ASSUME NEW q \in Queries, BareAreFroms(q), q.from \in Names, q.where \in WhereType,
         \A c \in ComparisonsOf(q.where) : IsPlanned(c),
         NEW planned, planned = QualifiedAll(q.where, q.from)
  PROVE  LooksAtOwned(q, q.where, planned)
<1>1. PICK where, from : where = q.where /\ from = q.from
  OBVIOUS
<1>2. where \in WhereType /\ from \in STRING /\ \A c \in ComparisonsOf(where) : IsPlanned(c)
  BY <1>1, QueryAssumption
<1>3. PlansAll(from, where, planned)
  BY <1>1, <1>2, WherePlanned
<1>4. ASSUME NEW i \in DOMAIN where, NEW j \in DOMAIN where[i]
      PROVE  ComparesOwned(q, where[i][j], planned[i][j])
  <2>1. PICK both, c, d : both = where[i] /\ c = both[j] /\ d = planned[i][j]
    OBVIOUS
  <2>2. both \in Seq(ConditionType) /\ both \in ToSet(where)
    BY <1>2, <2>1, LenProperties DEF WhereType, ToSet
  <2>3. c \in ConditionType /\ c \in ToSet(both)
    BY <2>1, <2>2, LenProperties DEF ToSet
  <2>4. c \in ComparisonsOf(where)
    BY <2>2, <2>3 DEF ComparisonsOf
  <2>5. Plans(q.from, c, d)
    BY <1>1, <1>3, <2>1 DEF PlansAll, PlansBoth
  <2>6. ASSUME NEW o \in Operands(c), o.kind = "column" PROVE o \in Referred(q)
    <3>1. o \in ColumnsOf(where)
      BY <2>4, <2>6 DEF ColumnsOf
    <3> QED BY <1>1, <2>6, <3>1 DEF Referred
  <2>7. ComparesOwned(q, c, d)
    BY <1>2, <2>3, <2>4, <2>5, <2>6, ConditionIs
  <2> QED BY <2>1, <2>7
<1> QED BY <1>1, <1>3, <1>4 DEF PlansAll, PlansBoth, LooksAtOwned

(* What qualifying keeps: the meaning.                                     *)
WhereMeans(q, row) ==
  q.where = <<>> \/ \E both \in ToSet(q.where) : \A c \in ToSet(both) : MeansTrue(q, row, c)

LEMMA MeansOwned ==
  ASSUME NEW q, NEW c, NEW d, ComparesOwned(q, c, d), NEW row
  PROVE  Holds(tables, row, d) <=> MeansTrue(q, row, c)
<1>1. PICK e : e = Cmp(Owned(q, c.left), c.op, Owned(q, c.right))
  OBVIOUS
<1>2. e.left = d.left /\ e.op = d.op /\ e.right = d.right
  BY <1>1 DEF Cmp, ComparesOwned
<1>3. Holds(tables, row, d) <=> Holds(tables, row, e)
  BY <1>2 DEF Holds, Alike
<1> QED BY <1>1, <1>3 DEF MeansTrue

LEMMA NoneIn ==
  ASSUME NEW V, NEW s \in Seq(V)
  PROVE  s = <<>> <=> DOMAIN s = {}
<1>1. Len(s) \in Nat /\ DOMAIN s = 1 .. Len(s) /\ (s = <<>> <=> Len(s) = 0)
  BY LenProperties, EmptySeq
<1> QED BY <1>1, SMTT(60)

LEMMA WhereMeansOwned ==
  ASSUME NEW q, q.where \in WhereType, NEW planned, LooksAtOwned(q, q.where, planned), NEW row
  PROVE  planned = <<>> \/ TrueOf(tables, row, planned) <=> WhereMeans(q, row)
<1>1. PICK where : where = q.where
  OBVIOUS
<1>2. /\ planned \in ConjunctType /\ where \in WhereType /\ DOMAIN planned = DOMAIN where
      /\ \A i \in DOMAIN where : DOMAIN planned[i] = DOMAIN where[i]
      /\ \A i \in DOMAIN where : \A j \in DOMAIN where[i] :
           ComparesOwned(q, where[i][j], planned[i][j])
  BY <1>1 DEF LooksAtOwned
<1>3. planned = <<>> <=> where = <<>>
  <2>1. (planned = <<>> <=> DOMAIN planned = {}) /\ (where = <<>> <=> DOMAIN where = {})
    BY <1>2, NoneIn DEF ConjunctType, WhereType
  <2> QED BY <1>2, <2>1
<1>4. \A i \in DOMAIN where : \A j \in DOMAIN where[i] :
        Holds(tables, row, planned[i][j]) <=> MeansTrue(q, row, where[i][j])
  BY <1>2, MeansOwned
<1>5. \A i \in DOMAIN where : (\A d \in ToSet(planned[i]) : Holds(tables, row, d))
                                <=> \A c \in ToSet(where[i]) : MeansTrue(q, row, c)
  BY <1>2, <1>4 DEF ToSet
<1>6. TrueOf(tables, row, planned)
        <=> \E i \in DOMAIN planned : \A d \in ToSet(planned[i]) : Holds(tables, row, d)
  BY DEF TrueOf, ToSet
<1>7. (\E both \in ToSet(where) : \A c \in ToSet(both) : MeansTrue(q, row, c))
        <=> \E i \in DOMAIN where : \A c \in ToSet(where[i]) : MeansTrue(q, row, c)
  BY DEF ToSet
<1> QED BY <1>1, <1>2, <1>3, <1>5, <1>6, <1>7 DEF WhereMeans

(* The filter of the plan.                                                 *)
FilterOf(q, f) ==
  /\ f \in PredicateType
  /\ \A x \in ToSet(f) : \A c \in ComparisonsOf(x) : OfTables(q, c)
  /\ \A row : (\A x \in ToSet(f) : TrueOf(tables, row, x)) <=> WhereMeans(q, row)

LEMMA FilterIs ==
  ASSUME NEW q \in Queries, NEW k, Ordered(q, k), BareAreFroms(q),
         IsPlannedAll(q.where, q.select), NEW f, f = Predicate(q.where, q.from)
  PROVE  FilterOf(q, f)
<1>1. q.where \in WhereType /\ q.from \in Names
  BY DEF Ordered
<1>2. PICK planned : planned = QualifiedAll(q.where, q.from)
  OBVIOUS
<1>3. LooksAtOwned(q, q.where, planned)
  BY <1>1, <1>2, WhereIs DEF IsPlannedAll
<1>4. planned \in ConjunctType /\ f = split_conjuncts(planned)
  BY <1>2, <1>3 DEF LooksAtOwned, Predicate
<1>5. Splits(planned, f) /\ \A db, row : Agrees(db, planned, f, row)
  BY <1>4, SplitIs
<1>6. ASSUME NEW c \in ComparisonsOf(planned) PROVE OfTables(q, c)
  <2>1. PICK both \in ToSet(planned) : c \in ToSet(both)
    BY DEF ComparisonsOf
  <2>2. PICK i \in DOMAIN planned : both = planned[i]
    BY <2>1 DEF ToSet
  <2>3. PICK j \in DOMAIN planned[i] : c = planned[i][j]
    BY <2>1, <2>2 DEF ToSet
  <2> QED BY <1>3, <2>2, <2>3 DEF LooksAtOwned, ComparesOwned
<1>7. \A row : (\A x \in ToSet(f) : TrueOf(tables, row, x)) <=> WhereMeans(q, row)
  <2> TAKE row
  <2>1. (\A x \in ToSet(f) : TrueOf(tables, row, x))
          <=> planned = <<>> \/ TrueOf(tables, row, planned)
    BY <1>5 DEF Agrees
  <2>2. planned = <<>> \/ TrueOf(tables, row, planned) <=> WhereMeans(q, row)
    BY <1>1, <1>3, WhereMeansOwned
  <2> QED BY <2>1, <2>2
<1> QED BY <1>5, <1>6, <1>7 DEF Splits, FilterOf

(* The plan of a query: which conjuncts are where.                         *)
LEMMA PushedToIs ==
  ASSUME NEW plan, NEW k \in Nat, DOMAIN plan.scans = 1 .. k + 1,
         \A i, j \in 1 .. k + 1 : plan.scans[i].table = plan.scans[j].table => i = j, NEW x
  PROVE  \A i : i \in PushedTo(plan, x)
                  <=> i \in 1 .. k + 1 /\ referenced_tables(x) = {plan.scans[i].table}
<1>1. ASSUME NEW i \in 1 .. k + 1, referenced_tables(x) = {plan.scans[i].table}
      PROVE  ScansOf(plan, referenced_tables(x)) = {i}
  BY <1>1 DEF ScansOf
<1>2. ASSUME NEW i \in 1 .. k + 1, referenced_tables(x) = {plan.scans[i].table}
      PROVE  i \in PushedTo(plan, x)
  <2>1. ScansOf(plan, referenced_tables(x)) = {i}
    BY <1>1, <1>2
  <2>2. i <= i
    OBVIOUS
  <2> QED BY <1>2, <2>1, <2>2 DEF PushedTo
<1>3. ASSUME NEW i, i \in PushedTo(plan, x)
      PROVE  i \in 1 .. k + 1 /\ referenced_tables(x) = {plan.scans[i].table}
  BY <1>3 DEF PushedTo, ScansOf
<1> QED BY <1>2, <1>3

Places(f, numbers, predicate) ==
  /\ predicate \in PredicateType
  /\ \A x : x \in ToSet(predicate) <=> \E i \in DOMAIN f : i \in numbers /\ x = f[i]
LEMMA PlacedAre ==
  ASSUME NEW f \in PredicateType, NEW numbers
  PROVE  Places(f, numbers, Conjuncts(f, numbers))
BY ConjunctsAre DEF Places, PredicateType

PlanScan(f, table, node) ==
  /\ node = Scan(table, node.predicate) /\ node.table = table /\ node.predicate \in PredicateType
  /\ \A x : x \in ToSet(node.predicate) <=> x \in ToSet(f) /\ referenced_tables(x) = {table}
PlanOf(q, k, f, plan) ==
  /\ DOMAIN plan.scans = 1 .. k + 1 /\ DOMAIN plan.ons = 1 .. k /\ Len(plan.ons) = k
  /\ \A i \in 1 .. k + 1 : PlanScan(f, TableAt(q, i), plan.scans[i])
  /\ \A i \in 1 .. k : plan.ons[i] = q.joins[i].on
  /\ plan.filter \in PredicateType
  /\ \A x : x \in ToSet(plan.filter)
              <=> x \in ToSet(f) /\ \A i \in 1 .. k + 1 : referenced_tables(x) # {TableAt(q, i)}
  /\ plan.projections = [i \in DOMAIN q.select |-> Qualified(q.select[i], q.from)]

LEMMA PlanIs ==
  ASSUME NEW q, NEW k, Ordered(q, k), NEW f \in PredicateType, f = Predicate(q.where, q.from),
         NEW plan, plan = push_down(_plan_select(q))
  PROVE  PlanOf(q, k, f, plan)
<1>1. k \in Nat /\ Len(q.joins) = k /\ DOMAIN q.joins = 1 .. k
  BY DEF Ordered
<1>2. PICK logical : logical = _plan_select(q)
  OBVIOUS
<1>3. /\ logical.scans = [i \in 1 .. k + 1 |-> Scan(TableAt(q, i), <<>>)]
      /\ logical.ons = [i \in 1 .. k |-> q.joins[i].on] /\ logical.filter = f
      /\ logical.projections = [i \in DOMAIN q.select |-> Qualified(q.select[i], q.from)]
  BY <1>1, <1>2 DEF _plan_select
<1>4. /\ plan.scans = [i \in DOMAIN logical.scans |->
                         Scan(logical.scans[i].table, Conjuncts(f, Pushed(logical, i)))]
      /\ plan.ons = logical.ons /\ plan.filter = Conjuncts(f, Residual(logical))
      /\ plan.projections = logical.projections
  <2>1. /\ plan.scans = [i \in DOMAIN logical.scans |->
                  Scan(logical.scans[i].table, Conjuncts(logical.filter, Pushed(logical, i)))]
        /\ plan.ons = logical.ons /\ plan.projections = logical.projections
        /\ plan.filter = Conjuncts(logical.filter, Residual(logical))
    BY <1>2 DEF push_down, _plan_select
  <2> QED BY <1>3, <2>1
<1>5. /\ DOMAIN logical.scans = 1 .. k + 1
      /\ \A i \in 1 .. k + 1 : logical.scans[i].table = TableAt(q, i)
  BY <1>3 DEF Scan
<1>6. \A x, i : i \in PushedTo(logical, x)
                  <=> i \in 1 .. k + 1 /\ referenced_tables(x) = {TableAt(q, i)}
  <2>1. \A i, j \in 1 .. k + 1 : logical.scans[i].table = logical.scans[j].table => i = j
    BY <1>5 DEF Ordered
  <2>2. \A x, i : i \in PushedTo(logical, x)
                    <=> i \in 1 .. k + 1 /\ referenced_tables(x) = {logical.scans[i].table}
    BY <1>1, <1>5, <2>1, PushedToIs
  <2> QED BY <1>5, <2>2
<1>7. ASSUME NEW i \in 1 .. k + 1 PROVE PlanScan(f, TableAt(q, i), plan.scans[i])
  <2>1. PICK node, table, numbers, predicate : /\ node = plan.scans[i] /\ table = TableAt(q, i)
            /\ numbers = Pushed(logical, i) /\ predicate = Conjuncts(f, numbers)
    OBVIOUS
  <2>2. node = Scan(table, predicate) /\ Places(f, numbers, predicate)
    BY <1>4, <1>5, <2>1, PlacedAre
  <2>3. node.table = table /\ node.predicate = predicate
    BY <2>2 DEF Scan
  <2>4. \A j \in DOMAIN f : j \in numbers <=> referenced_tables(f[j]) = {table}
    BY <1>3, <1>6, <2>1 DEF Pushed
  <2>5. \A x : x \in ToSet(predicate) <=> x \in ToSet(f) /\ referenced_tables(x) = {table}
    BY <2>2, <2>4 DEF Places, ToSet
  <2>6. PlanScan(f, table, node)
    BY <2>2, <2>3, <2>5 DEF PlanScan, Places
  <2> QED BY <2>1, <2>6
<1>8. /\ plan.filter \in PredicateType
      /\ \A x : x \in ToSet(plan.filter)
           <=> x \in ToSet(f) /\ \A i \in 1 .. k + 1 : referenced_tables(x) # {TableAt(q, i)}
  <2>1. PICK numbers, predicate : numbers = Residual(logical) /\ predicate = Conjuncts(f, numbers)
    OBVIOUS
  <2>2. Places(f, numbers, predicate)
    BY <2>1, PlacedAre
  <2>3. \A j \in DOMAIN f : j \in numbers
           <=> \A i \in 1 .. k + 1 : referenced_tables(f[j]) # {TableAt(q, i)}
    BY <1>3, <1>6, <2>1 DEF Residual
  <2>4. plan.filter = predicate
    BY <1>4, <2>1
  <2>5. predicate \in PredicateType
    BY <2>2 DEF Places
  <2>6. \A x : x \in ToSet(f) <=> \E j \in DOMAIN f : x = f[j]
    BY DEF ToSet
  <2>7. \A x : x \in ToSet(predicate) <=> \E j \in DOMAIN f : j \in numbers /\ x = f[j]
    BY <2>2 DEF Places
  <2>8. \A x : x \in ToSet(predicate)
           <=> x \in ToSet(f) /\ \A i \in 1 .. k + 1 : referenced_tables(x) # {TableAt(q, i)}
    BY <2>3, <2>6, <2>7
  <2> QED BY <2>4, <2>5, <2>8
<1>9. DOMAIN plan.scans = 1 .. k + 1 /\ DOMAIN plan.ons = 1 .. k /\ Len(plan.ons) = k
  <2>1. PICK ons : ons = plan.ons
    OBVIOUS
  <2>2. ons = [i \in 1 .. k |-> q.joins[i].on]
    BY <1>3, <1>4, <2>1
  <2>3. Len(ons) = k
    BY <1>1, <2>2, LenProperties
  <2> QED BY <1>4, <1>5, <2>1, <2>2, <2>3
<1>10. \A i \in 1 .. k : plan.ons[i] = q.joins[i].on
  BY <1>3, <1>4
<1>11. plan.projections = [i \in DOMAIN q.select |-> Qualified(q.select[i], q.from)]
  BY <1>3, <1>4
<1> QED BY <1>7, <1>8, <1>9, <1>10, <1>11 DEF PlanOf

(* Only sound plans are considered; the scans and joins of one are what    *)
(* the lemmas about joins ask for.                                         *)
LEMMA TablesNamed ==
  ASSUME NEW q \in Queries, NEW o \in Referred(q), o.table \in Names
  PROVE  o.table \in TablesOf(q) /\ HasColumn(Columns[o.table], o.col)
<1>1. o.table # Unqualified
  BY QueryAssumption
<1>2. o.table \in OwnersOf(q, o.col)
  BY <1>1, QueryAssumption
<1> QED BY <1>2 DEF OwnersOf

LEMMA FilterColumns ==
  ASSUME NEW q, NEW f, FilterOf(q, f), NEW x \in ToSet(f), NEW o \in ColumnsOf(x)
  PROVE  o \in ColumnRefType /\ o.table \in TablesOf(q) /\ HasColumn(Columns[o.table], o.col)
<1>1. PICK c \in ComparisonsOf(x) : o \in Operands(c) /\ o.kind = "column"
  BY DEF ColumnsOf
<1>2. OfTables(q, c)
  BY <1>1 DEF FilterOf
<1>3. c.left \in OperandType /\ c.right \in OperandType
  BY <1>2 DEF OfTables, ComparisonType
<1>4. o \in ColumnRefType
  BY <1>1, <1>3 DEF Operands, OperandType, LiteralType
<1> QED BY <1>1, <1>2, <1>4 DEF OfTables

LEMMA ScanPlanned ==
  ASSUME NEW db, NEW q, NEW f, FilterOf(q, f), NEW n \in Names, db[n].columns = Columns[n],
         NEW node, PlanScan(f, n, node), LookupsAreSound(db[n], node.predicate), Comparable(db, f)
  PROVE  PlannedScan(db, node)
<1>1. ASSUME NEW o \in ColumnsIn(node.predicate)
      PROVE  o.table = n /\ HasColumn(db[o.table].columns, o.col)
  <2>1. PICK x \in ToSet(node.predicate) : o \in ColumnsOf(x)
    BY DEF ColumnsIn
  <2>2. x \in ToSet(f) /\ referenced_tables(x) = {n}
    BY DEF PlanScan
  <2>3. o.table \in referenced_tables(x)
    BY <2>1 DEF referenced_tables
  <2>4. o.table = n
    BY <2>2, <2>3
  <2> QED BY <2>1, <2>2, <2>4, FilterColumns
<1>2. Binds(db, {n}, ColumnsIn(node.predicate))
  BY <1>1 DEF Binds
<1>3. Comparable(db, node.predicate)
  BY DEF PlanScan, Comparable
<1> QED BY <1>2, <1>3 DEF PlannedScan, PlanScan

LEMMA JoinPlanned ==
  ASSUME NEW db, \A n \in Names : db[n].columns = Columns[n],
         NEW q \in Queries, NEW k, Ordered(q, k), NEW f, NEW plan, PlanOf(q, k, f, plan),
         NEW i \in 1 .. k, JoinIsSound(db, plan, i)
  PROVE  PlannedJoin(db, plan, i)
<1>1. PICK on, join : on = plan.ons[i] /\ join = q.joins[i]
  OBVIOUS
<1>2. join \in JoinType /\ on = join.on /\ k \in Nat /\ i \in DOMAIN q.joins
  BY <1>1 DEF PlanOf, Ordered
<1>3. on.left \in ColumnRefType /\ on.right \in ColumnRefType
  BY <1>2 DEF JoinType
<1>4. on.left.table \in Names /\ on.right.table \in Names
  <2>1. \A j \in 1 .. k + 1 : plan.scans[j].table \in Names
    BY DEF PlanOf, PlanScan, Ordered
  <2>2. i + 1 \in 1 .. k + 1 /\ \A j \in 1 .. i : j \in 1 .. k + 1
    BY <1>2
  <2>3. /\ on.right.table = plan.scans[i + 1].table
        /\ \E j \in 1 .. i : on.left.table = plan.scans[j].table
    BY <1>1 DEF JoinIsSound
  <2> QED BY <2>1, <2>2, <2>3
<1>5. on.left \in Referred(q) /\ on.right \in Referred(q)
  <2>1. on \in OnsOf(q)
    BY <1>1, <1>2 DEF OnsOf
  <2>2. Operands(on) \subseteq UNION {Operands(x) : x \in OnsOf(q)}
    BY <2>1
  <2>3. on.left.kind = "column" /\ on.right.kind = "column"
    BY <1>3 DEF ColumnRefType
  <2>4. on.left \in Operands(on) /\ on.right \in Operands(on)
    BY DEF Operands
  <2> QED BY <2>2, <2>3, <2>4 DEF Referred
<1>6. /\ HasColumn(Columns[on.left.table], on.left.col)
      /\ HasColumn(Columns[on.right.table], on.right.col)
  BY <1>4, <1>5, TablesNamed
<1> QED BY <1>1, <1>3, <1>4, <1>6 DEF PlannedJoin, Operands

LEMMA PlanPlanned ==
  ASSUME NEW db, \A n \in Names : db[n].columns = Columns[n],
         NEW q \in Queries, NEW k, Ordered(q, k), NEW f, FilterOf(q, f), Comparable(db, f),
         NEW plan, PlanOf(q, k, f, plan),
         \A i \in 1 .. k + 1 : LookupsAreSound(db[plan.scans[i].table], plan.scans[i].predicate),
         \A i \in 1 .. k : JoinIsSound(db, plan, i)
  PROVE  Planned(db, plan, k)
<1>1. ASSUME NEW i \in 1 .. k + 1 PROVE PlannedScan(db, plan.scans[i])
  <2>1. PICK node, n : node = plan.scans[i] /\ n = TableAt(q, i)
    OBVIOUS
  <2>2. n \in Names /\ PlanScan(f, n, node)
    BY <2>1 DEF PlanOf, Ordered
  <2>3. node.table = n
    BY <2>2 DEF PlanScan
  <2>4. LookupsAreSound(db[n], node.predicate)
    BY <2>1, <2>3
  <2>5. PlannedScan(db, node)
    BY <2>2, <2>4, ScanPlanned
  <2> QED BY <2>1, <2>5
<1>2. \A i \in 1 .. k : PlannedJoin(db, plan, i)
  BY JoinPlanned
<1>3. \A i, j \in 1 .. k + 1 : plan.scans[i].table = plan.scans[j].table => i = j
  BY DEF PlanOf, PlanScan, Ordered
<1> QED BY <1>1, <1>2, <1>3 DEF Planned, PlanOf, Ordered

(* Together, what was pushed and what was left say what WHERE says.        *)
OnsMean(q, row) == \A on \in OnsOf(q) : MeansTrue(q, row, on)

LEMMA WhereIsPushed ==
  ASSUME NEW db, db = tables, NEW q, NEW f, FilterOf(q, f),
         NEW k, NEW plan, PlanOf(q, k, f, plan), NEW row
  PROVE  (/\ \A j \in 1 .. k + 1 : Satisfies(db, row, plan.scans[j].predicate)
          /\ Satisfies(db, row, plan.filter)) <=> WhereMeans(q, row)
<1>1. (/\ \A j \in 1 .. k + 1 : Satisfies(db, row, plan.scans[j].predicate)
       /\ Satisfies(db, row, plan.filter)) <=> \A x \in ToSet(f) : TrueOf(db, row, x)
  <2>1. \A j \in 1 .. k + 1 : \A x : x \in ToSet(plan.scans[j].predicate)
                                <=> x \in ToSet(f) /\ referenced_tables(x) = {TableAt(q, j)}
    BY DEF PlanOf, PlanScan
  <2>2. \A x : x \in ToSet(plan.filter)
                 <=> x \in ToSet(f) /\ \A j \in 1 .. k + 1 : referenced_tables(x) # {TableAt(q, j)}
    BY DEF PlanOf
  <2>3. \A j \in 1 .. k + 1 : Satisfies(db, row, plan.scans[j].predicate)
                      <=> \A x \in ToSet(plan.scans[j].predicate) : TrueOf(db, row, x)
    BY SatisfiesIs
  <2>4. Satisfies(db, row, plan.filter) <=> \A x \in ToSet(plan.filter) : TrueOf(db, row, x)
    BY SatisfiesIs
  <2> QED BY <2>1, <2>2, <2>3, <2>4
<1>2. (\A x \in ToSet(f) : TrueOf(db, row, x)) <=> WhereMeans(q, row)
  BY DEF FilterOf
<1> QED BY <1>1, <1>2

LEMMA OnMeans ==
  ASSUME NEW db, db = tables, NEW q, NEW on, on.left \in ColumnRefType, on.right \in ColumnRefType,
         on.left.table \in Names, on.right.table \in Names, NEW row
  PROVE  Holds(db, row, on) <=> MeansTrue(q, row, on)
<1>1. on.left.table # Unqualified /\ on.right.table # Unqualified
  BY QueryAssumption
<1>2. Owned(q, on.left) = on.left /\ Owned(q, on.right) = on.right
  BY <1>1 DEF Owned
<1>3. PICK e : e = Cmp(on.left, on.op, on.right)
  OBVIOUS
<1>4. e.left = on.left /\ e.op = on.op /\ e.right = on.right
  BY <1>3 DEF Cmp
<1>5. Holds(tables, row, on) <=> Holds(tables, row, e)
  BY <1>4 DEF Holds, Alike
<1> QED BY <1>2, <1>3, <1>5 DEF MeansTrue

LEMMA OnsAre ==
  ASSUME NEW db, db = tables, NEW q, NEW k, Ordered(q, k), NEW f,
         NEW plan, PlanOf(q, k, f, plan), Planned(db, plan, k), NEW row
  PROVE  (\A i \in 1 .. k : Holds(db, row, plan.ons[i])) <=> OnsMean(q, row)
<1>1. ASSUME NEW i \in 1 .. k
      PROVE  Holds(db, row, plan.ons[i]) <=> MeansTrue(q, row, plan.ons[i])
  <2>1. PICK on, names, node : on = plan.ons[i] /\ names = NamesTo(plan, i - 1)
                                 /\ node = plan.scans[i + 1]
    OBVIOUS
  <2>2. JoinOf(db, plan, i, names, on, node)
    BY <2>1, JoinAt
  <2>3. /\ on.left \in ColumnRefType /\ on.right \in ColumnRefType
        /\ on.left.table \in Names /\ on.right.table \in Names
    BY <2>2 DEF JoinOf, PlannedScan
  <2>4. Holds(db, row, on) <=> MeansTrue(q, row, on)
    BY <2>3, OnMeans
  <2> QED BY <2>1, <2>4
<1>2. OnsOf(q) = {plan.ons[i] : i \in 1 .. k}
  BY DEF OnsOf, Ordered, PlanOf
<1> QED BY <1>1, <1>2 DEF OnsMean

LEMMA PlanNames ==
  ASSUME NEW q, NEW k, Ordered(q, k), NEW f, NEW plan, PlanOf(q, k, f, plan)
  PROVE  NamesTo(plan, k) = TablesOf(q)
<1>1. \A i \in 1 .. k + 1 : plan.scans[i].table = TableAt(q, i)
  BY DEF PlanOf, PlanScan
<1>2. TablesOf(q) = {TableAt(q, i) : i \in 1 .. k + 1}
  BY DEF Ordered
<1> QED BY <1>1, <1>2 DEF NamesTo

(* The rows that the joins and the filter leave are those that the query   *)
(* means.                                                                  *)
LEMMA RowsMean ==
  ASSUME NEW db, db = tables, NEW kept, NEW q, NEW k, Ordered(q, k), NEW f, FilterOf(q, f),
         NEW plan, PlanOf(q, k, f, plan), Planned(db, plan, k), NEW row
  PROVE  row \in RowsTo(db, kept, plan, k) /\ Satisfies(db, row, plan.filter)
           <=> row \in Combinations(kept, TablesOf(q)) /\ OnsMean(q, row) /\ WhereMeans(q, row)
<1>1. row \in RowsTo(db, kept, plan, k) <=> IsJoined(db, kept, plan, k, row)
  BY RowsToAre
<1>2. IsJoined(db, kept, plan, k, row)
        <=> /\ row \in Combinations(kept, TablesOf(q))
            /\ \A j \in 1 .. k + 1 : Satisfies(db, row, plan.scans[j].predicate)
            /\ \A j \in 1 .. k : Holds(db, row, plan.ons[j])
  BY PlanNames, CombinationIs DEF IsJoined
<1>3. (\A j \in 1 .. k : Holds(db, row, plan.ons[j])) <=> OnsMean(q, row)
  BY OnsAre
<1>4. (/\ \A j \in 1 .. k + 1 : Satisfies(db, row, plan.scans[j].predicate)
       /\ Satisfies(db, row, plan.filter)) <=> WhereMeans(q, row)
  BY WhereIsPushed
<1> QED BY <1>1, <1>2, <1>3, <1>4

(* The select list.                                                        *)
LEMMA SelectedAre ==
  ASSUME NEW q \in Queries, NEW k, Ordered(q, k), BareAreFroms(q),
         IsPlannedAll(q.where, q.select), NEW i \in DOMAIN q.select,
         NEW p, p = Qualified(q.select[i], q.from)
  PROVE  /\ p = Owned(q, q.select[i])
         /\ p.kind = "column" => p.table \in TablesOf(q) /\ HasColumn(Columns[p.table], p.col)
<1>1. PICK o : o = q.select[i]
  OBVIOUS
<1>2. q.select \in Seq(WrittenType) /\ q.from \in Names
  BY DEF Ordered
<1>3. o \in OperandType /\ o \in ToSet(q.select)
  <2>1. o \in WrittenType /\ o \in ToSet(q.select)
    BY <1>1, <1>2, LenProperties DEF ToSet
  <2>2. o # Other
    BY <2>1 DEF IsPlannedAll
  <2> QED BY <2>1, <2>2 DEF WrittenType
<1>4. o.kind = "column" => o \in Referred(q)
  BY <1>3 DEF Referred
<1> QED BY <1>1, <1>2, <1>3, <1>4, QualifiedIs

LEMMA FinishBinds ==
  ASSUME NEW db, \A n \in Names : db[n].columns = Columns[n],
         NEW q \in Queries, NEW k, Ordered(q, k), BareAreFroms(q),
         IsPlannedAll(q.where, q.select), NEW f, FilterOf(q, f),
         NEW plan, PlanOf(q, k, f, plan)
  PROVE  Binds(db, TablesOf(q), ColumnsIn(plan.filter) \cup SelectedColumns(plan))
<1>1. \A n \in TablesOf(q) : db[n].columns = Columns[n]
  BY DEF Ordered
<1>2. ASSUME NEW o \in ColumnsIn(plan.filter)
      PROVE  o.table \in TablesOf(q) /\ HasColumn(Columns[o.table], o.col)
  <2>1. PICK x \in ToSet(plan.filter) : o \in ColumnsOf(x)
    BY DEF ColumnsIn
  <2>2. x \in ToSet(f)
    BY DEF PlanOf
  <2> QED BY <2>1, <2>2, FilterColumns
<1>3. ASSUME NEW o \in SelectedColumns(plan)
      PROVE  o.table \in TablesOf(q) /\ HasColumn(Columns[o.table], o.col)
  <2>1. plan.projections = [i \in DOMAIN q.select |-> Qualified(q.select[i], q.from)]
    BY DEF PlanOf
  <2>2. o \in ToSet(plan.projections) /\ o.kind = "column"
    BY DEF SelectedColumns
  <2>3. PICK i \in DOMAIN q.select : o = Qualified(q.select[i], q.from)
    BY <2>1, <2>2 DEF ToSet
  <2> QED BY <2>2, <2>3, SelectedAre
<1> QED BY <1>1, <1>2, <1>3 DEF Binds

(* What the query means for one row, and which rows it means.              *)
Meant(q, row) ==
  [row |-> row, values |-> [i \in DOMAIN q.select |->
                              Evaluate(tables, row, Owned(q, q.select[i]))]]
RowsMeant(q) == {row \in Combinations(rows, TablesOf(q)) : OnsMean(q, row) /\ WhereMeans(q, row)}

LEMMA ProjectedIs ==
  ASSUME NEW db, db = tables, NEW q \in Queries, NEW k, Ordered(q, k), BareAreFroms(q),
         IsPlannedAll(q.where, q.select), NEW f, NEW plan, PlanOf(q, k, f, plan), NEW row
  PROVE  Projected(db, row, plan.projections) = Meant(q, row)
<1>1. PICK list : list = plan.projections
  OBVIOUS
<1>2. list = [i \in DOMAIN q.select |-> Qualified(q.select[i], q.from)]
  BY <1>1 DEF PlanOf
<1>3. \A i \in DOMAIN q.select : list[i] = Owned(q, q.select[i])
  BY <1>2, SelectedAre
<1>4. [i \in DOMAIN list |-> Evaluate(db, row, list[i])]
        = [i \in DOMAIN q.select |-> Evaluate(tables, row, Owned(q, q.select[i]))]
  BY <1>2, <1>3
<1> QED BY <1>1, <1>4 DEF Projected, Meant

LEMMA MeaningIs ==
  ASSUME NEW q
  PROVE  Meaning(q) = {Meant(q, row) : row \in RowsMeant(q)}
BY DEF Meaning, Meant, RowsMeant, OnsMean, WhereMeans

LEMMA QueryReturns ==
  ASSUME EngineInv, ~failed, NEW q \in Queries, IsPlannedAll(q.where, q.select),
         Sound(q, push_down(_plan_select(q))), Comparable(tables, _plan_select(q).filter)
  PROVE  execute(tables, q) = [raised |-> FALSE, rows |-> Meaning(q)]
<1>1. PICK db, kept, plan, f : /\ db = tables /\ kept = rows
         /\ plan = push_down(_plan_select(q)) /\ f = Predicate(q.where, q.from)
  OBVIOUS
<1>2. TablesHold(db, kept) /\ \A n \in Names : db[n].columns = Columns[n]
  BY <1>1 DEF EngineInv, TablesInv, TreesInv, TablesHold, TableInv, TableType
<1>3. PICK k : Ordered(q, k)
  BY QueryIs
<1>4. BareAreFroms(q)
  BY DEF Sound, BareAreFroms
<1>5. FilterOf(q, f) /\ f \in PredicateType /\ Comparable(db, f)
  <2>1. FilterOf(q, f)
    BY <1>1, <1>3, <1>4, FilterIs
  <2>2. _plan_select(q).filter = f
    BY <1>1 DEF _plan_select
  <2> QED BY <1>1, <2>1, <2>2 DEF FilterOf
<1>6. PlanOf(q, k, f, plan)
  BY <1>1, <1>3, <1>5, PlanIs
<1>7. Planned(db, plan, k)
  <2>1. DOMAIN plan.scans = 1 .. k + 1 /\ DOMAIN plan.ons = 1 .. k
    BY <1>6 DEF PlanOf
  <2>2. /\ \A i \in DOMAIN plan.scans : ScanIsSound(plan.scans[i])
        /\ \A i \in DOMAIN plan.ons : JoinIsSound(tables, plan, i)
    BY <1>1 DEF Sound
  <2>3. \A i \in 1 .. k + 1 : LookupsAreSound(db[plan.scans[i].table], plan.scans[i].predicate)
    BY <1>1, <2>1, <2>2 DEF ScanIsSound, LookupsAreSound
  <2>4. \A i \in 1 .. k : JoinIsSound(db, plan, i)
    BY <1>1, <2>1, <2>2
  <2> QED BY <1>2, <1>3, <1>5, <1>6, <2>3, <2>4, PlanPlanned
<1>8. PICK names, found, joined : /\ names = TablesOf(q) /\ found = RowsTo(db, kept, plan, k)
         /\ joined = RunJoins(db, plan)
  OBVIOUS
<1>9. joined = Ends(names, found)
  BY <1>2, <1>3, <1>6, <1>7, <1>8, JoinsReturn, PlanNames
<1>10. /\ joined.outcome = "ends" /\ joined.names = names /\ joined.rows = found
  BY <1>9 DEF Ends
<1>11. Binds(db, joined.names, ColumnsIn(plan.filter) \cup SelectedColumns(plan))
  BY <1>2, <1>3, <1>4, <1>5, <1>6, <1>8, <1>10, FinishBinds
<1>12. _plan_filter(db, plan, joined) = RowsMeant(q)
  <2>1. \A row : row \in found /\ Satisfies(db, row, plan.filter)
          <=> row \in Combinations(kept, TablesOf(q)) /\ OnsMean(q, row) /\ WhereMeans(q, row)
    BY <1>1, <1>3, <1>5, <1>6, <1>7, <1>8, RowsMean
  <2> QED BY <1>1, <1>10, <2>1 DEF _plan_filter, RowsMeant
<1>13. \A row : Projected(db, row, plan.projections) = Meant(q, row)
  BY <1>1, <1>3, <1>4, <1>6, ProjectedIs
<1>14. Finish(db, plan, joined)
         = [raised |-> FALSE, rows |-> {Meant(q, row) : row \in RowsMeant(q)}]
  <2>1. Comparable(db, plan.filter)
    BY <1>5, <1>6 DEF PlanOf, Comparable
  <2> QED BY <1>10, <1>11, <1>12, <1>13, <2>1 DEF Finish, IsRead
<1>15. execute(tables, q) = Finish(db, plan, joined)
  BY <1>1, <1>8 DEF execute, RunPlan
<1> QED BY <1>14, <1>15, MeaningIs

(* A SELECT returns what it means, whatever its plan: for all tables,      *)
(* rows, indexes and queries, but for those that cannot be planned, order  *)
(* text and numbers or have a plan that Sound excludes (LogicalPlanner,    *)
(* QueryOptimizer, PhysicalPlanner and their operators).                   *)
THEOREM SelectedExactly == Spec => []SelectIsExact
<1>1. EngineInv => SelectIsExact
  BY QueryReturns DEF SelectIsExact
<1> QED BY <1>1, EngineInvariant, PTL
=============================================================================
