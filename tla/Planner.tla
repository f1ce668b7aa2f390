------------------------------ MODULE Planner -------------------------------
(***************************************************************************)
(* From a SELECT to its rows: LogicalPlanner, QueryOptimizer and           *)
(* PhysicalPlanner (execution/planner) and the operators they choose.      *)
(* What sqlglot parses is a record: the FROM table, joins, WHERE and a     *)
(* select list.  Without parentheses AND binds tighter than OR: WHERE is a *)
(* sequence of disjuncts, each a sequence of conditions (none: no WHERE).  *)
(* In a plan a predicate is a sequence of conjuncts, and a conjunct an Or  *)
(* of Ands of comparisons.  Planned joins are left-deep, so a plan is a    *)
(* sequence of scans with a sequence of ON conditions between them and     *)
(* what is filtered above.                                                 *)
(*                                                                         *)
(* A joined row maps each table it has a row of to that row's rid and      *)
(* values.  db maps names to tables.                                       *)
(***************************************************************************)
EXTENDS Table

Col(table, col) == [kind |-> "column", table |-> table, col |-> col]
Lit(number) == [kind |-> "number", number |-> number]
Text(text) == [kind |-> "text", text |-> text]
Other == [kind |-> "other"]     \* an operand of any other node of sqlglot
Cmp(left, op, right) == [left |-> left, op |-> op, right |-> right]
Unqualified == ""       \* what is written as the table of a bare column

Operands(c) == {c.left, c.right}
ComparisonsOf(conjunct) == UNION {ToSet(both) : both \in ToSet(conjunct)}
ColumnsOf(conjunct) ==
  {o \in UNION {Operands(c) : c \in ComparisonsOf(conjunct)} : o.kind = "column"}
ColumnsIn(predicate) == UNION {ColumnsOf(conjunct) : conjunct \in ToSet(predicate)}

(* Comparison, And and Or on a joined row.  Texts are ordered by their     *)
(* first different character; a text never equals a number, and ordering   *)
(* them is a TypeError, which And and Or reach as they evaluate both sides.*)
Evaluate(db, row, o) ==
  IF o.kind = "number" THEN o.number
  ELSE IF o.kind = "text" THEN o.text
  ELSE Value(db[o.table], row[o.table].values, o.col)
IsText(db, o) ==
  \/ o.kind = "text"
  \/ /\ o.kind = "column"
     /\ IsVarchar(db[o.table].columns[Position(db[o.table].columns, o.col)])
Alike(db, c) == IsText(db, c.left) <=> IsText(db, c.right)
Comparable(db, predicate) ==
  \A conjunct \in ToSet(predicate) : \A c \in ComparisonsOf(conjunct) :
    c.op = "=" \/ Alike(db, c)

Sooner(text, other) ==
  \/ IsStrictPrefix(text, other)
  \/ \E i \in DOMAIN text \cap DOMAIN other :
       /\ \A j \in 1 .. i - 1 : text[j] = other[j]
       /\ text[i] < other[i]
Holds(db, row, c) ==
  LET l == Evaluate(db, row, c.left)
      r == Evaluate(db, row, c.right)
      less(x, y) == IF IsText(db, c.left) THEN Sooner(x, y) ELSE x < y
  IN  /\ Alike(db, c)
      /\ CASE c.op = "="  -> l = r
           [] c.op = "<"  -> less(l, r)
           [] c.op = "<=" -> less(l, r) \/ l = r
           [] c.op = ">"  -> less(r, l)
           [] c.op = ">=" -> less(r, l) \/ l = r
TrueOf(db, row, conjunct) ==
  \E both \in ToSet(conjunct) : \A c \in ToSet(both) : Holds(db, row, c)
Satisfies(db, row, predicate) ==
  \A i \in DOMAIN predicate : TrueOf(db, row, predicate[i])

(* bind: every column must be in the operator's schema, which has the      *)
(* columns of the given tables.                                            *)
Binds(db, names, columns) ==
  \A o \in columns : o.table \in names /\ HasColumn(db[o.table].columns, o.col)
-----------------------------------------------------------------------------
(* LogicalPlanner._plan_expression raises for a node that it has no case   *)
(* for: parentheses, NOT, !=, NULL, a negative number, arithmetic.         *)
Operators == {"=", "<", "<=", ">", ">="}
IsPlanned(c) == c.op \in Operators /\ Other \notin Operands(c)
IsPlannedAll(where, select) ==
  (\A c \in ComparisonsOf(where) : IsPlanned(c)) /\ Other \notin ToSet(select)

(* _plan_select and _plan_delete.  A bare column belongs to the FROM table *)
(* in WHERE and in the select list, and to no table in ON.                 *)
Qualified(o, from) ==
  IF o.kind = "column" /\ o.table = Unqualified THEN [o EXCEPT !.table = from] ELSE o
QualifiedAll(where, from) ==
  [i \in DOMAIN where |-> [j \in DOMAIN where[i] |->
     [where[i][j] EXCEPT !.left = Qualified(@, from), !.right = Qualified(@, from)]]]

(* QueryOptimizer.split_conjuncts, and _split_conjuncts: an And has its    *)
(* parts as conjuncts, an Or is one.                                       *)
split_conjuncts(where) ==
  IF where = <<>> THEN <<>>
  ELSE IF Len(where) = 1 THEN [i \in DOMAIN where[1] |-> <<<<where[1][i]>>>>]
  ELSE <<where>>
Predicate(where, from) == split_conjuncts(QualifiedAll(where, from))

Scan(table, predicate) == [table |-> table, predicate |-> predicate]
TableAt(query, i) == IF i = 1 THEN query.from ELSE query.joins[i - 1].table
_plan_select(query) ==
  [scans |-> [i \in 1 .. Len(query.joins) + 1 |-> Scan(TableAt(query, i), <<>>)],
   ons |-> [i \in DOMAIN query.joins |-> query.joins[i].on],
   filter |-> Predicate(query.where, query.from),
   projections |-> [i \in DOMAIN query.select |-> Qualified(query.select[i], query.from)]]

(* QueryOptimizer.push_down: a conjunct about exactly one table moves to   *)
(* the first scan of that table.                                           *)
referenced_tables(conjunct) == {o.table : o \in ColumnsOf(conjunct)}
ScansOf(plan, names) == {i \in DOMAIN plan.scans : plan.scans[i].table \in names}
PushedTo_Anywhere(plan, conjunct) ==
  {i \in ScansOf(plan, referenced_tables(conjunct)) :
     \A j \in ScansOf(plan, referenced_tables(conjunct)) : i <= j}
PushedTo(plan, conjunct) ==
  {i \in ScansOf(plan, referenced_tables(conjunct)) :
     /\ referenced_tables(conjunct) = {plan.scans[i].table}
     /\ \A j \in ScansOf(plan, referenced_tables(conjunct)) : i <= j}

(* The conjuncts with the given numbers, in their order.                   *)
Conjuncts(predicate, numbers) ==
  LET upto[n \in 0 .. Len(predicate)] ==
        IF n = 0 THEN <<>>
        ELSE IF n \in numbers THEN Append(upto[n - 1], predicate[n]) ELSE upto[n - 1]
  IN  upto[Len(predicate)]
Pushed(plan, i) == {n \in DOMAIN plan.filter : i \in PushedTo(plan, plan.filter[n])}
Residual(plan) == {n \in DOMAIN plan.filter : PushedTo(plan, plan.filter[n]) = {}}
push_down(plan) ==
  [plan EXCEPT
     !.scans = [i \in DOMAIN plan.scans |->
                  Scan(plan.scans[i].table, Conjuncts(plan.filter, Pushed(plan, i)))],
     !.filter = Conjuncts(plan.filter, Residual(plan))]
-----------------------------------------------------------------------------
(* PhysicalPlanner._find_index_lookup.  _as_col_and_literal takes column   *)
(* and literal from either side; the operator stays as it is written.      *)
IsLiteral(o) == o.kind \in {"number", "text"}
ColumnSide(c) ==
  IF c.left.kind = "column" /\ IsLiteral(c.right) THEN {c.left}
  ELSE IF IsLiteral(c.left) /\ c.right.kind = "column" THEN {c.right} ELSE {}
LiteralSide(c) == IF IsLiteral(c.left) THEN c.left ELSE c.right

IsComparison(conjunct) == Len(conjunct) = 1 /\ Len(conjunct[1]) = 1
The(conjunct) == conjunct[1][1]
LooksUp(t, conjunct) ==
  /\ IsComparison(conjunct)
  /\ \E o \in ColumnSide(The(conjunct)) : o.col \in IndexedColumns(t)
KeyColumn(conjunct) == (CHOOSE o \in ColumnSide(The(conjunct)) : TRUE).col
KeyLiteral(conjunct) == LiteralSide(The(conjunct))

Raise(bound, value) == {Max(bound \cup {value})}
Lower(bound, value) == {Min(bound \cup {value})}
_tighten_bounds_Exclusive(b, op, value) ==
  CASE op = "="  -> [start |-> {value}, end |-> {value}]
    [] op \in {">", ">="}  -> [b EXCEPT !.start = Raise(@, value + Unit)]
    [] op \in {"<", "<="} -> [b EXCEPT !.end = Lower(@, value - Unit)]
_tighten_bounds(b, op, value) ==
  CASE op = "="  -> [start |-> {value}, end |-> {value}]
    [] op = ">"  -> [b EXCEPT !.start = Raise(@, value + Unit)]
    [] op = ">=" -> [b EXCEPT !.start = Raise(@, value)]
    [] op = "<"  -> [b EXCEPT !.end = Lower(@, value - Unit)]
    [] op = "<=" -> [b EXCEPT !.end = Lower(@, value)]

(* The conjuncts, by number, that could use an index; the first decides    *)
(* which, and every one about the column of that index narrows the range.  *)
Usable(t, predicate) == {i \in DOMAIN predicate : LooksUp(t, predicate[i])}
IndexColumn(t, predicate) == KeyColumn(predicate[Min(Usable(t, predicate))])
Narrowing(t, predicate) ==
  {i \in Usable(t, predicate) : KeyColumn(predicate[i]) = IndexColumn(t, predicate)}
BoundsFrom(t, predicate) ==
  LET upto[n \in 0 .. Len(predicate)] ==
        IF n = 0 THEN [start |-> {}, end |-> {}]
        ELSE IF n \in Narrowing(t, predicate)
        THEN _tighten_bounds(upto[n - 1], The(predicate[n]).op, KeyLiteral(predicate[n]).number)
        ELSE upto[n - 1]
  IN  upto[Len(predicate)]

(* An operator opens and ends with rows, opens and raises when it is read, *)
(* or does not open; its schema has the columns of the tables in names.    *)
Ends(names, rows) == [outcome |-> "ends", names |-> names, rows |-> rows]
Breaks(names) == [outcome |-> "breaks", names |-> names, rows |-> {}]
Unopened(names) == [outcome |-> "unopened", names |-> names, rows |-> {}]
IsOpen(result) == result.outcome # "unopened"
IsRead(result) == result.outcome = "ends"

RowOf(name, rid, values) == [x \in {name} |-> [rid |-> rid, values |-> values]]
RowsAt(db, name, rids) == {RowOf(name, rid, get(db[name], rid)) : rid \in rids}

(* SeqScan and IndexScan (_plan_scan).  The whole predicate is evaluated   *)
(* on what an index yields; an entry without a row raises.  So does a tree *)
(* that is searched for a text and has a key to compare it with.           *)
ByText(t, predicate) ==
  \E i \in Narrowing(t, predicate) : KeyLiteral(predicate[i]).kind = "text"
Candidates(t, predicate) ==
  LET b == BoundsFrom(t, predicate)
  IN  IF Usable(t, predicate) = {} THEN Valid(t)
      ELSE range_scan(IndexOn(t, IndexColumn(t, predicate)), b.start, b.end)
_plan_scan(db, node) ==
  LET names == {node.table}
      rids == Candidates(db[node.table], node.predicate)
  IN  IF ~Binds(db, names, ColumnsIn(node.predicate)) THEN Unopened(names)
      ELSE IF \/ ByText(db[node.table], node.predicate)
              \/ ~(rids \subseteq Valid(db[node.table]))
              \/ rids # {} /\ ~Comparable(db, node.predicate)
      THEN Breaks(names)
      ELSE Ends(names, {row \in RowsAt(db, node.table, rids) :
                          Satisfies(db, row, node.predicate)})
-----------------------------------------------------------------------------
(* Joins.  Only the columns of the ON condition are looked at, its         *)
(* operator is not.  HashJoin reads its left side when it is opened.       *)
Merged(row, other) ==
  [n \in DOMAIN row \cup DOMAIN other |-> IF n \in DOMAIN row THEN row[n] ELSE other[n]]
_hash_join(db, left, on, right) ==
  LET names == left.names \cup right.names
      pairs == {p \in left.rows \X right.rows :
                  /\ Alike(db, on)
                  /\ Evaluate(db, p[1], on.left) = Evaluate(db, p[2], on.right)}
  IN  IF \/ ~Binds(db, left.names, {on.left}) \/ ~Binds(db, right.names, {on.right})
         \/ ~IsRead(left)
      THEN Unopened(names)
      ELSE IF ~IsRead(right) THEN Breaks(names)
      ELSE Ends(names, {Merged(p[1], p[2]) : p \in pairs})

(* IndexJoin: for each row of probe, the rows of table name that the index *)
(* on column col of it has under the row's probe_key.                      *)
IndexJoin(db, name, col, open_key, probe, probe_key) ==
  LET names == probe.names \cup {name}
      found(row) == search(IndexOn(db[name], col), Evaluate(db, row, probe_key))
  IN  IF ~Binds(db, probe.names, {probe_key}) \/ ~Binds(db, {name}, {open_key})
      THEN Unopened(names)
      ELSE IF \/ ~IsRead(probe)
              \/ IsText(db, probe_key) /\ probe.rows # {}
              \/ \E row \in probe.rows : ~(found(row) \subseteq Valid(db[name]))
      THEN Breaks(names)
      ELSE Ends(names, UNION {{Merged(row, other) : other \in RowsAt(db, name, found(row))} :
                                row \in probe.rows})

(* _plan_join of the joins so far with scan i + 1: by an index on the right *)
(* table's column, by one on a column of that name in the FROM table, or   *)
(* by a hash table.  The side that an index replaces is opened, not read.  *)
ProbesRight(db, node, on) == on.right.col \in IndexedColumns(db[node.table])
ProbesLeft(db, from, on) == on.right.col \in IndexedColumns(db[from])

_plan_join(db, plan, left, i) ==
  LET on == plan.ons[i]
      from == plan.scans[1].table
      node == plan.scans[i + 1]
      right == _plan_scan(db, node)
  IN  IF ~IsOpen(left) \/ ~IsOpen(right) THEN Unopened(left.names \cup right.names)
      ELSE IF ProbesRight(db, node, on)
      THEN IndexJoin(db, node.table, on.right.col, on.right, left, on.left)
      ELSE IF ProbesLeft(db, from, on)
      THEN IndexJoin(db, from, on.right.col, on.left, right, on.right)
      ELSE _hash_join(db, left, on, right)

(* Filter and Projection.  A query raises, or returns the set of its rows, *)
(* each with the values that the select list takes from it.                *)
Projected(db, row, projections) ==
  [row |-> row,
   values |-> [i \in DOMAIN projections |-> Evaluate(db, row, projections[i])]]
SelectedColumns(plan) == {o \in ToSet(plan.projections) : o.kind = "column"}
_plan_filter(db, plan, joined) ==
  {row \in joined.rows : Satisfies(db, row, plan.filter)}
Finish(db, plan, joined) ==
  IF /\ IsRead(joined)
     /\ Binds(db, joined.names, ColumnsIn(plan.filter) \cup SelectedColumns(plan))
     /\ joined.rows # {} => Comparable(db, plan.filter)
  THEN [raised |-> FALSE, rows |-> {Projected(db, row, plan.projections) :
                                      row \in _plan_filter(db, plan, joined)}]
  ELSE [raised |-> TRUE, rows |-> {}]

(* Database.execute of a SELECT; joined[i] is what i joins yield.          *)
RunJoins(db, plan) ==
  LET joined[i \in 0 .. Len(plan.ons)] ==
        IF i = 0 THEN _plan_scan(db, plan.scans[1])
        ELSE _plan_join(db, plan, joined[i - 1], i)
  IN  joined[Len(plan.ons)]
RunPlan(db, plan) == Finish(db, plan, RunJoins(db, plan))
execute(db, query) ==
  IF IsPlannedAll(query.where, query.select)
  THEN RunPlan(db, push_down(_plan_select(query)))
  ELSE [raised |-> TRUE, rows |-> {}]
=============================================================================
