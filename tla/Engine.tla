------------------------------- MODULE Engine -------------------------------
(***************************************************************************)
(* The statements of the REPL on tables that exist: INSERT and DELETE run  *)
(* row by row, as PhysicalPlanner and the Delete operator do, and any row  *)
(* may raise and end the statement; CREATE INDEX; SELECT, which changes    *)
(* nothing, in the invariants; and orderly restarts.  CREATE TABLE, DROP   *)
(* and what is durable when are in Catalog.                                *)
(***************************************************************************)
EXTENDS Planner

CONSTANTS
  Columns,      \* [table name -> columns]
  Inserts,      \* statements: [table, words], words a sequence of rows of words
  Deletes,      \* statements: [table, where]
  Indexable,    \* pairs <<table, column>> that CREATE INDEX is tried on
  Queries,      \* SELECTs
  MaxSlots,     \* bound on the rows ever inserted
  MaxIndexes    \* bound on the number of indexes

Names == DOMAIN Columns
ColumnType == [name : STRING, type : {"INT", "FLOAT", "BOOL", "VARCHAR"}, max_length : Nat]
WordType == [text : Seq(Int), numeric : BOOLEAN, number : Int]
ColumnRefType == [kind : {"column"}, table : STRING, col : STRING]
LiteralType == [kind : {"number"}, number : Int] \cup [kind : {"text"}, text : Seq(Int)]
OperandType == ColumnRefType \cup LiteralType
ComparisonType == [left : OperandType, op : Operators, right : OperandType]
ConjunctType == Seq(Seq(ComparisonType))
PredicateType == Seq(ConjunctType)
(* As sqlglot parses it: with conditions that _plan_expression refuses.    *)
WrittenType == OperandType \cup {Other}
ConditionType == [left : WrittenType, op : Operators \cup {"other"}, right : WrittenType]
WhereType == Seq(Seq(ConditionType))
JoinType == [table : Names, on : [left : ColumnRefType, op : Operators, right : ColumnRefType]]
QueryType ==
  [from : Names, joins : Seq(JoinType), where : WhereType, select : Seq(WrittenType)]

ASSUME EngineAssumption ==
  /\ MaxSlots \in Nat /\ MaxIndexes \in Nat
  /\ \A n \in Names : Columns[n] \in Seq(ColumnType)
  /\ \A s \in Inserts : s.table \in Names /\ s.words \in Seq(Seq(WordType)) \ {<<>>}
  /\ \A s \in Deletes : s.table \in Names /\ s.where \in WhereType
  /\ \A i \in Indexable :
       /\ i[1] \in Names /\ HasColumn(Columns[i[1]], i[2])
       /\ Columns[i[1]][Position(Columns[i[1]], i[2])].type = "INT"

(* A query names each of its tables once, and columns of its tables; one   *)
(* without a table is a column of exactly one of them.                     *)
TablesOf(query) == {TableAt(query, i) : i \in 1 .. Len(query.joins) + 1}
OwnersOf(query, col) == {n \in TablesOf(query) : HasColumn(Columns[n], col)}
OnsOf(query) == {query.joins[i].on : i \in DOMAIN query.joins}
Referred(query) ==
  {o \in ColumnsOf(query.where) \cup ToSet(query.select)
           \cup UNION {Operands(on) : on \in OnsOf(query)} : o.kind = "column"}
ASSUME QueryAssumption ==
  /\ Names \subseteq STRING \ {Unqualified}
  /\ \A q \in Queries :
       /\ q \in QueryType
       /\ \A i, j \in 1 .. Len(q.joins) + 1 : TableAt(q, i) = TableAt(q, j) => i = j
       /\ \A o \in Referred(q) :
            IF o.table = Unqualified THEN \E n \in Names : OwnersOf(q, o.col) = {n}
            ELSE o.table \in OwnersOf(q, o.col)

VARIABLES
  tables,       \* Catalog.tables, with what their files hold
  stmt,         \* the INSERT or DELETE in progress
  failed,       \* history variable: a delete has raised
  rows          \* history variable: per table, rid -> row of the inserts
                \*   that returned rid, less the deleted ones

vars == <<tables, stmt, failed, rows>>

NoStmt == [op |-> "none", table |-> "", words |-> <<>>, where |-> <<>>, rids |-> {}]
Idle == stmt = NoStmt

Init ==
  /\ tables = [n \in Names |-> EmptyTable(Columns[n])]
  /\ stmt = NoStmt
  /\ failed = FALSE
  /\ rows = [n \in Names |-> <<>>]
-----------------------------------------------------------------------------
Total(count(_)) == FoldSet(LAMBDA n, sum : sum + count(n), 0, Names)
SlotsUsed == Total(LAMBDA n : Len(tables[n].slots))
IndexesUsed == Total(LAMBDA n : Len(tables[n].indices))

(* _plan_insert, one iteration of its loop at a time.                      *)
BeginInsert(s) ==
  /\ Idle
  /\ SlotsUsed + Len(s.words) <= MaxSlots
  /\ stmt' = [NoStmt EXCEPT !.op = "insert", !.table = s.table, !.words = s.words]
  /\ UNCHANGED <<tables, failed, rows>>

Rest == IF Len(stmt.words) = 1 THEN NoStmt ELSE [stmt EXCEPT !.words = Tail(@)]
Accepted(t, words) ==
  Coercible(t.columns, words) /\ Serializable(t.columns, coerce(t.columns, words))

With(kept, rid, row) ==
  [r \in DOMAIN kept \cup {rid} |-> IF r = rid THEN row ELSE kept[r]]
InsertRow ==
  LET n == stmt.table
      t == tables[n]
      row == coerce(t.columns, stmt.words[1])
  IN  /\ stmt.op = "insert"
      /\ Accepted(t, stmt.words[1])
      /\ tables' = [tables EXCEPT ![n] = insert(t, row)]
      /\ rows' = [rows EXCEPT ![n] = With(@, Len(t.slots) + 1, row)]
      /\ stmt' = Rest
      /\ UNCHANGED failed

(* coerce or serialize raises; the rows before this one stay.              *)
InsertRaises ==
  /\ stmt.op = "insert"
  /\ ~Accepted(tables[stmt.table], stmt.words[1])
  /\ stmt' = NoStmt
  /\ UNCHANGED <<tables, failed, rows>>

(* _plan_delete: the Delete operator collects its rids before it deletes.  *)
(* They come in the order of the scan; the order is left open here.  A     *)
(* DELETE raises without WHERE, with one that cannot be planned or whose   *)
(* scan raises, and changes nothing then.                                  *)
RidsOf_Unfiltered(n, where) == Candidates(tables[n], where)
RidsOf(n, where) ==
  {row[n].rid : row \in _plan_scan(tables, Scan(n, where)).rows}
BeginDelete(s) ==
  LET where == Predicate(s.where, s.table)
  IN  /\ Idle
      /\ s.where # <<>> /\ IsPlannedAll(s.where, <<>>)
      /\ RidsOf(s.table, where) # {}
      /\ stmt' = [NoStmt EXCEPT !.op = "delete", !.table = s.table, !.where = where,
                                !.rids = RidsOf(s.table, where)]
      /\ UNCHANGED <<tables, failed, rows>>

DeleteRow(rid) ==
  LET n == stmt.table
  IN  /\ stmt.op = "delete" /\ rid \in stmt.rids
      /\ tables' = [tables EXCEPT ![n] = delete(@, rid)]
      /\ rows' = [rows EXCEPT ![n] = [r \in DOMAIN @ \ {rid} |-> @[r]]]
      /\ failed' = (failed \/ Raising(tables[n], rid) # {})
      /\ stmt' = IF Raising(tables[n], rid) # {} \/ stmt.rids = {rid} THEN NoStmt
                 ELSE [stmt EXCEPT !.rids = @ \ {rid}]

(* CREATE INDEX; on a column that has an index it raises with no effect    *)
(* on tables.                                                              *)
CreateIndex(n, col) ==
  /\ Idle
  /\ IndexesUsed < MaxIndexes
  /\ col \notin IndexedColumns(tables[n])
  /\ tables' = [tables EXCEPT ![n] = create_index(@, col)]
  /\ UNCHANGED <<stmt, failed, rows>>

(* close() and a new process.  After a delete has raised, whether the leaf *)
(* it changed is written depends on what else reported it; no restart is   *)
(* modelled then.                                                          *)
Restart ==
  /\ Idle /\ ~failed
  /\ tables' = [n \in Names |-> Reopened(tables[n])]
  /\ UNCHANGED <<stmt, failed, rows>>

Next ==
  \/ \E s \in Inserts : BeginInsert(s)
  \/ InsertRow \/ InsertRaises
  \/ \E s \in Deletes : BeginDelete(s)
  \/ \E rid \in stmt.rids : DeleteRow(rid)
  \/ \E i \in Indexable : CreateIndex(i[1], i[2])
  \/ Restart

Spec == Init /\ [][Next]_vars
-----------------------------------------------------------------------------
(* The type of the state: rids name slots, those of a DELETE rows that are *)
(* still there, and trees belong to columns, at most one to each.          *)
TypeOK ==
  /\ DOMAIN tables = Names
  /\ \A n \in Names :
       LET t == tables[n]
       IN  /\ t.columns = Columns[n]
           /\ \A i, j \in DOMAIN t.indices : t.indices[i].col = t.indices[j].col => i = j
           /\ \A i \in DOMAIN t.indices : t.indices[i].stored_keys \in Nat
           /\ DOMAIN rows[n] \subseteq DOMAIN t.slots
  /\ stmt.op = "delete" => stmt.rids \subseteq Valid(tables[stmt.table])
  /\ failed \in BOOLEAN

(* A scan returns every row that an INSERT accepted and no DELETE removed, *)
(* with the values it was given, byte for byte: whatever statements raised *)
(* and wherever variable-length columns stand in the row.                  *)
RowsAreExact == \A n \in Names : scan(tables[n]) = rows[n]

(* Heap and indexes agree, between any two rows of a statement: an index   *)
(* names each row under its key and nothing else, also when it was created *)
(* late, reopened, or a row of an INSERT raised; until a delete raises.    *)
IndexesAgree ==
  ~failed => \A n \in Names : \A index \in ToSet(tables[n].indices) :
    index.entries =
      {<<Value(tables[n], rows[n][rid], index.col), rid>> : rid \in DOMAIN rows[n]}
-----------------------------------------------------------------------------
(* What a query means, on the rows and without a plan: all combinations of *)
(* rows of its tables for which ON and WHERE hold.  A bare column is one   *)
(* of the only table of the query that has it.                             *)
Owner(query, col) == CHOOSE n \in OwnersOf(query, col) : TRUE
Owned(query, o) ==
  IF o.kind = "column" /\ o.table = Unqualified
  THEN Col(Owner(query, o.col), o.col) ELSE o
RidsOfEach(kept, names) ==
  {rid \in [names -> UNION {DOMAIN kept[n] : n \in names}] :
     \A n \in names : rid[n] \in DOMAIN kept[n]}
Combinations(kept, names) ==
  {[n \in names |-> [rid |-> rid[n], values |-> kept[n][rid[n]]]] :
     rid \in RidsOfEach(kept, names)}
MeansTrue(query, row, c) ==
  Holds(tables, row, Cmp(Owned(query, c.left), c.op, Owned(query, c.right)))
Meaning(query) ==
  {[row |-> row, values |-> [i \in DOMAIN query.select |->
                               Evaluate(tables, row, Owned(query, query.select[i]))]] :
     row \in {r \in Combinations(rows, TablesOf(query)) :
       /\ \A on \in OnsOf(query) : MeansTrue(query, r, on)
       /\ query.where = <<>> \/ \E both \in ToSet(query.where) :
            \A c \in ToSet(both) : MeansTrue(query, r, c)}}

(* Where the planner is known to be wrong: an indexed column compared with *)
(* a literal on its left or with one that is not an integer; a join that   *)
(* is not an equality, names its new table on the left, or replaces a side *)
(* with a predicate, several tables or another column by an index join, or *)
(* looks text up in an index; a bare column of another table than the FROM *)
(* table, or in ON.                                                        *)
LookupIsSound(t, conjunct) ==
  LooksUp(t, conjunct) =>
    /\ The(conjunct).left.kind = "column"
    /\ KeyLiteral(conjunct).kind = "number" /\ IsInteger(KeyLiteral(conjunct).number)
ScanIsSound(node) ==
  \A i \in DOMAIN node.predicate : LookupIsSound(tables[node.table], node.predicate[i])
JoinIsSound(db, plan, i) ==
  LET on == plan.ons[i]
      from == plan.scans[1]
      node == plan.scans[i + 1]
  IN  /\ on.op = "=" /\ on.right.table = node.table
      /\ \E j \in 1 .. i : on.left.table = plan.scans[j].table
      /\ ProbesRight(db, node, on) => node.predicate = <<>> /\ ~IsText(db, on.left)
      /\ ~ProbesRight(db, node, on) /\ ProbesLeft(db, from.table, on) =>
           /\ i = 1 /\ from.predicate = <<>> /\ on.left.col = on.right.col
           /\ ~IsText(db, on.right)
Sound(query, plan) ==
  /\ \A i \in DOMAIN plan.scans : ScanIsSound(plan.scans[i])
  /\ \A i \in DOMAIN plan.ons : JoinIsSound(tables, plan, i)
  /\ \A o \in Referred(query) :
       o.table = Unqualified => OwnersOf(query, o.col) = {query.from}

(* A SELECT returns what it means, once each, whichever plan the pushed    *)
(* predicates and the indexes of the moment lead to: one that can be       *)
(* planned and orders no text and number.                                  *)
SelectIsExact ==
  Idle /\ ~failed => \A q \in Queries :
    /\ IsPlannedAll(q.where, q.select)
    /\ Sound(q, push_down(_plan_select(q)))
    /\ Comparable(tables, _plan_select(q).filter)
    => execute(tables, q) = [raised |-> FALSE, rows |-> Meaning(q)]

(* An index changes how fast a query runs and not what it returns.         *)
WithoutIndexes == [n \in Names |-> [tables[n] EXCEPT !.indices = <<>>]]
IndexesOnlySpeedUp ==
  Idle /\ ~failed => \A q \in Queries : execute(tables, q) = execute(WithoutIndexes, q)

(* A DELETE removes rows that satisfy its predicate only, one at a time,   *)
(* and when it ends without raising none of them is left.                  *)
Matches(n, row, where) == Satisfies(tables, RowOf(n, 0, row), where)
DeleteIsExact ==
  [][stmt.op = "delete" /\ ScanIsSound(Scan(stmt.table, stmt.where)) =>
       LET n == stmt.table
       IN  /\ \A rid \in DOMAIN rows[n] \ DOMAIN scan(tables'[n]) :
                Matches(n, rows[n][rid], stmt.where)
           /\ stmt' = NoStmt /\ ~failed' =>
                \A rid \in DOMAIN scan(tables'[n]) :
                  ~Matches(n, scan(tables'[n])[rid], stmt.where)]_vars
=============================================================================
