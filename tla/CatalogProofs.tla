---------------------------- MODULE CatalogProofs -----------------------------
(***************************************************************************)
(* Theorems about Catalog: file ids are unique, the files that             *)
(* catalog.json names exist, and between statements it says what the       *)
(* process has in memory; flushed rows survive, and indexes list them.     *)
(***************************************************************************)
EXTENDS Catalog, FiniteSetTheorems, SequenceTheorems, TLAPS

(* The inductive invariant.  Tables are records of file ids.               *)
IndexMaps == UNION {[C -> Nat] : C \in SUBSET Cols}
IsTables(ts) ==
  DOMAIN ts \subseteq Names /\ ts \in [DOMAIN ts -> [file : Nat, indices : IndexMaps]]
StepNames == {"none", "allocate", "directory", "truncate", "dump", "build",
              "remove", "flush", "find_leaf"}
Statements == [op : {"none", "create_table", "create_index", "drop_table"},
               name : Names \cup {""}, col : Cols \cup {""}, file : Nat, next : StepNames]
Shapes ==
  /\ next_file_id \in Nat
  /\ json \in [whole : BOOLEAN, next_file_id : Nat, tables : {json.tables}]
  /\ IsTables(tables) /\ IsTables(json.tables)
  /\ stmt \in Statements
  /\ running \in BOOLEAN

(* the id of a statement in progress was given and is not named yet, or    *)
(* not named any more;                                                     *)
StatementInv ==
  /\ stmt.next \in {"allocate", "directory", "build"} =>
       stmt.file < next_file_id /\ stmt.file \notin FilesOf(tables)
  /\ stmt.next \in {"allocate", "directory"} =>
       stmt.op = "create_table" /\ stmt.name \in Names
  /\ stmt.next = "build" => stmt.op = "create_index" /\ stmt.col \in Cols
  /\ stmt.next = "remove" => stmt.op = "drop_table"
  /\ stmt.op = "drop_table" => stmt.file \notin FilesOf(tables)
  /\ stmt.op = "none" => stmt.next \in {"none", "flush", "find_leaf"}

(* catalog.json is behind only where a statement is about to write it;     *)
JsonInv ==
  running => /\ stmt.next # "dump" => json.whole
             /\ stmt.next \notin {"truncate", "dump"} => json.tables = tables

(* and what either of them names exists.                                   *)
NamesInv ==
  /\ FileIdsAreUnique
  /\ FilesOf(tables) \cup FilesOf(json.tables) \subseteq DOMAIN disk

CatalogInv == Shapes /\ StatementInv /\ JsonInv /\ NamesInv
-----------------------------------------------------------------------------
(* What files the tables ts use.                                           *)
LEMMA FilesAreNumbers ==
  ASSUME NEW ts, IsTables(ts), NEW n \in DOMAIN ts
  PROVE  /\ ts[n].file \in Nat
         /\ \A c \in DOMAIN ts[n].indices :
              c \in Cols /\ c # "heap" /\ ts[n].indices[c] \in Nat
<1>1. ts[n] \in [file : Nat, indices : IndexMaps]
  BY DEF IsTables
<1>2. PICK C \in SUBSET Cols : ts[n].indices \in [C -> Nat]
  BY <1>1 DEF IndexMaps
<1> QED BY <1>1, <1>2, CatalogAssumption DEF CatalogAssumption

LEMMA UseIs ==
  ASSUME NEW ts, NEW u \in Uses(ts)
  PROVE  \E n \in DOMAIN ts : \/ u = <<n, "heap">>
                              \/ \E c \in DOMAIN ts[n].indices : u = <<n, c>>
BY DEF Uses

LEMMA HeapUse ==
  ASSUME NEW ts, NEW n \in DOMAIN ts
  PROVE  <<n, "heap">> \in Uses(ts) /\ FileOf(ts, <<n, "heap">>) = ts[n].file
BY DEF Uses, FileOf

LEMMA IndexUse ==
  ASSUME NEW ts, IsTables(ts), NEW n \in DOMAIN ts, NEW c \in DOMAIN ts[n].indices
  PROVE  <<n, c>> \in Uses(ts) /\ FileOf(ts, <<n, c>>) = ts[n].indices[c]
BY FilesAreNumbers DEF Uses, FileOf

LEMMA FilesOfAreNumbers ==
  ASSUME NEW ts, IsTables(ts)
  PROVE  FilesOf(ts) \subseteq Nat
<1> SUFFICES ASSUME NEW u \in Uses(ts) PROVE FileOf(ts, u) \in Nat
  BY DEF FilesOf
<1>1. PICK n \in DOMAIN ts : \/ u = <<n, "heap">>
                             \/ \E c \in DOMAIN ts[n].indices : u = <<n, c>>
  BY UseIs
<1>2. CASE u = <<n, "heap">>
  BY <1>2, HeapUse, FilesAreNumbers
<1>3. CASE \E c \in DOMAIN ts[n].indices : u = <<n, c>>
  <2>1. PICK c \in DOMAIN ts[n].indices : u = <<n, c>>
    BY <1>3
  <2>2. FileOf(ts, u) = ts[n].indices[c]
    BY <2>1, IndexUse
  <2> QED BY <2>2, FilesAreNumbers
<1> QED BY <1>1, <1>2, <1>3

(* Tables that use what ts uses, and possibly a new file, stay distinct.   *)
LEMMA Extended ==
  ASSUME NEW ts, NEW ts2, NEW next \in Nat, NEW use, NEW f \in Nat,
         Distinct(ts, next), f < next, f \notin FilesOf(ts),
         \A u \in Uses(ts2) : \/ u = use /\ FileOf(ts2, u) = f
                              \/ u \in Uses(ts) /\ FileOf(ts2, u) = FileOf(ts, u)
  PROVE  Distinct(ts2, next) /\ FilesOf(ts2) \subseteq FilesOf(ts) \cup {f}
BY DEF Distinct, FilesOf

LEMMA Reduced ==
  ASSUME NEW ts, NEW ts2, NEW next, Distinct(ts, next),
         \A u \in Uses(ts2) : u \in Uses(ts) /\ FileOf(ts2, u) = FileOf(ts, u)
  PROVE  Distinct(ts2, next) /\ FilesOf(ts2) \subseteq FilesOf(ts)
BY DEF Distinct, FilesOf

(* A greater next_file_id makes no ids equal.                              *)
LEMMA LaterNext ==
  ASSUME NEW ts, IsTables(ts), NEW next \in Nat, Distinct(ts, next)
  PROVE  Distinct(ts, next + 1) /\ next \notin FilesOf(ts)
BY FilesOfAreNumbers DEF Distinct

(* CREATE TABLE, CREATE INDEX and DROP TABLE.                              *)
LEMMA TableAdded ==
  ASSUME NEW ts, IsTables(ts), NEW next \in Nat, Distinct(ts, next),
         NEW n \in Names, NEW f \in Nat, f < next, f \notin FilesOf(ts)
  PROVE  LET ts2 == With(ts, n, [file |-> f, indices |-> Empty])
         IN  /\ IsTables(ts2)
             /\ Distinct(ts2, next)
             /\ FilesOf(ts2) \subseteq FilesOf(ts) \cup {f}
<1> DEFINE ts2 == With(ts, n, [file |-> f, indices |-> Empty])
<1>1. /\ DOMAIN ts2 = {n} \cup DOMAIN ts
      /\ ts2[n] = [file |-> f, indices |-> Empty]
      /\ \A m \in DOMAIN ts : m # n => ts2[m] = ts[m]
      /\ ts2 = [m \in DOMAIN ts2 |-> ts2[m]]
  BY DEF With
<1> HIDE DEF ts2
<1>2. Empty \in IndexMaps /\ DOMAIN Empty = {}
  <2>1. Empty \in [{} -> Nat] /\ DOMAIN Empty = {}
    BY DEF Empty
  <2> QED BY <2>1 DEF IndexMaps
<1>3. IsTables(ts2)
  BY <1>1, <1>2 DEF IsTables
<1>4. \A u \in Uses(ts2) : \/ u = <<n, "heap">> /\ FileOf(ts2, u) = f
                           \/ u \in Uses(ts) /\ FileOf(ts2, u) = FileOf(ts, u)
  <2> TAKE u \in Uses(ts2)
  <2>1. PICK m \in DOMAIN ts2 : \/ u = <<m, "heap">>
                                \/ \E c \in DOMAIN ts2[m].indices : u = <<m, c>>
    BY UseIs
  <2>2. CASE m = n
    <3>1. u = <<n, "heap">>
      BY <2>1, <2>2, <1>1, <1>2
    <3> QED BY <3>1, <1>1, HeapUse
  <2>3. CASE m # n
    <3>1. m \in DOMAIN ts /\ ts2[m] = ts[m]
      BY <2>3, <1>1
    <3>2. CASE u = <<m, "heap">>
      BY <3>1, <3>2, <1>1, HeapUse
    <3>3. CASE \E c \in DOMAIN ts2[m].indices : u = <<m, c>>
      <4>1. PICK c2 \in DOMAIN ts2[m].indices : u = <<m, c2>>
        BY <3>3
      <4>2. FileOf(ts2, u) = ts2[m].indices[c2]
        BY <4>1, <1>3, IndexUse
      <4>3. u \in Uses(ts) /\ FileOf(ts, u) = ts[m].indices[c2]
        BY <4>1, <3>1, IndexUse
      <4> QED BY <4>2, <4>3, <3>1
    <3> QED BY <2>1, <3>2, <3>3
  <2> QED BY <2>2, <2>3
<1>5. Distinct(ts2, next) /\ FilesOf(ts2) \subseteq FilesOf(ts) \cup {f}
  <2>1. FilesOf(ts2) \subseteq FilesOf(ts) \cup {f}
    BY <1>4 DEF FilesOf
  <2>2. ASSUME NEW u \in Uses(ts2), NEW w \in Uses(ts2), FileOf(ts2, u) = FileOf(ts2, w)
        PROVE  u = w
    BY <1>4, <2>2 DEF Distinct, FilesOf
  <2>3. \A g \in FilesOf(ts2) : g < next
    BY <2>1 DEF Distinct
  <2> QED BY <2>1, <2>2, <2>3 DEF Distinct
<1> QED BY <1>3, <1>5 DEF ts2

LEMMA IndexAdded ==
  ASSUME NEW ts, IsTables(ts), NEW next \in Nat, Distinct(ts, next),
         NEW n, NEW c \in Cols, NEW f \in Nat, f < next, f \notin FilesOf(ts)
  PROVE  LET ts2 == [ts EXCEPT ![n].indices = With(@, c, f)]
         IN  /\ IsTables(ts2)
             /\ Distinct(ts2, next)
             /\ FilesOf(ts2) \subseteq FilesOf(ts) \cup {f}
<1> DEFINE ts2 == [ts EXCEPT ![n].indices = With(@, c, f)]
           more == With(ts[n].indices, c, f)
<1>1. CASE n \notin DOMAIN ts
  <2>1. ts2 = ts
    BY <1>1 DEF IsTables
  <2> QED BY <2>1
<1>2. CASE n \in DOMAIN ts
  <2>1. PICK C \in SUBSET Cols : ts[n].indices \in [C -> Nat]
    <3>1. ts[n] \in [file : Nat, indices : IndexMaps]
      BY <1>2 DEF IsTables
    <3> QED BY <3>1 DEF IndexMaps
  <2>2. /\ DOMAIN more = {c} \cup C
        /\ more[c] = f
        /\ \A d \in C : d # c => more[d] = ts[n].indices[d]
        /\ more = [d \in DOMAIN more |-> more[d]]
    BY <2>1 DEF With
  <2>3. more \in IndexMaps
    <3>1. more \in [{c} \cup C -> Nat]
      BY <2>1, <2>2
    <3> QED BY <3>1 DEF IndexMaps
  <2>4. /\ DOMAIN ts2 = DOMAIN ts
        /\ ts2[n] = [file |-> ts[n].file, indices |-> more]
        /\ \A m \in DOMAIN ts : m # n => ts2[m] = ts[m]
        /\ ts2 = [m \in DOMAIN ts2 |-> ts2[m]]
    BY <1>2 DEF IsTables
  <2> HIDE DEF ts2, more
  <2>5. IsTables(ts2)
    BY <1>2, <2>3, <2>4 DEF IsTables
  <2>6. \A u \in Uses(ts2) : \/ u = <<n, c>> /\ FileOf(ts2, u) = f
                             \/ u \in Uses(ts) /\ FileOf(ts2, u) = FileOf(ts, u)
    <3> TAKE u \in Uses(ts2)
    <3>1. PICK m \in DOMAIN ts2 : \/ u = <<m, "heap">>
                                  \/ \E d \in DOMAIN ts2[m].indices : u = <<m, d>>
      BY UseIs
    <3>2. CASE u = <<m, "heap">>
      <4>1. m \in DOMAIN ts /\ ts2[m].file = ts[m].file
        BY <2>4
      <4> QED BY <3>2, <4>1, HeapUse
    <3>3. CASE \E d \in DOMAIN ts2[m].indices : u = <<m, d>>
      <4>1. PICK d \in DOMAIN ts2[m].indices : u = <<m, d>>
        BY <3>3
      <4>2. FileOf(ts2, u) = ts2[m].indices[d]
        BY <4>1, <2>5, IndexUse
      <4>3. CASE m = n /\ d = c
        BY <4>1, <4>2, <4>3, <2>2, <2>4
      <4>4. CASE ~(m = n /\ d = c)
        <5>1. m \in DOMAIN ts /\ d \in DOMAIN ts[m].indices /\ ts2[m].indices[d] = ts[m].indices[d]
          BY <4>1, <4>4, <2>1, <2>2, <2>4
        <5>2. u \in Uses(ts) /\ FileOf(ts, u) = ts[m].indices[d]
          BY <5>1, <4>1, IndexUse
        <5> QED BY <5>1, <5>2, <4>2
      <4> QED BY <4>3, <4>4
    <3> QED BY <3>1, <3>2, <3>3
  <2>7. Distinct(ts2, next) /\ FilesOf(ts2) \subseteq FilesOf(ts) \cup {f}
    BY <2>6, Extended
  <2> QED BY <2>5, <2>7 DEF ts2, more
<1> QED BY <1>1, <1>2

LEMMA TableDropped ==
  ASSUME NEW ts, IsTables(ts), NEW next \in Nat, Distinct(ts, next), NEW n \in DOMAIN ts
  PROVE  LET ts2 == Without(ts, n)
         IN  /\ IsTables(ts2)
             /\ Distinct(ts2, next)
             /\ FilesOf(ts2) \subseteq FilesOf(ts)
             /\ ts[n].file \notin FilesOf(ts2)
<1> DEFINE ts2 == Without(ts, n)
<1>1. /\ DOMAIN ts2 = DOMAIN ts \ {n}
      /\ \A m \in DOMAIN ts2 : ts2[m] = ts[m]
      /\ ts2 = [m \in DOMAIN ts2 |-> ts2[m]]
  BY DEF Without
<1> HIDE DEF ts2
<1>2. IsTables(ts2)
  BY <1>1 DEF IsTables
<1>3. \A u \in Uses(ts2) : /\ u \in Uses(ts) /\ FileOf(ts2, u) = FileOf(ts, u)
                           /\ u # <<n, "heap">>
  <2> TAKE u \in Uses(ts2)
  <2>1. PICK m \in DOMAIN ts2 : \/ u = <<m, "heap">>
                                \/ \E c \in DOMAIN ts2[m].indices : u = <<m, c>>
    BY UseIs
  <2>2. m \in DOMAIN ts /\ m # n /\ ts2[m] = ts[m]
    BY <1>1
  <2>3. CASE u = <<m, "heap">>
    BY <2>2, <2>3, HeapUse
  <2>4. CASE \E c \in DOMAIN ts2[m].indices : u = <<m, c>>
    <3>1. PICK c \in DOMAIN ts2[m].indices : u = <<m, c>>
      BY <2>4
    <3>2. FileOf(ts2, u) = ts2[m].indices[c]
      BY <3>1, <1>2, IndexUse
    <3>3. u \in Uses(ts) /\ FileOf(ts, u) = ts[m].indices[c]
      BY <3>1, <2>2, IndexUse
    <3>4. u # <<n, "heap">>
      BY <3>1, <2>2
    <3> QED BY <3>2, <3>3, <3>4, <2>2
  <2> QED BY <2>1, <2>3, <2>4
<1>4. Distinct(ts2, next) /\ FilesOf(ts2) \subseteq FilesOf(ts)
  BY <1>3, Reduced
<1>5. ts[n].file \notin FilesOf(ts2)
  <2>1. <<n, "heap">> \in Uses(ts) /\ FileOf(ts, <<n, "heap">>) = ts[n].file
    BY HeapUse
  <2> QED BY <2>1, <1>3 DEF FilesOf, Distinct
<1> QED BY <1>2, <1>4, <1>5 DEF ts2
-----------------------------------------------------------------------------
(* The order of the steps.                                                 *)
LEMMA NextStep ==
  ASSUME stmt \in Statements, Continues, stmt.op # "none",
         stmt.next \in {"allocate", "directory"} => stmt.op = "create_table",
         stmt.next = "build" => stmt.op = "create_index",
         stmt.next = "remove" => stmt.op = "drop_table"
  PROVE  /\ stmt.next = "allocate" => stmt' = [stmt EXCEPT !.next = "directory"]
         /\ stmt.next \in {"directory", "build"} => stmt' = [stmt EXCEPT !.next = "truncate"]
         /\ stmt.next = "truncate" => stmt' = [stmt EXCEPT !.next = "dump"]
         /\ stmt.next = "dump" =>
              IF stmt.op = "drop_table" THEN stmt' = [stmt EXCEPT !.next = "remove"] ELSE Flushes
         /\ stmt.next = "remove" => Flushes
<1>1. CASE stmt.op = "create_table"
  <2>1. Steps(stmt.op) = <<"allocate", "directory", "truncate", "dump">>
    BY <1>1 DEF Steps
  <2>2. DOMAIN Steps(stmt.op) = 1 .. 4 /\ Len(Steps(stmt.op)) = 4
    BY <2>1
  <2>3. Steps(stmt.op)[1] = "allocate" /\ Steps(stmt.op)[2] = "directory" /\ Steps(stmt.op)[3] = "truncate" /\ Steps(stmt.op)[4] = "dump"
    BY <2>1
  <2>4. PICK i \in 1 .. 4 :
          /\ Steps(stmt.op)[i] = stmt.next
          /\ IF i = 4 THEN Flushes ELSE stmt' = [stmt EXCEPT !.next = Steps(stmt.op)[i + 1]]
    BY <2>2 DEF Continues
  <2>5. i = 1 \/ i = 2 \/ i = 3 \/ i = 4
    BY <2>4
  <2> QED BY <1>1, <2>3, <2>4, <2>5
<1>2. CASE stmt.op = "create_index"
  <2>1. Steps(stmt.op) = <<"build", "truncate", "dump">>
    BY <1>2 DEF Steps
  <2>2. DOMAIN Steps(stmt.op) = 1 .. 3 /\ Len(Steps(stmt.op)) = 3
    BY <2>1
  <2>3. Steps(stmt.op)[1] = "build" /\ Steps(stmt.op)[2] = "truncate" /\ Steps(stmt.op)[3] = "dump"
    BY <2>1
  <2>4. PICK i \in 1 .. 3 :
          /\ Steps(stmt.op)[i] = stmt.next
          /\ IF i = 3 THEN Flushes ELSE stmt' = [stmt EXCEPT !.next = Steps(stmt.op)[i + 1]]
    BY <2>2 DEF Continues
  <2>5. i = 1 \/ i = 2 \/ i = 3
    BY <2>4
  <2> QED BY <1>2, <2>3, <2>4, <2>5
<1>3. CASE stmt.op = "drop_table"
  <2>1. Steps(stmt.op) = <<"truncate", "dump", "remove">>
    BY <1>3 DEF Steps
  <2>2. DOMAIN Steps(stmt.op) = 1 .. 3 /\ Len(Steps(stmt.op)) = 3
    BY <2>1
  <2>3. Steps(stmt.op)[1] = "truncate" /\ Steps(stmt.op)[2] = "dump" /\ Steps(stmt.op)[3] = "remove"
    BY <2>1
  <2>4. PICK i \in 1 .. 3 :
          /\ Steps(stmt.op)[i] = stmt.next
          /\ IF i = 3 THEN Flushes ELSE stmt' = [stmt EXCEPT !.next = Steps(stmt.op)[i + 1]]
    BY <2>2 DEF Continues
  <2>5. i = 1 \/ i = 2 \/ i = 3
    BY <2>4
  <2> QED BY <1>3, <2>3, <2>4, <2>5
<1> QED BY <1>1, <1>2, <1>3 DEF Statements

LEMMA NoStatements ==
  /\ NoStmt \in Statements
  /\ [NoStmt EXCEPT !.next = "flush"] \in Statements
  /\ [NoStmt EXCEPT !.next = "find_leaf"] \in Statements
BY DEF NoStmt, Statements, StepNames

LEMMA InitInv == Init => CatalogInv
<1> SUFFICES ASSUME Init PROVE CatalogInv
  OBVIOUS
<1>1. IsTables(Empty) /\ DOMAIN Empty = {}
  BY DEF IsTables, Empty
<1>2. Uses(Empty) = {} /\ FilesOf(Empty) = {}
  BY <1>1 DEF Uses, FilesOf
<1>3. Shapes
  BY <1>1, NoStatements DEF Init, Shapes
<1>4. StatementInv /\ JsonInv
  BY <1>2 DEF Init, StatementInv, JsonInv, NoStmt
<1>5. NamesInv
  BY <1>2 DEF Init, NamesInv, FileIdsAreUnique, Distinct
<1> QED BY <1>3, <1>4, <1>5 DEF CatalogInv

(* Steps that name no file and unname none.                                *)
LEMMA QuietStep ==
  ASSUME CatalogInv, UNCHANGED <<next_file_id, tables, json>>, UNCHANGED running,
         stmt' \in Statements, StatementInv', JsonInv', DOMAIN disk \subseteq DOMAIN disk'
  PROVE  CatalogInv'
<1>1. Shapes'
  BY DEF CatalogInv, Shapes, IsTables
<1>2. NamesInv'
  BY DEF CatalogInv, NamesInv, FileIdsAreUnique
<1> QED BY <1>1, <1>2 DEF CatalogInv

(* Between statements the invariant asks little of a statement.            *)
LEMMA IdleStatement ==
  ASSUME CatalogInv, UNCHANGED <<tables, json, running>>,
         stmt.next \notin {"truncate", "dump"} \/ ~running,
         stmt' \in {NoStmt, [NoStmt EXCEPT !.next = "flush"], [NoStmt EXCEPT !.next = "find_leaf"]}
  PROVE  stmt' \in Statements /\ StatementInv' /\ JsonInv'
<1>1. stmt' \in Statements
  BY NoStatements
<1>2. StatementInv'
  <2>1. stmt'.op = "none" /\ stmt'.next \in {"none", "flush", "find_leaf"}
    <3>1. NoStmt.op = "none" /\ NoStmt.next = "none"
      BY DEF NoStmt
    <3>2. /\ [NoStmt EXCEPT !.next = "flush"].op = "none"
          /\ [NoStmt EXCEPT !.next = "flush"].next = "flush"
      BY DEF NoStmt
    <3>3. /\ [NoStmt EXCEPT !.next = "find_leaf"].op = "none"
          /\ [NoStmt EXCEPT !.next = "find_leaf"].next = "find_leaf"
      BY DEF NoStmt
    <3> QED BY <3>1, <3>2, <3>3
  <2> QED BY <2>1 DEF StatementInv
<1>3. JsonInv'
  BY DEF CatalogInv, JsonInv, NoStmt
<1> QED BY <1>1, <1>2, <1>3

LEMMA FirstStep ==
  /\ Steps("create_table")[1] = "allocate"
  /\ Steps("create_index")[1] = "build"
  /\ Steps("drop_table")[1] = "truncate"
BY DEF Steps

(* What Continues does, and what it keeps of the statement.                *)
Moves(step) ==
  stmt' \in Statements /\ stmt' = [stmt EXCEPT !.next = step] /\ stmt'.next = step
    /\ stmt'.op = stmt.op /\ stmt'.file = stmt.file
    /\ stmt'.col = stmt.col /\ stmt'.name = stmt.name
Ends == stmt' = [NoStmt EXCEPT !.next = "flush"]

LEMMA Continued ==
  ASSUME CatalogInv, Continues, stmt.next \notin {"none", "flush", "find_leaf"}
  PROVE  /\ stmt.op # "none"
         /\ stmt.next = "allocate" => Moves("directory")
         /\ stmt.next \in {"directory", "build"} => Moves("truncate")
         /\ stmt.next = "truncate" => Moves("dump")
         /\ stmt.next = "dump" /\ stmt.op = "drop_table" => Moves("remove")
         /\ stmt.next = "dump" /\ stmt.op # "drop_table" => Ends
         /\ stmt.next = "remove" => Ends
<1>1. stmt \in Statements /\ StatementInv
  BY DEF CatalogInv, Shapes
<1>2. stmt.op # "none"
  BY <1>1 DEF StatementInv
<1>3. \A step \in StepNames : stmt' = [stmt EXCEPT !.next = step] => Moves(step)
  BY <1>1 DEF Moves, Statements
<1>4. /\ stmt.next = "allocate" => stmt' = [stmt EXCEPT !.next = "directory"]
      /\ stmt.next \in {"directory", "build"} => stmt' = [stmt EXCEPT !.next = "truncate"]
      /\ stmt.next = "truncate" => stmt' = [stmt EXCEPT !.next = "dump"]
      /\ stmt.next = "dump" =>
           IF stmt.op = "drop_table" THEN stmt' = [stmt EXCEPT !.next = "remove"] ELSE Flushes
      /\ stmt.next = "remove" => Flushes
  <2>1. /\ stmt.next \in {"allocate", "directory"} => stmt.op = "create_table"
        /\ stmt.next = "build" => stmt.op = "create_index"
        /\ stmt.next = "remove" => stmt.op = "drop_table"
    BY <1>1 DEF StatementInv
  <2> QED BY <1>1, <1>2, <2>1, NextStep
<1> QED BY <1>2, <1>3, <1>4 DEF Ends, Flushes, StepNames

LEMMA CreateTableStep ==
  ASSUME CatalogInv, NEW n \in Names, CreateTable(n)
  PROVE  CatalogInv'
<1>1. /\ running /\ stmt = NoStmt /\ stmt.next = "none" /\ next_file_id' = next_file_id + 1
      /\ UNCHANGED <<tables, json, disk, running>>
  BY DEF CreateTable, Takes, Idle, NoStmt, files
<1>2. /\ next_file_id \in Nat /\ IsTables(tables) /\ Distinct(tables, next_file_id)
  BY DEF CatalogInv, Shapes, NamesInv, FileIdsAreUnique
<1>3. Distinct(tables, next_file_id + 1) /\ next_file_id \notin FilesOf(tables)
  BY <1>2, LaterNext
<1>4. stmt' \in Statements /\ StatementInv' /\ JsonInv'
  <2>1. CASE n \in DOMAIN tables
    <3>1. stmt' = NoStmt
      BY <2>1 DEF CreateTable, StatementRaises
    <3> QED BY <3>1, <1>1, IdleStatement
  <2>2. CASE n \notin DOMAIN tables
    <3>1. stmt' = [op |-> "create_table", name |-> n, col |-> "", file |-> next_file_id,
                   next |-> "allocate"]
      BY <2>2, FirstStep DEF CreateTable, Begins
    <3>2. stmt' \in Statements
      BY <3>1, <1>2 DEF Statements, StepNames
    <3>3. stmt'.op = "create_table" /\ stmt'.next = "allocate" /\ stmt'.file = next_file_id
      BY <3>1
    <3>4. next_file_id < next_file_id'
      BY <1>1, <1>2
    <3>5. StatementInv'
      BY <3>1, <3>3, <3>4, <1>1, <1>3 DEF StatementInv
    <3>6. JsonInv'
      BY <3>1, <1>1 DEF JsonInv, CatalogInv
    <3> QED BY <3>2, <3>5, <3>6
  <2> QED BY <2>1, <2>2
<1>5. Shapes'
  BY <1>1, <1>2, <1>4 DEF CatalogInv, Shapes, IsTables
<1>6. NamesInv'
  BY <1>1, <1>3 DEF CatalogInv, NamesInv, FileIdsAreUnique
<1> QED BY <1>4, <1>5, <1>6 DEF CatalogInv

LEMMA CreateIndexStep ==
  ASSUME CatalogInv, NEW n \in Names, NEW c \in Cols, CreateIndex(n, c)
  PROVE  CatalogInv'
<1>1. /\ running /\ stmt = NoStmt /\ stmt.next = "none" /\ next_file_id' = next_file_id + 1
      /\ UNCHANGED <<tables, json, disk, running>>
  BY DEF CreateIndex, Takes, Idle, NoStmt, files
<1>2. /\ next_file_id \in Nat /\ IsTables(tables) /\ Distinct(tables, next_file_id)
  BY DEF CatalogInv, Shapes, NamesInv, FileIdsAreUnique
<1>3. Distinct(tables, next_file_id + 1) /\ next_file_id \notin FilesOf(tables)
  BY <1>2, LaterNext
<1>4. stmt' \in Statements /\ StatementInv' /\ JsonInv'
  <2>1. CASE stmt' = NoStmt
    BY <2>1, <1>1, IdleStatement
  <2>2. CASE Begins("create_index", n, c, next_file_id)
    <3>1. stmt' = [op |-> "create_index", name |-> n, col |-> c, file |-> next_file_id,
                   next |-> "build"]
      BY <2>2, FirstStep DEF Begins
    <3>2. stmt' \in Statements
      BY <3>1, <1>2 DEF Statements, StepNames
    <3>3. stmt'.op = "create_index" /\ stmt'.next = "build" /\ stmt'.file = next_file_id
      BY <3>1
    <3>4. next_file_id < next_file_id'
      BY <1>1, <1>2
    <3>5. StatementInv'
      BY <3>1, <3>3, <3>4, <1>1, <1>3 DEF StatementInv
    <3>6. JsonInv'
      BY <3>1, <1>1 DEF JsonInv, CatalogInv
    <3> QED BY <3>2, <3>5, <3>6
  <2> QED BY <2>1, <2>2 DEF CreateIndex, StatementRaises
<1>5. Shapes'
  BY <1>1, <1>2, <1>4 DEF CatalogInv, Shapes, IsTables
<1>6. NamesInv'
  BY <1>1, <1>3 DEF CatalogInv, NamesInv, FileIdsAreUnique
<1> QED BY <1>4, <1>5, <1>6 DEF CatalogInv

LEMMA DropTableStep ==
  ASSUME CatalogInv, NEW n \in DOMAIN tables, DropTable(n)
  PROVE  CatalogInv'
<1>1. /\ running /\ stmt = NoStmt /\ stmt.next = "none"
      /\ UNCHANGED <<next_file_id, json, disk, running>>
      /\ tables' = Without(tables, n)
  BY DEF DropTable, Idle, NoStmt, files
<1>2. /\ next_file_id \in Nat /\ IsTables(tables) /\ Distinct(tables, next_file_id)
      /\ tables[n].file \in Nat
  BY FilesAreNumbers DEF CatalogInv, Shapes, NamesInv, FileIdsAreUnique
<1>3. /\ IsTables(tables') /\ Distinct(tables', next_file_id)
      /\ FilesOf(tables') \subseteq FilesOf(tables) /\ tables[n].file \notin FilesOf(tables')
  BY <1>1, <1>2, TableDropped
<1>4. stmt' = [op |-> "drop_table", name |-> n, col |-> "", file |-> tables[n].file,
               next |-> "truncate"]
  BY FirstStep DEF DropTable, Begins
<1>5. stmt' \in Statements
  BY <1>2, <1>4 DEF Statements, StepNames, IsTables
<1>6. StatementInv'
  BY <1>3, <1>4 DEF StatementInv
<1>7. JsonInv'
  BY <1>1, <1>4 DEF JsonInv, CatalogInv
<1>8. Shapes'
  BY <1>1, <1>3, <1>5 DEF CatalogInv, Shapes, IsTables
<1>9. NamesInv'
  BY <1>1, <1>3 DEF CatalogInv, NamesInv, FileIdsAreUnique
<1> QED BY <1>6, <1>7, <1>8, <1>9 DEF CatalogInv

LEMMA AllocateDirectoryStep ==
  ASSUME CatalogInv, AllocateDirectory
  PROVE  CatalogInv'
<1>1. /\ running /\ stmt.next = "allocate" /\ Continues
      /\ UNCHANGED <<next_file_id, tables, json, running>>
      /\ DOMAIN disk \subseteq DOMAIN disk'
  BY DEF AllocateDirectory, At, Allocated, memory
<1>2. Moves("directory")
  BY <1>1, Continued
<1>3. stmt' \in Statements /\ StatementInv'
  BY <1>1, <1>2 DEF Moves, CatalogInv, StatementInv
<1>4. JsonInv'
  BY <1>1, <1>2 DEF Moves, CatalogInv, JsonInv
<1> QED BY <1>1, <1>3, <1>4, QuietStep

LEMMA FlushDirectoryStep ==
  ASSUME CatalogInv, FlushDirectory
  PROVE  CatalogInv'
<1>1. /\ running /\ stmt.next = "directory" /\ Continues
      /\ UNCHANGED <<next_file_id, json, running>>
      /\ tables' = With(tables, stmt.name, [file |-> stmt.file, indices |-> Empty])
      /\ DOMAIN disk' = DOMAIN disk \cup {stmt.file}
  BY DEF FlushDirectory, At, WrittenPage
<1>2. /\ next_file_id \in Nat /\ IsTables(tables) /\ Distinct(tables, next_file_id)
      /\ stmt.file \in Nat /\ stmt.file < next_file_id /\ stmt.file \notin FilesOf(tables)
      /\ stmt.name \in Names /\ stmt.op = "create_table"
  BY <1>1 DEF CatalogInv, Shapes, NamesInv, FileIdsAreUnique, StatementInv, Statements
<1>3. /\ IsTables(tables') /\ Distinct(tables', next_file_id)
      /\ FilesOf(tables') \subseteq FilesOf(tables) \cup {stmt.file}
  BY <1>1, <1>2, TableAdded
<1>4. Moves("truncate")
  BY <1>1, Continued
<1>5. StatementInv'
  BY <1>2, <1>4 DEF Moves, StatementInv
<1>6. JsonInv'
  BY <1>1, <1>4 DEF Moves, CatalogInv, JsonInv
<1>7. Shapes'
  BY <1>1, <1>3, <1>4 DEF Moves, CatalogInv, Shapes, IsTables
<1>8. NamesInv'
  BY <1>1, <1>3 DEF CatalogInv, NamesInv, FileIdsAreUnique
<1> QED BY <1>5, <1>6, <1>7, <1>8 DEF CatalogInv

LEMMA TruncateStep ==
  ASSUME CatalogInv, TruncateJson
  PROVE  CatalogInv'
<1>1. /\ running /\ stmt.next = "truncate" /\ Continues
      /\ UNCHANGED <<next_file_id, tables, disk, running>>
      /\ json' = [json EXCEPT !.whole = FALSE]
  BY DEF TruncateJson, At, memory, files
<1>2. /\ json' \in [whole : BOOLEAN, next_file_id : Nat, tables : {json'.tables}]
      /\ json'.tables = json.tables /\ json'.next_file_id = json.next_file_id
  BY <1>1 DEF CatalogInv, Shapes
<1>3. Moves("dump")
  BY <1>1, Continued
<1>4. StatementInv'
  BY <1>1, <1>3 DEF Moves, CatalogInv, StatementInv
<1>5. JsonInv'
  BY <1>3 DEF Moves, JsonInv
<1>6. Shapes'
  BY <1>1, <1>2, <1>3 DEF Moves, CatalogInv, Shapes, IsTables
<1>7. NamesInv'
  BY <1>1, <1>2 DEF CatalogInv, NamesInv, FileIdsAreUnique
<1> QED BY <1>4, <1>5, <1>6, <1>7 DEF CatalogInv

LEMMA DumpStep ==
  ASSUME CatalogInv, DumpJson
  PROVE  CatalogInv'
<1>1. /\ running /\ stmt.next = "dump" /\ Continues
      /\ UNCHANGED <<next_file_id, tables, disk, running>>
      /\ json' = [whole |-> TRUE, next_file_id |-> next_file_id, tables |-> tables]
  BY DEF DumpJson, Dumped, At, memory, files
<1>2. /\ json' \in [whole : BOOLEAN, next_file_id : Nat, tables : {json'.tables}]
      /\ json'.whole /\ json'.tables = tables /\ json'.next_file_id = next_file_id
  BY <1>1 DEF CatalogInv, Shapes
<1>3. stmt' \in Statements /\ StatementInv'
  <2>1. CASE stmt.op = "drop_table"
    <3>1. Moves("remove")
      BY <1>1, <2>1, Continued
    <3> QED BY <3>1, <2>1, <1>1 DEF Moves, CatalogInv, StatementInv
  <2>2. CASE stmt.op # "drop_table"
    <3>1. Ends
      BY <1>1, <2>2, Continued
    <3>2. stmt'.op = "none" /\ stmt'.next = "flush"
      BY <3>1 DEF Ends, NoStmt
    <3> QED BY <3>1, <3>2, NoStatements DEF Ends, StatementInv
  <2> QED BY <2>1, <2>2
<1>4. JsonInv'
  BY <1>1, <1>2 DEF JsonInv
<1>5. Shapes'
  BY <1>1, <1>2, <1>3 DEF CatalogInv, Shapes, IsTables
<1>6. NamesInv'
  BY <1>1, <1>2 DEF CatalogInv, NamesInv, FileIdsAreUnique
<1> QED BY <1>3, <1>4, <1>5, <1>6 DEF CatalogInv

LEMMA BuildStep ==
  ASSUME CatalogInv, NEW raises \in BOOLEAN, Build(raises)
  PROVE  CatalogInv'
<1>1. /\ running /\ stmt.next = "build"
      /\ UNCHANGED <<next_file_id, json, running>>
      /\ DOMAIN disk' = DOMAIN disk \cup {stmt.file}
  BY DEF Build, At, Allocated
<1>2. CASE raises
  <2>1. stmt' = NoStmt /\ tables' = tables
    BY <1>2 DEF Build, StatementRaises
  <2>2. stmt' \in Statements /\ StatementInv' /\ JsonInv'
    BY <1>1, <2>1, IdleStatement
  <2> QED BY <1>1, <2>1, <2>2, QuietStep
<1>3. CASE ~raises
  <2>1. /\ Continues
        /\ tables' = [tables EXCEPT ![stmt.name].indices = With(@, stmt.col, stmt.file)]
    BY <1>3 DEF Build
  <2>2. /\ next_file_id \in Nat /\ IsTables(tables) /\ Distinct(tables, next_file_id)
        /\ stmt.file \in Nat /\ stmt.file < next_file_id /\ stmt.file \notin FilesOf(tables)
        /\ stmt.col \in Cols /\ stmt.op = "create_index"
    BY <1>1 DEF CatalogInv, Shapes, NamesInv, FileIdsAreUnique, StatementInv, Statements
  <2>3. /\ IsTables(tables') /\ Distinct(tables', next_file_id)
        /\ FilesOf(tables') \subseteq FilesOf(tables) \cup {stmt.file}
    BY <2>1, <2>2, IndexAdded
  <2>4. Moves("truncate")
    BY <1>1, <2>1, Continued
  <2>5. StatementInv'
    BY <2>2, <2>4 DEF Moves, StatementInv
  <2>6. JsonInv'
    BY <1>1, <2>4 DEF Moves, CatalogInv, JsonInv
  <2>7. Shapes'
    BY <1>1, <2>3, <2>4 DEF Moves, CatalogInv, Shapes, IsTables
  <2>8. NamesInv'
    BY <1>1, <2>3 DEF CatalogInv, NamesInv, FileIdsAreUnique
  <2> QED BY <2>5, <2>6, <2>7, <2>8 DEF CatalogInv
<1> QED BY <1>2, <1>3

LEMMA RemoveFileStep ==
  ASSUME CatalogInv, RemoveFile
  PROVE  CatalogInv'
<1>1. /\ running /\ stmt.next = "remove" /\ Continues
      /\ UNCHANGED <<next_file_id, tables, json, running>>
      /\ DOMAIN disk' = DOMAIN disk \ {stmt.file}
  BY DEF RemoveFile, At, Without, memory
<1>2. Ends
  BY <1>1, Continued
<1>3. stmt' \in Statements /\ StatementInv' /\ JsonInv'
  BY <1>1, <1>2, IdleStatement DEF Ends
<1>4. stmt.file \notin FilesOf(tables) \cup FilesOf(json.tables)
  BY <1>1 DEF CatalogInv, StatementInv, JsonInv
<1>5. Shapes'
  BY <1>1, <1>3 DEF CatalogInv, Shapes, IsTables
<1>6. NamesInv'
  BY <1>1, <1>4 DEF CatalogInv, NamesInv, FileIdsAreUnique
<1> QED BY <1>3, <1>5, <1>6 DEF CatalogInv

LEMMA InsertStep ==
  ASSUME CatalogInv, NEW n, NEW done, Insert(n, done)
  PROVE  CatalogInv'
<1>1. /\ running /\ stmt.next = "none"
      /\ UNCHANGED <<next_file_id, tables, json, running>>
      /\ DOMAIN disk \subseteq DOMAIN disk'
  BY DEF Insert, Idle, NoStmt, Allocated, memory
<1>2. stmt' \in {NoStmt, [NoStmt EXCEPT !.next = "flush"], [NoStmt EXCEPT !.next = "find_leaf"]}
  BY DEF Insert, Flushes, StatementRaises
<1>3. stmt' \in Statements /\ StatementInv' /\ JsonInv'
  BY <1>1, <1>2, IdleStatement
<1> QED BY <1>1, <1>3, QuietStep

LEMMA QueryStep ==
  ASSUME CatalogInv, Query
  PROVE  CatalogInv'
<1>1. /\ stmt.next = "none" /\ UNCHANGED <<next_file_id, tables, json, disk, running>>
      /\ stmt' = [NoStmt EXCEPT !.next = "flush"]
  BY DEF Query, Idle, NoStmt, Flushes, memory, files
<1>2. stmt' \in Statements /\ StatementInv' /\ JsonInv'
  BY <1>1, IdleStatement
<1> QED BY <1>1, <1>2, QuietStep

LEMMA FlushedStep ==
  ASSUME CatalogInv, Flushed
  PROVE  CatalogInv'
<1>1. /\ stmt.next = "flush" /\ UNCHANGED <<next_file_id, tables, json, disk, running>>
      /\ stmt' = NoStmt
  BY DEF Flushed, At, memory, files
<1>2. stmt' \in Statements /\ StatementInv' /\ JsonInv'
  BY <1>1, IdleStatement
<1> QED BY <1>1, <1>2, QuietStep

LEMMA WriteBackStep ==
  ASSUME CatalogInv, NEW f, NEW p, WriteBack(f, p)
  PROVE  CatalogInv'
<1>1. /\ UNCHANGED <<next_file_id, tables, json, running, stmt>>
      /\ DOMAIN disk \subseteq DOMAIN disk'
  BY DEF WriteBack, WrittenPage, memory
<1>2. stmt' \in Statements /\ StatementInv' /\ JsonInv'
  BY <1>1 DEF CatalogInv, Shapes, StatementInv, JsonInv
<1> QED BY <1>1, <1>2, QuietStep

(* A process that loads catalog.json names what it names.                  *)
LEMMA LoadStep ==
  ASSUME CatalogInv, Loads, UNCHANGED <<json, disk>>, stmt' = NoStmt,
         running' \in BOOLEAN, running' => json.whole
  PROVE  CatalogInv'
<1>1. /\ tables' = json.tables /\ next_file_id' = json.next_file_id
      /\ json.next_file_id \in Nat
  BY DEF Loads, CatalogInv, Shapes
<1>2. stmt'.op = "none" /\ stmt'.next = "none" /\ stmt' \in Statements
  BY NoStatements DEF NoStmt
<1>3. StatementInv' /\ JsonInv'
  BY <1>1, <1>2 DEF StatementInv, JsonInv
<1>4. Shapes'
  BY <1>1, <1>2 DEF CatalogInv, Shapes, IsTables
<1>5. NamesInv'
  BY <1>1 DEF CatalogInv, NamesInv, FileIdsAreUnique
<1> QED BY <1>3, <1>4, <1>5 DEF CatalogInv

LEMMA RestartStep ==
  ASSUME CatalogInv, Restart
  PROVE  CatalogInv'
<1>1. /\ Loads /\ UNCHANGED <<json, disk, running>> /\ stmt' = NoStmt /\ running
      /\ json.whole
  BY DEF Restart, Idle, files, CatalogInv, JsonInv, NoStmt
<1> QED BY <1>1, LoadStep

LEMMA CrashStep ==
  ASSUME CatalogInv, Crash
  PROVE  CatalogInv'
<1>1. /\ UNCHANGED <<json, disk>> /\ stmt' = NoStmt /\ running' = json.whole
      /\ json.whole \in BOOLEAN
  BY DEF Crash, CatalogInv, Shapes
<1>2. CASE json.whole
  BY <1>1, <1>2, LoadStep DEF Crash
<1>3. CASE ~json.whole
  <2>1. UNCHANGED <<next_file_id, tables>>
    BY <1>3 DEF Crash, memory
  <2>2. stmt'.op = "none" /\ stmt'.next = "none" /\ stmt' \in Statements
    BY <1>1, NoStatements DEF NoStmt
  <2>3. StatementInv' /\ JsonInv'
    BY <1>1, <1>3, <2>2 DEF StatementInv, JsonInv
  <2>4. Shapes'
    BY <1>1, <2>1, <2>2 DEF CatalogInv, Shapes, IsTables
  <2>5. NamesInv'
    BY <1>1, <2>1 DEF CatalogInv, NamesInv, FileIdsAreUnique
  <2> QED BY <2>3, <2>4, <2>5 DEF CatalogInv
<1> QED BY <1>2, <1>3

LEMMA NextInv == CatalogInv /\ [Next]_vars => CatalogInv'
<1> SUFFICES ASSUME CatalogInv, [Next]_vars PROVE CatalogInv'
  OBVIOUS
<1>1. CASE \E n \in Names : CreateTable(n)
  BY <1>1, CreateTableStep
<1>2. CASE \E n \in Names, c \in Cols : CreateIndex(n, c)
  BY <1>2, CreateIndexStep
<1>3. CASE \E n \in DOMAIN tables : DropTable(n)
  BY <1>3, DropTableStep
<1>4. CASE \E n \in DOMAIN tables : \E done \in SUBSET IndexFiles(n) : Insert(n, done)
  BY <1>4, InsertStep
<1>5. CASE \E page \in DOMAIN dirty : WriteBack(page[1], page[2])
  BY <1>5, WriteBackStep
<1>6. CASE Works
  <2>1. CASE \E raises \in BOOLEAN : Build(raises)
    BY <2>1, BuildStep
  <2> QED BY <1>6, <2>1, AllocateDirectoryStep, FlushDirectoryStep, TruncateStep, DumpStep,
             RemoveFileStep, FlushedStep DEF Works
<1>7. CASE Query \/ Restart \/ Crash
  BY <1>7, QueryStep, RestartStep, CrashStep
<1>8. CASE UNCHANGED vars
  <2>1. UNCHANGED <<next_file_id, tables, json, disk, running, stmt>>
    BY <1>8 DEF vars, memory, files
  <2>2. stmt' \in Statements /\ StatementInv' /\ JsonInv'
    BY <2>1 DEF CatalogInv, Shapes, StatementInv, JsonInv
  <2> QED BY <2>1, <2>2, QuietStep
<1> QED BY <1>1, <1>2, <1>3, <1>4, <1>5, <1>6, <1>7, <1>8 DEF Next

LEMMA CatalogInvariant == Spec => []CatalogInv
BY InitInv, NextInv, PTL DEF Spec
-----------------------------------------------------------------------------
(* No two tables or indexes ever share a file, and none has an id that     *)
(* Catalog.create_table or create_index will give again, whatever failed,  *)
(* was dropped or crashed (Catalog.next_file_id, Catalog.load).            *)
THEOREM IdsStayUnique == Spec => []FileIdsAreUnique
<1>1. CatalogInv => FileIdsAreUnique
  BY DEF CatalogInv, NamesInv
<1> QED BY <1>1, CatalogInvariant, PTL

(* Whenever the process dies, every file that catalog.json names exists    *)
(* (the order of the steps of create_table, create_index, delete_table).   *)
THEOREM NamedFilesStay == Spec => []NamedFilesExist
<1>1. CatalogInv => NamedFilesExist
  BY DEF CatalogInv, NamesInv, NamedFilesExist
<1> QED BY <1>1, CatalogInvariant, PTL

(* Between statements catalog.json is whole and says what Catalog.tables   *)
(* says, also after a statement that raised.                               *)
THEOREM CatalogStaysDurable == Spec => []CatalogIsDurable
<1>1. CatalogInv => CatalogIsDurable
  <2>1. NoStmt.next = "none"
    BY DEF NoStmt
  <2> QED BY <2>1 DEF CatalogInv, JsonInv, CatalogIsDurable, Idle
<1> QED BY <1>1, CatalogInvariant, PTL

(***************************************************************************)
(* What becomes of rows and index entries while statements fail, tables    *)
(* are dropped, pages leave the pool and the process dies.                 *)
(***************************************************************************)
(* Page p as the file has it; a file that ends before it reads as zeros.   *)
DiskPage(f, p) == IF p < Len(Pages(f)) THEN Pages(f)[p + 1] ELSE Zero
Clean(f) == \A p \in Nat : <<f, p>> \notin DOMAIN dirty
RowsOf(page) == IF page.kind = "data" THEN page.rows ELSE {}

(* The types of pages; a directory has recorded one page or none.          *)
PageSet ==
  {Zero, Metadata}
    \cup {Directory(count, recorded) :
            count \in Nat, recorded \in {{}} \cup {{p} : p \in Nat}}
    \cup {Data(rows) : rows \in SUBSET (1 .. MaxRows)}
    \cup {Leaf(entries) : entries \in Seq(Nat)}
StoreType ==
  /\ next_file_id \in 0 .. MaxFiles /\ json.next_file_id \in 0 .. next_file_id
  /\ inserts \in 0 .. MaxRows
  /\ DOMAIN disk \subseteq 0 .. MaxFiles - 1
  /\ \A f \in DOMAIN disk : disk[f] \in Seq(PageSet)
  /\ \A x \in DOMAIN dirty :
       x \in Nat \X Nat /\ x[1] < next_file_id /\ dirty[x] \in PageSet
-----------------------------------------------------------------------------
LEMMA PageFields ==
  /\ Zero.kind = "zero" /\ Metadata.kind = "metadata"
  /\ \A c, r : /\ Directory(c, r).kind = "directory"
               /\ Directory(c, r).count = c /\ Directory(c, r).recorded = r
  /\ \A r : Data(r).kind = "data" /\ Data(r).rows = r
  /\ \A e : Leaf(e).kind = "leaf" /\ Leaf(e).entries = e
BY DEF Zero, Metadata, Directory, Data, Leaf

LEMMA PageKinds ==
  ASSUME NEW page \in PageSet
  PROVE  /\ page.kind = "zero" => page = Zero
         /\ page.kind = "metadata" => page = Metadata
         /\ page.kind = "directory" => /\ page.count \in Nat
                                       /\ \/ page.recorded = {}
                                          \/ \E p \in Nat : page.recorded = {p}
         /\ page.kind = "data" => page.rows \subseteq 1 .. MaxRows /\ page = Data(page.rows)
         /\ page.kind = "leaf" => page.entries \in Seq(Nat) /\ page = Leaf(page.entries)
         /\ page.kind \in {"zero", "metadata", "directory", "data", "leaf"}
BY PageFields DEF PageSet

LEMMA PagesMade ==
  /\ Zero \in PageSet /\ Metadata \in PageSet
  /\ \A c \in Nat : Directory(c, {}) \in PageSet
  /\ \A c \in Nat, p \in Nat : Directory(c, {p}) \in PageSet
  /\ \A rows \in SUBSET (1 .. MaxRows) : Data(rows) \in PageSet
  /\ \A entries \in Seq(Nat) : Leaf(entries) \in PageSet
BY DEF PageSet

LEMMA Zeros ==
  ASSUME NEW n \in Nat
  PROVE  /\ [i \in 1 .. n |-> Zero] \in Seq(PageSet)
         /\ Len([i \in 1 .. n |-> Zero]) = n
         /\ \A i \in 1 .. n : [j \in 1 .. n |-> Zero][i] = Zero
BY PagesMade

LEMMA StoredPages ==
  ASSUME StoreType, NEW f
  PROVE  /\ Pages(f) \in Seq(PageSet) /\ Len(Pages(f)) \in Nat
         /\ \A p \in Nat : DiskPage(f, p) \in PageSet /\ Page(f, p) \in PageSet
         /\ \A p \in Nat : Page(f, p) = IF <<f, p>> \in DOMAIN dirty
                                        THEN dirty[<<f, p>>] ELSE DiskPage(f, p)
<1>1. Pages(f) \in Seq(PageSet)
  BY DEF StoreType, Pages
<1>2. Len(Pages(f)) \in Nat
  BY <1>1
<1>3. ASSUME NEW p \in Nat
      PROVE  /\ DiskPage(f, p) \in PageSet
             /\ Page(f, p) = IF <<f, p>> \in DOMAIN dirty THEN dirty[<<f, p>>]
                             ELSE DiskPage(f, p)
  <2>1. p < Len(Pages(f)) => p + 1 \in 1 .. Len(Pages(f))
    BY <1>2
  <2> QED BY <1>1, <2>1, PagesMade DEF DiskPage, Page
<1>4. \A p \in Nat : Page(f, p) \in PageSet
  BY <1>3 DEF StoreType
<1> QED BY <1>1, <1>2, <1>3, <1>4

(* Allocating pages at the end of a file changes what no page reads as.    *)
LEMMA AllocatedPages ==
  ASSUME StoreType, NEW f, NEW n \in Nat, disk' = Allocated(f, n)
  PROVE  /\ \A g : g # f => Pages(g)' = Pages(g)
         /\ Pages(f)' \in Seq(PageSet) /\ Len(Pages(f))' = Len(Pages(f)) + n
         /\ \A g : \A p \in Nat : DiskPage(g, p)' = DiskPage(g, p)
         /\ DOMAIN disk' = DOMAIN disk \cup {f}
<1> DEFINE zeros == [i \in 1 .. n |-> Zero]
<1>1. zeros \in Seq(PageSet) /\ Len(zeros) = n /\ \A i \in 1 .. n : zeros[i] = Zero
  BY Zeros
<1>2. Pages(f) \in Seq(PageSet) /\ Len(Pages(f)) \in Nat
  BY StoredPages
<1>3. /\ DOMAIN disk' = DOMAIN disk \cup {f}
      /\ disk'[f] = Pages(f) \o zeros
      /\ \A g \in DOMAIN disk : g # f => disk'[g] = disk[g]
  BY DEF Allocated
<1> HIDE DEF zeros
<1>4. \A g : g # f => Pages(g)' = Pages(g)
  BY <1>3 DEF Pages
<1>5. Pages(f)' = Pages(f) \o zeros
  BY <1>3 DEF Pages
<1>6. /\ Pages(f)' \in Seq(PageSet) /\ Len(Pages(f))' = Len(Pages(f)) + n
      /\ \A i \in 1 .. Len(Pages(f)) + n :
           Pages(f)'[i] = IF i <= Len(Pages(f)) THEN Pages(f)[i]
                          ELSE zeros[i - Len(Pages(f))]
  BY <1>1, <1>2, <1>5, ConcatProperties
<1>7. ASSUME NEW g, NEW p \in Nat PROVE DiskPage(g, p)' = DiskPage(g, p)
  <2>1. CASE g # f
    BY <1>4, <2>1 DEF DiskPage
  <2>2. CASE g = f
    <3>1. CASE p < Len(Pages(f))
      <4>1. p + 1 \in 1 .. Len(Pages(f)) + n /\ p + 1 <= Len(Pages(f))
        BY <1>2, <3>1
      <4> QED BY <1>2, <1>6, <2>2, <3>1, <4>1 DEF DiskPage
    <3>2. CASE p >= Len(Pages(f)) /\ p < Len(Pages(f)) + n
      <4>1. /\ p + 1 \in 1 .. Len(Pages(f)) + n /\ ~(p + 1 <= Len(Pages(f)))
            /\ p + 1 - Len(Pages(f)) \in 1 .. n
        BY <1>2, <3>2
      <4> QED BY <1>1, <1>2, <1>6, <2>2, <3>2, <4>1 DEF DiskPage
    <3>3. CASE p >= Len(Pages(f)) + n
      BY <1>2, <1>6, <2>2, <3>3 DEF DiskPage
    <3> QED BY <1>2, <3>1, <3>2, <3>3
  <2> QED BY <2>1, <2>2
<1> QED BY <1>3, <1>4, <1>6, <1>7

LEMMA WrittenPages ==
  ASSUME StoreType, NEW f, NEW p \in Nat, NEW page \in PageSet,
         disk' = WrittenPage(f, p, page)
  PROVE  /\ \A g : g # f => Pages(g)' = Pages(g)
         /\ Pages(f)' \in Seq(PageSet)
         /\ Len(Pages(f))' = IF p < Len(Pages(f)) THEN Len(Pages(f)) ELSE p + 1
         /\ DiskPage(f, p)' = page
         /\ \A g : \A q \in Nat : <<g, q>> # <<f, p>> => DiskPage(g, q)' = DiskPage(g, q)
         /\ DOMAIN disk' = DOMAIN disk \cup {f}
<1> DEFINE n == IF p + 1 > Len(Pages(f)) THEN p + 1 - Len(Pages(f)) ELSE 0
           zeros == [i \in 1 .. n |-> Zero]
           padded == Pages(f) \o zeros
<1>1. Pages(f) \in Seq(PageSet) /\ Len(Pages(f)) \in Nat /\ n \in Nat
  BY StoredPages
<1>2. zeros \in Seq(PageSet) /\ Len(zeros) = n /\ \A i \in 1 .. n : zeros[i] = Zero
  BY <1>1, Zeros
<1>3. /\ DOMAIN disk' = DOMAIN disk \cup {f}
      /\ disk'[f] = [padded EXCEPT ![p + 1] = page]
      /\ \A g \in DOMAIN disk : g # f => disk'[g] = disk[g]
  BY DEF WrittenPage, Padded
<1>4. \A g : g # f => Pages(g)' = Pages(g)
  BY <1>3 DEF Pages
<1>5. Pages(f)' = [padded EXCEPT ![p + 1] = page]
  BY <1>3 DEF Pages
<1>6. /\ padded \in Seq(PageSet) /\ Len(padded) = Len(Pages(f)) + n
      /\ \A i \in 1 .. Len(Pages(f)) + n :
           padded[i] = IF i <= Len(Pages(f)) THEN Pages(f)[i] ELSE zeros[i - Len(Pages(f))]
  BY <1>1, <1>2, ConcatProperties
<1>7. Len(Pages(f)) + n = IF p < Len(Pages(f)) THEN Len(Pages(f)) ELSE p + 1
  BY <1>1
<1>8. p + 1 \in 1 .. Len(Pages(f)) + n
  BY <1>1, <1>7
<1> HIDE DEF padded, zeros, n
<1>9. /\ Pages(f)' \in Seq(PageSet) /\ Len(Pages(f))' = Len(Pages(f)) + n
      /\ Pages(f)'[p + 1] = page
      /\ \A i \in 1 .. Len(Pages(f)) + n : i # p + 1 => Pages(f)'[i] = padded[i]
  BY <1>5, <1>6, <1>8, ExceptSeq
<1>10. DiskPage(f, p)' = page
  BY <1>1, <1>7, <1>8, <1>9 DEF DiskPage
<1>11. ASSUME NEW g, NEW q \in Nat, <<g, q>> # <<f, p>>
       PROVE  DiskPage(g, q)' = DiskPage(g, q)
  <2>1. CASE g # f
    BY <1>4, <2>1 DEF DiskPage
  <2>2. CASE g = f
    <3>1. q # p
      BY <1>11, <2>2
    <3>2. CASE q < Len(Pages(f))
      <4>1. q + 1 \in 1 .. Len(Pages(f)) + n /\ q + 1 <= Len(Pages(f)) /\ q + 1 # p + 1
        BY <1>1, <3>1, <3>2
      <4> QED BY <1>1, <1>6, <1>9, <2>2, <3>2, <4>1 DEF DiskPage
    <3>3. CASE q >= Len(Pages(f)) /\ q < Len(Pages(f)) + n
      <4>1. /\ q + 1 \in 1 .. Len(Pages(f)) + n /\ ~(q + 1 <= Len(Pages(f))) /\ q + 1 # p + 1
            /\ q + 1 - Len(Pages(f)) \in 1 .. n
        BY <1>1, <3>1, <3>3
      <4>2. Pages(f)'[q + 1] = Zero
        BY <1>2, <1>6, <1>9, <4>1
      <4>3. q < Len(Pages(f))' /\ ~(q < Len(Pages(f)))
        BY <1>1, <1>9, <3>3
      <4> QED BY <2>2, <4>2, <4>3 DEF DiskPage
    <3>4. CASE q >= Len(Pages(f)) + n
      BY <1>1, <1>9, <2>2, <3>4 DEF DiskPage
    <3> QED BY <1>1, <3>2, <3>3, <3>4
  <2> QED BY <2>1, <2>2
<1> QED BY <1>3, <1>4, <1>7, <1>9, <1>10, <1>11

-----------------------------------------------------------------------------
(* The file ids of statements: the file of one that creates is clean and   *)
(* beyond the ids of catalog.json, the file of one that drops below them.  *)
IdsInv ==
  /\ stmt.next \in {"allocate", "directory", "build"} =>
       stmt.file >= json.next_file_id /\ Clean(stmt.file)
  /\ stmt.next \in {"allocate", "directory"} => stmt.name \notin DOMAIN tables
  /\ stmt.next = "directory" => Len(Pages(stmt.file)) > 0
  /\ stmt.op = "drop_table" => stmt.file < json.next_file_id
  /\ stmt.op # "none" => stmt.file < next_file_id
StoreInv == CatalogInv /\ StoreType /\ (running => IdsInv)

(* SetToSeq lists a finite set.                                            *)
LEMMA Listed ==
  ASSUME NEW S, IsFiniteSet(S)
  PROVE  /\ SetToSeq(S) \in Seq(S) /\ Len(SetToSeq(S)) = Cardinality(S)
         /\ ToSet(SetToSeq(S)) = S
<1> DEFINE n == Cardinality(S)
<1>1. n \in Nat /\ ExistsBijection(1 .. n, S)
  BY FS_CardinalityType
<1>2. \E f \in [1 .. n -> S] : IsInjective(f)
  BY <1>1 DEF ExistsBijection, Bijection, Injection
<1>3. SetToSeq(S) \in [1 .. n -> S] /\ IsInjective(SetToSeq(S))
  <2> HIDE DEF n
  <2>1. SetToSeq(S) = CHOOSE f \in [1 .. n -> S] : IsInjective(f)
    BY DEF SetToSeq, n
  <2> QED BY <1>2, <2>1
<1> HIDE DEF n
<1>4. IsFiniteSet(1 .. n) /\ Cardinality(1 .. n) = n
  <2>1. 1 \in Int /\ n \in Int
    BY <1>1
  <2>2. (IF 1 > n THEN 0 ELSE n - 1 + 1) = n
    BY <1>1
  <2> QED BY <2>1, <2>2, FS_Interval
<1>5. SetToSeq(S) \in Injection(1 .. n, S)
  BY <1>3 DEF Injection
<1>6. Cardinality(1 .. n) = Cardinality(S)
  BY <1>4 DEF n
<1>7. SetToSeq(S) \in Surjection(1 .. n, S)
  BY <1>5, <1>6, FS_Injection
<1>8. \A t \in S : \E i \in 1 .. n : SetToSeq(S)[i] = t
  BY <1>7 DEF Surjection
<1>9. DOMAIN SetToSeq(S) = 1 .. n /\ SetToSeq(S) \in Seq(S) /\ Len(SetToSeq(S)) = n
  BY <1>1, <1>3
<1>10. ToSet(SetToSeq(S)) = {SetToSeq(S)[i] : i \in 1 .. n}
  BY <1>9 DEF ToSet
<1> QED BY <1>3, <1>8, <1>9, <1>10 DEF n

(* What a heap file shows is rows, however its pages read.                 *)
LEMMA VisibleRows ==
  ASSUME StoreType, NEW f
  PROVE  /\ DirectoryOf(f) \in PageSet /\ DirectoryOf(f).kind = "directory"
         /\ DirectoryOf(f).count \in Nat
         /\ DirectoryOf(f).recorded = {} \/ \E p \in Nat : DirectoryOf(f).recorded = {p}
         /\ Visible(f) \subseteq 1 .. MaxRows /\ IsFiniteSet(Visible(f))
         /\ Visible(f) = UNION {RowsOf(Page(f, p)) : p \in Counted(f)}
<1>1. Page(f, 0) \in PageSet
  BY StoredPages
<1>2. DirectoryOf(f) \in PageSet /\ DirectoryOf(f).kind = "directory"
  BY <1>1, PagesMade, PageFields DEF DirectoryOf
<1>3. /\ DirectoryOf(f).count \in Nat
      /\ DirectoryOf(f).recorded = {} \/ \E p \in Nat : DirectoryOf(f).recorded = {p}
  BY <1>2, PageKinds
<1>4. \A p \in Counted(f) : p \in Nat /\ p >= 1
  BY <1>3 DEF Counted
<1>5. Visible(f) = UNION {RowsOf(Page(f, p)) : p \in Counted(f)}
  BY DEF Visible, RowsOf
<1>6. ASSUME NEW p \in Counted(f) PROVE RowsOf(Page(f, p)) \subseteq 1 .. MaxRows
  <2>1. Page(f, p) \in PageSet
    BY <1>4, StoredPages
  <2> QED BY <2>1, PageKinds DEF RowsOf
<1>7. Visible(f) \subseteq 1 .. MaxRows
  BY <1>5, <1>6
<1>8. IsFiniteSet(1 .. MaxRows)
  BY FS_Interval, CatalogAssumption DEF CatalogAssumption
<1>9. IsFiniteSet(Visible(f))
  BY <1>7, <1>8, FS_Subset
<1> QED BY <1>2, <1>3, <1>5, <1>7, <1>9

LEMMA NumbersListed ==
  ASSUME NEW S \in SUBSET Nat, IsFiniteSet(S)
  PROVE  SetToSeq(S) \in Seq(Nat)
<1>1. SetToSeq(S) \in Seq(S)
  BY Listed
<1> QED BY <1>1, SeqMonotonic

(* A statement that creates or drops has a file.                           *)
LEMMA AtWork ==
  ASSUME StoreInv, running, stmt.next \notin {"none", "flush", "find_leaf"}
  PROVE  /\ stmt.op # "none" /\ stmt.file \in 0 .. MaxFiles - 1
         /\ stmt.file \in Nat /\ stmt.file < next_file_id
         /\ next_file_id \in Nat /\ json.next_file_id \in Nat
         /\ json.next_file_id <= next_file_id
<1>1. stmt.op # "none" /\ stmt.file \in Nat
  BY DEF StoreInv, CatalogInv, Shapes, StatementInv, Statements
<1>2. stmt.file < next_file_id /\ next_file_id \in 0 .. MaxFiles
  BY <1>1 DEF StoreInv, IdsInv, StoreType
<1>3. json.next_file_id \in 0 .. next_file_id
  BY DEF StoreInv, StoreType
<1> QED BY <1>1, <1>2, <1>3, CatalogAssumption DEF CatalogAssumption

(* The ids that the tables name were given, by catalog.json if the tables  *)
(* are the ones it knows.                                                  *)
LEMMA NamedIds ==
  ASSUME StoreInv, NEW f
  PROVE  /\ f \in FilesOf(tables) => f \in Nat /\ f < next_file_id
         /\ f \in FilesOf(json.tables) => f \in Nat /\ f < json.next_file_id
         /\ \A n \in DOMAIN tables : tables[n].file \in FilesOf(tables)
         /\ \A n \in DOMAIN tables : IndexFiles(n) \subseteq FilesOf(tables)
         /\ \A n \in DOMAIN json.tables : json.tables[n].file \in FilesOf(json.tables)
<1>1. IsTables(tables) /\ IsTables(json.tables)
  BY DEF StoreInv, CatalogInv, Shapes
<1>2. FilesOf(tables) \subseteq Nat /\ FilesOf(json.tables) \subseteq Nat
  BY <1>1, FilesOfAreNumbers
<1>3. Distinct(tables, next_file_id) /\ Distinct(json.tables, json.next_file_id)
  BY DEF StoreInv, CatalogInv, NamesInv, FileIdsAreUnique
<1>4. \A n \in DOMAIN tables : tables[n].file \in FilesOf(tables)
  BY <1>1, HeapUse DEF FilesOf
<1>5. \A n \in DOMAIN json.tables : json.tables[n].file \in FilesOf(json.tables)
  BY <1>1, HeapUse DEF FilesOf
<1>6. \A n \in DOMAIN tables : IndexFiles(n) \subseteq FilesOf(tables)
  <2> SUFFICES ASSUME NEW n \in DOMAIN tables, NEW g \in IndexFiles(n)
               PROVE  g \in FilesOf(tables)
    OBVIOUS
  <2>1. PICK c \in DOMAIN tables[n].indices : g = tables[n].indices[c]
    BY DEF IndexFiles
  <2>2. <<n, c>> \in Uses(tables) /\ FileOf(tables, <<n, c>>) = g
    BY <1>1, <2>1, IndexUse
  <2> QED BY <2>2 DEF FilesOf
<1> QED BY <1>2, <1>3, <1>4, <1>5, <1>6 DEF Distinct

-----------------------------------------------------------------------------
(* A file that a table names, in memory or in catalog.json, or that may    *)
(* still be given out: what it holds must not be forgotten.                *)
Named(n, f) ==
  \/ n \in DOMAIN tables /\ tables[n].file = f
  \/ n \in DOMAIN json.tables /\ json.tables[n].file = f
Kept(f) == (\E n \in Names : Named(n, f)) \/ f >= json.next_file_id
Kinds(f, p) == {Page(f, p).kind, DiskPage(f, p).kind}

(* What every step does but those that insert rows, flush a directory or   *)
(* die: it names no file anew, changes no page as the pool has it, except  *)
(* in files that are new or forgotten, and a page in its file only to what *)
(* the pool has.                                                           *)
KeepsFile(f) ==
  /\ Len(Pages(f))' >= Len(Pages(f))
  /\ \A p \in Nat : /\ Page(f, p)' = Page(f, p)
                    /\ DiskPage(f, p)' \in {DiskPage(f, p), Page(f, p)}
Keeps ==
  /\ running' => running
  /\ UNCHANGED history
  /\ json.next_file_id' >= json.next_file_id
  /\ \A n \in Names : \A f : Named(n, f)' => Named(n, f)
  /\ \A f : \A p \in Nat : "data" \in Kinds(f, p)' => "data" \in Kinds(f, p)
  /\ \A f \in fresh : /\ Clean(f) => Clean(f)'
                      /\ \A p \in Nat : Kinds(f, p)' \subseteq Kinds(f, p) \cup {"zero"}
                      /\ Kept(f)' => KeepsFile(f)

LEMMA SameStore ==
  ASSUME StoreType, UNCHANGED <<disk, dirty, inserts>>,
         next_file_id' \in 0 .. MaxFiles, json.next_file_id' \in 0 .. next_file_id',
         next_file_id' >= next_file_id \/ dirty = Empty
  PROVE  /\ StoreType'
         /\ \A f : /\ Pages(f)' = Pages(f) /\ Clean(f)' = Clean(f)
                   /\ \A p \in Nat : /\ Page(f, p)' = Page(f, p)
                                     /\ DiskPage(f, p)' = DiskPage(f, p)
                                     /\ Kinds(f, p)' = Kinds(f, p)
<1>1. StoreType'
  BY DEF StoreType, Empty
<1>2. ASSUME NEW f
      PROVE  Pages(f)' = Pages(f) /\ Clean(f)' = Clean(f)
  BY DEF Pages, Clean
<1>3. ASSUME NEW f, NEW p \in Nat
      PROVE  Page(f, p)' = Page(f, p) /\ DiskPage(f, p)' = DiskPage(f, p)
  BY DEF Page, DiskPage, Pages
<1> QED BY <1>1, <1>2, <1>3 DEF Kinds

LEMMA QuietKeeps ==
  ASSUME StoreType, UNCHANGED <<disk, dirty, history>>, running' => running,
         next_file_id' \in 0 .. MaxFiles, json.next_file_id' \in 0 .. next_file_id',
         next_file_id' >= next_file_id \/ dirty = Empty,
         json.next_file_id' >= json.next_file_id,
         \A n \in Names : \A f : Named(n, f)' => Named(n, f)
  PROVE  StoreType' /\ Keeps
<1>1. UNCHANGED inserts
  BY DEF history
<1>2. /\ StoreType'
      /\ \A f : /\ Pages(f)' = Pages(f) /\ Clean(f)' = Clean(f)
                /\ \A p \in Nat : /\ Page(f, p)' = Page(f, p)
                                  /\ DiskPage(f, p)' = DiskPage(f, p)
                                  /\ Kinds(f, p)' = Kinds(f, p)
  BY <1>1, SameStore
<1>3. \A f : Len(Pages(f))' >= Len(Pages(f))
  BY <1>2, StoredPages
<1>4. \A f : KeepsFile(f)
  BY <1>2, <1>3 DEF KeepsFile
<1> QED BY <1>2, <1>4 DEF Keeps

(* Steps that only change what is named.                                   *)
LEMMA NewFileIsClean ==
  ASSUME StoreType
  PROVE  /\ Clean(next_file_id) /\ next_file_id \in Nat
         /\ json.next_file_id \in Nat /\ json.next_file_id <= next_file_id
<1>1. next_file_id \in Nat /\ json.next_file_id \in Nat /\ json.next_file_id <= next_file_id
  BY CatalogAssumption DEF StoreType, CatalogAssumption
<1>2. ASSUME NEW p \in Nat PROVE <<next_file_id, p>> \notin DOMAIN dirty
  BY <1>1 DEF StoreType
<1> QED BY <1>1, <1>2 DEF Clean

LEMMA EndedIds ==
  ASSUME stmt' \in {NoStmt, [NoStmt EXCEPT !.next = "flush"], [NoStmt EXCEPT !.next = "find_leaf"]}
  PROVE  IdsInv'
<1>1. stmt'.op = "none" /\ stmt'.next \in {"none", "flush", "find_leaf"}
  <2>1. /\ NoStmt.op = "none" /\ NoStmt.next = "none"
        /\ [NoStmt EXCEPT !.next = "flush"].op = "none"
        /\ [NoStmt EXCEPT !.next = "flush"].next = "flush"
        /\ [NoStmt EXCEPT !.next = "find_leaf"].op = "none"
        /\ [NoStmt EXCEPT !.next = "find_leaf"].next = "find_leaf"
    BY DEF NoStmt
  <2> QED BY <2>1
<1> QED BY <1>1 DEF IdsInv

LEMMA CreateTableKeeps ==
  ASSUME StoreInv, NEW n \in Names, CreateTable(n)
  PROVE  StoreType' /\ Keeps /\ IdsInv'
<1>1. /\ running /\ next_file_id < MaxFiles /\ next_file_id' = next_file_id + 1
      /\ UNCHANGED <<tables, json, disk, dirty, running, history>>
  BY DEF CreateTable, Takes, Idle, files
<1>2. /\ StoreType /\ Clean(next_file_id) /\ next_file_id \in Nat
      /\ json.next_file_id \in Nat /\ json.next_file_id <= next_file_id
  BY NewFileIsClean DEF StoreInv
<1>3. /\ next_file_id' \in 0 .. MaxFiles /\ json.next_file_id' \in 0 .. next_file_id'
      /\ next_file_id' >= next_file_id /\ json.next_file_id' >= json.next_file_id
  BY <1>1, <1>2, CatalogAssumption DEF CatalogAssumption
<1>4. StoreType' /\ Keeps
  <2>1. \A m \in Names : \A f : Named(m, f)' => Named(m, f)
    BY <1>1 DEF Named
  <2> QED BY <1>1, <1>2, <1>3, <2>1, QuietKeeps
<1>5. CASE n \in DOMAIN tables
  BY <1>4, <1>5, EndedIds DEF CreateTable, StatementRaises
<1>6. CASE n \notin DOMAIN tables
  <2>1. stmt' = [op |-> "create_table", name |-> n, col |-> "", file |-> next_file_id,
                 next |-> "allocate"]
    BY <1>6, FirstStep DEF CreateTable, Begins
  <2>2. /\ stmt'.op = "create_table" /\ stmt'.name = n /\ stmt'.file = next_file_id
        /\ stmt'.next = "allocate"
    BY <2>1
  <2>3. Clean(stmt.file)' /\ next_file_id < next_file_id'
    BY <1>1, <1>2, <2>2 DEF Clean
  <2> QED BY <1>4, <1>1, <1>2, <1>6, <2>2, <2>3 DEF IdsInv
<1> QED BY <1>4, <1>5, <1>6

LEMMA CreateIndexKeeps ==
  ASSUME StoreInv, NEW n \in Names, NEW c \in Cols, CreateIndex(n, c)
  PROVE  StoreType' /\ Keeps /\ IdsInv'
<1>1. /\ running /\ next_file_id < MaxFiles /\ next_file_id' = next_file_id + 1
      /\ UNCHANGED <<tables, json, disk, dirty, running, history>>
  BY DEF CreateIndex, Takes, Idle, files
<1>2. /\ StoreType /\ Clean(next_file_id) /\ next_file_id \in Nat
      /\ json.next_file_id \in Nat /\ json.next_file_id <= next_file_id
  BY NewFileIsClean DEF StoreInv
<1>3. /\ next_file_id' \in 0 .. MaxFiles /\ json.next_file_id' \in 0 .. next_file_id'
      /\ next_file_id' >= next_file_id /\ json.next_file_id' >= json.next_file_id
  BY <1>1, <1>2, CatalogAssumption DEF CatalogAssumption
<1>4. StoreType' /\ Keeps
  <2>1. \A m \in Names : \A f : Named(m, f)' => Named(m, f)
    BY <1>1 DEF Named
  <2> QED BY <1>1, <1>2, <1>3, <2>1, QuietKeeps
<1>5. CASE stmt' = NoStmt
  BY <1>4, <1>5, EndedIds
<1>6. CASE Begins("create_index", n, c, next_file_id)
  <2>1. stmt' = [op |-> "create_index", name |-> n, col |-> c, file |-> next_file_id,
                 next |-> "build"]
    BY <1>6, FirstStep DEF Begins
  <2>2. /\ stmt'.op = "create_index" /\ stmt'.file = next_file_id /\ stmt'.next = "build"
    BY <2>1
  <2>3. Clean(stmt.file)' /\ next_file_id < next_file_id'
    BY <1>1, <1>2, <2>2 DEF Clean
  <2> QED BY <1>4, <1>1, <1>2, <2>2, <2>3 DEF IdsInv
<1> QED BY <1>4, <1>5, <1>6 DEF CreateIndex, StatementRaises

LEMMA DropTableKeeps ==
  ASSUME StoreInv, NEW n \in DOMAIN tables, DropTable(n)
  PROVE  StoreType' /\ Keeps /\ IdsInv'
<1>1. /\ running /\ stmt.next = "none" /\ tables' = Without(tables, n)
      /\ UNCHANGED <<next_file_id, json, disk, dirty, running, history>>
  BY DEF DropTable, Idle, NoStmt, files
<1>2. /\ StoreType /\ next_file_id \in Nat
      /\ json.next_file_id \in Nat /\ json.next_file_id <= next_file_id
  BY NewFileIsClean DEF StoreInv
<1>3. StoreType' /\ Keeps
  <2>1. \A m \in Names : \A f : Named(m, f)' => Named(m, f)
    BY <1>1 DEF Named, Without
  <2>2. /\ next_file_id' \in 0 .. MaxFiles /\ json.next_file_id' \in 0 .. next_file_id'
        /\ next_file_id' >= next_file_id /\ json.next_file_id' >= json.next_file_id
    BY <1>1, <1>2 DEF StoreType
  <2> QED BY <1>1, <1>2, <2>1, <2>2, QuietKeeps
<1>4. json.tables = tables
  BY <1>1 DEF StoreInv, CatalogInv, JsonInv
<1>5. tables[n].file \in Nat /\ tables[n].file < json.next_file_id
  BY <1>4, NamedIds
<1>6. stmt' = [op |-> "drop_table", name |-> n, col |-> "", file |-> tables[n].file,
               next |-> "truncate"]
  BY FirstStep DEF DropTable, Begins
<1>7. /\ stmt'.op = "drop_table" /\ stmt'.file = tables[n].file /\ stmt'.next = "truncate"
  BY <1>6
<1>8. tables[n].file < next_file_id
  BY <1>2, <1>5
<1> QED BY <1>1, <1>3, <1>5, <1>7, <1>8 DEF IdsInv

LEMMA TruncateKeeps ==
  ASSUME StoreInv, TruncateJson
  PROVE  StoreType' /\ Keeps /\ IdsInv'
<1>1. /\ running /\ stmt.next = "truncate" /\ Continues
      /\ UNCHANGED <<next_file_id, tables, disk, dirty, running, history>>
      /\ json' = [json EXCEPT !.whole = FALSE]
  BY DEF TruncateJson, At, memory, files
<1>2. json'.tables = json.tables /\ json'.next_file_id = json.next_file_id
  BY <1>1 DEF StoreInv, CatalogInv, Shapes
<1>3. StoreType' /\ Keeps
  <2>1. \A m \in Names : \A f : Named(m, f)' => Named(m, f)
    BY <1>1, <1>2 DEF Named
  <2>2. /\ next_file_id' \in 0 .. MaxFiles /\ json.next_file_id' \in 0 .. next_file_id'
        /\ next_file_id' >= next_file_id /\ json.next_file_id' >= json.next_file_id
    BY <1>1, <1>2, NewFileIsClean DEF StoreInv, StoreType
  <2> QED BY <1>1, <2>1, <2>2, QuietKeeps DEF StoreInv
<1>4. Moves("dump")
  BY <1>1, Continued DEF StoreInv
<1>5. /\ stmt.op = "drop_table" => stmt.file < json.next_file_id
      /\ stmt.op # "none" => stmt.file < next_file_id
  BY <1>1 DEF StoreInv, IdsInv
<1>6. IdsInv'
  BY <1>1, <1>2, <1>4, <1>5 DEF Moves, IdsInv
<1> QED BY <1>3, <1>6

LEMMA DumpKeeps ==
  ASSUME StoreInv, DumpJson
  PROVE  StoreType' /\ Keeps /\ IdsInv'
<1>1. /\ running /\ stmt.next = "dump" /\ Continues
      /\ UNCHANGED <<next_file_id, tables, disk, dirty, running, history>>
      /\ json' = [whole |-> TRUE, next_file_id |-> next_file_id, tables |-> tables]
  BY DEF DumpJson, Dumped, At, memory, files
<1>2. json'.tables = tables /\ json'.next_file_id = next_file_id
  BY <1>1
<1>3. StoreType' /\ Keeps
  <2>1. \A m \in Names : \A f : Named(m, f)' => Named(m, f)
    BY <1>1, <1>2 DEF Named
  <2>2. /\ next_file_id' \in 0 .. MaxFiles /\ json.next_file_id' \in 0 .. next_file_id'
        /\ next_file_id' >= next_file_id /\ json.next_file_id' >= json.next_file_id
    BY <1>1, <1>2, NewFileIsClean DEF StoreInv, StoreType
  <2> QED BY <1>1, <2>1, <2>2, QuietKeeps DEF StoreInv
<1>4. stmt.op # "none" => stmt.file < next_file_id
  BY <1>1 DEF StoreInv, IdsInv
<1>5. CASE stmt.op = "drop_table"
  <2>1. Moves("remove")
    BY <1>1, <1>5, Continued DEF StoreInv
  <2>2. IdsInv'
    BY <1>1, <1>2, <1>4, <1>5, <2>1 DEF Moves, IdsInv
  <2> QED BY <1>3, <2>2
<1>6. CASE stmt.op # "drop_table"
  <2>1. Ends
    BY <1>1, <1>6, Continued DEF StoreInv
  <2> QED BY <1>3, <2>1, EndedIds DEF Ends
<1> QED BY <1>5, <1>6

LEMMA QueryKeeps ==
  ASSUME StoreInv, Query
  PROVE  StoreType' /\ Keeps /\ IdsInv'
<1>1. /\ UNCHANGED <<next_file_id, tables, json, disk, dirty, running, history>>
      /\ stmt' = [NoStmt EXCEPT !.next = "flush"]
  BY DEF Query, Flushes, memory, files
<1>2. \A m \in Names : \A f : Named(m, f)' => Named(m, f)
  BY <1>1 DEF Named
<1>3. /\ next_file_id' \in 0 .. MaxFiles /\ json.next_file_id' \in 0 .. next_file_id'
      /\ next_file_id' >= next_file_id /\ json.next_file_id' >= json.next_file_id
  BY <1>1, NewFileIsClean DEF StoreInv, StoreType
<1>4. StoreType' /\ Keeps
  BY <1>1, <1>2, <1>3, QuietKeeps DEF StoreInv
<1> QED BY <1>1, <1>4, EndedIds

LEMMA RestartKeeps ==
  ASSUME StoreInv, Restart
  PROVE  StoreType' /\ Keeps /\ IdsInv'
<1>1. /\ next_file_id' = json.next_file_id /\ tables' = json.tables /\ dirty = Empty
      /\ UNCHANGED <<json, disk, dirty, running, history>> /\ stmt' = NoStmt
  BY DEF Restart, Idle, Loads, files
<1>2. \A m \in Names : \A f : Named(m, f)' => Named(m, f)
  BY <1>1 DEF Named
<1>3. /\ next_file_id' \in 0 .. MaxFiles /\ json.next_file_id' \in 0 .. next_file_id'
      /\ json.next_file_id' >= json.next_file_id
  BY <1>1, NewFileIsClean, CatalogAssumption DEF StoreInv, StoreType, CatalogAssumption
<1>4. StoreType' /\ Keeps
  BY <1>1, <1>2, <1>3, QuietKeeps DEF StoreInv
<1> QED BY <1>1, <1>4, EndedIds

LEMMA StutterKeeps ==
  ASSUME StoreInv, UNCHANGED vars
  PROVE  StoreType' /\ Keeps /\ (running' => IdsInv')
<1>1. UNCHANGED <<next_file_id, tables, json, disk, dirty, stmt, running, history>>
  BY DEF vars, memory, files
<1>2. \A m \in Names : \A f : Named(m, f)' => Named(m, f)
  BY <1>1 DEF Named
<1>3. /\ next_file_id' \in 0 .. MaxFiles /\ json.next_file_id' \in 0 .. next_file_id'
      /\ next_file_id' >= next_file_id /\ json.next_file_id' >= json.next_file_id
  BY <1>1, NewFileIsClean DEF StoreInv, StoreType
<1>4. StoreType' /\ Keeps
  BY <1>1, <1>2, <1>3, QuietKeeps DEF StoreInv
<1>5. running' => IdsInv'
  <2>1. Pages(stmt.file)' = Pages(stmt.file) /\ Clean(stmt.file)' = Clean(stmt.file)
    BY <1>1 DEF Pages, Clean
  <2> QED BY <1>1, <2>1 DEF StoreInv, IdsInv
<1> QED BY <1>4, <1>5

(* Steps that reach the files.                                             *)
LEMMA AllocateDirectoryKeeps ==
  ASSUME StoreInv, AllocateDirectory
  PROVE  StoreType' /\ Keeps /\ IdsInv'
<1>0. PICK f : f = stmt.file
  OBVIOUS
<1>1. /\ running /\ stmt.next = "allocate" /\ Continues /\ disk' = Allocated(f, 1)
      /\ UNCHANGED <<next_file_id, tables, json, dirty, running, history>>
  BY <1>0 DEF AllocateDirectory, At, memory
<1>2. Moves("directory")
  BY <1>1, Continued DEF StoreInv
<1>3. f \in 0 .. MaxFiles - 1 /\ StoreType
  BY <1>0, <1>1, AtWork DEF StoreInv
<1>4. /\ \A g : g # f => Pages(g)' = Pages(g)
      /\ Pages(f)' \in Seq(PageSet) /\ Len(Pages(f))' = Len(Pages(f)) + 1
      /\ \A g : \A p \in Nat : DiskPage(g, p)' = DiskPage(g, p)
      /\ DOMAIN disk' = DOMAIN disk \cup {f}
  BY <1>1, <1>3, AllocatedPages
<1>5. /\ \A g \in DOMAIN disk' : disk'[g] = Pages(g)'
      /\ \A g \in DOMAIN disk : disk[g] = Pages(g)
  BY DEF Pages
<1>6. StoreType'
  <2>1. \A g \in DOMAIN disk' : disk'[g] \in Seq(PageSet)
    BY <1>3, <1>4, <1>5 DEF StoreType
  <2> QED BY <1>1, <1>3, <1>4, <2>1 DEF StoreType, history
<1>7. ASSUME NEW g, NEW p \in Nat
      PROVE  Page(g, p)' = Page(g, p) /\ Kinds(g, p)' = Kinds(g, p)
  <2>1. Page(g, p)' = Page(g, p)
    BY <1>1, <1>3, <1>4, <1>6, StoredPages DEF DiskPage, Page
  <2> QED BY <2>1, <1>4 DEF Kinds
<1>8. Keeps
  <2>1. \A m \in Names : \A g : Named(m, g)' => Named(m, g)
    BY <1>1 DEF Named
  <2>2. json.next_file_id' >= json.next_file_id
    BY <1>1, <1>3, NewFileIsClean
  <2>3. \A g : KeepsFile(g)
    <3>1. \A g : Len(Pages(g))' >= Len(Pages(g))
      BY <1>3, <1>4, StoredPages
    <3> QED BY <1>4, <1>7, <3>1 DEF KeepsFile
  <2>4. \A g : Clean(g)' = Clean(g)
    BY <1>1 DEF Clean
  <2> QED BY <1>1, <1>7, <2>1, <2>2, <2>3, <2>4 DEF Keeps
<1>9. IdsInv'
  <2>1. f >= json.next_file_id /\ Clean(f) /\ stmt.name \notin DOMAIN tables
        /\ stmt.op = "create_table" /\ f < next_file_id
    BY <1>0, <1>1, AtWork DEF StoreInv, IdsInv, CatalogInv, StatementInv
  <2>2. /\ stmt'.file = f /\ stmt'.name = stmt.name /\ stmt'.next = "directory"
        /\ stmt'.op = "create_table"
    BY <1>0, <1>2, <2>1 DEF Moves
  <2>3. Len(Pages(f))' > 0
    BY <1>3, <1>4, StoredPages
  <2>4. Clean(stmt.file)'
    BY <1>1, <2>1, <2>2 DEF Clean
  <2>5. Len(Pages(stmt.file))' > 0
    BY <2>2, <2>3 DEF Pages
  <2> QED BY <1>1, <2>1, <2>2, <2>4, <2>5 DEF IdsInv
<1> QED BY <1>6, <1>8, <1>9

LEMMA RemoveFileKeeps ==
  ASSUME StoreInv, RemoveFile
  PROVE  StoreType' /\ Keeps /\ IdsInv'
<1>0. PICK f : f = stmt.file
  OBVIOUS
<1>1. /\ running /\ stmt.next = "remove" /\ Continues /\ disk' = Without(disk, f)
      /\ UNCHANGED <<next_file_id, tables, json, dirty, running, history>>
  BY <1>0 DEF RemoveFile, At, memory
<1>2. Ends
  BY <1>1, Continued DEF StoreInv
<1>3. StoreType
  BY DEF StoreInv
<1>4. DOMAIN disk' = DOMAIN disk \ {f} /\ \A g \in DOMAIN disk' : disk'[g] = disk[g]
  BY <1>1 DEF Without
<1>5. StoreType'
  BY <1>1, <1>3, <1>4 DEF StoreType, history
<1>6. (\A g : g # f => Pages(g)' = Pages(g)) /\ Pages(f)' = <<>>
  BY <1>4 DEF Pages
<1>7. ASSUME NEW g, g # f, NEW p \in Nat
      PROVE  Page(g, p)' = Page(g, p) /\ DiskPage(g, p)' = DiskPage(g, p)
  BY <1>1, <1>6, <1>7 DEF Page, DiskPage
<1>8. ASSUME NEW p \in Nat
      PROVE  DiskPage(f, p)' = Zero /\ Page(f, p)' \in {Zero, Page(f, p)}
  <2>1. ~(p < Len(<<>>))
    OBVIOUS
  <2> QED BY <1>1, <1>6, <2>1 DEF Page, DiskPage
<1>9. \A g : \A p \in Nat : Kinds(g, p)' \subseteq Kinds(g, p) \cup {"zero"}
  <2>1. ASSUME NEW g, NEW p \in Nat
        PROVE  Kinds(g, p)' \subseteq Kinds(g, p) \cup {"zero"}
    <3>1. CASE g # f
      BY <1>7, <3>1 DEF Kinds
    <3>2. CASE g = f
      BY <1>8, <3>2, PageFields DEF Kinds
    <3> QED BY <3>1, <3>2
  <2> QED BY <2>1
<1>10. ~Kept(f)'
  <2>1. f \notin FilesOf(tables) \cup FilesOf(json.tables) /\ f < json.next_file_id
    BY <1>0, <1>1, AtWork DEF StoreInv, CatalogInv, StatementInv, JsonInv, IdsInv
  <2>2. ~(f >= json.next_file_id)
    BY <1>0, <1>1, <2>1, AtWork
  <2> QED BY <1>1, <2>1, <2>2, NamedIds DEF Kept, Named
<1>11. Keeps
  <2>1. \A m \in Names : \A g : Named(m, g)' => Named(m, g)
    BY <1>1 DEF Named
  <2>2. json.next_file_id' >= json.next_file_id
    BY <1>1, <1>3, NewFileIsClean
  <2>3. \A g : g # f => KeepsFile(g)
    <3>1. \A g : g # f => Len(Pages(g))' >= Len(Pages(g))
      BY <1>3, <1>6, StoredPages
    <3> QED BY <1>7, <3>1 DEF KeepsFile
  <2>4. \A g : Clean(g)' = Clean(g)
    BY <1>1 DEF Clean
  <2>5. \A g : \A p \in Nat : "data" \in Kinds(g, p)' => "data" \in Kinds(g, p)
    BY <1>9
  <2>6. \A g : Kept(g)' => KeepsFile(g)
    BY <1>10, <2>3
  <2> QED BY <1>1, <1>9, <2>1, <2>2, <2>4, <2>5, <2>6 DEF Keeps
<1> QED BY <1>2, <1>5, <1>11, EndedIds DEF Ends

LEMMA WriteBackKeeps ==
  ASSUME StoreInv, NEW f, NEW p, <<f, p>> \in DOMAIN dirty, WriteBack(f, p)
  PROVE  StoreType' /\ Keeps /\ IdsInv'
<1>1. /\ running /\ disk' = WrittenPage(f, p, dirty[<<f, p>>])
      /\ DOMAIN dirty' = DOMAIN dirty \ {<<f, p>>}
      /\ \A x \in DOMAIN dirty' : dirty'[x] = dirty[x]
      /\ UNCHANGED <<next_file_id, tables, json, stmt, running, history>>
  BY DEF WriteBack, Without, memory
<1>2. /\ StoreType /\ f \in 0 .. MaxFiles - 1 /\ p \in Nat
      /\ dirty[<<f, p>>] \in PageSet
  BY CatalogAssumption DEF StoreInv, StoreType, CatalogAssumption
<1>3. dirty[<<f, p>>] = Page(f, p)
  BY DEF Page
<1>4. PICK page : page = dirty[<<f, p>>]
  OBVIOUS
<1>5. page \in PageSet /\ page = Page(f, p) /\ disk' = WrittenPage(f, p, page)
  BY <1>1, <1>2, <1>3, <1>4
<1>6. /\ \A g : g # f => Pages(g)' = Pages(g)
      /\ Pages(f)' \in Seq(PageSet)
      /\ Len(Pages(f))' = IF p < Len(Pages(f)) THEN Len(Pages(f)) ELSE p + 1
      /\ DiskPage(f, p)' = page
      /\ \A g : \A q \in Nat : <<g, q>> # <<f, p>> => DiskPage(g, q)' = DiskPage(g, q)
      /\ DOMAIN disk' = DOMAIN disk \cup {f}
  BY <1>2, <1>5, WrittenPages
<1>7. /\ \A g \in DOMAIN disk' : disk'[g] = Pages(g)'
      /\ \A g \in DOMAIN disk : disk[g] = Pages(g)
  BY DEF Pages
<1>8. StoreType'
  <2>1. \A g \in DOMAIN disk' : disk'[g] \in Seq(PageSet)
    BY <1>2, <1>6, <1>7 DEF StoreType
  <2> QED BY <1>1, <1>2, <1>6, <2>1 DEF StoreType, history
<1>9. ASSUME NEW g, NEW q \in Nat
      PROVE  Page(g, q)' = Page(g, q) /\ DiskPage(g, q)' \in {DiskPage(g, q), Page(g, q)}
  <2>1. /\ Page(g, q) = IF <<g, q>> \in DOMAIN dirty THEN dirty[<<g, q>>]
                        ELSE DiskPage(g, q)
        /\ Page(g, q)' = IF <<g, q>> \in DOMAIN dirty' THEN dirty'[<<g, q>>]
                         ELSE DiskPage(g, q)'
    BY <1>2, <1>8, StoredPages DEF Page, DiskPage
  <2>2. CASE <<g, q>> = <<f, p>>
    BY <1>1, <1>5, <1>6, <2>1, <2>2
  <2>3. CASE <<g, q>> # <<f, p>>
    BY <1>1, <1>6, <2>1, <2>3
  <2> QED BY <2>2, <2>3
<1>10. \A g : Len(Pages(g))' >= Len(Pages(g))
  BY <1>2, <1>6, StoredPages
<1>11. \A g : Clean(g) => Clean(g)'
  BY <1>1 DEF Clean
<1>12. Keeps
  <2>1. \A m \in Names : \A g : Named(m, g)' => Named(m, g)
    BY <1>1 DEF Named
  <2>2. json.next_file_id' >= json.next_file_id
    BY <1>1, <1>2, NewFileIsClean
  <2>3. \A g : KeepsFile(g)
    BY <1>9, <1>10 DEF KeepsFile
  <2>4. \A g : \A q \in Nat : Kinds(g, q)' \subseteq Kinds(g, q)
    BY <1>9 DEF Kinds
  <2>5. \A g : \A q \in Nat : "data" \in Kinds(g, q)' => "data" \in Kinds(g, q)
    BY <2>4
  <2>6. \A g : \A q \in Nat : Kinds(g, q)' \subseteq Kinds(g, q) \cup {"zero"}
    BY <2>4
  <2> QED BY <1>1, <1>11, <2>1, <2>2, <2>3, <2>5, <2>6 DEF Keeps
<1>13. IdsInv'
  <2>1. PICK h : h = stmt.file
    OBVIOUS
  <2>2. IdsInv
    BY <1>1 DEF StoreInv
  <2>3. Clean(h) => Clean(stmt.file)'
    BY <1>1, <1>11, <2>1 DEF Clean
  <2>4. Len(Pages(h)) > 0 => Len(Pages(stmt.file))' > 0
    <3>1. Len(Pages(h)) > 0 => Len(Pages(h))' > 0
      BY <1>2, <1>8, <1>10, StoredPages
    <3>2. Pages(stmt.file)' = Pages(h)'
      BY <1>1, <2>1 DEF Pages
    <3> QED BY <3>1, <3>2
  <2> QED BY <1>1, <2>1, <2>2, <2>3, <2>4 DEF IdsInv
<1> QED BY <1>8, <1>12, <1>13

(* The tree of a new index: every page that is not its metadata or its     *)
(* root stays.                                                             *)
LEMMA NewTreePages ==
  ASSUME StoreType, NEW f, NEW entries \in Seq(Nat),
         Pages(f) = <<>> \/ Page(f, 1).kind = "leaf",
         dirty' = Over(NewTree(f, entries), dirty)
  PROVE  /\ DOMAIN dirty' = DOMAIN dirty \cup {<<f, 0>>, <<f, 1>>}
         /\ \A x \in DOMAIN dirty' : dirty'[x] \in PageSet
         /\ \A x \in DOMAIN dirty' \ {<<f, 0>>, <<f, 1>>} : dirty'[x] = dirty[x]
         /\ NewRoot(f) \in Seq(Nat)
         /\ dirty'[<<f, 0>>] = Metadata
         /\ dirty'[<<f, 1>>] = Leaf(NewRoot(f) \o entries)
<1>1. NewRoot(f) \in Seq(Nat)
  <2>1. Page(f, 1) \in PageSet
    BY StoredPages
  <2>2. <<>> \in Seq(Nat)
    OBVIOUS
  <2> QED BY <2>1, <2>2, PageKinds DEF NewRoot
<1>2. PICK root : root = NewRoot(f) \o entries
  OBVIOUS
<1>3. root \in Seq(Nat)
  BY <1>1, <1>2
<1>4. PICK tree : tree = NewTree(f, entries)
  OBVIOUS
<1>5. /\ DOMAIN tree = {<<f, 0>>, <<f, 1>>}
      /\ tree[<<f, 0>>] = Metadata /\ tree[<<f, 1>>] = Leaf(root)
  <2>1. <<f, 0>> # <<f, 1>>
    OBVIOUS
  <2> QED BY <1>2, <1>4, <2>1 DEF NewTree
<1>6. /\ DOMAIN dirty' = DOMAIN dirty \cup {<<f, 0>>, <<f, 1>>}
      /\ \A x \in DOMAIN tree : dirty'[x] = tree[x]
      /\ \A x \in DOMAIN dirty' \ DOMAIN tree : dirty'[x] = dirty[x]
  BY <1>4, <1>5 DEF Over
<1>7. /\ \A x \in DOMAIN dirty' \ {<<f, 0>>, <<f, 1>>} : dirty'[x] = dirty[x]
      /\ dirty'[<<f, 0>>] = Metadata /\ dirty'[<<f, 1>>] = Leaf(root)
  BY <1>5, <1>6
<1>8. Metadata \in PageSet /\ Leaf(root) \in PageSet
  BY <1>3, PagesMade
<1>9. ASSUME NEW x \in DOMAIN dirty' PROVE dirty'[x] \in PageSet
  <2>1. CASE x \in {<<f, 0>>, <<f, 1>>}
    BY <1>7, <1>8, <2>1
  <2>2. CASE x \notin {<<f, 0>>, <<f, 1>>}
    BY <1>6, <1>7, <2>2 DEF StoreType
  <2> QED BY <2>1, <2>2
<1> QED BY <1>1, <1>2, <1>6, <1>7, <1>9

LEMMA BuildStore ==
  ASSUME StoreInv, NEW raises \in BOOLEAN, Build(raises), NEW f, f = stmt.file
  PROVE  /\ StoreType'
         /\ \A g : g # f => Clean(g)' = Clean(g)
         /\ \A g : Len(Pages(g))' >= Len(Pages(g))
         /\ \A g : g # f => Pages(g)' = Pages(g)
         /\ \A g : \A p \in Nat : /\ DiskPage(g, p)' = DiskPage(g, p)
                                  /\ \/ Page(g, p)' = Page(g, p)
                                     \/ g = f /\ Page(g, p)'.kind \in {"metadata", "leaf"}
         /\ \A n \in Names : \A g : Named(n, g)' => Named(n, g)
<1>1. PICK entries : entries = IF raises THEN <<>> ELSE SetToSeq(Visible(tables[stmt.name].file))
  OBVIOUS
<1>2. /\ running /\ stmt.next = "build" /\ disk' = Allocated(f, 2)
      /\ dirty' = Over(NewTree(f, entries), dirty)
      /\ Pages(f) = <<>> \/ Page(f, 1).kind = "leaf"
      /\ UNCHANGED <<next_file_id, json, running, history>>
  BY <1>1 DEF Build, At
<1>3. /\ StoreType /\ f \in 0 .. MaxFiles - 1 /\ f \in Nat /\ f < next_file_id
      /\ IsTables(tables)
  BY <1>2, AtWork DEF StoreInv, CatalogInv, Shapes
<1>4. entries \in Seq(Nat)
  <2>1. PICK rows : rows = Visible(tables[stmt.name].file)
    OBVIOUS
  <2>2. rows \subseteq Nat /\ IsFiniteSet(rows)
    BY <1>3, <2>1, VisibleRows
  <2>3. SetToSeq(rows) \in Seq(Nat)
    BY <2>2, NumbersListed
  <2>4. <<>> \in Seq(Nat)
    OBVIOUS
  <2> QED BY <1>1, <2>1, <2>3, <2>4
<1>5. /\ \A g : g # f => Pages(g)' = Pages(g)
      /\ Pages(f)' \in Seq(PageSet) /\ Len(Pages(f))' = Len(Pages(f)) + 2
      /\ \A g : \A p \in Nat : DiskPage(g, p)' = DiskPage(g, p)
      /\ DOMAIN disk' = DOMAIN disk \cup {f}
  BY <1>2, <1>3, AllocatedPages
<1>6. /\ DOMAIN dirty' = DOMAIN dirty \cup {<<f, 0>>, <<f, 1>>}
      /\ \A x \in DOMAIN dirty' : dirty'[x] \in PageSet
      /\ \A x \in DOMAIN dirty' \ {<<f, 0>>, <<f, 1>>} : dirty'[x] = dirty[x]
      /\ dirty'[<<f, 0>>].kind = "metadata" /\ dirty'[<<f, 1>>].kind = "leaf"
  <2>1. /\ DOMAIN dirty' = DOMAIN dirty \cup {<<f, 0>>, <<f, 1>>}
        /\ \A x \in DOMAIN dirty' : dirty'[x] \in PageSet
        /\ \A x \in DOMAIN dirty' \ {<<f, 0>>, <<f, 1>>} : dirty'[x] = dirty[x]
        /\ dirty'[<<f, 0>>] = Metadata
        /\ dirty'[<<f, 1>>] = Leaf(NewRoot(f) \o entries)
    BY <1>2, <1>3, <1>4, NewTreePages
  <2> QED BY <2>1, PageFields
<1>7. /\ \A g \in DOMAIN disk' : disk'[g] = Pages(g)'
      /\ \A g \in DOMAIN disk : disk[g] = Pages(g)
  BY DEF Pages
<1>8. StoreType'
  <2>1. \A g \in DOMAIN disk' : disk'[g] \in Seq(PageSet)
    BY <1>3, <1>5, <1>7 DEF StoreType
  <2>2. \A x \in DOMAIN dirty' : x \in Nat \X Nat /\ x[1] < next_file_id
    BY <1>3, <1>6 DEF StoreType
  <2> QED BY <1>2, <1>3, <1>5, <1>6, <2>1, <2>2 DEF StoreType, history
<1>9. \A g : g # f => Clean(g)' = Clean(g)
  BY <1>6 DEF Clean
<1>10. \A g : Len(Pages(g))' >= Len(Pages(g))
  BY <1>3, <1>5, StoredPages
<1>11. ASSUME NEW g, NEW p \in Nat
       PROVE  \/ Page(g, p)' = Page(g, p)
              \/ g = f /\ Page(g, p)'.kind \in {"metadata", "leaf"}
  <2>1. /\ Page(g, p) = IF <<g, p>> \in DOMAIN dirty THEN dirty[<<g, p>>]
                        ELSE DiskPage(g, p)
        /\ Page(g, p)' = IF <<g, p>> \in DOMAIN dirty' THEN dirty'[<<g, p>>]
                         ELSE DiskPage(g, p)'
    BY <1>3, <1>8, StoredPages DEF Page, DiskPage
  <2>2. CASE <<g, p>> \in {<<f, 0>>, <<f, 1>>}
    BY <1>6, <2>1, <2>2
  <2>3. CASE <<g, p>> \notin {<<f, 0>>, <<f, 1>>}
    BY <1>5, <1>6, <2>1, <2>3
  <2> QED BY <2>2, <2>3
<1>12. ASSUME NEW m \in Names, NEW g, Named(m, g)' PROVE Named(m, g)
  <2>1. \A k \in DOMAIN tables : tables[k] = [file |-> tables[k].file, indices |-> tables[k].indices]
    BY <1>3 DEF IsTables
  <2>2. DOMAIN tables' = DOMAIN tables /\ \A k \in DOMAIN tables : tables'[k].file = tables[k].file
    BY <1>3, <2>1 DEF Build, IsTables
  <2> QED BY <1>2, <1>12, <2>2 DEF Named
<1> QED BY <1>5, <1>8, <1>9, <1>10, <1>11, <1>12

LEMMA BuildKeeps ==
  ASSUME StoreInv, NEW raises \in BOOLEAN, Build(raises), stmt.file \notin fresh
  PROVE  StoreType' /\ Keeps /\ IdsInv'
<1>0. PICK f : f = stmt.file
  OBVIOUS
<1>1. /\ running /\ stmt.next = "build"
      /\ UNCHANGED <<next_file_id, json, running, history>>
  BY DEF Build, At
<1>2. /\ StoreType'
      /\ \A g : g # f => Clean(g)' = Clean(g)
      /\ \A g : Len(Pages(g))' >= Len(Pages(g))
      /\ \A g : \A p \in Nat : /\ DiskPage(g, p)' = DiskPage(g, p)
                               /\ \/ Page(g, p)' = Page(g, p)
                                  \/ g = f /\ Page(g, p)'.kind \in {"metadata", "leaf"}
      /\ \A n \in Names : \A g : Named(n, g)' => Named(n, g)
  BY <1>0, BuildStore
<1>3. json.next_file_id' >= json.next_file_id
  BY <1>1, NewFileIsClean DEF StoreInv
<1>4. \A g : g # f => KeepsFile(g)
  BY <1>2 DEF KeepsFile
<1>5. \A g : \A p \in Nat : "data" \in Kinds(g, p)' => "data" \in Kinds(g, p)
  BY <1>2 DEF Kinds
<1>6. \A g : g # f => \A p \in Nat : Kinds(g, p)' \subseteq Kinds(g, p) \cup {"zero"}
  BY <1>2 DEF Kinds
<1>7. Keeps
  BY <1>0, <1>1, <1>2, <1>3, <1>4, <1>5, <1>6 DEF Keeps
<1>8. CASE raises
  <2>1. stmt' = NoStmt
    BY <1>8 DEF Build, StatementRaises
  <2> QED BY <1>2, <1>7, <2>1, EndedIds
<1>9. CASE ~raises
  <2>1. Moves("truncate")
    BY <1>1, <1>9, Continued DEF Build, StoreInv
  <2>2. stmt.op = "create_index" /\ f < next_file_id
    BY <1>0, <1>1, AtWork DEF StoreInv, CatalogInv, StatementInv
  <2>3. IdsInv'
    BY <1>0, <1>1, <2>1, <2>2 DEF IdsInv, Moves
  <2> QED BY <1>2, <1>7, <2>3
<1> QED BY <1>8, <1>9
-----------------------------------------------------------------------------
(* The inductive invariant for the rows.  Every row is one table's;        *)
HistoryInv ==
  /\ DOMAIN committed = DOMAIN inserted
  /\ DOMAIN tables \cup DOMAIN json.tables \subseteq DOMAIN inserted
  /\ \A n \in DOMAIN inserted : /\ inserted[n] \subseteq 1 .. inserts
                                /\ committed[n] \subseteq inserted[n]
  /\ \A m, n \in DOMAIN inserted : m # n => inserted[m] \cap inserted[n] = {}
  /\ fresh \subseteq Nat

(* a file that catalog.json does not account for yet has no rows;          *)
DataInv ==
  \A f \in Nat : \A p \in Nat : "data" \in Kinds(f, p) => f < json.next_file_id

(* in a heap file with a table's directory the pool is never behind the    *)
(* file, and no page of it becomes a tree's;                               *)
Follows(new, old) ==
  \/ new = old
  \/ old.kind = "directory" /\ new.kind = "directory" /\ old.count <= new.count
  \/ old.kind # "directory" /\ new.kind = "data" /\ RowsOf(old) \subseteq RowsOf(new)
FreshFile(f) ==
  /\ Len(Pages(f)) > 0 /\ DiskPage(f, 0).kind = "directory"
  /\ \A p \in Nat : Follows(Page(f, p), DiskPage(f, p))
  /\ \A p \in Nat : p >= Len(Pages(f)) => Page(f, p) = Zero
FreshInv ==
  \A f \in fresh :
    /\ \A p \in Nat : Kinds(f, p) \cap {"leaf", "metadata"} = {}
    /\ f >= json.next_file_id => Clean(f)
    /\ Kept(f) => FreshFile(f)

(* the file counts every committed row, whatever happens to the pool, and  *)
(* the pool has every row that no crash has found unflushed.               *)
OnDisk(f) == UNION {RowsOf(DiskPage(f, p)) : p \in 1 .. DiskPage(f, 0).count - 1}
RowsIn(n, f) ==
  /\ committed[n] \subseteq OnDisk(f)
  /\ \A p \in Nat : RowsOf(Page(f, p)) \subseteq inserted[n]
  /\ \A r \in inserted[n] \ lost : \E p \in Nat : r \in RowsOf(Page(f, p))
RowsInv ==
  \A n \in Names : \A f \in fresh : Named(n, f) => RowsIn(n, f)

RowsKept == HistoryInv /\ DataInv /\ FreshInv /\ RowsInv

LEMMA FollowsKeeps ==
  ASSUME NEW old, NEW new, Follows(new, old)
  PROVE  /\ RowsOf(old) \subseteq RowsOf(new)
         /\ old.kind = "directory" => new.kind = "directory"
         /\ new = old \/ old.count <= new.count \/ old.kind # "directory"
BY DEF Follows, RowsOf

(* A page that was written is still followed by itself.                    *)
LEMMA KeptPages ==
  ASSUME StoreType, StoreType', NEW f, FreshFile(f), KeepsFile(f)
  PROVE  FreshFile(f)' /\ OnDisk(f) \subseteq OnDisk(f)'
<1>1. /\ Len(Pages(f)) \in Nat /\ Len(Pages(f))' \in Nat
      /\ \A p \in Nat : DiskPage(f, p) \in PageSet /\ DiskPage(f, p)' \in PageSet
  <2>1. Pages(f)' \in Seq(PageSet)
    BY DEF StoreType, Pages
  <2> QED BY <2>1, StoredPages DEF KeepsFile
<1>2. Len(Pages(f))' > 0
  BY <1>1 DEF FreshFile, KeepsFile
<1>3. \A p \in Nat : Follows(DiskPage(f, p)', DiskPage(f, p))
  BY DEF FreshFile, KeepsFile, Follows
<1>4. DiskPage(f, 0)'.kind = "directory"
  BY <1>3, FollowsKeeps DEF FreshFile
<1>5. \A p \in Nat : Follows(Page(f, p), DiskPage(f, p))'
  BY DEF FreshFile, KeepsFile, Follows
<1>6. \A p \in Nat : p >= Len(Pages(f))' => Page(f, p)' = Zero
  BY <1>1 DEF FreshFile, KeepsFile
<1>7. FreshFile(f)'
  BY <1>2, <1>4, <1>5, <1>6 DEF FreshFile
<1>8. OnDisk(f) \subseteq OnDisk(f)'
  <2>1. /\ DiskPage(f, 0).count \in Nat /\ DiskPage(f, 0)'.count \in Nat
        /\ DiskPage(f, 0).count <= DiskPage(f, 0)'.count
    <3>1. /\ DiskPage(f, 0).kind = "directory" /\ DiskPage(f, 0) \in PageSet
          /\ DiskPage(f, 0)' \in PageSet /\ Follows(DiskPage(f, 0)', DiskPage(f, 0))
      BY <1>1, <1>3 DEF FreshFile
    <3>2. DiskPage(f, 0).count \in Nat /\ DiskPage(f, 0)'.count \in Nat
      BY <1>4, <3>1, PageKinds
    <3> QED BY <3>1, <3>2 DEF Follows
  <2> SUFFICES ASSUME NEW p \in 1 .. DiskPage(f, 0).count - 1, NEW r \in RowsOf(DiskPage(f, p))
               PROVE  r \in OnDisk(f)'
    BY DEF OnDisk
  <2>2. p \in Nat /\ p \in 1 .. DiskPage(f, 0)'.count - 1
    BY <2>1
  <2>3. r \in RowsOf(DiskPage(f, p)')
    BY <1>3, <2>2, FollowsKeeps
  <2> QED BY <2>2, <2>3 DEF OnDisk, RowsOf
<1> QED BY <1>7, <1>8

LEMMA RowsStay ==
  ASSUME StoreInv, CatalogInv', StoreType', Keeps, RowsKept, running
  PROVE  RowsKept'
<1>1. /\ StoreType /\ UNCHANGED <<inserted, committed, inserts, lost, fresh>>
      /\ json.next_file_id \in Nat /\ json.next_file_id' \in Nat
      /\ json.next_file_id' >= json.next_file_id
  <2>1. next_file_id' \in Nat /\ json.next_file_id' \in 0 .. next_file_id'
    BY CatalogAssumption DEF StoreType, CatalogAssumption
  <2> QED BY <2>1, NewFileIsClean DEF StoreInv, Keeps, history
<1>2. HistoryInv'
  <2>1. DOMAIN tables' \cup DOMAIN json.tables' \subseteq DOMAIN inserted
    <3>1. DOMAIN tables' \subseteq Names /\ DOMAIN json'.tables \subseteq Names
      BY DEF CatalogInv, Shapes, IsTables
    <3>2. \A n \in Names : \A f : Named(n, f) => n \in DOMAIN inserted
      BY DEF Named, RowsKept, HistoryInv
    <3>3. \A n \in DOMAIN tables' \cup DOMAIN json'.tables : \E f : Named(n, f)'
      BY DEF Named
    <3> QED BY <3>1, <3>2, <3>3 DEF Keeps
  <2> QED BY <1>1, <2>1 DEF RowsKept, HistoryInv
<1>3. DataInv'
  BY <1>1 DEF RowsKept, DataInv, Keeps
<1>4. FreshInv'
  <2> SUFFICES ASSUME NEW f \in fresh
               PROVE  /\ \A p \in Nat : Kinds(f, p)' \cap {"leaf", "metadata"} = {}
                      /\ f >= json.next_file_id' => Clean(f)'
                      /\ Kept(f)' => FreshFile(f)'
    BY <1>1 DEF FreshInv
  <2>1. \A p \in Nat : Kinds(f, p)' \cap {"leaf", "metadata"} = {}
    <3>1. /\ \A p \in Nat : Kinds(f, p)' \subseteq Kinds(f, p) \cup {"zero"}
          /\ \A p \in Nat : Kinds(f, p) \cap {"leaf", "metadata"} = {}
      BY DEF RowsKept, FreshInv, Keeps
    <3> QED BY <3>1
  <2>2. f >= json.next_file_id' => Clean(f)'
    BY <1>1 DEF RowsKept, HistoryInv, FreshInv, Keeps
  <2>3. ASSUME Kept(f)' PROVE FreshFile(f)'
    <3>1. Kept(f)
      <4>1. f \in Nat /\ \A n \in Names : Named(n, f)' => Named(n, f)
        BY DEF Keeps, RowsKept, HistoryInv
      <4>2. f >= json.next_file_id' => f >= json.next_file_id
        BY <1>1, <4>1
      <4> QED BY <2>3, <4>1, <4>2 DEF Kept
    <3> QED BY <1>1, <2>3, <3>1, KeptPages DEF RowsKept, FreshInv, Keeps
  <2> QED BY <2>1, <2>2, <2>3
<1>5. RowsInv'
  <2> SUFFICES ASSUME NEW n \in Names, NEW f \in fresh, Named(n, f)'
               PROVE  RowsIn(n, f)'
    BY <1>1 DEF RowsInv
  <2>1. Named(n, f) /\ RowsIn(n, f)
    BY DEF Keeps, RowsKept, RowsInv
  <2>2. Kept(f) /\ Kept(f)' /\ FreshFile(f)
    BY <2>1 DEF Kept, RowsKept, FreshInv
  <2>3. OnDisk(f) \subseteq OnDisk(f)' /\ \A p \in Nat : Page(f, p)' = Page(f, p)
    BY <1>1, <2>2, KeptPages DEF Keeps, KeepsFile
  <2> QED BY <1>1, <2>1, <2>3 DEF RowsIn
<1> QED BY <1>2, <1>3, <1>4, <1>5 DEF RowsKept

LEMMA WrittenDirectory ==
  ASSUME StoreType, NEW f, NEW p \in Nat, disk' = WrittenPage(f, p, Directory(1, {}))
  PROVE  /\ \A g : g # f => Pages(g)' = Pages(g)
         /\ Pages(f)' \in Seq(PageSet)
         /\ Len(Pages(f))' = IF p < Len(Pages(f)) THEN Len(Pages(f)) ELSE p + 1
         /\ DiskPage(f, p)' = Directory(1, {})
         /\ \A g : \A q \in Nat : <<g, q>> # <<f, p>> => DiskPage(g, q)' = DiskPage(g, q)
         /\ DOMAIN disk' = DOMAIN disk \cup {f}
<1>1. PICK page : page = Directory(1, {})
  OBVIOUS
<1>2. page \in PageSet /\ disk' = WrittenPage(f, p, page)
  BY <1>1, PagesMade
<1>3. /\ \A g : g # f => Pages(g)' = Pages(g)
      /\ Pages(f)' \in Seq(PageSet)
      /\ Len(Pages(f))' = IF p < Len(Pages(f)) THEN Len(Pages(f)) ELSE p + 1
      /\ DiskPage(f, p)' = page
      /\ \A g : \A q \in Nat : <<g, q>> # <<f, p>> => DiskPage(g, q)' = DiskPage(g, q)
      /\ DOMAIN disk' = DOMAIN disk \cup {f}
  BY <1>2, WrittenPages
<1> QED BY <1>1, <1>3

(* create_directory: a page of a file that nothing names becomes the       *)
(* directory of a table without rows.                                      *)
NewDirectory(f, n, p) == f = stmt.file /\ n = stmt.name /\ p = Len(Pages(f)) - 1

LEMMA FlushDirectoryStore ==
  ASSUME StoreInv, FlushDirectory, NEW f, NEW n, NEW p, NewDirectory(f, n, p)
  PROVE  /\ StoreType' /\ IdsInv' /\ p \in Nat /\ f \in Nat /\ n \in Names
         /\ Len(Pages(f))' = Len(Pages(f)) /\ Clean(f) /\ f >= json.next_file_id
         /\ DiskPage(f, p)' = Directory(1, {})
         /\ \A g : g # f => Pages(g)' = Pages(g)
         /\ \A g : \A q \in Nat : <<g, q>> # <<f, p>> => /\ DiskPage(g, q)' = DiskPage(g, q)
                                                         /\ Page(g, q)' = Page(g, q)
         /\ \A q \in Nat : Page(f, q) = DiskPage(f, q) /\ Page(f, q)' = DiskPage(f, q)'
         /\ tables' = With(tables, n, [file |-> f, indices |-> Empty])
         /\ n \notin DOMAIN tables /\ json.tables = tables /\ f \notin FilesOf(tables)
<1>1. /\ running /\ stmt.next = "directory" /\ Continues
      /\ disk' = WrittenPage(f, p, Directory(1, {}))
      /\ tables' = With(tables, n, [file |-> f, indices |-> Empty])
      /\ UNCHANGED <<next_file_id, json, dirty, running, inserts>>
  BY DEF FlushDirectory, At, NewDirectory
<1>2. /\ StoreType /\ f \in 0 .. MaxFiles - 1 /\ f \in Nat /\ f < next_file_id
      /\ Clean(f) /\ f >= json.next_file_id /\ Len(Pages(f)) > 0
      /\ n \notin DOMAIN tables /\ n \in Names /\ f \notin FilesOf(tables)
      /\ stmt.op = "create_table" /\ json.tables = tables
  <2>1. f = stmt.file /\ n = stmt.name
    BY DEF NewDirectory
  <2> QED BY <1>1, <2>1, AtWork DEF StoreInv, IdsInv, CatalogInv, StatementInv, JsonInv
<1>3. Len(Pages(f)) \in Nat /\ p \in Nat /\ p + 1 = Len(Pages(f))
  BY <1>2, StoredPages DEF NewDirectory
<1>5. /\ \A g : g # f => Pages(g)' = Pages(g)
      /\ Pages(f)' \in Seq(PageSet)
      /\ Len(Pages(f))' = IF p < Len(Pages(f)) THEN Len(Pages(f)) ELSE p + 1
      /\ DiskPage(f, p)' = Directory(1, {})
      /\ \A g : \A q \in Nat : <<g, q>> # <<f, p>> => DiskPage(g, q)' = DiskPage(g, q)
      /\ DOMAIN disk' = DOMAIN disk \cup {f}
  BY <1>1, <1>2, <1>3, WrittenDirectory
<1>6. Len(Pages(f))' = Len(Pages(f))
  BY <1>3, <1>5
<1>7. /\ \A g \in DOMAIN disk' : disk'[g] = Pages(g)'
      /\ \A g \in DOMAIN disk : disk[g] = Pages(g)
  BY DEF Pages
<1>8. StoreType'
  <2>1. \A g \in DOMAIN disk' : disk'[g] \in Seq(PageSet)
    BY <1>2, <1>5, <1>7 DEF StoreType
  <2> QED BY <1>1, <1>2, <1>5, <2>1 DEF StoreType
<1>9. \A g : \A q \in Nat :
        /\ Page(g, q) = IF <<g, q>> \in DOMAIN dirty THEN dirty[<<g, q>>] ELSE DiskPage(g, q)
        /\ Page(g, q)' = IF <<g, q>> \in DOMAIN dirty THEN dirty[<<g, q>>] ELSE DiskPage(g, q)'
  BY <1>1, <1>2, StoredPages DEF Page, DiskPage
<1>10. \A q \in Nat : Page(f, q) = DiskPage(f, q) /\ Page(f, q)' = DiskPage(f, q)'
  BY <1>2, <1>9 DEF Clean
<1>11. ASSUME NEW g, NEW q \in Nat, <<g, q>> # <<f, p>>
       PROVE  Page(g, q)' = Page(g, q)
  <2>1. DiskPage(g, q)' = DiskPage(g, q)
    BY <1>5, <1>11
  <2> QED BY <1>9, <2>1
<1>12. IdsInv'
  <2>1. Moves("truncate")
    BY <1>1, Continued DEF StoreInv
  <2> QED BY <1>1, <1>2, <2>1 DEF IdsInv, Moves, NewDirectory
<1> QED BY <1>1, <1>2, <1>3, <1>5, <1>6, <1>8, <1>10, <1>11, <1>12

LEMMA FlushDirectoryKept ==
  ASSUME StoreInv, RowsKept, FlushDirectory
  PROVE  StoreType' /\ IdsInv' /\ RowsKept'
<1>0. PICK f, n, p : NewDirectory(f, n, p)
  BY DEF NewDirectory
<1>1. /\ StoreType' /\ IdsInv' /\ p \in Nat /\ f \in Nat /\ n \in Names
      /\ Len(Pages(f))' = Len(Pages(f)) /\ Clean(f) /\ f >= json.next_file_id
      /\ DiskPage(f, p)' = Directory(1, {})
      /\ \A g : g # f => Pages(g)' = Pages(g)
      /\ \A g : \A q \in Nat : <<g, q>> # <<f, p>> => /\ DiskPage(g, q)' = DiskPage(g, q)
                                                      /\ Page(g, q)' = Page(g, q)
      /\ \A q \in Nat : Page(f, q) = DiskPage(f, q) /\ Page(f, q)' = DiskPage(f, q)'
      /\ tables' = With(tables, n, [file |-> f, indices |-> Empty])
      /\ n \notin DOMAIN tables /\ json.tables = tables /\ f \notin FilesOf(tables)
  BY <1>0, FlushDirectoryStore
<1>2. /\ UNCHANGED <<json, dirty, inserts, lost>>
      /\ inserted' = With(inserted, n, {}) /\ committed' = With(committed, n, {})
      /\ fresh' = IF p = 0 THEN fresh \cup {f} ELSE fresh
  BY <1>0 DEF FlushDirectory, NewDirectory
<1>3. /\ DOMAIN inserted' = DOMAIN inserted \cup {n}
      /\ DOMAIN committed' = DOMAIN committed \cup {n}
      /\ inserted'[n] = {} /\ committed'[n] = {}
      /\ \A m \in DOMAIN inserted : m # n => inserted'[m] = inserted[m]
      /\ \A m \in DOMAIN committed : m # n => committed'[m] = committed[m]
      /\ DOMAIN tables' = DOMAIN tables \cup {n} /\ tables'[n].file = f
      /\ \A m \in DOMAIN tables : tables'[m] = tables[m]
  BY <1>1, <1>2 DEF With
<1>4. HistoryInv'
  <2>1. fresh' \subseteq Nat
    BY <1>1, <1>2 DEF RowsKept, HistoryInv
  <2>2. DOMAIN committed' = DOMAIN inserted'
    BY <1>3 DEF RowsKept, HistoryInv
  <2>3. DOMAIN tables' \cup DOMAIN json'.tables \subseteq DOMAIN inserted'
    BY <1>2, <1>3 DEF RowsKept, HistoryInv
  <2>4. \A m \in DOMAIN inserted' : /\ inserted'[m] \subseteq 1 .. inserts'
                                    /\ committed'[m] \subseteq inserted'[m]
    BY <1>2, <1>3 DEF RowsKept, HistoryInv
  <2>5. \A k, m \in DOMAIN inserted' : k # m => inserted'[k] \cap inserted'[m] = {}
    BY <1>3 DEF RowsKept, HistoryInv
  <2> QED BY <2>1, <2>2, <2>3, <2>4, <2>5 DEF HistoryInv
<1>5. json.next_file_id \in Nat /\ json'.next_file_id = json.next_file_id
  BY <1>2, NewFileIsClean DEF StoreInv
<1>6. \A q \in Nat : "data" \notin Kinds(f, q) /\ "data" \notin Kinds(f, q)'
  <2>1. ~(f < json.next_file_id)
    BY <1>1, <1>5
  <2>2. \A q \in Nat : "data" \notin Kinds(f, q)
    BY <1>1, <2>1 DEF RowsKept, DataInv
  <2>3. \A q \in Nat : q # p => Kinds(f, q)' = Kinds(f, q)
    BY <1>1 DEF Kinds
  <2>4. Kinds(f, p)' = {"directory"}
    BY <1>1, PageFields DEF Kinds
  <2> QED BY <2>2, <2>3, <2>4
<1>7. \A g : g # f => \A q \in Nat : Kinds(g, q)' = Kinds(g, q)
  BY <1>1 DEF Kinds
<1>8. DataInv'
  BY <1>5, <1>6, <1>7 DEF RowsKept, DataInv
<1>9. \A m \in Names : \A g : g # f => (Named(m, g)' <=> Named(m, g))
  BY <1>1, <1>2, <1>3 DEF Named
<1>10. FreshInv'
  <2>1. ASSUME NEW g \in fresh, g # f
        PROVE  /\ \A q \in Nat : Kinds(g, q)' \cap {"leaf", "metadata"} = {}
               /\ g >= json.next_file_id' => Clean(g)'
               /\ Kept(g)' => FreshFile(g)'
    <3>1. \A q \in Nat : Kinds(g, q)' \cap {"leaf", "metadata"} = {}
      BY <1>7, <2>1 DEF RowsKept, FreshInv
    <3>2. g >= json.next_file_id' => Clean(g)'
      BY <1>2, <1>5 DEF RowsKept, FreshInv, Clean
    <3>3. Kept(g)' => Kept(g)
      BY <1>5, <1>9, <2>1 DEF Kept
    <3>4. Kept(g)' => FreshFile(g)'
      <4>1. Pages(g)' = Pages(g) /\ \A q \in Nat : /\ DiskPage(g, q)' = DiskPage(g, q)
                                                   /\ Page(g, q)' = Page(g, q)
        BY <1>1, <2>1
      <4> QED BY <3>3, <4>1 DEF RowsKept, FreshInv, FreshFile
    <3> QED BY <3>1, <3>2, <3>4
  <2>2. ASSUME f \in fresh \/ p = 0
        PROVE  /\ \A q \in Nat : Kinds(f, q)' \cap {"leaf", "metadata"} = {}
               /\ f >= json.next_file_id' => Clean(f)'
               /\ FreshFile(f)'
    <3>1. Clean(f)'
      BY <1>1, <1>2 DEF Clean
    <3>2. Kept(f) /\ (f \in fresh => FreshFile(f))
      BY <1>1 DEF Kept, RowsKept, FreshInv
    <3>3. Len(Pages(f)) \in Nat /\ p + 1 = Len(Pages(f))
      BY <1>0, StoredPages DEF StoreInv, NewDirectory
    <3>4. DiskPage(f, 0)'.kind = "directory"
      <4>1. CASE p = 0
        BY <1>1, <4>1, PageFields
      <4>2. CASE p # 0
        <5>1. <<f, 0>> # <<f, p>>
          BY <4>2
        <5>2. DiskPage(f, 0)' = DiskPage(f, 0)
          BY <1>1, <5>1
        <5> QED BY <2>2, <3>2, <4>2, <5>2 DEF FreshFile
      <4> QED BY <4>1, <4>2
    <3>5. \A q \in Nat : Follows(Page(f, q), DiskPage(f, q))'
      BY <1>1 DEF Follows
    <3>6. ASSUME NEW q \in Nat, q >= Len(Pages(f))' PROVE Page(f, q)' = Zero
      <4>1. ~(q < Len(Pages(f))')
        BY <1>1, <3>3, <3>6
      <4> QED BY <1>1, <4>1 DEF DiskPage
    <3>7. Len(Pages(f))' > 0
      BY <1>1, <3>3
    <3>8. FreshFile(f)'
      BY <3>4, <3>5, <3>6, <3>7 DEF FreshFile
    <3>9. ASSUME NEW q \in Nat PROVE Kinds(f, q)' \cap {"leaf", "metadata"} = {}
      <4>1. CASE q = p
        BY <1>1, <4>1, PageFields DEF Kinds
      <4>2. CASE q # p /\ f \in fresh
        <5>1. Kinds(f, q)' = Kinds(f, q)
          BY <1>1, <4>2 DEF Kinds
        <5> QED BY <4>2, <5>1 DEF RowsKept, FreshInv
      <4>3. CASE q # p /\ p = 0
        <5>1. ~(q < Len(Pages(f))')
          <6>1. ~(q < p + 1)
            BY <4>3
          <6> QED BY <1>1, <3>3, <6>1
        <5>2. DiskPage(f, q)' = Zero
          BY <5>1 DEF DiskPage
        <5> QED BY <1>1, <5>2, PageFields DEF Kinds
      <4> QED BY <2>2, <4>1, <4>2, <4>3
    <3> QED BY <3>1, <3>8, <3>9
  <2> QED BY <1>2, <2>1, <2>2 DEF FreshInv
<1>11. RowsInv'
  <2> SUFFICES ASSUME NEW m \in Names, NEW g \in fresh', Named(m, g)'
               PROVE  RowsIn(m, g)'
    BY DEF RowsInv
  <2>1. CASE g # f
    <3>1. g \in fresh /\ Named(m, g)
      BY <1>2, <1>9, <2>1
    <3>2. RowsIn(m, g)
      BY <3>1 DEF RowsKept, RowsInv
    <3>3. m \in DOMAIN tables /\ m \in DOMAIN inserted /\ m \in DOMAIN committed /\ m # n
      BY <1>1, <3>1 DEF Named, RowsKept, HistoryInv
    <3>4. inserted'[m] = inserted[m] /\ committed'[m] = committed[m]
      BY <1>3, <3>3
    <3>5. \A q \in Nat : DiskPage(g, q)' = DiskPage(g, q) /\ Page(g, q)' = Page(g, q)
      BY <1>1, <2>1
    <3>6. OnDisk(g) \subseteq OnDisk(g)'
      <4>1. DiskPage(g, 0)' = DiskPage(g, 0)
        BY <3>5
      <4>2. \A q \in 1 .. DiskPage(g, 0).count - 1 : q \in Nat
        OBVIOUS
      <4> QED BY <3>5, <4>1, <4>2 DEF OnDisk, RowsOf
    <3> QED BY <1>2, <3>2, <3>4, <3>5, <3>6 DEF RowsIn
  <2>2. CASE g = f
    <3>1. m = n
      <4>1. \A k \in DOMAIN tables : tables[k].file # f
        BY <1>1, NamedIds
      <4> QED BY <1>1, <1>2, <1>3, <2>2, <4>1 DEF Named
    <3>2. \A q \in Nat : RowsOf(Page(f, q))' = {}
      BY <1>6 DEF RowsOf, Kinds
    <3> QED BY <1>3, <2>2, <3>1, <3>2 DEF RowsIn
  <2> QED BY <2>1, <2>2
<1> QED BY <1>1, <1>4, <1>8, <1>10, <1>11 DEF RowsKept

(* Steps that change no page and name no other file.                       *)
LEMMA SameRows ==
  ASSUME StoreInv, RowsKept, NEW n, NEW f, FreshFile(f), InStep(f), dirty = Empty,
         NEW r, \E p \in Nat : r \in RowsOf(Page(f, p))
  PROVE  r \in OnDisk(f)
<1>1. StoreType /\ Len(Pages(f)) \in Nat
  BY StoredPages DEF StoreInv
<1>2. \A p \in Nat : Page(f, p) = DiskPage(f, p)
  BY <1>1, StoredPages DEF Empty
<1>3. DiskPage(f, 0).kind = "directory" /\ DiskPage(f, 0).count = Len(Pages(f))
  BY <1>2 DEF FreshFile, InStep, DirectoryOf
<1>4. PICK p \in Nat : r \in RowsOf(Page(f, p))
  OBVIOUS
<1>5. Page(f, p).kind = "data"
  BY <1>4 DEF RowsOf
<1>6. p # 0
  BY <1>2, <1>3, <1>5
<1>7. ~(p >= Len(Pages(f)))
  BY <1>5, PageFields DEF FreshFile
<1>8. p \in 1 .. DiskPage(f, 0).count - 1
  BY <1>1, <1>3, <1>6, <1>7
<1> QED BY <1>2, <1>4, <1>8 DEF OnDisk

LEMMA FlushedKept ==
  ASSUME StoreInv, RowsKept, Flushed
  PROVE  StoreType' /\ IdsInv' /\ RowsKept'
<1>1. /\ running /\ stmt.next = "flush" /\ dirty = Empty /\ stmt' = NoStmt
      /\ UNCHANGED <<next_file_id, tables, json, disk, dirty, inserted, inserts, lost, fresh>>
      /\ committed' = [n \in DOMAIN inserted |->
           IF n \in DOMAIN tables /\ InStep(tables[n].file)
           THEN inserted[n] \ lost ELSE committed[n]]
  BY DEF Flushed, At, AllWritten, memory, files
<1>2. /\ StoreType'
      /\ \A f : /\ Pages(f)' = Pages(f) /\ Clean(f)' = Clean(f)
                /\ \A p \in Nat : /\ Page(f, p)' = Page(f, p)
                                  /\ DiskPage(f, p)' = DiskPage(f, p)
                                  /\ Kinds(f, p)' = Kinds(f, p)
  <2>1. next_file_id' \in 0 .. MaxFiles /\ json.next_file_id' \in 0 .. next_file_id'
    BY <1>1 DEF StoreInv, StoreType
  <2> QED BY <1>1, <2>1, SameStore DEF StoreInv
<1>3. IdsInv'
  BY <1>1, EndedIds
<1>4. HistoryInv'
  <2>1. \A n \in DOMAIN inserted : committed'[n] \subseteq inserted[n]
    BY <1>1 DEF RowsKept, HistoryInv
  <2>2. DOMAIN committed' = DOMAIN inserted
    BY <1>1
  <2> QED BY <1>1, <2>1, <2>2 DEF RowsKept, HistoryInv
<1>5. DataInv'
  BY <1>1, <1>2 DEF RowsKept, DataInv
<1>6. \A n, f : Named(n, f)' = Named(n, f)
  BY <1>1 DEF Named
<1>7. FreshInv'
  <2>1. \A f : Kept(f)' = Kept(f)
    BY <1>1, <1>6 DEF Kept
  <2>2. \A f : FreshFile(f) => FreshFile(f)'
    BY <1>2 DEF FreshFile
  <2> QED BY <1>1, <1>2, <2>1, <2>2 DEF RowsKept, FreshInv
<1>8. RowsInv'
  <2> SUFFICES ASSUME NEW n \in Names, NEW f \in fresh, Named(n, f)
               PROVE  RowsIn(n, f)'
    BY <1>1, <1>6 DEF RowsInv
  <2>1. json.tables = tables
    BY <1>1 DEF StoreInv, CatalogInv, JsonInv
  <2>2. /\ n \in DOMAIN tables /\ f = tables[n].file /\ n \in DOMAIN inserted
        /\ RowsIn(n, f) /\ Kept(f) /\ FreshFile(f)
    BY <2>1 DEF Named, Kept, RowsKept, RowsInv, FreshInv, HistoryInv
  <2>3. OnDisk(f)' = OnDisk(f)
    <3>1. \A p \in 1 .. DiskPage(f, 0).count - 1 : p \in Nat
      OBVIOUS
    <3>2. DiskPage(f, 0)' = DiskPage(f, 0)
      BY <1>2
    <3>3. \A p \in 1 .. DiskPage(f, 0).count - 1 : RowsOf(DiskPage(f, p))' = RowsOf(DiskPage(f, p))
      BY <1>2, <3>1 DEF RowsOf
    <3> QED BY <3>2, <3>3 DEF OnDisk
  <2>4. committed'[n] \subseteq OnDisk(f)
    <3>1. CASE InStep(f)
      <4>1. committed'[n] = inserted[n] \ lost
        BY <1>1, <2>2, <3>1
      <4> QED BY <1>1, <2>2, <3>1, <4>1, SameRows DEF RowsIn
    <3>2. CASE ~InStep(f)
      <4>1. committed'[n] = committed[n]
        BY <1>1, <2>2, <3>2
      <4> QED BY <2>2, <4>1 DEF RowsIn
    <3> QED BY <3>1, <3>2
  <2> QED BY <1>1, <1>2, <2>2, <2>3, <2>4 DEF RowsIn
<1> QED BY <1>2, <1>3, <1>4, <1>5, <1>7, <1>8 DEF RowsKept

(* A process that dies forgets its pool, and the rows no file counts.      *)
LEMMA CrashStore ==
  ASSUME StoreInv, Crash
  PROVE  /\ StoreType' /\ IdsInv'
         /\ \A f : /\ Pages(f)' = Pages(f) /\ Clean(f)'
                   /\ \A p \in Nat : /\ Page(f, p)' = DiskPage(f, p)
                                     /\ DiskPage(f, p)' = DiskPage(f, p)
                                     /\ Kinds(f, p)' = {DiskPage(f, p).kind}
<1>1. /\ dirty' = Empty /\ stmt' = NoStmt /\ UNCHANGED <<json, disk, inserts>>
      /\ next_file_id' \in {next_file_id, json.next_file_id}
  BY DEF Crash, Loads, memory
<1>2. DOMAIN dirty' = {}
  BY <1>1 DEF Empty
<1>3. StoreType'
  <2>1. next_file_id' \in 0 .. MaxFiles /\ json.next_file_id' \in 0 .. next_file_id'
    BY <1>1, NewFileIsClean, CatalogAssumption DEF StoreInv, StoreType, CatalogAssumption
  <2> QED BY <1>1, <1>2, <2>1 DEF StoreInv, StoreType
<1>4. IdsInv'
  BY <1>1, EndedIds
<1>5. ASSUME NEW f PROVE Pages(f)' = Pages(f) /\ Clean(f)'
  BY <1>1, <1>2 DEF Pages, Clean
<1>6. ASSUME NEW f, NEW p \in Nat
      PROVE  Page(f, p)' = DiskPage(f, p) /\ DiskPage(f, p)' = DiskPage(f, p)
  BY <1>2, <1>5 DEF Page, DiskPage
<1> QED BY <1>3, <1>4, <1>5, <1>6 DEF Kinds

LEMMA CrashKept ==
  ASSUME StoreInv, RowsKept, Crash, running'
  PROVE  RowsKept'
<1>1. /\ json.whole /\ tables' = json.tables /\ lost' = Rows(inserted) \ Rows(committed)
      /\ UNCHANGED <<json, inserted, committed, inserts, fresh>>
  BY DEF Crash, Loads
<1>2. \A f : /\ Pages(f)' = Pages(f) /\ Clean(f)'
             /\ \A p \in Nat : /\ Page(f, p)' = DiskPage(f, p)
                               /\ DiskPage(f, p)' = DiskPage(f, p)
                               /\ Kinds(f, p)' = {DiskPage(f, p).kind}
  BY CrashStore
<1>3. HistoryInv'
  BY <1>1 DEF RowsKept, HistoryInv
<1>4. \A f : \A p \in Nat : Kinds(f, p)' \subseteq Kinds(f, p)
  BY <1>2 DEF Kinds
<1>5. DataInv'
  BY <1>1, <1>4 DEF RowsKept, DataInv
<1>6. \A n, f : Named(n, f)' => Named(n, f)
  BY <1>1 DEF Named
<1>7. FreshInv'
  <2> SUFFICES ASSUME NEW f \in fresh
               PROVE  /\ \A p \in Nat : Kinds(f, p)' \cap {"leaf", "metadata"} = {}
                      /\ Kept(f)' => FreshFile(f)'
    BY <1>1, <1>2 DEF FreshInv
  <2>1. \A p \in Nat : Kinds(f, p)' \cap {"leaf", "metadata"} = {}
    BY <1>4 DEF RowsKept, FreshInv
  <2>2. ASSUME Kept(f)' PROVE FreshFile(f)'
    <3>1. FreshFile(f)
      <4>1. Kept(f)
        BY <1>1, <1>6, <2>2 DEF Kept
      <4> QED BY <4>1 DEF RowsKept, FreshInv
    <3>2. ASSUME NEW p \in Nat, p >= Len(Pages(f)) PROVE DiskPage(f, p) = Zero
      <4>1. ~(p < Len(Pages(f)))
        BY <3>2, StoredPages DEF StoreInv
      <4> QED BY <4>1 DEF DiskPage
    <3> QED BY <1>2, <3>1, <3>2 DEF FreshFile, Follows
  <2> QED BY <2>1, <2>2
<1>8. RowsInv'
  <2> SUFFICES ASSUME NEW n \in Names, NEW f \in fresh, Named(n, f)
               PROVE  RowsIn(n, f)'
    BY <1>1, <1>6 DEF RowsInv
  <2>1. /\ RowsIn(n, f) /\ Kept(f) /\ FreshFile(f) /\ n \in DOMAIN inserted
    BY DEF Named, Kept, RowsKept, RowsInv, FreshInv, HistoryInv
  <2>2. \A p \in Nat : RowsOf(Page(f, p))' = RowsOf(DiskPage(f, p))
    BY <1>2 DEF RowsOf
  <2>3. OnDisk(f)' = OnDisk(f)
    <3>1. \A p \in 1 .. DiskPage(f, 0).count - 1 : p \in Nat
      OBVIOUS
    <3>2. DiskPage(f, 0)' = DiskPage(f, 0)
      BY <1>2
    <3>3. \A p \in 1 .. DiskPage(f, 0).count - 1 : RowsOf(DiskPage(f, p))' = RowsOf(DiskPage(f, p))
      BY <1>2, <3>1 DEF RowsOf
    <3> QED BY <3>2, <3>3 DEF OnDisk
  <2>4. \A p \in Nat : RowsOf(DiskPage(f, p)) \subseteq inserted[n]
    BY <2>1, FollowsKeeps DEF FreshFile, RowsIn
  <2>5. ASSUME NEW r \in inserted[n], r \notin lost'
        PROVE  \E p \in Nat : r \in RowsOf(DiskPage(f, p))
    <3>1. r \in Rows(committed)
      BY <1>1, <2>1, <2>5 DEF Rows
    <3>2. PICK m \in DOMAIN committed : r \in committed[m]
      BY <3>1 DEF Rows
    <3>3. m = n
      BY <2>1, <3>2 DEF RowsKept, HistoryInv
    <3>4. r \in OnDisk(f)
      BY <2>1, <3>2, <3>3 DEF RowsIn
    <3>5. PICK p \in 1 .. DiskPage(f, 0).count - 1 : r \in RowsOf(DiskPage(f, p))
      BY <3>4 DEF OnDisk
    <3> QED BY <3>5
  <2> QED BY <1>1, <2>1, <2>2, <2>3, <2>4, <2>5 DEF RowsIn
<1> QED BY <1>3, <1>5, <1>7, <1>8 DEF RowsKept

(* insert_tuple into a file that has a directory: page q takes the row, or *)
(* is added for it.                                                        *)
HeapGrew(h, row, q) ==
  /\ q \in Nat /\ q # 0 /\ Page(h, q).kind \in {"data", "zero"}
  /\ Page(h, q)'.kind = "data" /\ RowsOf(Page(h, q)') = RowsOf(Page(h, q)) \cup {row}
  /\ \A p \in Nat : p \notin {0, q} => Page(h, p)' = Page(h, p)
  /\ \A p \in Nat : DiskPage(h, p)' = DiskPage(h, p)
  /\ \/ /\ DirectoryOf(h).recorded = {q} /\ Page(h, 0)' = Page(h, 0)
        /\ q < Len(Pages(h)) /\ Len(Pages(h))' = Len(Pages(h))
     \/ /\ DirectoryOf(h).recorded = {}
        /\ Page(h, 0)' = Directory(Page(h, 0).count + 1,
                                   IF q < Page(h, 0).count + 1 THEN {q} ELSE {})
        /\ q = Len(Pages(h)) /\ Len(Pages(h))' = Len(Pages(h)) + 1

HasDirectory(h) ==
  /\ Page(h, 0).kind = "directory" /\ Len(Pages(h)) > 0
  /\ \A p \in Nat : p >= Len(Pages(h)) => Page(h, p) = Zero

LEMMA HeapChangePages ==
  ASSUME StoreType, NEW h, NEW row \in 1 .. MaxRows, TakesRows(h)
  PROVE  \E q \in Nat, rows \in SUBSET (1 .. MaxRows), d \in PageSet :
           /\ DOMAIN HeapChange(h, row) = {<<h, 0>>, <<h, q>>}
           /\ HeapChange(h, row)[<<h, q>>] = Data(rows)
           /\ (q # 0 => HeapChange(h, row)[<<h, 0>>] = d) /\ d.kind = "directory"
           /\ HeapGrowth(h) \in {0, 1}
           /\ HasDirectory(h) =>
                /\ q # 0 /\ Page(h, q).kind \in {"data", "zero"}
                /\ rows = RowsOf(Page(h, q)) \cup {row}
                /\ \/ /\ DirectoryOf(h).recorded = {q} /\ d = Page(h, 0)
                      /\ q < Len(Pages(h)) /\ HeapGrowth(h) = 0
                   \/ /\ DirectoryOf(h).recorded = {}
                      /\ d = Directory(Page(h, 0).count + 1,
                                       IF q < Page(h, 0).count + 1 THEN {q} ELSE {})
                      /\ q = Len(Pages(h)) /\ HeapGrowth(h) = 1
<1>1. PICK d : d = DirectoryOf(h)
  OBVIOUS
<1>2. /\ d \in PageSet /\ d.kind = "directory" /\ d.count \in Nat /\ Len(Pages(h)) \in Nat
      /\ d.recorded = {} \/ \E p \in Nat : d.recorded = {p}
  BY <1>1, VisibleRows, StoredPages
<1>3. HasDirectory(h) => d = Page(h, 0)
  BY <1>1 DEF HasDirectory, DirectoryOf
<1>4. CASE d.recorded = {}
  <2>1. PICK new : new = Directory(d.count + 1,
                                   IF Len(Pages(h)) < d.count + 1 THEN {Len(Pages(h))} ELSE {})
    OBVIOUS
  <2>2. d.count + 1 \in Nat
    BY <1>2
  <2>3. new \in PageSet /\ new.kind = "directory"
    <3>1. new \in PageSet
      BY <1>2, <2>1, <2>2, PagesMade
    <3>2. new.kind = "directory"
      BY <2>1, PageFields
    <3> QED BY <3>1, <3>2
  <2>4. PICK q : q = Len(Pages(h))
    OBVIOUS
  <2>5. HeapChange(h, row) = [page \in {<<h, 0>>, <<h, q>>} |->
                                IF page = <<h, q>> THEN Data({row}) ELSE new]
    BY <1>1, <1>4, <2>1, <2>4 DEF HeapChange
  <2>6. /\ DOMAIN HeapChange(h, row) = {<<h, 0>>, <<h, q>>}
        /\ HeapChange(h, row)[<<h, q>>] = Data({row})
        /\ q # 0 => HeapChange(h, row)[<<h, 0>>] = new
    BY <2>5
  <2>7. HeapGrowth(h) = 1
    BY <1>1, <1>4 DEF HeapGrowth
  <2>8. HasDirectory(h) => /\ q # 0 /\ Page(h, q).kind = "zero"
                           /\ {row} = RowsOf(Page(h, q)) \cup {row}
    <3>1. q \in Nat /\ q >= Len(Pages(h))
      BY <1>2, <2>4
    <3> QED BY <1>2, <2>4, <3>1, PageFields DEF HasDirectory, RowsOf
  <2>9. {row} \in SUBSET (1 .. MaxRows) /\ q \in Nat
    BY <1>2, <2>4
  <2> QED BY <1>1, <1>3, <1>4, <2>1, <2>3, <2>4, <2>6, <2>7, <2>8, <2>9
<1>5. CASE d.recorded # {}
  <2>1. PICK q \in Nat : d.recorded = {q}
    BY <1>2, <1>5
  <2>2. Min(d.recorded) = q
    BY <2>1 DEF Min
  <2>3. Page(h, q).kind = "data" /\ Page(h, q) \in PageSet
    BY <1>1, <2>1, StoredPages DEF TakesRows
  <2>4. Page(h, q).rows \subseteq 1 .. MaxRows /\ RowsOf(Page(h, q)) = Page(h, q).rows
    BY <2>3, PageKinds DEF RowsOf
  <2>5. PICK rows : rows = Page(h, q).rows \cup {row}
    OBVIOUS
  <2>6. rows \in SUBSET (1 .. MaxRows)
    BY <2>4, <2>5
  <2>7. HeapChange(h, row) = [page \in {<<h, 0>>, <<h, q>>} |->
                                IF page = <<h, q>> THEN Data(rows) ELSE d]
    BY <1>1, <1>5, <2>2, <2>5 DEF HeapChange
  <2>8. /\ DOMAIN HeapChange(h, row) = {<<h, 0>>, <<h, q>>}
        /\ HeapChange(h, row)[<<h, q>>] = Data(rows)
        /\ q # 0 => HeapChange(h, row)[<<h, 0>>] = d
    BY <2>7
  <2>9. HeapGrowth(h) = 0
    BY <1>1, <1>5 DEF HeapGrowth
  <2>10. HasDirectory(h) => /\ q # 0 /\ q < Len(Pages(h))
                            /\ rows = RowsOf(Page(h, q)) \cup {row}
    <3>1. HasDirectory(h) => ~(q >= Len(Pages(h)))
      BY <2>3, PageFields DEF HasDirectory
    <3> QED BY <1>2, <2>3, <2>4, <2>5, <3>1 DEF HasDirectory
  <2> QED BY <1>1, <1>2, <1>3, <2>1, <2>3, <2>6, <2>8, <2>9, <2>10
<1> QED BY <1>4, <1>5

LEMMA TreeChangePages ==
  ASSUME StoreType, NEW fs, NEW row \in Nat, \A f \in fs : IsTree(f)
  PROVE  /\ DOMAIN TreeChanges(fs, <<row>>) = {<<f, 1>> : f \in fs}
         /\ \A f \in fs : /\ TreeChanges(fs, <<row>>)[<<f, 1>>]
                               = Leaf(Page(f, 1).entries \o <<row>>)
                          /\ TreeChanges(fs, <<row>>)[<<f, 1>>] \in PageSet
<1>1. DOMAIN TreeChanges(fs, <<row>>) = {<<f, 1>> : f \in fs}
  BY DEF TreeChanges
<1>2. ASSUME NEW f \in fs
      PROVE  /\ TreeChanges(fs, <<row>>)[<<f, 1>>] = Leaf(Page(f, 1).entries \o <<row>>)
             /\ TreeChanges(fs, <<row>>)[<<f, 1>>] \in PageSet
  <2>1. TreeChanges(fs, <<row>>)[<<f, 1>>] = Leaf(Page(f, 1).entries \o <<row>>)
    BY DEF TreeChanges
  <2>2. Page(f, 1).entries \in Seq(Nat)
    <3>1. Page(f, 1) \in PageSet
      BY StoredPages
    <3> QED BY <3>1, PageKinds DEF IsTree
  <2>3. Page(f, 1).entries \o <<row>> \in Seq(Nat)
    BY <2>2
  <2> QED BY <2>1, <2>3, PagesMade
<1> QED BY <1>1, <1>2

LEMMA HeapIsNoIndex ==
  ASSUME StoreInv, NEW m \in DOMAIN tables, NEW n \in DOMAIN tables
  PROVE  /\ tables[m].file \notin IndexFiles(n)
         /\ m # n => tables[m].file # tables[n].file
<1>1. IsTables(tables) /\ Distinct(tables, next_file_id)
  BY DEF StoreInv, CatalogInv, Shapes, NamesInv, FileIdsAreUnique
<1>2. ASSUME NEW c \in DOMAIN tables[n].indices
      PROVE  tables[n].indices[c] # tables[m].file
  <2>1. c # "heap"
    BY <1>1, FilesAreNumbers
  <2>2. <<n, c>> \in Uses(tables) /\ FileOf(tables, <<n, c>>) = tables[n].indices[c]
    BY <1>1, IndexUse
  <2>3. <<m, "heap">> \in Uses(tables) /\ FileOf(tables, <<m, "heap">>) = tables[m].file
    BY HeapUse
  <2>4. <<n, c>> # <<m, "heap">>
    BY <2>1
  <2> QED BY <1>1, <2>2, <2>3, <2>4 DEF Distinct
<1>3. m # n => tables[m].file # tables[n].file
  <2>1. /\ <<m, "heap">> \in Uses(tables) /\ FileOf(tables, <<m, "heap">>) = tables[m].file
        /\ <<n, "heap">> \in Uses(tables) /\ FileOf(tables, <<n, "heap">>) = tables[n].file
    BY HeapUse
  <2>2. m # n => <<m, "heap">> # <<n, "heap">>
    OBVIOUS
  <2> QED BY <1>1, <2>1, <2>2 DEF Distinct
<1> QED BY <1>2, <1>3 DEF IndexFiles

IsHeapOf(h, n) == h = tables[n].file

(* What INSERT leaves in the pool: the heap's two pages, the roots of the  *)
(* indexes done, and what was there.                                       *)
LEMMA InsertPool ==
  ASSUME StoreInv, NEW n \in DOMAIN tables, NEW done \in SUBSET IndexFiles(n),
         Insert(n, done), NEW h, IsHeapOf(h, n)
  PROVE  \E q \in Nat, rows \in SUBSET (1 .. MaxRows), d \in PageSet :
           /\ DOMAIN dirty' = DOMAIN dirty \cup {<<f, 1>> : f \in done} \cup {<<h, 0>>, <<h, q>>}
           /\ dirty'[<<h, q>>] = Data(rows)
           /\ (q # 0 => dirty'[<<h, 0>>] = d) /\ d.kind = "directory"
           /\ \A f \in done : /\ dirty'[<<f, 1>>] = Leaf(Page(f, 1).entries \o <<inserts + 1>>)
                              /\ dirty'[<<f, 1>>] \in PageSet
           /\ \A x \in DOMAIN dirty' : \/ dirty'[x] = dirty[x] /\ x \in DOMAIN dirty
                                       \/ x \in {<<h, 0>>, <<h, q>>}
                                       \/ \E f \in done : x = <<f, 1>>
           /\ HeapGrowth(h) \in {0, 1}
           /\ HasDirectory(h) =>
                /\ q # 0 /\ Page(h, q).kind \in {"data", "zero"}
                /\ rows = RowsOf(Page(h, q)) \cup {inserts + 1}
                /\ \/ /\ DirectoryOf(h).recorded = {q} /\ d = Page(h, 0)
                      /\ q < Len(Pages(h)) /\ HeapGrowth(h) = 0
                   \/ /\ DirectoryOf(h).recorded = {}
                      /\ d = Directory(Page(h, 0).count + 1,
                                       IF q < Page(h, 0).count + 1 THEN {q} ELSE {})
                      /\ q = Len(Pages(h)) /\ HeapGrowth(h) = 1
<1>1. PICK row : row = inserts + 1
  OBVIOUS
<1>2. StoreType /\ row \in 1 .. MaxRows /\ row \in Nat
  <2>1. inserts \in 0 .. MaxRows /\ inserts < MaxRows /\ MaxRows \in Nat
    BY CatalogAssumption DEF StoreInv, StoreType, Insert, CatalogAssumption
  <2> QED BY <1>1, <2>1 DEF StoreInv
<1>3. TakesRows(h) /\ \A f \in done : IsTree(f)
  BY DEF Insert, IsHeapOf
<1>4. h \notin done
  BY HeapIsNoIndex DEF IsHeapOf
<1>5. PICK trees : trees = TreeChanges(done, <<row>>)
  OBVIOUS
<1>6. PICK heap : heap = HeapChange(h, row)
  OBVIOUS
<1>7. dirty' = Over(trees, Over(heap, dirty))
  BY <1>1, <1>5, <1>6 DEF Insert, IsHeapOf
<1>8. PICK q \in Nat, rows \in SUBSET (1 .. MaxRows), d \in PageSet :
        /\ DOMAIN HeapChange(h, row) = {<<h, 0>>, <<h, q>>}
        /\ HeapChange(h, row)[<<h, q>>] = Data(rows)
        /\ (q # 0 => HeapChange(h, row)[<<h, 0>>] = d) /\ d.kind = "directory"
        /\ HeapGrowth(h) \in {0, 1}
        /\ HasDirectory(h) =>
             /\ q # 0 /\ Page(h, q).kind \in {"data", "zero"}
             /\ rows = RowsOf(Page(h, q)) \cup {row}
             /\ \/ /\ DirectoryOf(h).recorded = {q} /\ d = Page(h, 0)
                   /\ q < Len(Pages(h)) /\ HeapGrowth(h) = 0
                \/ /\ DirectoryOf(h).recorded = {}
                   /\ d = Directory(Page(h, 0).count + 1,
                                    IF q < Page(h, 0).count + 1 THEN {q} ELSE {})
                   /\ q = Len(Pages(h)) /\ HeapGrowth(h) = 1
  BY <1>2, <1>3, HeapChangePages
<1>9. /\ DOMAIN heap = {<<h, 0>>, <<h, q>>}
      /\ heap[<<h, q>>] = Data(rows)
      /\ q # 0 => heap[<<h, 0>>] = d
  BY <1>6, <1>8
<1>10. /\ DOMAIN trees = {<<f, 1>> : f \in done}
       /\ \A f \in done : /\ trees[<<f, 1>>] = Leaf(Page(f, 1).entries \o <<row>>)
                          /\ trees[<<f, 1>>] \in PageSet
  BY <1>2, <1>3, <1>5, TreeChangePages
<1>11. /\ DOMAIN dirty' = DOMAIN trees \cup (DOMAIN heap \cup DOMAIN dirty)
       /\ \A x \in DOMAIN dirty' : dirty'[x] = IF x \in DOMAIN trees THEN trees[x]
                                              ELSE IF x \in DOMAIN heap THEN heap[x]
                                              ELSE dirty[x]
  BY <1>7 DEF Over
<1>12. <<h, 0>> \notin DOMAIN trees /\ <<h, q>> \notin DOMAIN trees
  BY <1>4, <1>10
<1>13. DOMAIN dirty' = DOMAIN dirty \cup {<<f, 1>> : f \in done} \cup {<<h, 0>>, <<h, q>>}
  BY <1>9, <1>10, <1>11
<1>14. dirty'[<<h, q>>] = Data(rows) /\ (q # 0 => dirty'[<<h, 0>>] = d)
  <2>1. <<h, 0>> \in DOMAIN heap /\ <<h, q>> \in DOMAIN heap
    BY <1>9
  <2>2. dirty'[<<h, q>>] = heap[<<h, q>>] /\ dirty'[<<h, 0>>] = heap[<<h, 0>>]
    BY <1>11, <1>12, <2>1
  <2> QED BY <1>9, <2>2
<1>15. \A f \in done : /\ dirty'[<<f, 1>>] = Leaf(Page(f, 1).entries \o <<row>>)
                       /\ dirty'[<<f, 1>>] \in PageSet
  BY <1>10, <1>11
<1>16. \A x \in DOMAIN dirty' : \/ dirty'[x] = dirty[x] /\ x \in DOMAIN dirty
                                \/ x \in {<<h, 0>>, <<h, q>>}
                                \/ \E f \in done : x = <<f, 1>>
  BY <1>9, <1>10, <1>11
<1> QED BY <1>1, <1>8, <1>13, <1>14, <1>15, <1>16

LEMMA InsertStore ==
  ASSUME StoreInv, NEW n \in DOMAIN tables, NEW done \in SUBSET IndexFiles(n),
         Insert(n, done), NEW h, IsHeapOf(h, n)
  PROVE  /\ StoreType' /\ IdsInv' /\ h \notin done
         /\ \A g : g # h => Pages(g)' = Pages(g)
         /\ \A g : \A p \in Nat : DiskPage(g, p)' = DiskPage(g, p)
         /\ \A g : g # h /\ g \notin done =>
              Clean(g)' = Clean(g) /\ \A p \in Nat : Page(g, p)' = Page(g, p)
         /\ \A f \in done :
              /\ Page(f, 1)' = Leaf(Page(f, 1).entries \o <<inserts + 1>>)
              /\ \A p \in Nat : p # 1 => Page(f, p)' = Page(f, p)
         /\ HasDirectory(h) => \E q : HeapGrew(h, inserts + 1, q)
         /\ \A x \in DOMAIN dirty' :
              dirty'[x].kind # "zero" \/ (x \in DOMAIN dirty /\ dirty'[x] = dirty[x])
<1>1. PICK q \in Nat, rows \in SUBSET (1 .. MaxRows), d \in PageSet :
        /\ DOMAIN dirty' = DOMAIN dirty \cup {<<f, 1>> : f \in done} \cup {<<h, 0>>, <<h, q>>}
        /\ dirty'[<<h, q>>] = Data(rows)
        /\ (q # 0 => dirty'[<<h, 0>>] = d) /\ d.kind = "directory"
        /\ \A f \in done : /\ dirty'[<<f, 1>>] = Leaf(Page(f, 1).entries \o <<inserts + 1>>)
                           /\ dirty'[<<f, 1>>] \in PageSet
        /\ \A x \in DOMAIN dirty' : \/ dirty'[x] = dirty[x] /\ x \in DOMAIN dirty
                                    \/ x \in {<<h, 0>>, <<h, q>>}
                                    \/ \E f \in done : x = <<f, 1>>
        /\ HeapGrowth(h) \in {0, 1}
        /\ HasDirectory(h) =>
             /\ q # 0 /\ Page(h, q).kind \in {"data", "zero"}
             /\ rows = RowsOf(Page(h, q)) \cup {inserts + 1}
             /\ \/ /\ DirectoryOf(h).recorded = {q} /\ d = Page(h, 0)
                   /\ q < Len(Pages(h)) /\ HeapGrowth(h) = 0
                \/ /\ DirectoryOf(h).recorded = {}
                   /\ d = Directory(Page(h, 0).count + 1,
                                    IF q < Page(h, 0).count + 1 THEN {q} ELSE {})
                   /\ q = Len(Pages(h)) /\ HeapGrowth(h) = 1
  BY InsertPool
<1>2. /\ running /\ disk' = Allocated(h, HeapGrowth(h))
      /\ inserts' = inserts + 1 /\ inserts < MaxRows
      /\ UNCHANGED <<next_file_id, tables, json, running>>
  BY DEF Insert, Idle, IsHeapOf, memory
<1>3. /\ StoreType /\ h \in Nat /\ h < next_file_id /\ h \notin done
      /\ \A f \in done : f \in Nat /\ f < next_file_id
  BY NamedIds, HeapIsNoIndex DEF StoreInv, IsHeapOf
<1>4. HeapGrowth(h) \in Nat
  BY <1>1
<1>5. PICK growth \in Nat : growth = HeapGrowth(h)
  BY <1>4
<1>6. /\ \A g : g # h => Pages(g)' = Pages(g)
      /\ Pages(h)' \in Seq(PageSet) /\ Len(Pages(h))' = Len(Pages(h)) + growth
      /\ \A g : \A p \in Nat : DiskPage(g, p)' = DiskPage(g, p)
      /\ DOMAIN disk' = DOMAIN disk \cup {h}
  <2>1. disk' = Allocated(h, growth)
    BY <1>2, <1>5
  <2> QED BY <1>3, <2>1, AllocatedPages
<1>7. /\ \A g \in DOMAIN disk' : disk'[g] = Pages(g)'
      /\ \A g \in DOMAIN disk : disk[g] = Pages(g)
  BY DEF Pages
<1>8. StoreType'
  <2>1. \A g \in DOMAIN disk' : disk'[g] \in Seq(PageSet)
    BY <1>3, <1>6, <1>7 DEF StoreType
  <2>2. ASSUME NEW x \in DOMAIN dirty'
        PROVE  x \in Nat \X Nat /\ x[1] < next_file_id /\ dirty'[x] \in PageSet
    <3>1. CASE dirty'[x] = dirty[x] /\ x \in DOMAIN dirty
      BY <1>3, <3>1 DEF StoreType
    <3>2. CASE \E f \in done : x = <<f, 1>>
      BY <1>1, <1>3, <3>2
    <3>3. CASE x \in {<<h, 0>>, <<h, q>>}
      <4>1. Data(rows) \in PageSet
        BY PagesMade
      <4>2. dirty'[<<h, q>>] \in PageSet /\ (q # 0 => dirty'[<<h, 0>>] \in PageSet)
        BY <1>1, <4>1
      <4>3. dirty'[<<h, 0>>] \in PageSet
        BY <4>2
      <4> QED BY <1>3, <3>3, <4>2, <4>3
    <3> QED BY <1>1, <3>1, <3>2, <3>3
  <2>3. inserts' \in 0 .. MaxRows
    BY <1>2, <1>3, CatalogAssumption DEF StoreType, CatalogAssumption
  <2>4. DOMAIN disk' \subseteq 0 .. MaxFiles - 1
    <3>1. h \in 0 .. MaxFiles - 1
      BY <1>3, CatalogAssumption DEF StoreType, CatalogAssumption
    <3> QED BY <1>3, <1>6, <3>1 DEF StoreType
  <2> QED BY <1>2, <1>3, <2>1, <2>2, <2>3, <2>4 DEF StoreType
<1>9. IdsInv'
  BY EndedIds DEF Insert, Flushes, StatementRaises
<1>10. \A g : \A p \in Nat :
         /\ Page(g, p) = IF <<g, p>> \in DOMAIN dirty THEN dirty[<<g, p>>] ELSE DiskPage(g, p)
         /\ Page(g, p)' = IF <<g, p>> \in DOMAIN dirty' THEN dirty'[<<g, p>>]
                          ELSE DiskPage(g, p)'
  BY <1>3, <1>8, StoredPages DEF Page, DiskPage
<1>11. ASSUME NEW g, NEW p \in Nat, <<g, p>> \notin {<<h, 0>>, <<h, q>>},
              ~(g \in done /\ p = 1)
       PROVE  /\ Page(g, p)' = Page(g, p)
              /\ <<g, p>> \in DOMAIN dirty' <=> <<g, p>> \in DOMAIN dirty
  <2>1. ~\E f \in done : <<g, p>> = <<f, 1>>
    BY <1>11
  <2>2. <<g, p>> \in DOMAIN dirty' <=> <<g, p>> \in DOMAIN dirty
    BY <1>1, <1>11, <2>1
  <2>3. <<g, p>> \in DOMAIN dirty' => dirty'[<<g, p>>] = dirty[<<g, p>>]
    BY <1>1, <1>11, <2>1
  <2>4. DiskPage(g, p)' = DiskPage(g, p)
    BY <1>6
  <2> QED BY <1>10, <2>2, <2>3, <2>4
<1>12. ASSUME NEW g, g # h, g \notin done
       PROVE  Clean(g)' = Clean(g) /\ \A p \in Nat : Page(g, p)' = Page(g, p)
  <2>1. \A p \in Nat : /\ Page(g, p)' = Page(g, p)
                       /\ <<g, p>> \in DOMAIN dirty' <=> <<g, p>> \in DOMAIN dirty
    BY <1>11, <1>12
  <2> QED BY <2>1 DEF Clean
<1>13. ASSUME NEW f \in done
       PROVE  /\ Page(f, 1)' = Leaf(Page(f, 1).entries \o <<inserts + 1>>)
              /\ \A p \in Nat : p # 1 => Page(f, p)' = Page(f, p)
  <2>1. <<f, 1>> \in DOMAIN dirty'
    BY <1>1
  <2>2. Page(f, 1)' = dirty'[<<f, 1>>]
    BY <1>10, <2>1
  <2>3. ASSUME NEW p \in Nat, p # 1 PROVE Page(f, p)' = Page(f, p)
    <3>1. <<f, p>> \notin {<<h, 0>>, <<h, q>>} /\ ~(f \in done /\ p = 1)
      BY <1>3, <2>3
    <3> QED BY <1>11, <3>1
  <2> QED BY <1>1, <2>2, <2>3
<1>14. ASSUME HasDirectory(h) PROVE HeapGrew(h, inserts + 1, q)
  <2>1. /\ q # 0 /\ Page(h, q).kind \in {"data", "zero"}
        /\ rows = RowsOf(Page(h, q)) \cup {inserts + 1}
        /\ \/ /\ DirectoryOf(h).recorded = {q} /\ d = Page(h, 0)
              /\ q < Len(Pages(h)) /\ growth = 0
           \/ /\ DirectoryOf(h).recorded = {}
              /\ d = Directory(Page(h, 0).count + 1,
                               IF q < Page(h, 0).count + 1 THEN {q} ELSE {})
              /\ q = Len(Pages(h)) /\ growth = 1
    BY <1>1, <1>5, <1>14
  <2>2. <<h, q>> \in DOMAIN dirty' /\ <<h, 0>> \in DOMAIN dirty'
    BY <1>1
  <2>3. Page(h, q)' = Data(rows) /\ Page(h, 0)' = d
    BY <1>1, <1>10, <2>1, <2>2
  <2>4. Page(h, q)'.kind = "data" /\ RowsOf(Page(h, q)') = rows
    BY <2>3, PageFields DEF RowsOf
  <2>5. \A p \in Nat : p \notin {0, q} => Page(h, p)' = Page(h, p)
    BY <1>3, <1>11
  <2>6. \A p \in Nat : DiskPage(h, p)' = DiskPage(h, p)
    BY <1>6
  <2>7. Len(Pages(h)) \in Nat /\ Len(Pages(h))' = Len(Pages(h)) + growth
    BY <1>3, <1>6, StoredPages
  <2>8. \/ /\ DirectoryOf(h).recorded = {q} /\ Page(h, 0)' = Page(h, 0)
           /\ q < Len(Pages(h)) /\ Len(Pages(h))' = Len(Pages(h))
        \/ /\ DirectoryOf(h).recorded = {}
           /\ Page(h, 0)' = Directory(Page(h, 0).count + 1,
                                      IF q < Page(h, 0).count + 1 THEN {q} ELSE {})
           /\ q = Len(Pages(h)) /\ Len(Pages(h))' = Len(Pages(h)) + 1
    BY <2>1, <2>3, <2>7
  <2> QED BY <2>1, <2>4, <2>5, <2>6, <2>8 DEF HeapGrew
<1>15. ASSUME NEW x \in DOMAIN dirty'
       PROVE  dirty'[x].kind # "zero" \/ (x \in DOMAIN dirty /\ dirty'[x] = dirty[x])
  <2>1. dirty'[<<h, q>>].kind = "data" /\ (q # 0 => dirty'[<<h, 0>>].kind = "directory")
    BY <1>1, PageFields
  <2>2. ASSUME NEW f \in done PROVE dirty'[<<f, 1>>].kind = "leaf"
    <3>1. PICK e : dirty'[<<f, 1>>] = Leaf(e)
      BY <1>1
    <3> QED BY <3>1 DEF Leaf
  <2> QED BY <1>1, <2>1, <2>2
<1> QED BY <1>3, <1>6, <1>8, <1>9, <1>12, <1>13, <1>14, <1>15

(* A table's file grows by a row.                                          *)
LEMMA GrownFile ==
  ASSUME StoreType, StoreType', NEW h, NEW row, NEW q, FreshFile(h), HeapGrew(h, row, q),
         \A p \in Nat : Kinds(h, p) \cap {"leaf", "metadata"} = {}
  PROVE  /\ FreshFile(h)'
         /\ \A p \in Nat : Kinds(h, p)' \cap {"leaf", "metadata"} = {}
         /\ \A p \in Nat : RowsOf(Page(h, p))' \subseteq RowsOf(Page(h, p)) \cup {row}
         /\ \A p \in Nat : RowsOf(Page(h, p)) \subseteq RowsOf(Page(h, p))'
         /\ row \in RowsOf(Page(h, q))' /\ OnDisk(h)' = OnDisk(h)
<1>1. /\ q \in Nat /\ q # 0 /\ Page(h, q).kind \in {"data", "zero"}
      /\ Page(h, q)'.kind = "data" /\ RowsOf(Page(h, q))' = RowsOf(Page(h, q)) \cup {row}
      /\ \A p \in Nat : p \notin {0, q} => Page(h, p)' = Page(h, p)
      /\ \A p \in Nat : DiskPage(h, p)' = DiskPage(h, p)
  BY DEF HeapGrew, RowsOf
<1>2. /\ DiskPage(h, 0).kind = "directory" /\ Page(h, 0).kind = "directory"
      /\ Follows(Page(h, 0), DiskPage(h, 0))
      /\ DiskPage(h, 0).count \in Nat /\ Page(h, 0).count \in Nat
  <2>1. DiskPage(h, 0).kind = "directory" /\ Follows(Page(h, 0), DiskPage(h, 0))
    BY DEF FreshFile
  <2>2. Page(h, 0).kind = "directory"
    BY <2>1, FollowsKeeps
  <2>3. Page(h, 0) \in PageSet /\ DiskPage(h, 0) \in PageSet
    BY StoredPages
  <2> QED BY <2>1, <2>2, <2>3, PageKinds
<1>3. /\ Page(h, 0)'.kind = "directory" /\ Page(h, 0).count <= Page(h, 0)'.count
      /\ Page(h, 0)'.count \in Nat
      /\ q < Len(Pages(h))' /\ Len(Pages(h))' >= Len(Pages(h)) /\ Len(Pages(h)) \in Nat
  <2>1. Len(Pages(h)) \in Nat
    BY StoredPages
  <2>2. CASE Page(h, 0)' = Page(h, 0) /\ q < Len(Pages(h)) /\ Len(Pages(h))' = Len(Pages(h))
    BY <1>2, <2>1, <2>2
  <2>3. CASE /\ Page(h, 0)' = Directory(Page(h, 0).count + 1,
                                        IF q < Page(h, 0).count + 1 THEN {q} ELSE {})
             /\ q = Len(Pages(h)) /\ Len(Pages(h))' = Len(Pages(h)) + 1
    <3>1. Page(h, 0)'.kind = "directory" /\ Page(h, 0)'.count = Page(h, 0).count + 1
      BY <2>3, PageFields
    <3> QED BY <1>2, <2>1, <2>3, <3>1
  <2> QED BY <2>2, <2>3 DEF HeapGrew
<1>4. Follows(Page(h, 0), DiskPage(h, 0))'
  <2>1. DiskPage(h, 0).count <= Page(h, 0).count
    BY <1>2 DEF Follows
  <2>2. DiskPage(h, 0).count <= Page(h, 0)'.count
    BY <1>2, <1>3, <2>1
  <2> QED BY <1>1, <1>2, <1>3, <2>2 DEF Follows
<1>5. Follows(Page(h, q), DiskPage(h, q))'
  <2>1. Follows(Page(h, q), DiskPage(h, q))
    BY <1>1 DEF FreshFile
  <2>2. DiskPage(h, q).kind # "directory" /\ RowsOf(DiskPage(h, q)) \subseteq RowsOf(Page(h, q))
    BY <1>1, <2>1, FollowsKeeps
  <2>3. RowsOf(DiskPage(h, q)) \subseteq RowsOf(Page(h, q)')
    BY <1>1, <2>2 DEF HeapGrew
  <2> QED BY <1>1, <2>2, <2>3 DEF Follows
<1>6. \A p \in Nat : Follows(Page(h, p), DiskPage(h, p))'
  <2>1. ASSUME NEW p \in Nat, p \notin {0, q} PROVE Follows(Page(h, p), DiskPage(h, p))'
    BY <1>1, <2>1 DEF FreshFile, Follows
  <2> QED BY <1>4, <1>5, <2>1
<1>7. \A p \in Nat : p >= Len(Pages(h))' => Page(h, p)' = Zero
  <2> SUFFICES ASSUME NEW p \in Nat, p >= Len(Pages(h))' PROVE Page(h, p)' = Zero
    OBVIOUS
  <2>1. Len(Pages(h))' \in Nat
    BY <1>3 DEF HeapGrew
  <2>2. p # 0 /\ p # q /\ p >= Len(Pages(h))
    BY <1>1, <1>3, <2>1
  <2> QED BY <1>1, <2>2 DEF FreshFile
<1>8. FreshFile(h)'
  <2>1. Len(Pages(h))' > 0
    BY <1>3 DEF FreshFile, HeapGrew
  <2>2. DiskPage(h, 0)'.kind = "directory"
    BY <1>1, <1>2
  <2> QED BY <1>6, <1>7, <2>1, <2>2 DEF FreshFile
<1>9. ASSUME NEW p \in Nat PROVE Kinds(h, p)' \cap {"leaf", "metadata"} = {}
  <2>1. Page(h, p)'.kind \in {"directory", "data", Page(h, p).kind}
    BY <1>1, <1>3
  <2> QED BY <1>1, <2>1 DEF Kinds
<1>10. RowsOf(Page(h, 0)) = {} /\ RowsOf(Page(h, 0))' = {}
  BY <1>2, <1>3 DEF RowsOf
<1>11. \A p \in Nat : p \notin {0, q} => RowsOf(Page(h, p))' = RowsOf(Page(h, p))
  BY <1>1 DEF RowsOf
<1>12. \A p \in Nat : /\ RowsOf(Page(h, p))' \subseteq RowsOf(Page(h, p)) \cup {row}
                      /\ RowsOf(Page(h, p)) \subseteq RowsOf(Page(h, p))'
  BY <1>1, <1>10, <1>11
<1>13. OnDisk(h)' = OnDisk(h)
  <2>1. \A p \in 1 .. DiskPage(h, 0).count - 1 : p \in Nat
    OBVIOUS
  <2>2. DiskPage(h, 0)' = DiskPage(h, 0)
    BY <1>1
  <2>3. \A p \in 1 .. DiskPage(h, 0).count - 1 : RowsOf(DiskPage(h, p))' = RowsOf(DiskPage(h, p))
    BY <1>1, <2>1 DEF RowsOf
  <2> QED BY <2>2, <2>3 DEF OnDisk
<1> QED BY <1>1, <1>8, <1>9, <1>12, <1>13

LEMMA InsertKept ==
  ASSUME StoreInv, RowsKept, NEW n \in DOMAIN tables, NEW done \in SUBSET IndexFiles(n),
         Insert(n, done)
  PROVE  StoreType' /\ IdsInv' /\ RowsKept'
<1>1. PICK h, row : IsHeapOf(h, n) /\ row = inserts + 1
  BY DEF IsHeapOf
<1>2. /\ StoreType' /\ IdsInv' /\ h \notin done
      /\ \A g : g # h => Pages(g)' = Pages(g)
      /\ \A g : \A p \in Nat : DiskPage(g, p)' = DiskPage(g, p)
      /\ \A g : g # h /\ g \notin done =>
           Clean(g)' = Clean(g) /\ \A p \in Nat : Page(g, p)' = Page(g, p)
      /\ \A f \in done :
           /\ Page(f, 1)' = Leaf(Page(f, 1).entries \o <<row>>)
           /\ \A p \in Nat : p # 1 => Page(f, p)' = Page(f, p)
      /\ HasDirectory(h) => \E q : HeapGrew(h, row, q)
  BY <1>1, InsertStore
<1>3. /\ running /\ json.tables = tables /\ IsTables(tables) /\ n \in Names
      /\ UNCHANGED <<next_file_id, tables, json, committed, lost, fresh>>
      /\ inserts' = row /\ inserted' = [inserted EXCEPT ![n] = @ \cup {row}]
      /\ \A f \in done : IsTree(f)
  <2>1. running /\ stmt.next = "none"
    BY DEF Insert, Idle, NoStmt
  <2> QED BY <1>1, <2>1 DEF Insert, memory, StoreInv, CatalogInv, JsonInv, Shapes, IsTables
<1>4. n \in DOMAIN inserted /\ inserts \in Nat
  BY DEF RowsKept, HistoryInv, StoreInv, StoreType
<1>5. /\ DOMAIN inserted' = DOMAIN inserted /\ inserted'[n] = inserted[n] \cup {row}
      /\ \A m \in DOMAIN inserted : m # n => inserted'[m] = inserted[m]
  BY <1>3, <1>4
<1>6. HistoryInv'
  <2>1. \A m \in DOMAIN inserted : inserted[m] \subseteq 1 .. inserts /\ row \notin inserted[m]
    BY <1>1, <1>4 DEF RowsKept, HistoryInv
  <2>2. \A m \in DOMAIN inserted : /\ inserted'[m] \subseteq 1 .. inserts'
                                   /\ committed[m] \subseteq inserted'[m]
    BY <1>1, <1>3, <1>4, <1>5, <2>1 DEF RowsKept, HistoryInv
  <2>3. \A k, m \in DOMAIN inserted : k # m => inserted'[k] \cap inserted'[m] = {}
    <3> SUFFICES ASSUME NEW k \in DOMAIN inserted, NEW m \in DOMAIN inserted, k # m
                 PROVE  inserted'[k] \cap inserted'[m] = {}
      OBVIOUS
    <3>1. inserted[k] \cap inserted[m] = {}
      BY DEF RowsKept, HistoryInv
    <3> QED BY <1>5, <2>1, <3>1
  <2>4. /\ DOMAIN committed' = DOMAIN inserted'
        /\ DOMAIN tables' \cup DOMAIN json'.tables \subseteq DOMAIN inserted'
        /\ fresh' \subseteq Nat
    BY <1>3, <1>5 DEF RowsKept, HistoryInv
  <2> QED BY <1>3, <1>5, <2>2, <2>3, <2>4 DEF HistoryInv
<1>7. h < json.next_file_id /\ \A f \in done : f < json.next_file_id
  BY <1>1, <1>3, NamedIds DEF IsHeapOf
<1>8. DataInv'
  <2> SUFFICES ASSUME NEW f \in Nat, NEW p \in Nat, "data" \in Kinds(f, p)'
               PROVE  f < json.next_file_id
    BY <1>3 DEF DataInv
  <2>1. CASE f = h \/ f \in done
    BY <1>7, <2>1
  <2>2. CASE f # h /\ f \notin done
    <3>1. Kinds(f, p)' = Kinds(f, p)
      BY <1>2, <2>2 DEF Kinds
    <3> QED BY <3>1 DEF RowsKept, DataInv
  <2> QED BY <2>1, <2>2
<1>9. \A m, f : Named(m, f)' = Named(m, f)
  BY <1>3 DEF Named
<1>10. \A f : Kept(f)' = Kept(f)
  BY <1>3, <1>9 DEF Kept
<1>11. \A g \in fresh : g \notin done
  <2>1. \A f \in done : "leaf" \in Kinds(f, 1)
    BY <1>3 DEF IsTree, Kinds
  <2> QED BY <2>1 DEF RowsKept, FreshInv
<1>12. Named(n, h) /\ Kept(h)
  BY <1>1, <1>3 DEF Named, Kept, IsHeapOf
<1>13. ASSUME h \in fresh
       PROVE  /\ FreshFile(h)' /\ \A p \in Nat : Kinds(h, p)' \cap {"leaf", "metadata"} = {}
              /\ \A p \in Nat : RowsOf(Page(h, p))' \subseteq RowsOf(Page(h, p)) \cup {row}
              /\ \A p \in Nat : RowsOf(Page(h, p)) \subseteq RowsOf(Page(h, p))'
              /\ \E q \in Nat : row \in RowsOf(Page(h, q))'
              /\ OnDisk(h)' = OnDisk(h)
  <2>1. FreshFile(h) /\ \A p \in Nat : Kinds(h, p) \cap {"leaf", "metadata"} = {}
    BY <1>12, <1>13 DEF RowsKept, FreshInv
  <2>2. HasDirectory(h)
    BY <2>1, FollowsKeeps DEF FreshFile, HasDirectory
  <2>3. PICK q : HeapGrew(h, row, q)
    BY <1>2, <2>2
  <2>4. q \in Nat
    BY <2>3 DEF HeapGrew
  <2>5. StoreType
    BY DEF StoreInv
  <2> QED BY <1>2, <2>1, <2>3, <2>4, <2>5, GrownFile
<1>14. FreshInv'
  <2> SUFFICES ASSUME NEW g \in fresh
               PROVE  /\ \A p \in Nat : Kinds(g, p)' \cap {"leaf", "metadata"} = {}
                      /\ g >= json.next_file_id => Clean(g)'
                      /\ Kept(g) => FreshFile(g)'
    BY <1>3, <1>10 DEF FreshInv
  <2>1. CASE g = h
    <3>1. ~(h >= json.next_file_id)
      BY <1>1, <1>3, NamedIds, NewFileIsClean DEF StoreInv, IsHeapOf
    <3> QED BY <1>13, <2>1, <3>1
  <2>2. CASE g # h
    <3>1. /\ Clean(g)' = Clean(g) /\ Pages(g)' = Pages(g)
          /\ \A p \in Nat : /\ Page(g, p)' = Page(g, p)
                            /\ DiskPage(g, p)' = DiskPage(g, p)
                            /\ Kinds(g, p)' = Kinds(g, p)
      BY <1>2, <1>11, <2>2 DEF Kinds
    <3>2. FreshFile(g) => FreshFile(g)'
      BY <3>1 DEF FreshFile
    <3> QED BY <3>1, <3>2 DEF RowsKept, FreshInv
  <2> QED BY <2>1, <2>2
<1>15. RowsInv'
  <2> SUFFICES ASSUME NEW m \in Names, NEW g \in fresh, Named(m, g)
               PROVE  RowsIn(m, g)'
    BY <1>3, <1>9 DEF RowsInv
  <2>1. RowsIn(m, g) /\ m \in DOMAIN tables /\ g = tables[m].file
    BY <1>3 DEF RowsKept, RowsInv, Named
  <2>2. CASE g = h
    <3>1. m = n
      BY <1>1, <2>1, <2>2, HeapIsNoIndex DEF IsHeapOf
    <3>2. committed'[n] \subseteq OnDisk(h)'
      BY <1>3, <1>13, <2>1, <2>2, <3>1 DEF RowsIn
    <3>3. \A p \in Nat : RowsOf(Page(h, p))' \subseteq inserted'[n]
      <4>1. \A p \in Nat : RowsOf(Page(h, p)) \subseteq inserted[n]
        BY <2>1, <2>2, <3>1 DEF RowsIn
      <4>2. \A p \in Nat : RowsOf(Page(h, p))' \subseteq RowsOf(Page(h, p)) \cup {row}
        BY <1>13, <2>2
      <4> QED BY <1>5, <4>1, <4>2
    <3>4. ASSUME NEW r \in inserted'[n], r \notin lost
          PROVE  \E p \in Nat : r \in RowsOf(Page(h, p))'
      <4>1. CASE r = row
        BY <1>13, <2>2, <4>1
      <4>2. CASE r # row
        <5>1. r \in inserted[n]
          BY <1>5, <4>2
        <5>2. \E p \in Nat : r \in RowsOf(Page(h, p))
          BY <2>1, <2>2, <3>1, <3>4, <5>1 DEF RowsIn
        <5>3. \A p \in Nat : RowsOf(Page(h, p)) \subseteq RowsOf(Page(h, p))'
          BY <1>13, <2>2
        <5> QED BY <5>2, <5>3
      <4> QED BY <4>1, <4>2
    <3> QED BY <1>3, <2>2, <3>1, <3>2, <3>3, <3>4 DEF RowsIn
  <2>3. CASE g # h
    <3>1. m # n /\ m \in DOMAIN inserted
      BY <1>1, <2>1, <2>3 DEF IsHeapOf, RowsKept, HistoryInv
    <3>2. \A p \in Nat : /\ Page(g, p)' = Page(g, p)
                         /\ DiskPage(g, p)' = DiskPage(g, p)
      BY <1>2, <1>11, <2>3
    <3>3. OnDisk(g)' = OnDisk(g)
      <4>1. \A p \in 1 .. DiskPage(g, 0).count - 1 : p \in Nat
        OBVIOUS
      <4>2. DiskPage(g, 0)' = DiskPage(g, 0)
        BY <3>2
      <4>3. \A p \in 1 .. DiskPage(g, 0).count - 1 : RowsOf(DiskPage(g, p))' = RowsOf(DiskPage(g, p))
        BY <3>2, <4>1 DEF RowsOf
      <4> QED BY <4>2, <4>3 DEF OnDisk
    <3> QED BY <1>3, <1>5, <2>1, <3>1, <3>2, <3>3 DEF RowsIn
  <2> QED BY <2>2, <2>3
<1> QED BY <1>2, <1>6, <1>8, <1>14, <1>15 DEF RowsKept
-----------------------------------------------------------------------------
RowsCatalogInv == StoreInv /\ (running => RowsKept)

LEMMA InitRows == Init => RowsCatalogInv
<1> SUFFICES ASSUME Init PROVE RowsCatalogInv
  OBVIOUS
<1>1. CatalogInv
  BY InitInv
<1>2. DOMAIN Empty = {}
  BY DEF Empty
<1>3. StoreType
  BY <1>2, CatalogAssumption DEF Init, StoreType, CatalogAssumption
<1>4. stmt.op = "none" /\ stmt.next = "none"
  BY DEF Init, NoStmt
<1>5. IdsInv
  BY <1>4 DEF IdsInv
<1>6. \A f : \A p \in Nat : Kinds(f, p) = {"zero"}
  <2>1. \A f : Pages(f) = <<>>
    BY <1>2 DEF Init, Pages
  <2>2. \A p \in Nat : ~(p < Len(<<>>))
    OBVIOUS
  <2> QED BY <1>2, <2>1, <2>2, PageFields DEF Init, Kinds, Page, DiskPage
<1>7. RowsKept
  BY <1>2, <1>6 DEF Init, RowsKept, HistoryInv, DataInv, FreshInv, RowsInv
<1> QED BY <1>1, <1>3, <1>5, <1>7 DEF RowsCatalogInv, StoreInv

(* The tree of a new index does not land in a table's file: page 1 of one  *)
(* is no leaf.                                                             *)
LEMMA TreesStayApart ==
  ASSUME StoreInv, RowsKept, NEW raises \in BOOLEAN, Build(raises)
  PROVE  stmt.file \notin fresh
<1> SUFFICES ASSUME stmt.file \in fresh PROVE FALSE
  OBVIOUS
<1>1. running /\ stmt.next = "build" /\ (Pages(stmt.file) = <<>> \/ Page(stmt.file, 1).kind = "leaf")
  BY DEF Build, At
<1>2. stmt.file >= json.next_file_id
  BY <1>1 DEF StoreInv, IdsInv
<1>3. FreshFile(stmt.file) /\ "leaf" \notin Kinds(stmt.file, 1)
  BY <1>2 DEF RowsKept, FreshInv, Kept
<1>4. Pages(stmt.file) # <<>>
  BY <1>3 DEF FreshFile
<1> QED BY <1>1, <1>3, <1>4 DEF Kinds

LEMMA RowsStep ==
  ASSUME RowsCatalogInv, [Next]_vars
  PROVE  RowsCatalogInv'
<1>1. CatalogInv'
  BY NextInv DEF RowsCatalogInv, StoreInv
<1>2. CASE UNCHANGED vars
  <2>1. StoreType' /\ Keeps /\ (running' => IdsInv')
    BY <1>2, StutterKeeps DEF RowsCatalogInv
  <2>2. running' => RowsKept'
    BY <1>1, <2>1, RowsStay DEF RowsCatalogInv, Keeps
  <2> QED BY <1>1, <2>1, <2>2 DEF RowsCatalogInv, StoreInv
<1>3. ASSUME StoreInv, RowsKept, running, StoreType', Keeps, IdsInv'
      PROVE  RowsCatalogInv'
  <2>1. RowsKept'
    BY <1>1, <1>3, RowsStay
  <2> QED BY <1>1, <1>3, <2>1 DEF RowsCatalogInv, StoreInv
<1>4. ASSUME StoreInv, StoreType', RowsKept', IdsInv'
      PROVE  RowsCatalogInv'
  BY <1>1, <1>4 DEF RowsCatalogInv, StoreInv
<1>5. StoreInv /\ (running => RowsKept)
  BY DEF RowsCatalogInv
<1>6. CASE \E n \in Names : CreateTable(n)
  <2>1. running
    BY <1>6 DEF CreateTable, Takes, Idle
  <2> QED BY <1>3, <1>5, <1>6, <2>1, CreateTableKeeps
<1>7. CASE \E n \in Names, c \in Cols : CreateIndex(n, c)
  <2>1. running
    BY <1>7 DEF CreateIndex, Takes, Idle
  <2> QED BY <1>3, <1>5, <1>7, <2>1, CreateIndexKeeps
<1>8. CASE \E n \in DOMAIN tables : DropTable(n)
  <2>1. running
    BY <1>8 DEF DropTable, Idle
  <2> QED BY <1>3, <1>5, <1>8, <2>1, DropTableKeeps
<1>9. CASE \E n \in DOMAIN tables : \E done \in SUBSET IndexFiles(n) : Insert(n, done)
  <2>1. running
    BY <1>9 DEF Insert, Idle
  <2> QED BY <1>4, <1>5, <1>9, <2>1, InsertKept
<1>10. CASE \E page \in DOMAIN dirty : WriteBack(page[1], page[2])
  <2>1. PICK page \in DOMAIN dirty : WriteBack(page[1], page[2])
    BY <1>10
  <2>2. page \in Nat \X Nat
    BY <1>5 DEF StoreInv, StoreType
  <2>3. page = <<page[1], page[2]>>
    BY <2>2
  <2>4. running
    BY <2>1 DEF WriteBack
  <2>5. PICK f, p : f = page[1] /\ p = page[2]
    OBVIOUS
  <2>6. <<f, p>> \in DOMAIN dirty /\ WriteBack(f, p)
    BY <2>1, <2>3, <2>5
  <2>7. StoreType' /\ Keeps /\ IdsInv'
    BY <1>5, <2>6, WriteBackKeeps
  <2> QED BY <1>3, <1>5, <2>4, <2>7
<1>11. CASE Works
  <2>1. CASE AllocateDirectory \/ TruncateJson \/ DumpJson \/ RemoveFile
    <3>1. running
      BY <2>1 DEF AllocateDirectory, TruncateJson, DumpJson, RemoveFile, At
    <3>2. StoreType' /\ Keeps /\ IdsInv'
      BY <1>5, <2>1, AllocateDirectoryKeeps, TruncateKeeps, DumpKeeps, RemoveFileKeeps
    <3> QED BY <1>3, <1>5, <3>1, <3>2
  <2>2. CASE \E raises \in BOOLEAN : Build(raises)
    <3>1. running
      BY <2>2 DEF Build, At
    <3>2. StoreType' /\ Keeps /\ IdsInv'
      BY <1>5, <2>2, <3>1, BuildKeeps, TreesStayApart
    <3> QED BY <1>3, <1>5, <3>1, <3>2
  <2>3. CASE FlushDirectory
    <3>1. running
      BY <2>3 DEF FlushDirectory, At
    <3> QED BY <1>4, <1>5, <2>3, <3>1, FlushDirectoryKept
  <2>4. CASE Flushed
    <3>1. running
      BY <2>4 DEF Flushed, At
    <3> QED BY <1>4, <1>5, <2>4, <3>1, FlushedKept
  <2> QED BY <1>11, <2>1, <2>2, <2>3, <2>4 DEF Works
<1>12. CASE Query
  <2>1. running
    BY <1>12 DEF Query, Idle
  <2> QED BY <1>3, <1>5, <1>12, <2>1, QueryKeeps
<1>13. CASE Restart
  <2>1. running
    BY <1>13 DEF Restart, Idle
  <2> QED BY <1>3, <1>5, <1>13, <2>1, RestartKeeps
<1>14. CASE Crash
  <2>1. running
    BY <1>14 DEF Crash
  <2>2. StoreType' /\ IdsInv'
    BY <1>5, <1>14, CrashStore
  <2>3. running' => RowsKept'
    BY <1>5, <1>14, <2>1, CrashKept
  <2> QED BY <1>1, <2>2, <2>3 DEF RowsCatalogInv, StoreInv
<1> QED BY <1>2, <1>6, <1>7, <1>8, <1>9, <1>10, <1>11, <1>12, <1>13, <1>14 DEF Next

LEMMA RowsInvariant == Spec => []RowsCatalogInv
<1>1. RowsCatalogInv /\ [Next]_vars => RowsCatalogInv'
  BY RowsStep
<1> QED BY <1>1, InitRows, PTL DEF Spec
-----------------------------------------------------------------------------
(* Ids stay within what was given out, and the pool holds pages only of    *)
(* files whose id was given, through restarts that load an older count.    *)
THEOREM CatalogTypeCorrect == Spec => []TypeOK
<1>1. RowsCatalogInv => TypeOK
  <2> SUFFICES ASSUME RowsCatalogInv PROVE TypeOK
    OBVIOUS
  <2>1. StoreType /\ Shapes
    BY DEF RowsCatalogInv, StoreInv, CatalogInv
  <2>2. FilesOf(tables) \cup FilesOf(json.tables) \subseteq Nat
    BY <2>1, FilesOfAreNumbers DEF Shapes
  <2>3. next_file_id \in 0 .. MaxFiles /\ json.next_file_id \in 0 .. MaxFiles
    BY <2>1, CatalogAssumption DEF StoreType, CatalogAssumption
  <2>4. \A page \in DOMAIN dirty : page[1] < next_file_id /\ page[2] \in Nat
    BY <2>1 DEF StoreType
  <2> QED BY <2>1, <2>2, <2>3, <2>4 DEF TypeOK, StoreType, Shapes, IsTables
<1> QED BY <1>1, RowsInvariant, PTL

(* A scan of a table in a file of its own finds every row that was flushed *)
(* while the directory counted all pages, and none that was not inserted   *)
(* into it (HeapFile.scan, Table.insert, DiskManager.write_page, main.py's *)
(* flush_all), whatever the order in which pages reach their files and     *)
(* whenever the process dies.                                              *)
THEOREM CommittedRowsSurvive == Spec => []RowsSurvive
<1>1. RowsCatalogInv => RowsSurvive
  <2> SUFFICES ASSUME RowsCatalogInv, running, NEW n \in DOMAIN tables, tables[n].file \in fresh
               PROVE  /\ Scans(tables[n].file)
                      /\ committed[n] \subseteq Visible(tables[n].file)
                      /\ Visible(tables[n].file) \subseteq inserted[n]
    BY DEF RowsSurvive
  <2>1. PICK f : f = tables[n].file
    OBVIOUS
  <2>2. /\ StoreType /\ RowsKept /\ n \in Names /\ f \in fresh /\ Named(n, f)
    BY <2>1 DEF RowsCatalogInv, StoreInv, CatalogInv, Shapes, IsTables, Named
  <2>3. /\ RowsIn(n, f) /\ FreshFile(f)
        /\ \A p \in Nat : Kinds(f, p) \cap {"leaf", "metadata"} = {}
    BY <2>2 DEF RowsKept, RowsInv, FreshInv, Kept
  <2>4. /\ \A p \in Counted(f) : p \in Nat
        /\ Visible(f) = UNION {RowsOf(Page(f, p)) : p \in Counted(f)}
    BY <2>2, VisibleRows DEF Counted
  <2>5. Scans(f)
    BY <2>3, <2>4 DEF Scans, Kinds
  <2>6. Visible(f) \subseteq inserted[n]
    BY <2>3, <2>4 DEF RowsIn
  <2>7. OnDisk(f) \subseteq Visible(f)
    <3>1. /\ Page(f, 0).kind = "directory" /\ DiskPage(f, 0).kind = "directory"
          /\ Follows(Page(f, 0), DiskPage(f, 0))
      BY <2>3, FollowsKeeps DEF FreshFile
    <3>2. Page(f, 0).count \in Nat /\ DiskPage(f, 0).count \in Nat
      BY <2>2, <3>1, StoredPages, PageKinds
    <3>3. DiskPage(f, 0).count <= Page(f, 0).count
      BY <3>1, <3>2 DEF Follows
    <3>4. Counted(f) = 1 .. Page(f, 0).count - 1
      BY <3>1 DEF Counted, DirectoryOf
    <3>5. \A p \in 1 .. DiskPage(f, 0).count - 1 : p \in Counted(f)
      BY <3>2, <3>3, <3>4
    <3>6. \A p \in Nat : RowsOf(DiskPage(f, p)) \subseteq RowsOf(Page(f, p))
      BY <2>3, FollowsKeeps DEF FreshFile
    <3> QED BY <2>4, <3>5, <3>6 DEF OnDisk
  <2> QED BY <2>1, <2>3, <2>5, <2>6, <2>7 DEF RowsIn
<1> QED BY <1>1, RowsInvariant, PTL
-----------------------------------------------------------------------------
(***************************************************************************)
(* Heap files and indexes of Catalog agree while no process has died: the  *)
(* trees that CREATE INDEX builds, in new files and in files that a failed *)
(* statement has left, and that INSERT keeps.                              *)
(***************************************************************************)

(* The inductive invariant for the indexes, while no process has died.  An *)
(* id that catalog.json has not counted belongs to the statement that      *)
(* makes its file, or its file is unused, or it is the empty tree that a   *)
(* failed CREATE INDEX left;                                               *)
Saving(f) == stmt.file = f /\ stmt.next \in {"truncate", "dump"}
Making(f) == stmt.file = f /\ stmt.next \in {"directory", "truncate", "dump"}
Untouched(f) == Pages(f) = <<>> /\ Clean(f)
EmptyTree(f) ==
  Pages(f) # <<>> /\ Page(f, 0) = Metadata /\ Page(f, 1) = Leaf(<<>>)
NewFilesInv ==
  /\ \A f \in fresh : f >= json.next_file_id => Saving(f)
  /\ \A f \in Nat : f >= json.next_file_id => Making(f) \/ Untouched(f) \/ EmptyTree(f)

(* the directory of a table's own file counts every page, so that the page *)
(* an insert fills is one that a scan reads;                               *)
HeapCounts(f) == InStep(f) /\ DirectoryOf(f).recorded \subseteq Counted(f)
Lists(i, f) ==
  /\ IsTree(i)
  /\ Len(Page(i, 1).entries) = Cardinality(Visible(f))
  /\ ToSet(Page(i, 1).entries) = Visible(f)
ListedThere(f, n) == HeapCounts(f) /\ \A i \in IndexFiles(n) : Lists(i, f)
ListedRows(n) == tables[n].file \in fresh => ListedThere(tables[n].file, n)

(* and a page that was reported dirty is no page of zeros.                 *)
WrittenInv == \A x \in DOMAIN dirty : dirty[x].kind # "zero"
IndexInv ==
  running /\ WrittenInv /\ NewFilesInv /\ \A n \in DOMAIN tables : ListedRows(n)

(* What most steps do to a file: its pages read the same, and it grows     *)
(* only by pages that the pool has.                                        *)
Undisturbed(f) ==
  /\ \A p \in Nat : Page(f, p)' = Page(f, p)
  /\ Clean(f) => Clean(f)'
  /\ Len(Pages(f))' >= Len(Pages(f))
  /\ Clean(f) \/ HasDirectory(f) => Len(Pages(f))' = Len(Pages(f))

LEMMA SameHeap ==
  ASSUME StoreType, NEW f, \A p \in Nat : Page(f, p)' = Page(f, p)
  PROVE  /\ DirectoryOf(f)' = DirectoryOf(f) /\ Counted(f)' = Counted(f)
         /\ Visible(f)' = Visible(f)
<1>1. DirectoryOf(f)' = DirectoryOf(f)
  BY DEF DirectoryOf
<1>2. Counted(f)' = Counted(f)
  BY <1>1 DEF Counted
<1>3. \A p \in Counted(f) : p \in Nat
  BY VisibleRows DEF Counted
<1>4. Visible(f)' = Visible(f)
  BY <1>2, <1>3 DEF Visible
<1> QED BY <1>1, <1>2, <1>4

LEMMA FreshTable ==
  ASSUME StoreInv, RowsKept, NEW n \in DOMAIN tables, tables[n].file \in fresh
  PROVE  /\ HasDirectory(tables[n].file) /\ FreshFile(tables[n].file)
         /\ \A p \in Nat : Kinds(tables[n].file, p) \cap {"leaf", "metadata"} = {}
         /\ Visible(tables[n].file) \subseteq inserted[n]
<1>1. PICK f : f = tables[n].file
  OBVIOUS
<1>2. n \in Names /\ Named(n, f) /\ Kept(f)
  BY <1>1 DEF StoreInv, CatalogInv, Shapes, IsTables, Named, Kept
<1>3. /\ FreshFile(f) /\ RowsIn(n, f)
      /\ \A p \in Nat : Kinds(f, p) \cap {"leaf", "metadata"} = {}
  BY <1>1, <1>2 DEF RowsKept, FreshInv, RowsInv
<1>4. HasDirectory(f)
  <2>1. Page(f, 0).kind = "directory"
    BY <1>3 DEF FreshFile, Follows
  <2> QED BY <1>3, <2>1 DEF FreshFile, HasDirectory
<1>5. Visible(f) \subseteq inserted[n]
  <2>1. /\ \A p \in Counted(f) : p \in Nat
        /\ Visible(f) = UNION {RowsOf(Page(f, p)) : p \in Counted(f)}
    BY VisibleRows DEF Counted, StoreInv
  <2> QED BY <1>3, <2>1 DEF RowsIn
<1> QED BY <1>1, <1>3, <1>4, <1>5

LEMMA ListedWhere ==
  ASSUME NEW n, NEW f, f = tables'[n].file, ListedThere(f, n)'
  PROVE  ListedRows(n)'
<1>1. /\ DirectoryOf(tables[n].file)' = DirectoryOf(f)'
      /\ Counted(tables[n].file)' = Counted(f)' /\ InStep(tables[n].file)' = InStep(f)'
  BY DEF DirectoryOf, Counted, Page, Pages, InStep
<1>2. \A p : Page(tables[n].file, p)' = Page(f, p)'
  BY DEF Page, Pages
<1>3. Visible(tables[n].file)' = Visible(f)'
  BY <1>1, <1>2 DEF Visible
<1> QED BY <1>1, <1>3 DEF ListedThere, ListedRows, HeapCounts, Lists

LEMMA StillListed ==
  ASSUME StoreInv, RowsKept, NEW n \in DOMAIN tables, ListedRows(n),
         n \in DOMAIN tables', tables'[n] = tables[n],
         tables[n].file \in fresh' => tables[n].file \in fresh,
         tables[n].file \in fresh =>
           \A f \in {tables[n].file} \cup IndexFiles(n) : Undisturbed(f)
  PROVE  ListedRows(n)'
<1> SUFFICES ASSUME tables[n].file \in fresh PROVE ListedRows(n)'
  BY DEF ListedRows
<1>0. StoreType /\ HasDirectory(tables[n].file)
  BY FreshTable DEF StoreInv
<1>1. PICK f : f = tables[n].file
  OBVIOUS
<1>2. /\ f = tables'[n].file /\ IndexFiles(n)' = IndexFiles(n)
  BY <1>1 DEF IndexFiles
<1>3. Undisturbed(f) /\ HasDirectory(f)
  BY <1>0, <1>1
<1>4. /\ DirectoryOf(f)' = DirectoryOf(f) /\ Counted(f)' = Counted(f)
      /\ Visible(f)' = Visible(f) /\ Len(Pages(f))' = Len(Pages(f))
  BY <1>0, <1>3, SameHeap DEF Undisturbed
<1>5. HeapCounts(f) /\ \A i \in IndexFiles(n) : Lists(i, f)
  BY <1>1 DEF ListedRows, ListedThere
<1>6. HeapCounts(f)'
  BY <1>4, <1>5 DEF HeapCounts, InStep
<1>7. ASSUME NEW i \in IndexFiles(n) PROVE Lists(i, f)'
  <2>1. Page(i, 0)' = Page(i, 0) /\ Page(i, 1)' = Page(i, 1)
    BY DEF Undisturbed
  <2> QED BY <1>4, <1>5, <2>1 DEF Lists, IsTree
<1> QED BY <1>2, <1>6, <1>7, ListedWhere DEF ListedThere

(* Files of tables, and files that catalog.json has not counted, but those *)
(* of the statement in progress.                                           *)
Concerns(f) == f \in FilesOf(tables) \/ (f >= json.next_file_id /\ ~Making(f))

LEMMA IndexesStay ==
  ASSUME StoreInv, StoreType', RowsKept, IndexInv, running', UNCHANGED fresh, WrittenInv',
         json.next_file_id \in Nat, json.next_file_id' \in Nat,
         json.next_file_id' >= json.next_file_id,
         \A n \in DOMAIN tables' : n \in DOMAIN tables /\ tables'[n] = tables[n],
         \A f : Saving(f) /\ f >= json'.next_file_id => Saving(f)',
         \A f : Making(f) /\ f >= json'.next_file_id => Making(f)',
         \A f : Concerns(f) => Undisturbed(f) \/ (Making(f)' /\ f \notin FilesOf(tables))
  PROVE  IndexInv'
<1>1. ASSUME NEW f \in fresh', f >= json.next_file_id' PROVE Saving(f)'
  <2>1. f \in Nat /\ f \in fresh
    BY DEF RowsKept, HistoryInv
  <2>2. f >= json.next_file_id
    BY <1>1, <2>1
  <2> QED BY <1>1, <2>1, <2>2 DEF IndexInv, NewFilesInv
<1>2. ASSUME NEW f \in Nat, f >= json.next_file_id'
      PROVE  Making(f)' \/ Untouched(f)' \/ EmptyTree(f)'
  <2>1. f >= json.next_file_id
    BY <1>2
  <2>2. CASE Making(f)
    BY <1>2, <2>2
  <2>3. CASE ~Making(f) /\ ~Making(f)'
    <3>1. Undisturbed(f)
      BY <2>1, <2>3 DEF Concerns
    <3>2. CASE Untouched(f)
      <4>1. Clean(f)' /\ Len(Pages(f))' = Len(Pages(f))
        BY <3>1, <3>2 DEF Undisturbed, Untouched
      <4>2. Pages(f)' \in Seq(PageSet)
        BY DEF StoreType, Pages
      <4> QED BY <4>1, <4>2, <3>2 DEF Untouched
    <3>3. CASE EmptyTree(f)
      BY <3>1, <3>3 DEF EmptyTree, Undisturbed
    <3> QED BY <2>1, <2>3, <3>2, <3>3 DEF IndexInv, NewFilesInv
  <2> QED BY <2>2, <2>3
<1>3. ASSUME NEW n \in DOMAIN tables' PROVE ListedRows(n)'
  <2>1. n \in DOMAIN tables /\ tables'[n] = tables[n] /\ ListedRows(n)
    BY DEF IndexInv
  <2>2. \A f \in {tables[n].file} \cup IndexFiles(n) : f \in FilesOf(tables)
    BY <2>1, NamedIds
  <2>3. \A f \in {tables[n].file} \cup IndexFiles(n) : Undisturbed(f)
    BY <2>2 DEF Concerns
  <2> QED BY <2>1, <2>3, StillListed
<1> QED BY <1>1, <1>2, <1>3 DEF IndexInv, NewFilesInv

(* Steps that leave the files and the pool alone.                          *)
LEMMA QuietIndexes ==
  ASSUME StoreInv, StoreType', RowsKept, IndexInv, running', UNCHANGED <<disk, dirty, fresh>>,
         json.next_file_id' >= json.next_file_id,
         \A n \in DOMAIN tables' : n \in DOMAIN tables /\ tables'[n] = tables[n],
         \A f : Saving(f) /\ f >= json'.next_file_id => Saving(f)',
         \A f : Making(f) /\ f >= json'.next_file_id => Making(f)'
  PROVE  IndexInv'
<1>1. json.next_file_id \in Nat /\ json.next_file_id' \in Nat
  BY CatalogAssumption DEF StoreInv, StoreType, CatalogAssumption
<1>2. WrittenInv'
  BY DEF IndexInv, WrittenInv
<1>3. ASSUME NEW f PROVE Undisturbed(f)
  <2>1. Pages(f)' = Pages(f) /\ Clean(f)' = Clean(f)
    BY DEF Pages, Clean
  <2>2. \A p \in Nat : Page(f, p)' = Page(f, p)
    BY DEF Page, Pages
  <2>3. Len(Pages(f)) \in Nat
    BY StoredPages DEF StoreInv
  <2> QED BY <2>1, <2>2, <2>3 DEF Undisturbed
<1> QED BY <1>1, <1>2, <1>3, IndexesStay

(* Where a statement is in its file.                                       *)
LEMMA NoFileAtRest ==
  ASSUME stmt.next \in {"none", "flush", "find_leaf", "allocate", "build", "remove"}
  PROVE  \A f : ~Saving(f) /\ ~Making(f)
BY DEF Saving, Making

(* One lemma per kind of step.                                             *)
LEMMA QuietSteps ==
  ASSUME StoreInv, StoreType', RowsKept, IndexInv,
         \/ \E n \in Names : CreateTable(n)
         \/ \E n \in Names, c \in Cols : CreateIndex(n, c)
         \/ \E n \in DOMAIN tables : DropTable(n)
         \/ Query \/ Flushed \/ Restart \/ UNCHANGED vars
  PROVE  IndexInv'
<1>1. /\ running' /\ UNCHANGED <<disk, dirty, fresh, json>>
      /\ \/ stmt.next \in {"none", "flush"}
         \/ UNCHANGED stmt
  <2>1. /\ UNCHANGED <<running, disk, dirty, fresh, json>>
        /\ stmt = NoStmt \/ stmt.next = "flush" \/ UNCHANGED stmt
    <3>1. CASE \E n \in Names : CreateTable(n)
      BY <3>1 DEF CreateTable, Takes, Idle, files, history
    <3>2. CASE \E n \in Names, c \in Cols : CreateIndex(n, c)
      BY <3>2 DEF CreateIndex, Takes, Idle, files, history
    <3>3. CASE \E n \in DOMAIN tables : DropTable(n)
      BY <3>3 DEF DropTable, Idle, files, history
    <3>4. CASE Query \/ Flushed \/ Restart
      BY <3>4 DEF Query, Flushed, Restart, Idle, At, files, history
    <3>5. CASE UNCHANGED vars
      BY <3>5 DEF vars, files, history
    <3> QED BY <3>1, <3>2, <3>3, <3>4, <3>5
  <2>2. NoStmt.next = "none"
    BY DEF NoStmt
  <2> QED BY <2>1, <2>2 DEF IndexInv
<1>2. \A n \in DOMAIN tables' : n \in DOMAIN tables /\ tables'[n] = tables[n]
  <2>1. CASE \E n \in DOMAIN tables : DropTable(n)
    BY <2>1 DEF DropTable, Without
  <2>2. CASE Restart
    BY <2>2 DEF Restart, Loads, Idle, NoStmt, StoreInv, CatalogInv, JsonInv
  <2>3. CASE UNCHANGED tables
    BY <2>3
  <2> QED BY <2>1, <2>2, <2>3 DEF CreateTable, CreateIndex, Query, Flushed, vars, memory
<1>3. json.next_file_id' >= json.next_file_id
  BY <1>1, NewFileIsClean DEF StoreInv
<1>4. (\A f : ~Saving(f) /\ ~Making(f)) \/ UNCHANGED stmt
  BY <1>1, NoFileAtRest
<1>5. \A f : (Saving(f) => Saving(f)') /\ (Making(f) => Making(f)')
  BY <1>4 DEF Saving, Making
<1> QED BY <1>1, <1>2, <1>3, <1>5, QuietIndexes

(* Steps of a statement that leave tables alone.                           *)
LEMMA SavingSteps ==
  ASSUME StoreInv, StoreType', RowsKept, IndexInv, TruncateJson \/ DumpJson
  PROVE  IndexInv'
<1>0. PICK h : h = stmt.file
  OBVIOUS
<1>1. /\ running' /\ UNCHANGED <<disk, dirty, fresh, tables>> /\ stmt.next \in {"truncate", "dump"}
  BY DEF TruncateJson, DumpJson, At, files, history, memory, IndexInv
<1>2. /\ h \in Nat /\ h < next_file_id /\ stmt.op # "none" /\ running
      /\ next_file_id \in Nat /\ json.next_file_id \in Nat /\ json.next_file_id <= next_file_id
  BY <1>0, <1>1, AtWork DEF IndexInv
<1>3. CASE TruncateJson
  <2>1. Moves("dump") /\ json'.next_file_id = json.next_file_id
    BY <1>3, Continued DEF TruncateJson, At, StoreInv, CatalogInv, Shapes
  <2>2. \A f : (Saving(f) => Saving(f)') /\ (Making(f) => Making(f)')
    BY <2>1 DEF Saving, Making, Moves
  <2> QED BY <1>1, <1>2, <2>1, <2>2, QuietIndexes
<1>4. CASE DumpJson
  <2>1. json'.next_file_id = next_file_id
    BY <1>4 DEF DumpJson, Dumped
  <2>2. \A f : Saving(f) \/ Making(f) => ~(f >= json'.next_file_id)
    BY <1>0, <1>2, <2>1 DEF Saving, Making
  <2> QED BY <1>1, <1>2, <2>1, <2>2, QuietIndexes
<1> QED BY <1>3, <1>4

LEMMA AllocatedIndexes ==
  ASSUME StoreInv, StoreType', RowsKept, IndexInv, AllocateDirectory
  PROVE  IndexInv'
<1>0. PICK h : h = stmt.file
  OBVIOUS
<1>1. /\ running /\ running' /\ stmt.next = "allocate" /\ Continues /\ disk' = Allocated(h, 1)
      /\ UNCHANGED <<tables, json, dirty, fresh>>
  BY <1>0 DEF AllocateDirectory, At, memory, history, IndexInv
<1>2. Moves("directory")
  BY <1>1, Continued DEF StoreInv
<1>3. /\ StoreType /\ h \in Nat /\ json.next_file_id \in Nat /\ h \notin FilesOf(tables)
  BY <1>0, <1>1, AtWork DEF StoreInv, CatalogInv, StatementInv
<1>4. /\ \A g : g # h => Pages(g)' = Pages(g)
      /\ \A g : \A p \in Nat : DiskPage(g, p)' = DiskPage(g, p)
  BY <1>1, <1>3, AllocatedPages
<1>5. WrittenInv' /\ \A f : Clean(f)' = Clean(f)
  BY <1>1 DEF IndexInv, WrittenInv, Clean
<1>6. \A g : \A p \in Nat : Page(g, p)' = Page(g, p)
  BY <1>1, <1>4 DEF Page, DiskPage
<1>7. \A g : g # h => Undisturbed(g)
  BY <1>3, <1>4, <1>5, <1>6, StoredPages DEF Undisturbed
<1>8. \A f : ~Saving(f) /\ ~Making(f)
  BY <1>1, NoFileAtRest
<1>9. Making(h)'
  BY <1>0, <1>2 DEF Making, Moves
<1>10. json.next_file_id' >= json.next_file_id /\ json.next_file_id' \in Nat
  BY <1>1, <1>3
<1> QED BY <1>1, <1>3, <1>5, <1>7, <1>8, <1>9, <1>10, IndexesStay

LEMMA RemovedIndexes ==
  ASSUME StoreInv, StoreType', RowsKept, IndexInv, RemoveFile
  PROVE  IndexInv'
<1>0. PICK h : h = stmt.file
  OBVIOUS
<1>1. /\ running /\ running' /\ stmt.next = "remove" /\ disk' = Without(disk, h)
      /\ UNCHANGED <<tables, json, dirty, fresh>>
  BY <1>0 DEF RemoveFile, At, memory, history, IndexInv
<1>2. /\ StoreType /\ h \in Nat /\ json.next_file_id \in Nat /\ h \notin FilesOf(tables)
      /\ h < json.next_file_id
  BY <1>0, <1>1, AtWork DEF StoreInv, CatalogInv, StatementInv, IdsInv
<1>3. \A g : g # h => Pages(g)' = Pages(g)
  BY <1>1 DEF Pages, Without
<1>4. WrittenInv' /\ \A f : Clean(f)' = Clean(f)
  BY <1>1 DEF IndexInv, WrittenInv, Clean
<1>5. \A g : g # h => \A p \in Nat : Page(g, p)' = Page(g, p)
  BY <1>1, <1>3 DEF Page
<1>6. \A g : g # h => Undisturbed(g)
  BY <1>2, <1>3, <1>4, <1>5, StoredPages DEF Undisturbed
<1>7. \A f : ~Saving(f) /\ ~Making(f)
  BY <1>1, NoFileAtRest
<1>8. \A f : Concerns(f) => f # h
  BY <1>2 DEF Concerns
<1>9. json.next_file_id' >= json.next_file_id /\ json.next_file_id' \in Nat
  BY <1>1, <1>2
<1> QED BY <1>1, <1>2, <1>4, <1>6, <1>7, <1>8, <1>9, IndexesStay

LEMMA WrittenIndexes ==
  ASSUME StoreInv, StoreType', RowsKept, IndexInv, NEW f, NEW p, <<f, p>> \in DOMAIN dirty,
         WriteBack(f, p)
  PROVE  IndexInv'
<1>1. /\ running' /\ disk' = WrittenPage(f, p, dirty[<<f, p>>])
      /\ DOMAIN dirty' = DOMAIN dirty \ {<<f, p>>}
      /\ \A x \in DOMAIN dirty' : dirty'[x] = dirty[x]
      /\ UNCHANGED <<tables, json, stmt, fresh>>
  BY DEF WriteBack, Without, memory, history
<1>2. /\ StoreType /\ p \in Nat /\ json.next_file_id \in Nat
      /\ dirty[<<f, p>>] \in PageSet /\ dirty[<<f, p>>] = Page(f, p)
  BY NewFileIsClean DEF StoreInv, StoreType, Page
<1>3. PICK page : page = dirty[<<f, p>>]
  OBVIOUS
<1>4. page \in PageSet /\ page = Page(f, p) /\ disk' = WrittenPage(f, p, page)
      /\ page.kind # "zero"
  BY <1>1, <1>2, <1>3 DEF IndexInv, WrittenInv
<1>5. /\ \A g : g # f => Pages(g)' = Pages(g)
      /\ Len(Pages(f))' = IF p < Len(Pages(f)) THEN Len(Pages(f)) ELSE p + 1
      /\ DiskPage(f, p)' = page
      /\ \A g : \A q \in Nat : <<g, q>> # <<f, p>> => DiskPage(g, q)' = DiskPage(g, q)
  BY <1>2, <1>4, WrittenPages
<1>6. ASSUME NEW g, NEW q \in Nat PROVE Page(g, q)' = Page(g, q)
  <2>1. /\ Page(g, q) = IF <<g, q>> \in DOMAIN dirty THEN dirty[<<g, q>>]
                        ELSE DiskPage(g, q)
        /\ Page(g, q)' = IF <<g, q>> \in DOMAIN dirty' THEN dirty'[<<g, q>>]
                         ELSE DiskPage(g, q)'
    BY <1>2, StoredPages DEF Page, DiskPage
  <2>2. CASE <<g, q>> = <<f, p>>
    BY <1>1, <1>4, <1>5, <2>1, <2>2
  <2>3. CASE <<g, q>> # <<f, p>>
    BY <1>1, <1>5, <2>1, <2>3
  <2> QED BY <2>2, <2>3
<1>7. WrittenInv' /\ \A g : Clean(g) => Clean(g)'
  BY <1>1 DEF IndexInv, WrittenInv, Clean
<1>8. ~Clean(f)
  BY <1>2 DEF Clean
<1>9. HasDirectory(f) => p < Len(Pages(f))
  <2>1. Len(Pages(f)) \in Nat
    BY <1>2, StoredPages
  <2> QED BY <1>2, <1>4, <2>1, PageFields DEF HasDirectory
<1>10. ASSUME NEW g PROVE Undisturbed(g)
  <2>1. Len(Pages(g)) \in Nat
    BY <1>2, StoredPages
  <2>2. CASE g # f
    BY <1>5, <1>6, <1>7, <2>1, <2>2 DEF Undisturbed
  <2>3. CASE g = f
    BY <1>2, <1>5, <1>6, <1>7, <1>8, <1>9, <2>1, <2>3 DEF Undisturbed
  <2> QED BY <2>2, <2>3
<1>11. json.next_file_id' >= json.next_file_id /\ json.next_file_id' \in Nat
  BY <1>1, <1>2
<1>12. \A g : Saving(g)' = Saving(g) /\ Making(g)' = Making(g)
  BY <1>1 DEF Saving, Making
<1> QED BY <1>1, <1>2, <1>7, <1>10, <1>11, <1>12, IndexesStay

LEMMA FlushedDirectoryIndexes ==
  ASSUME StoreInv, StoreType', RowsKept, IndexInv, FlushDirectory
  PROVE  IndexInv'
<1>0. PICK f, n, p : NewDirectory(f, n, p)
  BY DEF NewDirectory
<1>1. /\ running /\ running' /\ stmt.next = "directory" /\ Continues
      /\ UNCHANGED <<json, dirty>>
      /\ fresh' = IF p = 0 THEN fresh \cup {f} ELSE fresh
  BY <1>0 DEF FlushDirectory, NewDirectory, At, IndexInv
<1>2. stmt.file = f /\ p = Len(Pages(f)) - 1
  BY <1>0 DEF NewDirectory
<1>3. /\ p \in Nat /\ f \in Nat /\ n \in Names
      /\ Len(Pages(f))' = Len(Pages(f)) /\ Clean(f) /\ f >= json.next_file_id
      /\ DiskPage(f, p)' = Directory(1, {})
      /\ \A g : g # f => Pages(g)' = Pages(g)
      /\ \A g : \A q \in Nat : <<g, q>> # <<f, p>> => Page(g, q)' = Page(g, q)
      /\ \A q \in Nat : Page(f, q)' = DiskPage(f, q)'
      /\ tables' = With(tables, n, [file |-> f, indices |-> Empty])
      /\ n \notin DOMAIN tables /\ f \notin FilesOf(tables)
  BY <1>0, FlushDirectoryStore
<1>4. Moves("truncate")
  BY <1>1, Continued DEF StoreInv
<1>5. Saving(f)' /\ Making(f)' /\ \A g : g # f => ~Making(g) /\ ~Saving(g)
  BY <1>1, <1>2, <1>4 DEF Making, Saving, Moves
<1>6. f \notin fresh
  BY <1>1, <1>3 DEF IndexInv, NewFilesInv, Saving
<1>7. WrittenInv' /\ \A g : Clean(g)' = Clean(g)
  BY <1>1 DEF IndexInv, WrittenInv, Clean
<1>8. \A g : g # f => Undisturbed(g)
  <2>1. \A g : Len(Pages(g)) \in Nat
    BY StoredPages DEF StoreInv
  <2> QED BY <1>3, <1>7, <2>1 DEF Undisturbed
<1>9. NewFilesInv'
  <2>1. \A g \in fresh' : g # f => g \in fresh
    BY <1>1
  <2>2. \A g \in fresh' : g >= json'.next_file_id => Saving(g)'
    BY <1>1, <1>5, <2>1 DEF IndexInv, NewFilesInv
  <2>3. ASSUME NEW g \in Nat, g >= json'.next_file_id
        PROVE  Making(g)' \/ Untouched(g)' \/ EmptyTree(g)'
    <3>1. CASE g = f
      BY <1>5, <3>1
    <3>2. CASE g # f
      <4>1. Untouched(g) \/ EmptyTree(g)
        BY <1>1, <1>5, <2>3, <3>2 DEF IndexInv, NewFilesInv
      <4> QED BY <1>3, <1>7, <1>8, <3>2, <4>1 DEF Untouched, EmptyTree, Undisturbed
    <3> QED BY <3>1, <3>2
  <2> QED BY <2>2, <2>3 DEF NewFilesInv
<1>10. ASSUME NEW m \in DOMAIN tables, m # n PROVE ListedRows(m)'
  <2>1. m \in DOMAIN tables' /\ tables'[m] = tables[m]
    BY <1>3, <1>10 DEF With
  <2>2. \A g \in {tables[m].file} \cup IndexFiles(m) : g # f
    BY <1>3, NamedIds
  <2>3. tables[m].file \in fresh' => tables[m].file \in fresh
    BY <1>1, <2>2
  <2>4. ListedRows(m)
    BY DEF IndexInv
  <2> QED BY <1>8, <2>1, <2>2, <2>3, <2>4, StillListed
<1>11. ListedRows(n)'
  <2>1. tables'[n].file = f /\ DOMAIN tables'[n].indices = {} /\ n \in DOMAIN tables'
    BY <1>3 DEF With, Empty
  <2>2. IndexFiles(n)' = {}
    BY <2>1 DEF IndexFiles
  <2>3. CASE p = 0
    <3>1. Page(f, 0)' = Directory(1, {}) /\ Len(Pages(f))' = 1
      <4>1. Len(Pages(f)) \in Nat
        BY StoredPages DEF StoreInv
      <4> QED BY <1>2, <1>3, <2>3, <4>1
    <3>2. DirectoryOf(f)' = Directory(1, {})
      BY <3>1, PageFields DEF DirectoryOf
    <3>3. InStep(f)' /\ DirectoryOf(f)'.recorded = {}
      BY <3>1, <3>2, PageFields DEF InStep
    <3>4. HeapCounts(f)'
      BY <3>3 DEF HeapCounts
    <3>5. ListedThere(f, n)'
      BY <2>2, <3>4 DEF ListedThere
    <3> QED BY <2>1, <3>5, ListedWhere
  <2>4. CASE p # 0
    BY <1>1, <1>6, <2>1, <2>4 DEF ListedRows
  <2> QED BY <2>3, <2>4
<1>12. DOMAIN tables' = DOMAIN tables \cup {n}
  BY <1>3 DEF With
<1> QED BY <1>1, <1>3, <1>7, <1>9, <1>10, <1>11, <1>12 DEF IndexInv

(* A new index lists the rows of its table, in a file that is a tree from  *)
(* its first page on, or was left by a CREATE INDEX that raised.           *)
BuiltIn(f, n, entries) ==
  /\ f = stmt.file /\ n = stmt.name
  /\ entries \in Seq(Nat) /\ dirty' = Over(NewTree(f, entries), dirty)
  /\ n \in DOMAIN tables => \/ entries = <<>> /\ stmt' = NoStmt
                            \/ entries = SetToSeq(Visible(tables[n].file))

LEMMA BuiltTree ==
  ASSUME StoreInv, StoreType', RowsKept, IndexInv, NEW raises \in BOOLEAN, Build(raises),
         NEW f, NEW n, NEW entries, BuiltIn(f, n, entries)
  PROVE  /\ f \in Nat /\ f >= json.next_file_id /\ f \notin FilesOf(tables)
         /\ WrittenInv' /\ Pages(f)' # <<>>
         /\ Page(f, 0)' = Metadata /\ Page(f, 1)' = Leaf(entries)
         /\ \A g : g # f => Undisturbed(g)
<1>1. /\ running /\ stmt.next = "build" /\ stmt.file = f /\ disk' = Allocated(f, 2)
      /\ Pages(f) = <<>> \/ Page(f, 1).kind = "leaf"
      /\ entries \in Seq(Nat) /\ dirty' = Over(NewTree(f, entries), dirty)
  BY DEF Build, At, BuiltIn
<1>2. /\ StoreType /\ f \in Nat /\ f >= json.next_file_id /\ f \notin FilesOf(tables)
  BY <1>1, AtWork DEF StoreInv, IdsInv, CatalogInv, StatementInv
<1>3. Untouched(f) \/ EmptyTree(f)
  BY <1>1, <1>2, NoFileAtRest DEF IndexInv, NewFilesInv
<1>4. NewRoot(f) = <<>>
  BY <1>3, PageFields DEF NewRoot, Untouched, EmptyTree
<1>5. /\ DOMAIN dirty' = DOMAIN dirty \cup {<<f, 0>>, <<f, 1>>}
      /\ \A x \in DOMAIN dirty' \ {<<f, 0>>, <<f, 1>>} : dirty'[x] = dirty[x]
      /\ dirty'[<<f, 0>>] = Metadata
      /\ dirty'[<<f, 1>>] = Leaf(<<>> \o entries)
  <2>1. /\ DOMAIN dirty' = DOMAIN dirty \cup {<<f, 0>>, <<f, 1>>}
        /\ \A x \in DOMAIN dirty' \ {<<f, 0>>, <<f, 1>>} : dirty'[x] = dirty[x]
        /\ dirty'[<<f, 0>>] = Metadata
        /\ dirty'[<<f, 1>>] = Leaf(NewRoot(f) \o entries)
    BY <1>1, <1>2, NewTreePages
  <2> QED BY <1>4, <2>1
<1>6. <<>> \o entries = entries
  BY <1>1
<1>7. /\ \A g : g # f => Pages(g)' = Pages(g)
      /\ Len(Pages(f))' = Len(Pages(f)) + 2
      /\ \A g : \A p \in Nat : DiskPage(g, p)' = DiskPage(g, p)
  BY <1>1, <1>2, AllocatedPages
<1>8. Page(f, 0)' = Metadata /\ Page(f, 1)' = Leaf(entries)
  BY <1>5, <1>6 DEF Page
<1>9. WrittenInv'
  <2>1. \A x \in DOMAIN dirty' : \/ x \in DOMAIN dirty /\ dirty'[x] = dirty[x]
                                 \/ dirty'[x] = Metadata
                                 \/ dirty'[x] = Leaf(entries)
    BY <1>5, <1>6
  <2> QED BY <2>1, PageFields DEF IndexInv, WrittenInv
<1>10. Pages(f)' # <<>>
  <2>1. Len(Pages(f)) \in Nat
    BY <1>2, StoredPages
  <2> QED BY <1>7, <2>1
<1>11. ASSUME NEW g, g # f PROVE Undisturbed(g)
  <2>1. \A p \in Nat : Page(g, p)' = Page(g, p)
    BY <1>5, <1>7, <1>11 DEF Page
  <2>2. Clean(g)' = Clean(g)
    BY <1>5, <1>11 DEF Clean
  <2>3. Len(Pages(g)) \in Nat
    BY <1>2, StoredPages
  <2> QED BY <1>7, <1>11, <2>1, <2>2, <2>3 DEF Undisturbed
<1> QED BY <1>2, <1>8, <1>9, <1>10, <1>11

LEMMA BuiltIndexes ==
  ASSUME StoreInv, StoreType', RowsKept, IndexInv, NEW raises \in BOOLEAN, Build(raises)
  PROVE  IndexInv'
<1>1. PICK f, n, entries :
        /\ f = stmt.file /\ n = stmt.name
        /\ entries = IF raises THEN <<>> ELSE SetToSeq(Visible(tables[n].file))
  OBVIOUS
<1>2. /\ running /\ running' /\ stmt.next = "build"
      /\ UNCHANGED <<json, fresh>> /\ dirty' = Over(NewTree(f, entries), dirty)
  BY <1>1 DEF Build, At, history, IndexInv
<1>3. entries \in Seq(Nat)
  <2>1. PICK rows : rows = Visible(tables[n].file)
    OBVIOUS
  <2>2. rows \subseteq Nat /\ IsFiniteSet(rows)
    BY <2>1, VisibleRows DEF StoreInv
  <2>3. SetToSeq(rows) \in Seq(Nat)
    BY <2>2, NumbersListed
  <2>4. <<>> \in Seq(Nat)
    OBVIOUS
  <2> QED BY <1>1, <2>1, <2>3, <2>4
<1>4. BuiltIn(f, n, entries)
  <2>1. raises => stmt' = NoStmt
    BY DEF Build, StatementRaises
  <2> QED BY <1>1, <1>2, <1>3, <2>1 DEF BuiltIn
<1>5. /\ f \in Nat /\ f >= json.next_file_id /\ f \notin FilesOf(tables)
      /\ WrittenInv' /\ Pages(f)' # <<>>
      /\ Page(f, 0)' = Metadata /\ Page(f, 1)' = Leaf(entries)
      /\ \A g : g # f => Undisturbed(g)
  BY <1>4, BuiltTree
<1>6. \A g : ~Making(g) /\ ~Saving(g)
  BY <1>2, NoFileAtRest
<1>7. NewFilesInv'
  <2>1. \A g \in fresh' : g >= json'.next_file_id => Saving(g)'
    BY <1>2, <1>6 DEF IndexInv, NewFilesInv
  <2>2. ASSUME NEW g \in Nat, g >= json'.next_file_id, g # f
        PROVE  Untouched(g)' \/ EmptyTree(g)'
    <3>1. Untouched(g) \/ EmptyTree(g)
      BY <1>2, <1>6, <2>2 DEF IndexInv, NewFilesInv
    <3>2. Undisturbed(g) /\ Pages(g)' \in Seq(PageSet)
      BY <1>5, <2>2 DEF StoreType, Pages
    <3> QED BY <3>1, <3>2 DEF Untouched, EmptyTree, Undisturbed
  <2>3. Making(f)' \/ EmptyTree(f)'
    <3>1. CASE raises
      BY <1>1, <1>5, <3>1 DEF EmptyTree
    <3>2. CASE ~raises
      <4>1. Moves("truncate")
        BY <1>2, <3>2, Continued DEF Build, StoreInv
      <4> QED BY <1>1, <4>1 DEF Moves, Making
    <3> QED BY <3>1, <3>2
  <2> QED BY <2>1, <2>2, <2>3 DEF NewFilesInv
<1>8. \A m \in DOMAIN tables : \A g \in {tables[m].file} \cup IndexFiles(m) : Undisturbed(g)
  BY <1>5, NamedIds
<1>9. ASSUME NEW m \in DOMAIN tables, m \in DOMAIN tables', tables'[m] = tables[m]
      PROVE  ListedRows(m)'
  BY <1>2, <1>8, <1>9, StillListed DEF IndexInv
<1>10. CASE raises
  BY <1>2, <1>5, <1>7, <1>9, <1>10 DEF Build, IndexInv
<1>11. CASE ~raises
  <2>1. tables' = [tables EXCEPT ![n].indices = With(@, stmt.col, f)]
    BY <1>1, <1>11 DEF Build
  <2>2. DOMAIN tables' = DOMAIN tables /\ \A m \in DOMAIN tables : m # n => tables'[m] = tables[m]
    BY <2>1
  <2>3. ASSUME n \in DOMAIN tables, tables[n].file \in fresh PROVE ListedRows(n)'
    <3>1. PICK h : h = tables[n].file
      OBVIOUS
    <3>2. IsTables(tables)
      BY DEF StoreInv, CatalogInv, Shapes
    <3>3. tables'[n].file = h /\ IndexFiles(n)' \subseteq IndexFiles(n) \cup {f}
      <4>1. tables[n] = [file |-> tables[n].file, indices |-> tables[n].indices]
        BY <2>3, <3>2 DEF IsTables
      <4>2. /\ tables'[n].file = h
            /\ tables'[n].indices = With(tables[n].indices, stmt.col, f)
        BY <2>1, <2>3, <3>1, <4>1
      <4> QED BY <4>2 DEF IndexFiles, With
    <3>4. Undisturbed(h) /\ HasDirectory(h) /\ StoreType
      BY <1>8, <2>3, <3>1, FreshTable DEF StoreInv
    <3>5. /\ DirectoryOf(h)' = DirectoryOf(h) /\ Counted(h)' = Counted(h)
          /\ Visible(h)' = Visible(h) /\ Len(Pages(h))' = Len(Pages(h))
      BY <3>4, SameHeap DEF Undisturbed
    <3>6. HeapCounts(h) /\ \A i \in IndexFiles(n) : Lists(i, h)
      BY <2>3, <3>1 DEF IndexInv, ListedRows, ListedThere
    <3>7. HeapCounts(h)'
      BY <3>5, <3>6 DEF HeapCounts, InStep
    <3>8. ASSUME NEW i \in IndexFiles(n) PROVE Lists(i, h)'
      <4>1. Page(i, 0)' = Page(i, 0) /\ Page(i, 1)' = Page(i, 1)
        BY <1>8, <2>3 DEF Undisturbed
      <4> QED BY <3>5, <3>6, <4>1 DEF Lists, IsTree
    <3>9. Lists(f, h)'
      <4>1. IsFiniteSet(Visible(h)) /\ entries = SetToSeq(Visible(h))
        BY <1>1, <1>11, <3>1, <3>4, VisibleRows
      <4>2. Len(entries) = Cardinality(Visible(h)) /\ ToSet(entries) = Visible(h)
        BY <4>1, Listed
      <4> QED BY <1>5, <3>5, <4>2, PageFields DEF Lists, IsTree
    <3>10. ListedThere(h, n)'
      BY <3>3, <3>7, <3>8, <3>9 DEF ListedThere
    <3> QED BY <3>3, <3>10, ListedWhere
  <2>4. ASSUME n \in DOMAIN tables, tables[n].file \notin fresh PROVE ListedRows(n)'
    <3>1. tables'[n].file = tables[n].file
      <4>1. IsTables(tables)
        BY DEF StoreInv, CatalogInv, Shapes
      <4>2. tables[n] = [file |-> tables[n].file, indices |-> tables[n].indices]
        BY <2>4, <4>1 DEF IsTables
      <4> QED BY <2>1, <2>4, <4>2
    <3> QED BY <1>2, <2>4, <3>1 DEF ListedRows
  <2> QED BY <1>2, <1>5, <1>7, <1>9, <2>2, <2>3, <2>4 DEF IndexInv
<1> QED BY <1>10, <1>11

(* An insert shows its row once: it fills a page that the directory counts *)
(* or adds the page that the directory counts next.                        *)
LEMMA RowShown ==
  ASSUME StoreType, StoreType', NEW h, NEW row, NEW q, HeapGrew(h, row, q),
         HasDirectory(h), HeapCounts(h)
  PROVE  HeapCounts(h)' /\ Visible(h)' = Visible(h) \cup {row}
<1> DEFINE d == Page(h, 0)
<1>1. /\ DirectoryOf(h) = d /\ d.count \in Nat /\ d.count = Len(Pages(h)) /\ d \in PageSet
      /\ d.kind = "directory"
  <2>1. d.kind = "directory" /\ DirectoryOf(h) = d
    BY DEF HasDirectory, DirectoryOf
  <2>2. d \in PageSet
    BY StoredPages
  <2> QED BY <2>1, <2>2, PageKinds DEF HeapCounts, InStep
<1>2. /\ Visible(h) = UNION {RowsOf(Page(h, p)) : p \in 1 .. d.count - 1}
  BY <1>1, VisibleRows DEF Counted
<1>3. /\ q \in Nat /\ q # 0
      /\ RowsOf(Page(h, q))' = RowsOf(Page(h, q)) \cup {row}
      /\ \A p \in Nat : p \notin {0, q} => Page(h, p)' = Page(h, p)
  BY DEF HeapGrew, RowsOf
<1>4. CASE d.recorded = {q} /\ Page(h, 0)' = d /\ Len(Pages(h))' = Len(Pages(h))
  <2>1. DirectoryOf(h)' = d /\ Counted(h)' = Counted(h)
    BY <1>1, <1>4 DEF DirectoryOf, Counted
  <2>2. HeapCounts(h)'
    BY <1>1, <1>4, <2>1 DEF HeapCounts, InStep
  <2>3. q \in 1 .. d.count - 1
    BY <1>1, <1>4 DEF HeapCounts, Counted
  <2>4. Visible(h)' = UNION {RowsOf(Page(h, p))' : p \in 1 .. d.count - 1}
    BY <2>1, <1>1 DEF Visible, RowsOf, Counted
  <2>5. \A p \in 1 .. d.count - 1 : p # q => RowsOf(Page(h, p))' = RowsOf(Page(h, p))
    BY <1>1, <1>3 DEF RowsOf
  <2> QED BY <1>2, <1>3, <2>2, <2>3, <2>4, <2>5
<1>5. CASE /\ Page(h, 0)' = Directory(d.count + 1, IF q < d.count + 1 THEN {q} ELSE {})
           /\ q = Len(Pages(h)) /\ Len(Pages(h))' = Len(Pages(h)) + 1
  <2>1. /\ Page(h, 0)' = Directory(d.count + 1, {q})
    BY <1>1, <1>5
  <2>2. /\ DirectoryOf(h)' = Directory(d.count + 1, {q})
        /\ DirectoryOf(h)'.count = d.count + 1 /\ DirectoryOf(h)'.recorded = {q}
    BY <2>1, PageFields DEF DirectoryOf
  <2>3. Counted(h)' = 1 .. d.count + 1 - 1
    <3>1. Counted(h)' = 1 .. DirectoryOf(h)'.count - 1
      BY DEF Counted
    <3>2. DirectoryOf(h)'.count = d.count + 1
      BY <2>2
    <3> QED BY <1>1, <3>1, <3>2
  <2>4. HeapCounts(h)'
    <3>1. Len(Pages(h))' = d.count + 1
      BY <1>1, <1>5
    <3>2. q \in Counted(h)'
      BY <1>1, <1>3, <1>5, <2>3
    <3> QED BY <2>2, <3>1, <3>2 DEF HeapCounts, InStep
  <2>5. Visible(h)' = UNION {RowsOf(Page(h, p))' : p \in 1 .. d.count + 1 - 1}
    BY <2>3 DEF Visible, RowsOf
  <2>6. \A p \in 1 .. d.count - 1 : RowsOf(Page(h, p))' = RowsOf(Page(h, p))
    <3> SUFFICES ASSUME NEW p \in 1 .. d.count - 1 PROVE RowsOf(Page(h, p))' = RowsOf(Page(h, p))
      OBVIOUS
    <3>1. p \in Nat /\ p # 0 /\ p # q
      BY <1>1, <1>5
    <3> QED BY <1>3, <3>1 DEF RowsOf
  <2>7. RowsOf(Page(h, q)) = {}
    <3>1. Page(h, q) = Zero
      BY <1>3, <1>5, <1>1 DEF HasDirectory
    <3> QED BY <3>1, PageFields DEF RowsOf
  <2>8. 1 .. d.count + 1 - 1 = (1 .. d.count - 1) \cup {q}
    BY <1>1, <1>3, <1>5
  <2> QED BY <1>2, <1>3, <2>4, <2>5, <2>6, <2>7, <2>8
<1> QED BY <1>1, <1>4, <1>5 DEF HeapGrew

LEMMA IndexesApart ==
  ASSUME StoreInv, NEW m \in DOMAIN tables, NEW n \in DOMAIN tables, m # n
  PROVE  IndexFiles(m) \cap IndexFiles(n) = {}
<1> SUFFICES ASSUME NEW g \in IndexFiles(m), g \in IndexFiles(n) PROVE FALSE
  OBVIOUS
<1>1. IsTables(tables) /\ Distinct(tables, next_file_id)
  BY DEF StoreInv, CatalogInv, Shapes, NamesInv, FileIdsAreUnique
<1>2. PICK c \in DOMAIN tables[m].indices : g = tables[m].indices[c]
  BY DEF IndexFiles
<1>3. PICK d \in DOMAIN tables[n].indices : g = tables[n].indices[d]
  BY DEF IndexFiles
<1>4. <<m, c>> \in Uses(tables) /\ FileOf(tables, <<m, c>>) = g
  BY <1>1, <1>2, IndexUse
<1>5. <<n, d>> \in Uses(tables) /\ FileOf(tables, <<n, d>>) = g
  BY <1>1, <1>3, IndexUse
<1>6. <<m, c>> = <<n, d>>
  BY <1>1, <1>4, <1>5 DEF Distinct
<1> QED BY <1>6

(* A row more, in the heap and in the tree's leaf.                         *)
LEMMA RowListed ==
  ASSUME NEW entries \in Seq(Nat), NEW row \in Nat, NEW rows, IsFiniteSet(rows), row \notin rows,
         Len(entries) = Cardinality(rows), ToSet(entries) = rows
  PROVE  /\ Len(entries \o <<row>>) = Cardinality(rows \cup {row})
         /\ ToSet(entries \o <<row>>) = rows \cup {row}
<1>1. Cardinality(rows \cup {row}) = Cardinality(rows) + 1
  BY FS_AddElement
<1>2. <<row>> \in Seq(Nat) /\ Len(<<row>>) = 1 /\ <<row>>[1] = row
  OBVIOUS
<1>3. /\ entries \o <<row>> \in Seq(Nat) /\ Len(entries \o <<row>>) = Len(entries) + 1
      /\ \A i \in 1 .. Len(entries) + 1 :
           (entries \o <<row>>)[i] = IF i <= Len(entries) THEN entries[i] ELSE row
  <2>1. \A i \in 1 .. Len(entries) + 1 : ~(i <= Len(entries)) => i - Len(entries) = 1
    OBVIOUS
  <2> QED BY <1>2, <2>1, ConcatProperties
<1>4. ToSet(entries) = {entries[i] : i \in 1 .. Len(entries)}
  BY DEF ToSet
<1>5. ToSet(entries \o <<row>>) = {(entries \o <<row>>)[i] : i \in 1 .. Len(entries) + 1}
  BY <1>3, SMTT(30) DEF ToSet
<1>6. ToSet(entries \o <<row>>) = ToSet(entries) \cup {row}
  <2>1. ASSUME NEW x \in ToSet(entries \o <<row>>) PROVE x \in ToSet(entries) \cup {row}
    <3>1. PICK i \in 1 .. Len(entries) + 1 : x = (entries \o <<row>>)[i]
      BY <1>5
    <3>2. i <= Len(entries) => i \in 1 .. Len(entries)
      OBVIOUS
    <3> QED BY <1>3, <1>4, <3>1, <3>2
  <2>2. ASSUME NEW x \in ToSet(entries) PROVE x \in ToSet(entries \o <<row>>)
    <3>1. PICK i \in 1 .. Len(entries) : x = entries[i]
      BY <1>4
    <3>2. i \in 1 .. Len(entries) + 1 /\ i <= Len(entries)
      OBVIOUS
    <3> QED BY <1>3, <1>5, <3>1, <3>2
  <2>3. row \in ToSet(entries \o <<row>>)
    <3>1. Len(entries) + 1 \in 1 .. Len(entries) + 1 /\ ~(Len(entries) + 1 <= Len(entries))
      OBVIOUS
    <3> QED BY <1>3, <1>5, <3>1
  <2> QED BY <2>1, <2>2, <2>3
<1> QED BY <1>1, <1>3, <1>6

LEMMA InsertedIndexes ==
  ASSUME StoreInv, StoreType', RowsKept, IndexInv,
         NEW n \in DOMAIN tables, NEW done \in SUBSET IndexFiles(n), Insert(n, done)
  PROVE  IndexInv'
<1>1. PICK h, row : IsHeapOf(h, n) /\ row = inserts + 1
  BY DEF IsHeapOf
<1>2. /\ h \notin done
      /\ \A g : g # h => Pages(g)' = Pages(g)
      /\ \A g : g # h /\ g \notin done =>
           Clean(g)' = Clean(g) /\ \A p \in Nat : Page(g, p)' = Page(g, p)
      /\ \A f \in done :
           /\ Page(f, 1)' = Leaf(Page(f, 1).entries \o <<row>>)
           /\ \A p \in Nat : p # 1 => Page(f, p)' = Page(f, p)
      /\ HasDirectory(h) => \E q : HeapGrew(h, row, q)
      /\ \A x \in DOMAIN dirty' :
           dirty'[x].kind # "zero" \/ (x \in DOMAIN dirty /\ dirty'[x] = dirty[x])
  BY <1>1, InsertStore
<1>3. /\ running /\ running' /\ stmt.next = "none" /\ json.tables = tables
      /\ UNCHANGED <<tables, json, fresh>>
      /\ \A f \in done : IsTree(f)
      /\ done = IndexFiles(n) \/ \E f \in IndexFiles(n) : Circular(f)
  <2>1. running /\ stmt.next = "none"
    BY DEF Insert, Idle, NoStmt
  <2> QED BY <2>1 DEF Insert, memory, StoreInv, CatalogInv, JsonInv, IndexInv
<1>4. WrittenInv'
  BY <1>2 DEF IndexInv, WrittenInv
<1>5. \A g : g # h /\ g \notin done => Undisturbed(g)
  <2>1. \A g : Len(Pages(g)) \in Nat
    BY StoredPages DEF StoreInv
  <2> QED BY <1>2, <2>1 DEF Undisturbed
<1>6. NewFilesInv'
  <2>1. \A g : ~Making(g) /\ ~Saving(g)
    BY <1>3, NoFileAtRest
  <2>2. \A g \in fresh' : g >= json'.next_file_id => Saving(g)'
    BY <1>3, <2>1 DEF IndexInv, NewFilesInv
  <2>3. ASSUME NEW g \in Nat, g >= json'.next_file_id PROVE Untouched(g)' \/ EmptyTree(g)'
    <3>1. g # h /\ g \notin done
      <4>1. /\ json.next_file_id \in Nat /\ h \in Nat /\ h < json.next_file_id
            /\ \A f \in done : f \in Nat /\ f < json.next_file_id
        BY <1>1, <1>3, NewFileIsClean, NamedIds DEF IsHeapOf, StoreInv
      <4> QED BY <1>3, <2>3, <4>1
    <3>2. Untouched(g) \/ EmptyTree(g)
      BY <1>3, <2>1, <2>3 DEF IndexInv, NewFilesInv
    <3>3. Undisturbed(g) /\ Pages(g)' \in Seq(PageSet)
      BY <1>5, <3>1 DEF StoreType, Pages
    <3> QED BY <3>2, <3>3 DEF Untouched, EmptyTree, Undisturbed
  <2> QED BY <2>2, <2>3 DEF NewFilesInv
<1>7. ASSUME NEW m \in DOMAIN tables, m # n PROVE ListedRows(m)'
  <2>1. \A g \in {tables[m].file} \cup IndexFiles(m) : g # h /\ g \notin done
    BY <1>1, <1>7, HeapIsNoIndex, IndexesApart DEF IsHeapOf
  <2> QED BY <1>3, <1>5, <1>7, <2>1, StillListed DEF IndexInv
<1>8. ASSUME h \in fresh PROVE ListedThere(h, n)'
  <2>1. /\ HasDirectory(h) /\ Visible(h) \subseteq inserted[n] /\ StoreType
    BY <1>1, <1>8, FreshTable DEF IsHeapOf, StoreInv
  <2>2. HeapCounts(h) /\ \A i \in IndexFiles(n) : Lists(i, h)
    BY <1>1, <1>8 DEF IndexInv, ListedRows, ListedThere, IsHeapOf
  <2>3. done = IndexFiles(n)
    BY <1>3, <2>2 DEF Lists, IsTree, Circular
  <2>4. PICK q : HeapGrew(h, row, q)
    BY <1>2, <2>1
  <2>5. HeapCounts(h)' /\ Visible(h)' = Visible(h) \cup {row}
    BY <2>1, <2>2, <2>4, RowShown
  <2>6. row \notin Visible(h) /\ IsFiniteSet(Visible(h)) /\ row \in Nat
    <3>1. n \in DOMAIN inserted /\ inserts \in Nat
      BY DEF RowsKept, HistoryInv, StoreInv, StoreType
    <3>2. inserted[n] \subseteq 1 .. inserts
      BY <3>1 DEF RowsKept, HistoryInv
    <3> QED BY <1>1, <2>1, <3>1, <3>2, VisibleRows
  <2>7. ASSUME NEW i \in IndexFiles(n) PROVE Lists(i, h)'
    <3>1. PICK entries : entries = Page(i, 1).entries
      OBVIOUS
    <3>2. /\ IsTree(i) /\ Len(entries) = Cardinality(Visible(h)) /\ ToSet(entries) = Visible(h)
      BY <2>2, <3>1 DEF Lists
    <3>3. entries \in Seq(Nat)
      <4>1. Page(i, 1) \in PageSet
        BY <2>1, StoredPages
      <4> QED BY <3>1, <3>2, <4>1, PageKinds DEF IsTree
    <3>4. /\ Len(entries \o <<row>>) = Cardinality(Visible(h) \cup {row})
          /\ ToSet(entries \o <<row>>) = Visible(h) \cup {row}
      BY <2>6, <3>2, <3>3, RowListed
    <3>5. Page(i, 1)' = Leaf(entries \o <<row>>) /\ Page(i, 0)' = Page(i, 0)
      BY <1>2, <2>3, <3>1
    <3>6. Page(i, 1)'.kind = "leaf" /\ Page(i, 1)'.entries = entries \o <<row>>
      BY <3>5, PageFields
    <3> QED BY <2>5, <3>2, <3>4, <3>5, <3>6 DEF Lists, IsTree
  <2>8. IndexFiles(n)' = IndexFiles(n)
    BY <1>3 DEF IndexFiles
  <2> QED BY <2>5, <2>7, <2>8 DEF ListedThere
<1>9. ListedRows(n)'
  <2>1. h = tables'[n].file
    BY <1>1, <1>3 DEF IsHeapOf
  <2>2. CASE h \in fresh
    BY <1>8, <2>1, <2>2, ListedWhere
  <2>3. CASE h \notin fresh
    BY <1>3, <2>1, <2>3 DEF ListedRows
  <2> QED BY <2>2, <2>3
<1> QED BY <1>3, <1>4, <1>6, <1>7, <1>9 DEF IndexInv
-----------------------------------------------------------------------------
(* All that is proved of Catalog in one: a process that has died leaves    *)
(* the rows' part alone.                                                   *)
IndexCatalogInv == RowsCatalogInv /\ (crashes = 0 => IndexInv) /\ crashes \in Nat

LEMMA InitIndexes == Init => IndexCatalogInv
<1> SUFFICES ASSUME Init PROVE IndexCatalogInv
  OBVIOUS
<1>1. RowsCatalogInv
  BY InitRows
<1>2. DOMAIN Empty = {}
  BY DEF Empty
<1>3. \A f : Pages(f) = <<>> /\ Clean(f)
  BY <1>2 DEF Init, Pages, Clean
<1>4. IndexInv
  BY <1>2, <1>3 DEF Init, IndexInv, WrittenInv, NewFilesInv, Untouched
<1> QED BY <1>1, <1>4 DEF IndexCatalogInv, Init

LEMMA IndexStep ==
  ASSUME IndexCatalogInv, [Next]_vars
  PROVE  IndexCatalogInv'
<1>1. RowsCatalogInv'
  BY RowsStep DEF IndexCatalogInv
<1>2. CASE Crash
  BY <1>1, <1>2 DEF Crash, IndexCatalogInv
<1>3. CASE ~Crash
  <2>1. UNCHANGED crashes
    BY <1>3 DEF Next, Works, vars, CreateTable, CreateIndex, DropTable, Insert, WriteBack,
                AllocateDirectory, FlushDirectory, TruncateJson, DumpJson, RemoveFile, Build,
                Flushed, Query, Restart
  <2> SUFFICES ASSUME crashes = 0 PROVE IndexInv'
    BY <1>1, <2>1 DEF IndexCatalogInv
  <2>2. IndexInv
    BY DEF IndexCatalogInv
  <2>3. StoreInv /\ StoreType' /\ RowsKept
    BY <1>1, <2>2 DEF IndexCatalogInv, RowsCatalogInv, StoreInv, IndexInv
  <2>4. CASE \/ \E n \in Names : CreateTable(n)
             \/ \E n \in Names, c \in Cols : CreateIndex(n, c)
             \/ \E n \in DOMAIN tables : DropTable(n)
             \/ Query \/ Flushed \/ Restart \/ UNCHANGED vars
    BY <2>2, <2>3, <2>4, QuietSteps
  <2>5. CASE TruncateJson \/ DumpJson
    BY <2>2, <2>3, <2>5, SavingSteps
  <2>6. CASE AllocateDirectory
    BY <2>2, <2>3, <2>6, AllocatedIndexes
  <2>7. CASE RemoveFile
    BY <2>2, <2>3, <2>7, RemovedIndexes
  <2>8. CASE FlushDirectory
    BY <2>2, <2>3, <2>8, FlushedDirectoryIndexes
  <2>9. CASE \E raises \in BOOLEAN : Build(raises)
    BY <2>2, <2>3, <2>9, BuiltIndexes
  <2>10. CASE \E n \in DOMAIN tables : \E done \in SUBSET IndexFiles(n) : Insert(n, done)
    BY <2>2, <2>3, <2>10, InsertedIndexes
  <2>11. CASE \E page \in DOMAIN dirty : WriteBack(page[1], page[2])
    <3>1. PICK page \in DOMAIN dirty : WriteBack(page[1], page[2])
      BY <2>11
    <3>2. page = <<page[1], page[2]>>
      BY <2>3 DEF StoreInv, StoreType
    <3>3. PICK f, p : f = page[1] /\ p = page[2]
      OBVIOUS
    <3>4. <<f, p>> \in DOMAIN dirty /\ WriteBack(f, p)
      BY <3>1, <3>2, <3>3
    <3> QED BY <2>2, <2>3, <3>4, WrittenIndexes
  <2> QED BY <1>3, <2>4, <2>5, <2>6, <2>7, <2>8, <2>9, <2>10, <2>11 DEF Next, Works
<1> QED BY <1>2, <1>3

(* The index of a table in a file of its own opens and lists each row of   *)
(* the table once (Catalog.create_index, Table.insert, Catalog.load), also *)
(* in a file that a failed CREATE INDEX has left and after restarts, in    *)
(* every history in which no process has died.                             *)
THEOREM IndexesStayExact == Spec => []IndexesSurvive
<1>1. IndexCatalogInv => IndexesSurvive
  BY DEF IndexCatalogInv, IndexInv, ListedRows, ListedThere, Lists, IndexesSurvive
<1>2. IndexCatalogInv /\ [Next]_vars => IndexCatalogInv'
  BY IndexStep
<1> QED BY <1>1, <1>2, InitIndexes, PTL DEF Spec
=============================================================================
