------------------------------ MODULE Catalog -------------------------------
(***************************************************************************)
(* class Catalog (catalog/catalog.py) with the files it names, and the     *)
(* REPL around it (main.py): a statement changes pages in the pool, the    *)
(* ones that change the catalog write catalog.json, and flush_all comes    *)
(* last.  The steps of a statement that reach the disk are actions of      *)
(* their own; between any two of them dirty pages may be evicted and the   *)
(* process may die.                                                        *)
(*                                                                         *)
(* A page is what its first bytes make of it.  A heap file is read through *)
(* its page 0, a tree through its page 0 and the root page 1.              *)
(***************************************************************************)
EXTENDS Integers, SequencesExt, FiniteSetsExt

CONSTANTS
  Names,        \* table names
  Cols,         \* columns of every table that can be indexed
  MaxFiles,     \* bound on the file ids given out
  MaxRows,      \* bound on the rows inserted; a row is a number
  Crashes,      \* bound on the crashes of the process
  Failures      \* bound on the statements that raise

ASSUME CatalogAssumption ==
  /\ MaxFiles \in Nat /\ MaxRows \in Nat /\ Crashes \in Nat /\ Failures \in Nat
  /\ "heap" \notin Cols         \* the other use of a file (Uses)

VARIABLES
  next_file_id,
  tables,       \* [name -> [file, indices : [column -> file]]]
  json,         \* catalog.json: next_file_id and tables, whole or truncated
  disk,         \* [file id -> sequence of pages] of the files that exist
  dirty,        \* [<<file id, page id>> -> page]: pages of the pool that
                \*   were reported dirty and not written
  stmt,         \* the statement in progress
  running,      \* the process runs; not after it failed to load
  crashes, failures,
  inserted,     \* history variable: per table, its rows since CREATE TABLE
  committed,    \* history variable: those of them that were flushed when
                \*   the directory counted every page of the file
  inserts,      \* history variable: rows are numbered by their INSERT
  lost,         \* history variable: rows that a crash found unflushed
  fresh         \* history variable: ids of the heap files whose directory
                \*   was their first page

memory == <<next_file_id, tables>>
files == <<disk, dirty>>
history == <<inserted, committed, inserts, lost, fresh>>
vars == <<memory, json, files, stmt, running, crashes, failures, history>>

Empty == [x \in {} |-> {}]
Rows(ofTable) == UNION {ofTable[n] : n \in DOMAIN ofTable}
With(f, x, value) == [y \in DOMAIN f \cup {x} |-> IF y = x THEN value ELSE f[y]]
Without(f, x) == [y \in DOMAIN f \ {x} |-> f[y]]
(* new @@ old; TLAPS has no definition of @@.                              *)
Over(new, old) ==
  [x \in DOMAIN new \cup DOMAIN old |-> IF x \in DOMAIN new THEN new[x] ELSE old[x]]

Zero == [kind |-> "zero"]
Directory(count, recorded) ==
  [kind |-> "directory", count |-> count, recorded |-> recorded]
Data(rows) == [kind |-> "data", rows |-> rows]
Metadata == [kind |-> "metadata"]           \* root_page_id = 1, num_keys = 0
Leaf(entries) == [kind |-> "leaf", entries |-> entries]

NoStmt == [op |-> "none", name |-> "", col |-> "", file |-> 0, next |-> "none"]
Idle == running /\ stmt = NoStmt

Init ==
  /\ next_file_id = 0 /\ tables = Empty
  /\ json = [whole |-> TRUE, next_file_id |-> 0, tables |-> Empty]
  /\ disk = Empty /\ dirty = Empty
  /\ stmt = NoStmt
  /\ running = TRUE
  /\ crashes = 0 /\ failures = 0
  /\ inserted = Empty /\ committed = Empty /\ inserts = 0 /\ lost = {} /\ fresh = {}
-----------------------------------------------------------------------------
(* Pages as the pool has them.  What is not in a file reads as zeros.      *)
Pages(f) == IF f \in DOMAIN disk THEN disk[f] ELSE <<>>
Page(f, p) ==
  IF <<f, p>> \in DOMAIN dirty THEN dirty[<<f, p>>]
  ELSE IF p < Len(Pages(f)) THEN Pages(f)[p + 1] ELSE Zero

(* DiskManager.allocate_page, n times, and write_page.                     *)
Allocated(f, n) == [g \in DOMAIN disk \cup {f} |->
  IF g = f THEN Pages(f) \o [i \in 1 .. n |-> Zero] ELSE disk[g]]
Padded(pages, n) ==
  pages \o [i \in 1 .. (IF n > Len(pages) THEN n - Len(pages) ELSE 0) |-> Zero]
WrittenPage(f, p, page) == [g \in DOMAIN disk \cup {f} |->
  IF g = f THEN [Padded(Pages(f), p + 1) EXCEPT ![p + 1] = page] ELSE disk[g]]

(* DirectoryPage of page 0.  The metadata of a tree, whose root is page 1, *)
(* reads as a directory that counts one page, itself.                      *)
DirectoryOf(f) ==
  LET page == Page(f, 0)
  IN  CASE page.kind = "directory" -> page
        [] page.kind = "metadata" -> Directory(1, {})
        [] OTHER -> Directory(0, {})

(* HeapFile.scan: a tree's leaf reads as a page full of invalid tuples, on *)
(* which deserialize raises; zeros and a new directory as an empty page.   *)
Counted(f) == 1 .. DirectoryOf(f).count - 1
Scans(f) == \A p \in Counted(f) : Page(f, p).kind # "leaf"
Visible(f) ==
  UNION {IF Page(f, p).kind = "data" THEN Page(f, p).rows ELSE {} : p \in Counted(f)}

(* HeapFile.insert_tuple: the pages it changes and the pages it adds.      *)
(* Pages have room for every row.  A new page is recorded in the directory *)
(* only if the directory counts it.                                        *)
HeapChange(f, row) ==
  LET d == DirectoryOf(f)
      new == Len(Pages(f))
      p == Min(d.recorded)
  IN  IF d.recorded # {}
      THEN [page \in {<<f, 0>>, <<f, p>>} |->
              IF page = <<f, p>> THEN Data(Page(f, p).rows \cup {row}) ELSE d]
      ELSE [page \in {<<f, 0>>, <<f, new>>} |->
              IF page = <<f, new>> THEN Data({row})
              ELSE Directory(d.count + 1, IF new < d.count + 1 THEN {new} ELSE {})]
HeapGrowth(f) == IF DirectoryOf(f).recorded # {} THEN 0 ELSE 1

(* On a page that a crash left as zeros insert_tuple raises (HeapFile).    *)
TakesRows(f) == \A p \in DirectoryOf(f).recorded : Page(f, p).kind = "data"

(* The directory counts every page: page_count is the next page's id.      *)
InStep(f) == DirectoryOf(f).count = Len(Pages(f))

(* A tree that can be descended: metadata, and a leaf as its root.         *)
IsTree(f) == Page(f, 0).kind = "metadata" /\ Page(f, 1).kind = "leaf"
(* With zeros for metadata the root is page 0, an inner node whose only    *)
(* child is page 0: _find_leaf never ends.                                 *)
Circular(f) == Page(f, 0).kind = "zero"
TreeChanges_Resets(fs, entries) == [page \in fs \X {1} |-> Leaf(entries)]
TreeChanges(fs, entries) ==
  [page \in fs \X {1} |-> Leaf(Page(page[1], 1).entries \o entries)]

IndexFiles(n) == {tables[n].indices[c] : c \in DOMAIN tables[n].indices}
-----------------------------------------------------------------------------
(* The steps of a statement, in the order of the code.                     *)
Steps_RemoveFirst(op) ==
  CASE op = "create_table" -> <<"allocate", "directory", "truncate", "dump">>
    [] op = "create_index" -> <<"build", "truncate", "dump">>
    [] op = "drop_table" -> <<"remove", "truncate", "dump">>
Steps_IndexNotSaved(op) ==
  CASE op = "create_table" -> <<"allocate", "directory", "truncate", "dump">>
    [] op = "create_index" -> <<"build">>
    [] op = "drop_table" -> <<"truncate", "dump", "remove">>
Steps(op) ==
  CASE op = "create_table" -> <<"allocate", "directory", "truncate", "dump">>
    [] op = "create_index" -> <<"build", "truncate", "dump">>
    [] op = "drop_table" -> <<"truncate", "dump", "remove">>

Begins(op, n, c, f) ==
  stmt' = [op |-> op, name |-> n, col |-> c, file |-> f, next |-> Steps(op)[1]]
At(step) == running /\ stmt.next = step
Flushes == stmt' = [NoStmt EXCEPT !.next = "flush"]
Continues ==
  \E i \in DOMAIN Steps(stmt.op) :
    /\ Steps(stmt.op)[i] = stmt.next
    /\ IF i = Len(Steps(stmt.op)) THEN Flushes
       ELSE stmt' = [stmt EXCEPT !.next = Steps(stmt.op)[i + 1]]

(* The ids that CREATE TABLE and CREATE INDEX take.                        *)
Takes_NotAdvanced == Idle /\ next_file_id < MaxFiles /\ next_file_id' = next_file_id
Takes == Idle /\ next_file_id < MaxFiles /\ next_file_id' = next_file_id + 1

(* A statement that raises prints its exception; nothing is flushed.       *)
MayRaise == failures < Failures
StatementRaises == MayRaise /\ failures' = failures + 1 /\ stmt' = NoStmt

(* create_table takes an id first.                                         *)
CreateTable(n) ==
  /\ Takes
  /\ IF n \in DOMAIN tables
     THEN StatementRaises
     ELSE Begins("create_table", n, "", next_file_id) /\ UNCHANGED failures
  /\ UNCHANGED <<tables, json, files, running, crashes, history>>

(* create_directory allocates a page, fills it and flushes it.             *)
AllocateDirectory ==
  /\ At("allocate")
  /\ disk' = Allocated(stmt.file, 1)
  /\ Continues
  /\ UNCHANGED <<memory, json, dirty, running, crashes, failures, history>>

FlushDirectory ==
  LET f == stmt.file
      n == stmt.name
      p == Len(Pages(f)) - 1
  IN  /\ At("directory")
      /\ disk' = WrittenPage(f, p, Directory(1, {}))
      /\ tables' = With(tables, n, [file |-> f, indices |-> Empty])
      /\ inserted' = With(inserted, n, {})
      /\ committed' = With(committed, n, {})
      /\ fresh' = IF p = 0 THEN fresh \cup {f} ELSE fresh
      /\ Continues
      /\ UNCHANGED <<next_file_id, json, dirty, running, crashes, failures, inserts, lost>>

(* Catalog.flush: open() truncates catalog.json, dump() fills it.          *)
TruncateJson ==
  /\ At("truncate")
  /\ json' = [json EXCEPT !.whole = FALSE]
  /\ Continues
  /\ UNCHANGED <<memory, files, running, crashes, failures, history>>

Dumped_OldId == [whole |-> TRUE, next_file_id |-> json.next_file_id, tables |-> tables]
Dumped == [whole |-> TRUE, next_file_id |-> next_file_id, tables |-> tables]
DumpJson ==
  /\ At("dump")
  /\ json' = Dumped
  /\ Continues
  /\ UNCHANGED <<memory, files, running, crashes, failures, history>>

(* create_index takes an id first; it raises for a table that does not     *)
(* exist or a column that is indexed,                                      *)
CreateIndex(n, c) ==
  /\ Takes
  /\ IF n \in DOMAIN tables /\ c \notin DOMAIN tables[n].indices
     THEN /\ MayRaise \/ Scans(tables[n].file)
          /\ Begins("create_index", n, c, next_file_id) /\ UNCHANGED failures
     ELSE StatementRaises
  /\ UNCHANGED <<tables, json, files, running, crashes, history>>

(* and, when its tree is already made, for a column that does not exist or *)
(* a table that cannot be scanned.  BPlusTree.__init__ writes metadata to  *)
(* page 0 and an empty root to the second page it is given, which is page  *)
(* 1 of a new file; in another file it is a page that nothing names, and   *)
(* page 1 is the root as it is.  A root that is no leaf is not modelled.   *)
NewRoot(f) == IF Pages(f) = <<>> THEN <<>> ELSE Page(f, 1).entries
NewTree_NoMetadata(f, entries) == [page \in {<<f, 1>>} |-> Leaf(NewRoot(f) \o entries)]
NewTree(f, entries) == [page \in {<<f, 0>>, <<f, 1>>} |->
  IF page = <<f, 0>> THEN Metadata ELSE Leaf(NewRoot(f) \o entries)]

Build(raises) ==
  LET f == stmt.file
      n == stmt.name
      heap == tables[n].file
      entries == IF raises THEN <<>> ELSE SetToSeq(Visible(heap))
  IN  /\ At("build")
      /\ Pages(f) = <<>> \/ Page(f, 1).kind = "leaf"
      /\ raises \/ Scans(heap)
      /\ disk' = Allocated(f, 2)
      /\ dirty' = Over(NewTree(f, entries), dirty)
      /\ IF raises
         THEN StatementRaises /\ tables' = tables
         ELSE /\ tables' = [tables EXCEPT ![n].indices = With(@, stmt.col, f)]
              /\ Continues /\ UNCHANGED failures
      /\ UNCHANGED <<next_file_id, json, running, crashes, history>>

(* INSERT of one row, heap and indexes.  The statement may go on with a    *)
(* row that raises: this one stays, unflushed.  It may also never return,  *)
(* after the indexes that come before a circular one.                      *)
Insert(n, done) ==
  LET heap == tables[n].file
      row == inserts + 1
  IN  /\ Idle
      /\ inserts < MaxRows /\ inserts' = row
      /\ TakesRows(heap)
      /\ \A f \in IndexFiles(n) : IsTree(f) \/ Circular(f)
      /\ \A f \in done : IsTree(f)
      /\ disk' = Allocated(heap, HeapGrowth(heap))
      /\ dirty' = Over(TreeChanges(done, <<row>>), Over(HeapChange(heap, row), dirty))
      /\ inserted' = [inserted EXCEPT ![n] = @ \cup {row}]
      /\ IF done = IndexFiles(n)
         THEN \/ Flushes /\ UNCHANGED failures
              \/ StatementRaises
         ELSE /\ \E f \in IndexFiles(n) : Circular(f)
              /\ stmt' = [NoStmt EXCEPT !.next = "find_leaf"] /\ UNCHANGED failures
      /\ UNCHANGED <<memory, json, running, crashes, committed, lost, fresh>>

(* SELECT and DESCRIBE change nothing; the loop flushes after them as well. *)
Query ==
  /\ Idle
  /\ Flushes
  /\ UNCHANGED <<memory, json, files, running, crashes, failures, history>>

(* delete_table writes catalog.json before it removes the heap file; the   *)
(* files of the indexes stay, and so does what the pool has of them all.   *)
DropTable(n) ==
  /\ Idle
  /\ tables' = Without(tables, n)
  /\ Begins("drop_table", n, "", tables[n].file)
  /\ UNCHANGED <<next_file_id, json, files, running, crashes, failures, history>>

RemoveFile ==
  /\ At("remove")
  /\ disk' = Without(disk, stmt.file)
  /\ Continues
  /\ UNCHANGED <<memory, json, dirty, running, crashes, failures, history>>

(* A page is written because it is evicted or by flush_all, in any order,  *)
(* also of a file that was removed, which exists again.                    *)
WriteBack(f, p) ==
  /\ running
  /\ disk' = WrittenPage(f, p, dirty[<<f, p>>])
  /\ dirty' = Without(dirty, <<f, p>>)
  /\ UNCHANGED <<memory, json, stmt, running, crashes, failures, history>>

(* flush_all has written every page.                                       *)
AllWritten_ButDirectories == \A page \in DOMAIN dirty : page[2] = 0
AllWritten == dirty = Empty

Flushed ==
  /\ At("flush") /\ AllWritten
  /\ committed' = [n \in DOMAIN inserted |->
       IF n \in DOMAIN tables /\ InStep(tables[n].file)
       THEN inserted[n] \ lost ELSE committed[n]]
  /\ stmt' = NoStmt
  /\ UNCHANGED <<memory, json, files, running, crashes, failures, inserted, inserts, lost, fresh>>

(* Catalog.load in a new process: after close() has written every page, or *)
(* after the old one died.  It raises on a truncated catalog.json.         *)
Loads == next_file_id' = json.next_file_id /\ tables' = json.tables

Restart ==
  /\ Idle /\ dirty = Empty
  /\ Loads
  /\ UNCHANGED <<json, files, stmt, running, crashes, failures, history>>

Crash ==
  /\ running /\ crashes < Crashes
  /\ crashes' = crashes + 1
  /\ dirty' = Empty
  /\ stmt' = NoStmt
  /\ running' = json.whole
  /\ IF json.whole THEN Loads ELSE UNCHANGED memory
  /\ lost' = Rows(inserted) \ Rows(committed)
  /\ UNCHANGED <<json, disk, failures, inserted, committed, inserts, fresh>>

Works ==
  \/ AllocateDirectory \/ FlushDirectory \/ TruncateJson \/ DumpJson \/ RemoveFile
  \/ \E raises \in BOOLEAN : Build(raises)
  \/ Flushed

Next ==
  \/ \E n \in Names : CreateTable(n)
  \/ \E n \in Names, c \in Cols : CreateIndex(n, c)
  \/ \E n \in DOMAIN tables : DropTable(n)
  \/ \E n \in DOMAIN tables : \E done \in SUBSET IndexFiles(n) : Insert(n, done)
  \/ \E page \in DOMAIN dirty : WriteBack(page[1], page[2])
  \/ Works \/ Query \/ Restart \/ Crash

Spec == Init /\ [][Next]_vars

(* The process goes on with the statement it has begun, flush_all with the *)
(* pages it has not written; nothing makes a user type or a page leave.    *)
Fairness ==
  /\ WF_vars(Works)
  /\ WF_vars(At("flush") /\ \E page \in DOMAIN dirty : WriteBack(page[1], page[2]))
FairSpec == Spec /\ Fairness
-----------------------------------------------------------------------------
(* What the files are named for: a heap, or an index on a column.          *)
Uses(ts) ==
  {<<n, "heap">> : n \in DOMAIN ts}
    \cup UNION {{<<n, c>> : c \in DOMAIN ts[n].indices} : n \in DOMAIN ts}
FileOf(ts, use) ==
  IF use[2] = "heap" THEN ts[use[1]].file ELSE ts[use[1]].indices[use[2]]
FilesOf(ts) == {FileOf(ts, use) : use \in Uses(ts)}

(* The type of the catalog; the pool holds pages of ids that were given.   *)
TypeOK ==
  /\ next_file_id \in 0 .. MaxFiles /\ json.next_file_id \in 0 .. MaxFiles
  /\ DOMAIN tables \subseteq Names /\ DOMAIN json.tables \subseteq Names
  /\ FilesOf(tables) \cup FilesOf(json.tables) \subseteq Nat
  /\ \A page \in DOMAIN dirty : page[1] < next_file_id /\ page[2] \in Nat
  /\ DOMAIN disk \subseteq 0 .. MaxFiles - 1
  /\ running \in BOOLEAN

(* No two tables or indexes share a file, in memory or in catalog.json,    *)
(* and no id that either of them names will be given again, by this        *)
(* process or by one that loads catalog.json: through ids that failed      *)
(* statements took, drops, restarts and crashes.                           *)
Distinct(ts, next) ==
  /\ \A u, w \in Uses(ts) : FileOf(ts, u) = FileOf(ts, w) => u = w
  /\ \A f \in FilesOf(ts) : f < next
FileIdsAreUnique ==
  Distinct(tables, next_file_id) /\ Distinct(json.tables, json.next_file_id)

(* Every file that catalog.json names exists, at every moment at which the *)
(* process may die: created before it is named, removed after.             *)
NamedFilesExist == FilesOf(json.tables) \subseteq DOMAIN disk

(* Between statements catalog.json knows the tables and indexes there are, *)
(* so that a restart changes nothing, whatever raised before it.           *)
CatalogIsDurable == Idle => json.whole /\ json.tables = tables

(* A table in a file of its own can be scanned: every row is found that    *)
(* was flushed while the directory counted all pages, and no row that was  *)
(* not inserted into it since its CREATE TABLE, through drops of other     *)
(* tables, failed statements, restarts, crashes and evictions.             *)
RowsSurvive ==
  running => \A n \in DOMAIN tables :
    LET f == tables[n].file
    IN  f \in fresh => /\ Scans(f)
                       /\ committed[n] \subseteq Visible(f)
                       /\ Visible(f) \subseteq inserted[n]

(* While no process has died, the index of such a table opens and has one  *)
(* entry for each of its rows, also in a file that a failed CREATE INDEX   *)
(* has left behind.                                                        *)
IndexesSurvive ==
  crashes = 0 => \A n \in DOMAIN tables : tables[n].file \in fresh =>
    \A f \in IndexFiles(n) :
      /\ IsTree(f)
      /\ Len(Page(f, 1).entries) = Cardinality(Visible(tables[n].file))
      /\ ToSet(Page(f, 1).entries) = Visible(tables[n].file)

(* While no process has died, every statement ends: no page that an index  *)
(* names reads as zeros, on which a descent would never end.               *)
StatementsEnd == stmt # NoStmt ~> (stmt = NoStmt \/ crashes # 0)

(* Every row whose INSERT returned is found by a scan as long as its table *)
(* exists and no process has died.                                         *)
TablesPersist ==
  crashes = 0 => \A n \in DOMAIN tables :
    Scans(tables[n].file) /\ inserted[n] \subseteq Visible(tables[n].file)
=============================================================================
