# TLA+ models of the database

This directory models, model-checks and proves properties of the database in this
repository, from the bottom up: LRU-K replacement, the buffer pool, slotted-page
heap files and the B+ tree; tables, schemas and the catalog with its files; and
the path of a query through logical plan, optimizer, physical plan and operators.

## The system

A REPL (`main.py`) runs one statement at a time, in one thread. A statement is
parsed (sqlglot, a library), turned into a logical plan, optimized, lowered to
operators and pulled through Python generators. All of it rests on one buffer
pool.

| Component | State | Operations | Talks to |
|---|---|---|---|
| `buffer/lru_k_replacer.py` | history (last K access times per frame), evictable set, clock | `record_access`, `set_evictable`, `evict` | called by the pool |
| `buffer/buffer_pool.py` | frames, page table and its inverse, free frames, pin counts, dirty flags | `fetch_page`, `unpin_page`, `flush_page`, `allocate_page`, `flush_all`, `close` | replacer, disk manager; hands out `bytearray` references |
| `storage/disk_manager.py` | one file per file id | read, write, allocate a page | file system |
| `storage/heap_file.py`, `page.py`, `directory_page.py` | page 0: directory of free space; pages 1 and up: slotted pages | `insert_tuple`, `get_tuple`, `delete_tuple`, `scan` | pool |
| `index/b_tree.py`, `b_tree_page.py` | page 0: root and count; nodes; a copy of root and count in the object | `insert`, `search`, `range_scan`, `delete`, reopen | pool |
| `catalog/table.py` | one heap file, its indexes | `insert`, `get`, `delete`, `scan` | heap file, B+ trees, schema |
| `catalog/catalog.py` | tables, `next_file_id`, `catalog.json` | create and drop tables, create indexes, load | tables, pool, file system |
| `catalog/schema.py` | columns | `serialize`, `deserialize`, `coerce` | |
| `execution/planner/*` | | logical plan, predicate pushdown, index and join selection | catalog |
| `execution/operators/*`, `expressions/*` | generators | scans, filter, projection, joins, delete | tables, trees |
| `database.py`, `main.py` | | execute; flush after a statement that succeeds; close at exit | everything |

What is hard here. Nothing runs in parallel, but callers interleave: a scan is a
generator, so a consumer fetches, changes and evicts pages between two of its
steps, and it reads page bytes *after* unpinning them. Exceptions abandon an
operation half-way (pins leak, changes stay unreported) and the REPL goes on.
The process can stop between any two page writes, and evictions write pages in an
order nobody chose. Fixed-size pages and counters have ends. Deletes leave empty
leaves and stale separators. `PROJECT.json` lists each hazard at its line, with
the properties that would catch it.

What makes each component correct:

- replacer: the victim is the one LRU-K names, though only K times per frame are kept;
- pool: a fetch returns the page's current content, whatever was evicted; pinned
  pages stay and are shared; no frame is lost; what was reported dirty is durable
  after a flush;
- heap file: a scan finds exactly the rows inserted and not deleted, pages and
  directory add up, a rid never changes its meaning, a crash keeps what was flushed;
- B+ tree: search and range scan are exact, the leaf chain is complete and ordered,
  all leaves are equally deep, pins are returned, what the leaves hold changes
  only as callers ask;
- table: heap and indexes agree between any two rows of any statement; rows come
  back as they were given;
- catalog: one file per id for ever, every named file exists, `catalog.json` says what
  the process knows, flushed rows survive, statements end;
- planner: the plan that runs returns what the query means, with or without indexes.

## Modules

| Module | Models | Notes |
|---|---|---|
| `LRUK` | what an access does to a history, whom `evict` may choose | operators, used by the next two |
| `LRUKReplacer` | the replacer as a state machine | keeps the complete access log in a history variable to state LRU-K by its definition |
| `PageStore` | the pool's promise | abstract: every page has one current and one durable content |
| `BufferPool` | pool, replacer, disk and the callers' handles | one action per outcome of `fetch_page` (hit, free frame, eviction), and `unpin_page`, flushes, allocation, shutdown, crash |
| `BufferPoolProofs` | | theorems about `BufferPool` |
| `HeapPage` | slotted pages and the directory page | operators on values; offsets, lengths and free space are numbers |
| `HeapFile` | a heap file over `PageStore`'s contract | current and durable content of each page, dirty and leaked pages |
| `HeapFileProofs` | | lemmas about `HeapPage`, theorems about `HeapFile`: in the current pages, and after a crash |
| `Index` | the index's promise | abstract: it holds the (key, rid) pairs it was asked to hold, after every step |
| `BTreePage` | nodes of the tree | operators on values |
| `BPlusTree` | the tree | one step per method call of an insert; `Index` is what it implements |
| `BPlusTreeProofs` | | lemmas about nodes and walks over the tree, theorems about `BPlusTree` |
| `BPlusTreeOrderProofs` | | theorems about the order in the tree, and what searches and scans find |
| `LRUKProofs` | | theorems about `LRUKReplacer` |
| `Schema` | `serialize`, `deserialize`, `coerce` | operators on byte sequences |
| `Table` | a table with its indexes | operators on a table value, over the contracts of `HeapFile` and `Index` |
| `Planner` | logical plan, pushdown, index and join selection, operators | operators from a parsed SELECT to its rows; extends `Table` |
| `Engine` | INSERT and DELETE row by row, CREATE INDEX, restarts | a state machine over `Planner` |
| `Catalog` | file ids, `catalog.json`, CREATE, DROP, flush, load, crashes | a state machine over files of pages |
| `CatalogProofs` | | theorems about `Catalog`: its files, its rows, its indexes |
| `SchemaProofs` | | lemmas about recursive functions and byte sequences; `deserialize` undoes `serialize` |
| `EngineProofs` | | lemmas about `Table` and `Planner`, theorems about `Engine`: rows, indexes, DELETE, SELECT |
| `MCBufferPool`, `MCEngine` | | symmetry; the tables, statements and queries of the `engine` runs |

Correspondence with the code, where it is not name for name:

- **A handle** of `BufferPool` is a variable in a caller that holds the `bytearray`
  of `fetch_page`. `DiskManager.read_page` returns a *new* bytearray each time, so
  a handle to a frame that was reloaded keeps its old object: `ref` becomes
  `NoFrame` and `copy` holds the bytes. `HandlesReadTheirPage` breaks when pages are read
  into the old object instead (its mutant).
- `fetch_page` on an exhausted pool raises before it changes anything, so it is no step.
  The early returns of `unpin_page` need an unpin without a pin, which no caller makes;
  the guard of `unpin_page` in the model says so, and the proof shows it never blocks
  a caller that holds a pin (`PinnedHandlesShareBytes`, `PinsCounted`).
- Callers unpin with `is_dirty` exactly when they wrote, except
  `HeapFile.create_directory`, which writes, unpins clean and flushes: `UnpinAndFlush`.
- **`HeapFile.insert_tuple` is one action.** Inside it both its pages are pinned, so
  only *other* pages can be evicted, and those evictions commute with the rest of the
  call; `Evict` between operations therefore reaches every durable state a crash
  can find, except the growth of the file, which is in the action. The three
  ways it can raise are `InsertDirectoryFull` and the two in `Raises`: the slot does not pack, or
  `free_space` does not (a failed `pack_into` leaves zeros in its field, which `Torn` models).
- **Tuples have any length.** One longer than the free space before it is written to a slice that starts at a
  negative index, which makes the frame longer than a page (`long`); the slot does not pack then and the call raises. What such
  a page holds is not followed: the directory keeps offering it, an insert into it may return or raise
  (`InsertInLongPage`; the `free_space` its header shows is any of `Spaces`), and a scan may make rows up from its bytes, which a
  caller may delete (`DeleteGarbage`). When it is written, `write_page` writes the whole frame: its own page and any of
  the pages behind it are `Garbage` then, except those written later in the same flush. Which they are depends on the order of the frames, so `Written` takes any
  subset of the pages behind it. `spilled` remembers this, and no insert is followed after it.
- A page that raised is `leaked`: pinned for the rest of the process and
  its change unreported, unless an earlier or later call reports the page. `failed`
  remembers that an insert has raised: what holds of heap files whose inserts never
  raised is stated under `Sane`, what holds regardless is not.
- The entry's `page_id` and `tuple_count` in the directory are left out:
  nothing reads the count, and the id is the position (or 0 for an entry never written, which has no free
  space and is never chosen).
- **`BPlusTree`** runs an insert as the chain `Insert`, `_split_leaf`, `_update_parent`,
  `_split_internal`, ..., `_split_root` with the arguments of the next call in `split`,
  so every intermediate tree is a state; properties of the whole tree are
  stated for `pc = "idle"`, and `ImplementsIndex` for every step.
  `separator = 0` in `split` stands for both `None` and 0, because the code's test
  treats them alike. `num_keys` is the length of the node's keys. Rows are named
  `<<key, n>>`. `pinned` is a bag of page ids, the pins that the tree holds: each call adds the pages it fetches and takes away those it
  unpins, in `_find_leaf` one level at a time (`Walked`), along the chain, for new nodes, neighbours, parents, the new root and page 0. The calls that
  only read (`Search`, `RangeScan`, `DeleteMisses`) are actions for the sake of their pins; what they return are the operators `search` and `range_scan`.
  The history variable `rows` is what callers asked the tree to hold, and searches, scans
  and the leaves are compared with it.
- **`Schema`** keeps what the layout is about and drops the digits: a byte is a pair
  `<<x, i>>`, the i-th byte of the encoding of x, so a field read at a wrong offset is not
  the value that was written. Numbers are counted in halves (`Unit` = 2), so that FLOAT
  columns and literals have values between two integers; a character is one or two bytes.
- **`Table`** writes a tree as the set of its entries with the count of the object
  (`num_keys`) and of page 0 (`stored_keys`): that is `Index`, which `BPlusTree` implements
  for up to half a leaf of rows per key, plus the exception of `btree_delete`. A heap file is
  its slots, which `HeapFileProofs` shows it to keep.
- **`Planner`** takes a WHERE as sqlglot nests it without parentheses: an OR of ANDs of conditions. A condition is a comparison of columns, numbers
  and texts, or one that `_plan_expression` has no case for (`Other`, and the operator "other": parentheses, NOT, `!=`, NULL, a negative number, arithmetic), for
  which it raises `NotImplementedError` (`IsPlannedAll`); so an OR under an AND, which needs parentheses, always raises. `split_conjuncts`
  makes conjuncts of an AND and leaves an OR whole. Ordering a text and a number is a `TypeError`, which And and Or reach because they evaluate both
  sides (`Comparable`).
  It follows one query: `_plan_select` (columns without a table are given the FROM
  table's name), `push_down`, then `_plan_scan`, `_plan_join` and `Finish` compute what the chosen
  operators yield, as a set of joined rows. An operator that does not open, one that raises
  while it is read and one that ends are told apart because the code opens its children early
  and reads them late: an index join opens the scan that it replaces and never reads it.
- **`Engine`** runs one row per step. A DELETE collects its rids first, as `Delete.execute`
  does; the order in which it deletes them is open. After a delete has raised (`failed`), heap
  and indexes may differ and no restart is modelled, since which leaves are written then depends
  on evictions.
- **`Catalog`** has a step for each write that reaches the disk: `Steps` gives their order for
  each statement, `stmt.next` is the one that is due. Dirty pages are written at any time
  (eviction) and by `flush_all`, which has ended when `dirty` is empty. A page is of the kind its
  first bytes make it: zeros, directory, data, metadata or leaf. The directory of a
  heap file whose page 0 is the metadata of a tree counts one page (`DirectoryOf`), because
  root page 1 is what `deserialize` finds where `page_count` should be.
  A tree is page 0 and one leaf, so that an index that was never flushed (zeros: `Circular`) can be met
  by an INSERT, which then never returns.
- History variables of `Catalog`: `inserted` and `committed` rows per table, `lost` ones
  that a crash found unflushed, and `fresh`, the heap files whose directory was their first page.
  `committed` takes rows only while the directory counts every page (`InStep`), see below.
- The cap `MaxPages` on the tree leaves a split that would exceed it pending; no
  property is checked in such a state, and the caps are chosen so that the
  named keys fit: the passing runs never reach it. `MaxTime` caps the replacer's clock,
  `MaxInserts` and `MaxPages` the heap, `Spaces` the free space that a long page shows, `Deletable` and `ScanKeys` the keys that are deleted and that bound range
  scans in `BPlusTree`, `MaxSlots` and `MaxIndexes` the `Engine`, `MaxFiles`,
  `MaxRows`, `Crashes` and `Failures` the `Catalog`.

## What the runs show

| Run | Instance | Result |
|---|---|---|
| `lruk` | 3 frames, K = 2, 6 accesses | `evict` is LRU-K on the complete log, and its victim is unique |
| `pool` | 2 frames, 3 pages, 2 versions, 2 callers, 5 fetches per process | consistency, reads after unpin, shared bytes, no lost frame, durable flushes, `PageStore` implemented |
| `heap` | pages of 22 bytes, tuples of 2, 10, 17 (which reaches into the slots) and 23 (longer than a page), 4 data pages (one more than the directory holds), 4 inserts; 181488 states | exact scans, sound pages, agreeing directory and stable rids while no insert has raised; a crash keeps what the last flush promised in any case in which no long page was written |
| `btree` | nodes of 2, keys 1 to 7 in every order, two of them deletable, range scans bounded by 3 and 7, restarts; 49913 states | exact search and range scan, chained leaves, balance, every pin returned, `Index` implemented |
| `btree_copies` | nodes of 4, 5 keys, up to two rows per key, three keys deletable | duplicates are all found |
| `engine` | three tables, 6 INSERTs (four with a row that raises), 5 DELETEs (two that cannot be planned or run), 4 columns to index, 4 rows, 2 indexes, 29 queries; 135566 states | rows are exact byte for byte, heap and indexes agree between any two rows, queries and deletes do what they mean |
| `catalog` | two tables with a column each, 3 file ids, 2 rows, one failure, one crash | unique ids, named files, durable catalog, surviving rows and indexes, statements that end |

The other runs show where the code does something other than its
tests or README say; `PROJECT.json` "findings" quotes the lines:

- `heap_directory_full`: the page the directory has no entry for makes the whole file unreadable;
- `btree_duplicates`: with more rows of one key than half a node, a split between equal
  keys puts leaf chain and pointers in different orders, and rows are not found
  (`btree_copies` is the same tree with one row less per key);
- `btree_delete`: the first delete after a restart may raise;
- `engine_indexes`: an index on a join column drops the WHERE conjunct that was pushed into the scan
  the index join replaces, so a query returns more rows with the index than without;
- `catalog_reuse`: the id that a failed CREATE INDEX took is given again after a restart, and a table
  created in its file cannot be scanned.

Known from the models and confirmed on the code, without a run of their own:

- A tuple that fits a page only without its slot raises after the file has grown; `heap` has such
  tuples, and states its properties about scans for files in which none was inserted.
- A tuple longer than a page raises and leaves a frame longer than a page (`page.py:39`). The directory offers the page with space, a later
  insert or delete reports it dirty, and the flush writes the whole frame over the pages behind it. On the code: after an insert of 4200 bytes that raises, two
  rows of 4000 bytes are accepted and flushed; deleting the first and flushing writes 8192 bytes, and the next process cannot scan the
  table. `CrashKeepsCommitted` without its premise `~spilled` is violated in six steps of `heap`'s instance.
- A separator of 0 is taken for a missing one (`b_tree.py:97`): with keys on both sides
  of 0 a split at 0 loses keys. Keys -6 to 3 in nodes of 2 violate `SearchIsExact`; the runs use
  positive keys.
- When a process dies after a heap file grew and before its directory was written, the
  file has a page that the directory does not count, and the next new page is not the one the directory
  then counts. Rows inserted there *and flushed* by later processes are never scanned. `RowsSurvive`
  would fail without `InStep`.
- When a process dies between CREATE INDEX's write of `catalog.json` and `flush_all`, page 0
  of the tree is zeros and the next INSERT never returns: `StatementsEnd` is about processes that did not die.
- When an index is used, `k < 2.5` misses 2 and `k > 2.5` misses 3, and `2 < k` is
  read as `k < 2`; ON is treated as an equality whatever its operator is; a join of three tables whose FROM
  table has an index on a column of the third's name raises or probes the wrong side. `Sound` in `Engine` names
  these cases, and `SelectIsExact` is about the others.
- An index that is searched for a text (`k = 'a'`, or a join with a VARCHAR column) raises where a scan would find nothing; an empty tree finds nothing as well, and
  the model lets that raise, too. `Sound` excludes these lookups.
- A VARCHAR that CREATE TABLE makes has no `max_length`, because the logical planner drops it (`logical_planner.py:100`): the limit that `coerce` checks, and that
  `engine` has for one column, can only be set through the `Schema` API.

Why the bounds are enough. Two frames and three pages force evictions of clean and dirty pages
while another caller has a page pinned or reads a released one; a third frame adds no
new relation between two handles. A page of 22 bytes has room for one or two
slots: with and without space left, exactly full, and a tuple that fits
without its slot; its directory holds 3 entries. 22 and 4096 agree modulo 6, the
size of a directory entry, which decides which write fails first. A tree with
nodes of 2 splits a leaf with the third key and an inner node with the fifth;
seven keys reach an inner split whose separator goes to a parent that is not the
root's replacement. Nodes of 4 are the smallest in which two rows with one key can be split
apart, deleted and inserted again without filling half a node by themselves.

In `Engine` four rows in all, up to four in one table, give a join a partner to find and one to
reject; values 1 to 3 put a row on, below and above each bound of the queries; two indexes
make a second index on one table, a choice between two joins, and a delete that raises
between two trees. `Catalog` needs two tables and an index for an id to be named twice in different
roles, three ids so that one can be lost to a failed statement, one crash for each moment of a statement
(the state after it is again one of a running process), and two rows to meet a page before and after
it was written.

Symmetry is used for frames and handles in `BufferPool`, which the specification
treats alike, in runs of safety properties and of the step-wise refinement.

Fairness is assumed in `Catalog` only (`FairSpec`): the process goes on with a statement it has begun
(weak fairness of `Works`), and `flush_all` goes on with its loop (weak fairness of writing back
some page while the flush is due). Both are one thread running code that does not wait for anyone.
Nothing is assumed of users, evictions, restarts or crashes. Under it `StatementsEnd` shows that no
statement reaches a page that sends `_find_leaf` round for ever, as long as no process has died. Elsewhere
the code's loops end as a matter of safety: `search`, `delete` and
`range_scan` follow a chain that `LeavesAreChained` shows finite, and a path
down that ends (TLC evaluates both as functions that would not terminate otherwise).
Deadlock is checked in `pool`; elsewhere a behaviour may end at its bound.

## What is proved

`BufferPoolProofs` proves, for any finite set of handles and any frames, files,
pages, versions and K >= 1:

| Theorem | Statement |
|---|---|
| `PoolIsConsistent` | `Spec => []PoolConsistent` |
| `PinnedPagesAreShared` | `Spec => []PinnedHandlesShareBytes` |
| `ReadAfterUnpin` | `Spec => []HandlesReadTheirPage` |
| `FramesAreNeverLost` | `Spec => []NoFrameLost` |
| `FlushesAreDurable` | `Spec => FlushIsDurable` |
| `PoolImplementsPageStore` | `Spec => ImplementsPageStore` |

`PoolConsistent` is the inductive invariant. `HandlesReadTheirPage` alone is not
inductive: that a reload of a frame never hits a pinned handle needs
"evictable frames have no pinners" (`PinsCounted`), which needs the pin count to be
the number of pinning handles (the only counting argument, `Cardinality` of
`Pinners`), which needs the tables to be inverse (`TablesAgree`). `CleanIsOnDisk` and
`BytesInPlace` are what the refinement adds: a page that is not cached is
current on disk. There is one lemma per kind of step (`HitStep`, `LoadStep`, `ModifyStep`,
`ReleaseStep`, ...) that it keeps the invariant, and `StepRefines` shows that each step is a
step or a stutter of `PageStore` under `store[p] = Current(p)`, `saved = disk`. The
assumptions are `PoolAssumption` and `KAssumption`; the pool's `MaxTime`, a bound for TLC, is not
assumed to be anything.

`HeapFileProofs` proves, for every page, header and slot size allowed by `PageAssumption`, tuples
of any length, and any `MaxPages` and `MaxInserts`:

| Theorem | Statement |
|---|---|
| `HeapTypeCorrect` | `Spec => []TypeOK` |
| `PagesStaySound` | `Spec => []PagesAreSound` |
| `DirectoryStaysExact` | `Spec => []DirectoryAgrees` |
| `ScanStaysExact` | `Spec => []ScanIsExact` |
| `SlotsStayGiven` | `Spec => SlotsAreNotReused` |

The inductive invariant is `HeapInv`: `TypeOK`, the directories' counts within the file
(`CountsInv`, without which even the type is not inductive: the directory names the page
that an insert writes), and, while no insert has raised, `SoundInv` (pages and directory add
up, a page beyond the file has no slots), `CleanInv` (what is not dirty is on the disk, so
that a restart changes nothing) and `LiveInv` (the valid slots are the rids in `live`, with
their rows). The page arithmetic is in lemmas of its own: `InsertedSound` shows that
an insert whose fields all pack leaves a sound page, so slots and data cannot overlap there;
`EntriesReadable` that a directory of at most `MaxEntries` entries can be read back.
`AcceptedInsert` and `RefusedInsert` treat the end of a call once for a page of the file and
for a new one.

It also proves, under the further assumption `SlotAssumption` (a slot is not larger than the page header; 4 and 8 bytes in the code):

| Theorem | Statement |
|---|---|
| `CommittedSurvives` | `Spec => []CrashKeepsCommitted` |

`HeapInv` says little of the time after an insert has raised, when a page may be torn and its change unreported.
The inductive invariant `CrashInv` sorts pages instead: one *bears* rows (it is sound), or it is
*barren* (zeros, or torn by an insert that raised, and then either longer than a page or without room for another tuple). The directory promises
no more space than a bearing page has (`PagesInv`), so an insert never tears one. Whatever is not in the file as
it is in the pool is dirty and bears rows, or is leaked and barren in both (`WrittenInv`). So every
committed row stays in the pool's pages, and in the file's as far as the file's directory, if it can be read, counts them (`CommittedInv`).
`SlotAssumption` makes the page torn by a failed `pack_into` one without room. All this holds until a long page is written (`spilled`); from then on
`CrashKeepsCommitted` promises nothing, as the code keeps nothing then (see the known cases above).

`LRUKProofs` proves, for any K >= 1 and any set of frames, finite or not:

| Theorem | Statement |
|---|---|
| `VictimIsLRUK` | `Spec => []VictimHasLargestKDistance` |
| `VictimStaysUnique` | `Spec => []VictimIsUnique` |
| `ReplacerTypeCorrect` | `Spec => []TypeOK` |

The inductive invariant `LogInv` relates the history of a frame to the log of all its accesses: it is the
log's end, of length K at most (`RememberedEnd` is the one step that needs work). Times
grow and no two accesses share one, so the oldest times of two frames differ
(`OldestTimesDiffer`), which makes the minimum unique; that there is one is the well-foundedness of Nat.
`ReplacerTypeCorrect` bounds the clock by `MaxTime` and therefore assumes that to be a number (`TimeAssumption`).

`CatalogProofs` proves, for any names and columns (none called "heap", which the
model uses for the table's own file) and any bounds:

| Theorem | Statement |
|---|---|
| `IdsStayUnique` | `Spec => []FileIdsAreUnique` |
| `NamedFilesStay` | `Spec => []NamedFilesExist` |
| `CatalogStaysDurable` | `Spec => []CatalogIsDurable` |

The three hold together as `CatalogInv`: the file of a table being dropped must not be one that another
table or index uses (uniqueness) for its removal to leave the named files alone; a load
makes the process believe what `catalog.json` says, so both need the same invariant; and a new id is unused because all
ids in use are below `next_file_id`, in memory and in the file, which in turn rests on every
statement writing the counter together with the tables. `TableAdded`, `IndexAdded` and `TableDropped` say what each
statement does to the files in use, `Continued` what comes after each step.

The same module proves, under the same assumptions:

| Theorem | Statement |
|---|---|
| `CatalogTypeCorrect` | `Spec => []TypeOK` |
| `CommittedRowsSurvive` | `Spec => []RowsSurvive` |
| `IndexesStayExact` | `Spec => []IndexesSurvive` |

Rows live in pages that reach the disk one at a time. The invariant of the rows (`RowsCatalogInv`) has a part
for every moment, `StoreInv` (`CatalogInv`, types, the ids of the statement in progress), and one while a process runs,
`RowsKept`: every row is one table's (`HistoryInv`); a file that `catalog.json` does not count has no rows (`DataInv`); in a heap file
that a table names, in memory or in `catalog.json`, or that may still be given out, the pool is never
behind the file and no page becomes a tree's (`FreshInv`); the file's own directory counts every committed row, and the pool has every row
that no crash has found unflushed (`RowsInv`). The same is said of the tables in memory and of those in
`catalog.json`, because a crash makes the second the first.

`IndexCatalogInv` adds `IndexInv` while no process has died: an id that `catalog.json` has not counted belongs to the statement that makes
its file, or the file is unused, or it is the empty tree that a failed CREATE INDEX left (`NewFilesInv`); the
directory of a table's own file counts every page, so that the page an insert fills is one that a scan reads; and each
index lists what a scan returns. Rows added to a heap and to its indexes, a tree built over an old one and an eviction in between are
the steps that need work.

`BPlusTreeProofs` proves, for any `ORDER` from 2, any integer keys (0 and negative ones included) and copies of a key, any
bound on the pages, with and without restarts:

| Theorem | Statement |
|---|---|
| `TreeTypeCorrect` | `Spec => []TypeOK` |
| `TreeStaysBalanced` | `Spec => []TreeIsBalanced` |
| `PinsAreAlwaysReturned` | `Spec => []PinsAreReturned` |
| `TreeImplementsIndex` | `Spec => ImplementsIndex` |

None of these is inductive, and most operators of the tree walk it: `PathTo`, `Leftmost`, `Chain`, `HolderOf` and `Depth`
are recursive functions, which denote nothing before it is known that the walk ends.
The inductive invariant `TreeInv` names what the walks rest on: a function `level` from
pages to numbers that is 0 on leaves and falls by one along every pointer (`Levels`); the set of pages `edge` on
the way from the root to page 1, which stays the leftmost leaf for ever (`LeftEdge`); and the sequence `chain` that lists each
leaf once in the order of its links (`IsChain`). They are not
variables of the model: `TreeInv` says that they exist, and each step lemma gives the next ones. `CallInv` describes the
call in progress: the path goes from the root down one level at a time (`PathInv`), the held node is that
of its page with one key too many (`HeldInv`), the new node is on the level of the node it was split from (`PendingInv`),
page 0 names the object's root (`HeaderInv`), and the bag of pins has the held node once while there is one and is empty otherwise (`PinsInv`).
`ReadsReturn` follows search, range scan and a delete that finds nothing along the way down and the chain, one fetch and one unpin at a time; the other pins are accounted for
in the step lemmas of the splits.
`PairsInv` says that the leaves, the held one by its changed content, hold the pairs in `rows`.
The walks exist by induction on the levels, and on the positions of the chain (`RankInduction`, `Recursion`): these
take sets instead of operators, so the induction theorems' operator parameters are not needed.
`InsertStep`, `SplitLeafStep`, `UpdateParentStep`, `SplitInternalStep`, `SplitRootStep`, `DeleteStep` and `ReadsStep` are the steps of the
induction, and the refinement reads off them what happens to `rows`. Order plays no part: balance and the content of the
leaves stay right also where `btree_duplicates` shows that rows are no longer found.

`BPlusTreeOrderProofs` proves what does depend on order, for any `ORDER` from 2 and under `FewCopies`: no key is 0, and there are at most
`ORDER \div 2` rows with the same key at a time. Both are needed: a separator of 0 is taken for a missing one, and with one row more per key
`btree_duplicates` finds a search that misses rows.

| Theorem | Statement |
|---|---|
| `LeavesStayChained` | `FewCopies` implies `Spec => []LeavesAreChained` |
| `SearchStaysExact` | `FewCopies` implies `Spec => []SearchIsExact` |
| `RangeStaysExact` | the same, and a finite set of keys that is not empty, imply `Spec => []RangeIsExact` |

(The model writes a scan without bounds as one from the least key to the greatest, which is why these have to exist.)

The invariant `OrderInv` adds to `TreeInv` that there are bounds for every page, `lo` and `hi`, sets that are empty at the
edges of the tree. A page's keys lie between its bounds, strictly in an inner node and not so in a leaf, since new keys go behind equal ones; the
bounds of a child are the separators around its pointer; and the lower bound of a leaf is the upper bound of the leaf before it (`Ordered`). In the middle
of an insert a new page is in the chain and no pointer leads to it: then a pointer's subtree ends where the new page ends (`Ends`), and `PendingOrder` says
that the separator about to be inserted is the bound between the two. `Follows` says which pointers the path went through, so that the separator gets its
place next to the pointer of the page that was split (`PlaceOfChild`). `FewCopies` enters in one lemma: a leaf that overflows is split at a key
strictly between its bounds (`SplitKeyInside`), because equal keys cannot fill either half of it.

From the order, the chain's entries rise from leaf to leaf (`EntriesRise`), and the leaf a key leads to has only smaller keys before it (`StartsAt`).
A lookup in a leaf is a loop that appends (`Picked`); by induction on its length it lists the entries in the range (`PartListed`), and by induction from the end
of the chain so does the walk (`WalkListed`, for `search` and `range_scan` alike): it stops where no later leaf has an entry in the range.

`SchemaProofs` proves that a row survives its bytes, for any columns, with INT and FLOAT values and texts of any length:

| Theorem | Statement |
|---|---|
| `RowRoundTrip` | `deserialize(columns, serialize(columns, row)) = row` for every row of the columns' types |

`serialize` writes the lengths of the texts, two bytes each, and then all fields; `deserialize` adds lengths up to find a field. A concatenation of
parts has part `i` behind the parts before it (`PartAt`, by induction on the number of parts); `PrefixLength` and `Counted` say where the
fields begin and which entry of the prefix belongs to a column, `ReadLength` that the length read there is the field's, and
`TextRoundTrip` that the bytes of a text, characters of one and two bytes mixed, decode to it.
`Iterated` is the lemma all recursive functions over `1 .. n` go through: a function built by such a recursion exists.

`EngineProofs` proves, under `EngineAssumption` and `QueryAssumption` (the types of columns, statements and queries;
indexed columns are INT; a query names no table twice, and its columns exist), for any tables, statements, queries and bounds:

| Theorem | Statement |
|---|---|
| `EngineInvariant` | `Spec => []EngineInv` |
| `TypeCorrect` | `Spec => []TypeOK` |
| `RowsKept` | `Spec => []RowsAreExact` |
| `IndexesKept` | `Spec => []IndexesAgree` |
| `DeletedExactly` | `Spec => DeleteIsExact` |
| `SelectedExactly` | `Spec => []SelectIsExact` |

`RowsAreExact` is about what a scan reads, and a step changes bytes: the inductive invariant `EngineInv` says instead that the valid slots of
a table hold `serialize` of the rows in `rows` (`Stores`), and those rows have the types of their columns, with whole
numbers in INT columns (`IsRow`), so that `RowRoundTrip` gives the scan and keys of an index are integers. A table has at most one tree
per column (`OneTreeEach`), without which `create_index` could leave two of different content; trees list the rows (`Indexes`) until a delete has raised;
the rids of a DELETE in progress name rows (`StmtInv`), so each step deletes a row that is there. `InsertKeeps`, `DeleteKeeps`, `CreateKeeps`
and `ReopenKeeps` say this for one table value, and `TableChanges` lifts them to a step.

For `DELETE`, `DeleteInv` adds that the rids still to be deleted are those of rows that satisfy the predicate, and of all of them. It rests on
`CandidatesAre`: what an index yields between the bounds that the conjuncts leave (`BoundsHold`) has every row that satisfies the predicate,
because each of `_tighten_bounds`' cases keeps the keys that agree with its comparison (`TightenedHolds`, where `value + 1` needs
integers), and an equality that replaces the bounds drops only keys that the predicate rejects.

For `SELECT`, `RowsTo(db, kept, plan, i)` are the combinations of rows of the first `i + 1` tables that satisfy the scans' predicates and the `i` conditions
between them. `JoinReturns` shows that the join of scan `i + 1`, whichever of the three operators `_plan_join` takes, makes `RowsTo` of `i` from that of `i - 1`;
`JoinsReturn` is the induction on the number of joins. `JoinedPair` and `PairJoined` relate a joined row to its two parts, for which a condition
must not look at tables that come later (`AgreeBefore`). `ConjunctsAre` and `PushedToIs` say which conjuncts end up where, so that those pushed into a scan and
those left above the joins are together the WHERE clause (`WhereIsPushed`); `QualifiedIs` that a bare column is given to the table that has it.
`PlanPlanned` shows that a plan made from a query has what these lemmas ask of plans, and `QueryReturns` puts them together.

The theorem is about the plans for which `Sound` holds, the same premise that TLC checks `SelectIsExact` under; the cases
that it excludes, listed above, are those in which the code returns something else or raises. It says nothing of how often that is: `engine_indexes` and the list
of known cases do. The two other premises are those under which the program does not raise: the query has no condition that `_plan_expression` refuses
(`IsPlannedAll`), and orders no text and number (`Comparable`); texts themselves are ordered by their characters, and a text equals no number (`Holds`).
`SplitIs` and `PredicateIs` say that the conjuncts of the plan together are the WHERE that was written, an OR of ANDs; `NotByText` that a
sound lookup is one for a number. For `DELETE` the premise is that its scan is sound; one that raises, because of its condition or in the middle
of its scan, deletes nothing.

Only model-checked: `StatementsEnd`, which is liveness. `engine_indexes` and the other runs that end in a violation show
what cannot be proved because it is false.

Out of the prover's reach: liveness, and ENABLED. The induction theorems of the library take an operator as a parameter;
`RankInduction`, `Recursion`, `Upward` and `Iterated` take sets and functions instead, which is enough for the recursive
functions of these modules. `Total` in `Engine`, a fold, only bounds the model; nothing is proved of it.

## What is not modelled

- Torn page writes, I/O errors and a file removed while pages of it are cached.
- What a page holds that an oversize tuple made longer than a page, and inserts into a file after
  such a page was written to it; what a heap file does after a crash beyond the first read; what
  a tree does after a delete has raised; crashes inside a tree operation.
- The byte layout of tree nodes: 100 keys and 101 pointers or 100 rids fit in
  4096 bytes, `TypeOK` of `BPlusTree` shows that a written node never has more than `ORDER` keys.
- Keys that are not integers (`CREATE INDEX` does not check), and keys beyond 32 bits,
  which the row's own serialization refuses first.
- Indexes on columns that are not INT (`CREATE INDEX` accepts one on an empty table, after which
  INSERT raises), duplicate column names in a query, tables that occur twice in it, aliases,
  and ON that is not one comparison of two columns.
- Conditions of WHERE that are no comparison of columns and literals but that the planner accepts: a bare column, `TRUE`, a comparison
  whose side is a comparison. ORDER BY, GROUP BY and LIMIT, which `_plan_select` ignores without a word. INSERT of a negative number, whose
  sign `_plan_insert` drops.
- The order of result rows, and the pool's part in a query: a scan's handles are those of `BufferPool`.
- In `Catalog`: schemas in `catalog.json`, DELETE, trees of more than one leaf, an index
  whose root page is missing although its metadata was written, inserts into a page that a crash left as
  zeros. In `Engine`: more rows of one key than half a leaf.
- The parser (sqlglot, a library), DESCRIBE and all printing.
- `cli/format.py`: formatting only.

## Plan

Done, in this order: `LRUK` and `LRUKReplacer`; `PageStore`, `BufferPool` and its proofs; `HeapPage`, `HeapFile`
and their proofs; `Index`, `BTreePage`, `BPlusTree`; `Schema`, `Table`, `Planner`, `Engine`; `Catalog`;
`LRUKProofs` and `CatalogProofs`; the crashes of `HeapFileProofs`, `BPlusTreeProofs`, `BPlusTreeOrderProofs`; `SchemaProofs`
and `EngineProofs`.

Left:

1. A tree over durable pages, as `HeapFile` has them: what a crash inside a split leaves.
2. I/O errors in an eviction, as a further outcome of `FetchEvict`.
