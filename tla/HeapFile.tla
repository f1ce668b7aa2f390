------------------------------ MODULE HeapFile ------------------------------
(***************************************************************************)
(* class HeapFile (storage/heap_file.py) over the buffer pool's contract   *)
(* (PageStore): every page has a current content and a durable one, and a  *)
(* page reported dirty is written back when it is evicted or flushed.  An  *)
(* exception inside insert_tuple leaves its pages pinned and unreported.   *)
(* Inside one operation only unpinned pages can be evicted, so evictions   *)
(* between operations produce every durable state that a crash can find.   *)
(***************************************************************************)
EXTENDS HeapPage

CONSTANTS
  MaxPages,     \* bound on the size of the file, in pages
  MaxInserts    \* bound on the number of calls of insert_tuple

ASSUME BoundAssumption == MaxPages \in Nat \ {0} /\ MaxInserts \in Nat

VARIABLES
  dir, pages,               \* current content: page 0, pages 1 and up
  saved_dir, saved_pages,   \* durable content
  num_pages,    \* size of the file in pages
  dirty,        \* page ids reported dirty and not yet written
  leaked,       \* page ids left pinned by an exception
  spilled,      \* history variable: a long page was written to the file
  inserts,      \* calls of insert_tuple so far; names the inserted row
  running,      \* the process has not crashed
  failed,       \* history variable: an insert_tuple has raised
  live,         \* history variable: rid -> row, of the inserts that
                \*   returned rid, less the deleted ones
  committed     \* history variable: {<<rid, row>>} that the last flush
                \*   promised to keep and nobody deleted since

file == <<dir, pages, num_pages, dirty, leaked>>
saved == <<saved_dir, saved_pages, spilled>>
history == <<inserts, failed, live, committed>>
vars == <<file, saved, history, running>>

PageIds == 1 .. MaxPages - 1

(* create_directory, which flushes the page it made.                       *)
Init ==
  /\ dir = NewDirectory /\ saved_dir = NewDirectory
  /\ pages = [p \in PageIds |-> ZeroPage] /\ saved_pages = pages
  /\ num_pages = 1
  /\ dirty = {} /\ leaked = {}
  /\ spilled = FALSE
  /\ inserts = 0
  /\ running = TRUE
  /\ failed = FALSE
  /\ live = <<>>
  /\ committed = {}
-----------------------------------------------------------------------------
(* scan: pages 1 .. page_count - 1, by the directory; it raises when the   *)
(* directory cannot be read.  A page beyond the file reads as zeros.       *)
Rows(ps, p) == {<<<<p, s>>, ps[p].slots[s].row>> : s \in PageScan(ps[p])}
Scan(d, ps) ==
  IF Readable(d)
  THEN UNION {Rows(ps, p) : p \in PageIds \cap (1 .. d.page_count - 1)}
  ELSE {}
Visible == Scan(dir, pages)

(* The pages that a returning insert_tuple unpins with is_dirty.           *)
Reported_PageOnly(p) == {p}
Reported(p) == {0, p}

(* The end of a call of insert_tuple, with directory d so far and page p   *)
(* holding pg: it returns a rid, the last slot of the page ...             *)
Returns(d, p, pg, len) ==
  /\ SlotPacks(pg, len) /\ SpacePacks(pg, len)
  /\ LET new == Inserted(pg, inserts, len)
     IN  /\ pages' = [pages EXCEPT ![p] = new]
         /\ dir' = Updated(d, p, new.free_space)
         /\ live' = [r \in DOMAIN live \cup {<<p, new.num_slots>>} |->
                       IF r = <<p, new.num_slots>> THEN inserts ELSE live[r]]
  /\ dirty' = dirty \cup Reported(p)
  /\ UNCHANGED <<leaked, failed, committed>>

(* ... or raises inside Page.insert_tuple, with both pages pinned.         *)
Raises(d, p, pg, len) ==
  /\ ~(SlotPacks(pg, len) /\ SpacePacks(pg, len))
  /\ pages' = [pages EXCEPT ![p] = Torn(pg, inserts, len)]
  /\ dir' = d
  /\ leaked' = leaked \cup {0, p}
  /\ failed' = TRUE
  /\ UNCHANGED <<dirty, live, committed>>

(* A spilled file may be longer than its pages, so that the next page that *)
(* allocate_page names is not the next that the directory counts: inserts  *)
(* are followed no further.                                                *)
Calls == running /\ ~spilled /\ inserts < MaxInserts /\ inserts' = inserts + 1

(* Lines 22-24 and 34-45: a page of the directory has enough space.        *)
InsertInPage(len) ==
  /\ Calls /\ Readable(dir)
  /\ \E p \in FirstFit(dir, len + HEADER_SIZE) :
       /\ ~pages[p].long
       /\ Returns(dir, p, pages[p], len) \/ Raises(dir, p, pages[p], len)
  /\ UNCHANGED <<saved, num_pages, running>>

(* The header of a long page is what was there, or bytes of the tuple: the *)
(* call packs its fields, with any free space, or it raises.  The rows in  *)
(* a long page are not followed.                                           *)
InsertInLongPage(len) ==
  /\ Calls /\ Readable(dir)
  /\ \E p \in FirstFit(dir, len + HEADER_SIZE) :
       /\ pages[p].long
       /\ \/ /\ \E space \in Spaces : dir' = Updated(dir, p, space)
             /\ dirty' = dirty \cup Reported(p)
             /\ UNCHANGED <<leaked, failed>>
          \/ /\ leaked' = leaked \cup {0, p}
             /\ failed' = TRUE
             /\ UNCHANGED <<dir, dirty>>
  /\ UNCHANGED <<pages, saved, num_pages, live, committed, running>>

(* Lines 26-45: a new page at the end of the file.                         *)
Allocates(len) ==
  /\ Calls /\ Readable(dir)
  /\ FirstFit(dir, len + HEADER_SIZE) = {}
  /\ num_pages < MaxPages
  /\ num_pages' = num_pages + 1
  /\ saved_pages' = [saved_pages EXCEPT ![num_pages] = ZeroPage]
  /\ UNCHANGED <<saved_dir, spilled, running>>

InsertInNewPage(len) ==
  /\ Allocates(len)
  /\ EntryFits(dir, num_pages)
  /\ LET d == Updated(Counted(dir), num_pages, PAGE_SIZE)
     IN  \/ Returns(d, num_pages, NewPage, len)
         \/ Raises(d, num_pages, NewPage, len)

(* increase_page_count raises: the count is one too many from here on.     *)
InsertDirectoryFull(len) ==
  /\ Allocates(len)
  /\ ~EntryFits(dir, num_pages)
  /\ dir' = Counted(dir)
  /\ leaked' = leaked \cup {0}
  /\ failed' = TRUE
  /\ UNCHANGED <<pages, dirty, live, committed>>

(* delete_tuple of a row that a scan found.                                *)
delete_tuple(rid) ==
  /\ running
  /\ \E row \in 0 .. inserts : <<rid, row>> \in Visible
  /\ pages' = [pages EXCEPT ![rid[1]] = Deleted(@, rid[2])]
  /\ dirty' = dirty \cup {rid[1]}
  /\ live' = [r \in DOMAIN live \ {rid} |-> live[r]]
  /\ committed' = {c \in committed : c[1] # rid}
  /\ UNCHANGED <<dir, saved, num_pages, leaked, inserts, failed, running>>

(* delete_tuple of a row that a scan makes up from the bytes of a torn or  *)
(* long page: the page is reported dirty.                                  *)
DeleteGarbage(p) ==
  /\ running /\ Readable(dir)
  /\ p \in 1 .. dir.page_count - 1 /\ ~pages[p].intact
  /\ dirty' = dirty \cup {p}
  /\ UNCHANGED <<dir, pages, saved, num_pages, leaked, history, running>>
-----------------------------------------------------------------------------
(* The file's pages when those in P are written, each in its place.        *)
Stored(P) == [p \in PageIds |-> IF p \in P THEN pages[p] ELSE saved_pages[p]]

(* write_page writes the whole frame: a long one over the pages that follow *)
(* its own, except those written again after it.                            *)
LongIn(P) == {p \in PageIds \cap P : pages[p].long}
Following(P) == {q \in 1 .. num_pages - 1 : \E p \in LongIn(P) : p < q}

(* The pages in P are written to the file and are clean.                   *)
Written_ClearsAll(P) ==
  /\ saved_dir' = IF 0 \in P THEN dir ELSE saved_dir
  /\ \E over \in SUBSET Following(P) :
       saved_pages' = [p \in PageIds |-> IF p \in LongIn(P) \cup over THEN Garbage
                                         ELSE Stored(P)[p]]
  /\ spilled' = (spilled \/ LongIn(P) # {})
  /\ dirty' = {}
Written(P) ==
  /\ saved_dir' = IF 0 \in P THEN dir ELSE saved_dir
  /\ \E over \in SUBSET Following(P) :
       saved_pages' = [p \in PageIds |-> IF p \in LongIn(P) \cup over THEN Garbage
                                         ELSE Stored(P)[p]]
  /\ spilled' = (spilled \/ LongIn(P) # {})
  /\ dirty' = dirty \ P

(* The pool evicts a page that nobody has pinned.                          *)
Evict(p) ==
  /\ running
  /\ p \in dirty \ leaked
  /\ Written({p})
  /\ UNCHANGED <<dir, pages, num_pages, leaked, history, running>>

(* What a flush promises to keep: everything visible, or, when pages were  *)
(* left unreported by an exception, what the file holds with the pages     *)
(* that it writes.                                                         *)
Promised == IF leaked = {} THEN Visible ELSE Scan(saved_dir', Stored(dirty))

(* flush_all at the end of a statement.                                    *)
flush_all ==
  /\ running
  /\ Written(dirty)
  /\ committed' = Promised
  /\ UNCHANGED <<dir, pages, num_pages, leaked, inserts, failed, live, running>>

(* close() and a new process: what was not reported dirty is gone.         *)
Restart ==
  /\ running
  /\ Written(dirty)
  /\ dir' = saved_dir' /\ pages' = saved_pages'
  /\ leaked' = {}
  /\ UNCHANGED <<num_pages, history, running>>

(* The process dies; the next one would start from what was saved.         *)
Crash ==
  /\ running
  /\ dir' = saved_dir /\ pages' = saved_pages
  /\ dirty' = {} /\ leaked' = {}
  /\ running' = FALSE
  /\ UNCHANGED <<saved, num_pages, history>>

Next ==
  \/ \E len \in Lengths :
       \/ InsertInPage(len) \/ InsertInLongPage(len)
       \/ InsertInNewPage(len) \/ InsertDirectoryFull(len)
  \/ \E p \in PageIds, s \in 1 .. MaxInserts : delete_tuple(<<p, s>>)
  \/ \E p \in PageIds : DeleteGarbage(p)
  \/ \E p \in 0 .. MaxPages - 1 : Evict(p)
  \/ flush_all \/ Restart \/ Crash

Spec == Init /\ [][Next]_vars
-----------------------------------------------------------------------------
SlotType == [offset : 0 .. PAGE_SIZE, length : Lengths, is_valid : BOOLEAN,
             row : 0 .. MaxInserts]
PageType == [num_slots : Nat, free_space_pointer : 0 .. PAGE_SIZE,
             free_space : 0 .. PAGE_SIZE, slots : Seq(SlotType),
             intact : BOOLEAN, long : BOOLEAN]
DirectoryType == [page_count : Nat, free_space : [1 .. MaxEntries -> Nat]]

(* The type of the file, current and durable, and of its bookkeeping; a    *)
(* page's slot count is the length of its slot array.                      *)
TypeOK ==
  /\ dir \in DirectoryType /\ saved_dir \in DirectoryType
  /\ pages \in [PageIds -> PageType] /\ saved_pages \in [PageIds -> PageType]
  /\ \A p \in PageIds : /\ Len(pages[p].slots) = pages[p].num_slots
                        /\ Len(saved_pages[p].slots) = saved_pages[p].num_slots
  /\ num_pages \in 1 .. MaxPages
  /\ dirty \subseteq 0 .. num_pages - 1
  /\ leaked \subseteq 0 .. num_pages - 1
  /\ inserts \in 0 .. MaxInserts
  /\ spilled \in BOOLEAN /\ running \in BOOLEAN /\ failed \in BOOLEAN

(* The process runs and no insert has raised so far.                       *)
Sane == running /\ ~failed

LiveRows == {<<r, live[r]>> : r \in DOMAIN live}

(* scan() finds exactly the rows whose insert returned and that were not   *)
(* deleted, each under the rid it was given, across evictions and orderly  *)
(* restarts, while no insert has raised.                                   *)
ScanIsExact == Sane => Visible = LiveRows

(* With or without such an insert before it, no row that insert_tuple      *)
(* accepted is missing from a later scan.                                  *)
InsertedRowsAreScanned == running => LiveRows \subseteq Visible

(* A slotted page adds up: its slots stay below its data, the data of the  *)
(* slots lies edge to edge from the end of the page down to the free space *)
(* pointer, and free_space is the gap between the two, never negative.     *)
PageSound(pg) ==
  /\ pg.intact /\ ~pg.long
  /\ pg.free_space = pg.free_space_pointer - SlotEnd(pg.num_slots)
  /\ pg.free_space >= 0
  /\ \A s \in 1 .. pg.num_slots :
       pg.slots[s].offset + pg.slots[s].length =
         IF s = 1 THEN PAGE_SIZE ELSE pg.slots[s - 1].offset
  /\ pg.free_space_pointer =
       IF pg.num_slots = 0 THEN PAGE_SIZE ELSE pg.slots[pg.num_slots].offset
PagesAreSound == Sane => \A p \in 1 .. num_pages - 1 : PageSound(pages[p])

(* The directory counts every page of the file and knows its free space as *)
(* the page's own header has it.                                           *)
DirectoryAgrees ==
  Sane => /\ dir.page_count = num_pages
          /\ \A p \in 1 .. num_pages - 1 : dir.free_space[p] = pages[p].free_space

(* A slot that was given to a row is never given to another one, even      *)
(* after the row is deleted: a rid in an index cannot change its meaning.  *)
SlotsAreNotReused ==
  [][Sane' => \A p \in PageIds :
       /\ pages[p].num_slots <= pages'[p].num_slots
       /\ \A s \in 1 .. pages[p].num_slots :
            pages'[p].slots[s].row = pages[p].slots[s].row]_vars

(* Whatever the last flush promised and nobody deleted is visible to the   *)
(* process that starts after a crash, whichever pages had been evicted and *)
(* whichever inserts had failed in between, one of a tuple that no page    *)
(* can hold included; only an overfull directory that reached the disk     *)
(* hides it, or a long page that was written over it.                      *)
CrashKeepsCommitted ==
  ~running /\ Readable(dir) /\ ~spilled => committed \subseteq Visible
=============================================================================
