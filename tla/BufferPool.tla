----------------------------- MODULE BufferPool -----------------------------
(***************************************************************************)
(* class BufferPoolManager (buffer/buffer_pool.py) with its LRUKReplacer   *)
(* (LRUK) and its DiskManager, and the callers' side of the protocol:      *)
(* fetch a page, change its bytes in place while it is pinned, unpin it    *)
(* with is_dirty.  A caller's handle is a reference to the bytearray that  *)
(* fetch_page returned; heap_file.py goes on reading through it after the  *)
(* page is unpinned.                                                       *)
(***************************************************************************)
EXTENDS LRUK, FiniteSets

CONSTANTS
  Frames,           \* range(NUM_FRAMES)
  Files, MaxPages,  \* page <<file_id, page_id>> has page_id < MaxPages
  Versions,         \* page contents a caller may write; 0: zero-filled
  Handles,          \* references to page bytes that callers may hold
  MaxTime,          \* bound on the replacer's clock, for model checking
  NoPage, NoFrame

Pages == Files \X (0 .. MaxPages - 1)

ASSUME PoolAssumption ==
  /\ IsFiniteSet(Handles)
  /\ MaxPages \in Nat
  /\ 0 \in Versions
  /\ NoPage \notin Pages
  /\ NoFrame \notin Frames

(* Page bytes, reduced to the page they belong to and a version.           *)
Content == [page : Pages, version : Versions]
Blank == [p \in Pages |-> [page |-> p, version |-> 0]]

VARIABLES
  frames,       \* frame -> the bytes in the bytearray it holds
  page_table,   \* page -> its frame, NoFrame when it is not a key
  frame_table,  \* frame -> its page, NoPage when it is not a key
  free_frames, pin_count, dirty,
  history, evictable, current_time,     \* the LRUKReplacer
  disk,         \* page -> the bytes in its file
  num_pages,    \* file -> its size in pages
  hpage,        \* handle -> the page it was fetched for
  mode,         \* handle -> "closed", "pinned", "released"
  wrote,        \* pinned handles that changed bytes: they unpin as dirty
  ref,          \* handle -> the frame whose bytearray it refers to, NoFrame
                \*           once the pool has put another object there
  copy          \* handle -> the bytes of its object in that case

replacer == <<history, evictable, current_time>>
storage == <<disk, num_pages>>
callers == <<hpage, mode, wrote, ref, copy>>
pool == <<frames, page_table, frame_table, free_frames, pin_count, dirty>>
vars == <<pool, replacer, storage, callers>>

NoCopy == [page |-> NoPage, version |-> 0]
Always(S, x) == [e \in S |-> x]

Init ==
  /\ frames = Always(Frames, NoCopy)
  /\ page_table = Always(Pages, NoFrame)
  /\ frame_table = Always(Frames, NoPage)
  /\ free_frames = Frames
  /\ pin_count = Always(Frames, 0)
  /\ dirty = Always(Frames, FALSE)
  /\ history = Always(Frames, <<>>)
  /\ evictable = {}
  /\ current_time = 0
  /\ disk = Blank
  /\ num_pages = Always(Files, 0)
  /\ hpage = Always(Handles, NoPage)
  /\ mode = Always(Handles, "closed")
  /\ wrote = {}
  /\ ref = Always(Handles, NoFrame)
  /\ copy = Always(Handles, NoCopy)
-----------------------------------------------------------------------------
(* The bytes a handle refers to: those in the pool's frame, or its own     *)
(* object once the frame holds another one.                                *)
Bytes(h) == IF ref[h] = NoFrame THEN copy[h] ELSE frames[ref[h]]

(* The durable pages after write_page for the pages in P.                  *)
Written(P) ==
  [p \in Pages |-> IF p \in P THEN frames[page_table[p]] ELSE disk[p]]

(* The handles whose bytearray leaves the pool when frame f is reloaded.   *)
(* read_page returns a NEW bytearray, so they keep the old bytes.          *)
Detached_InPlace(f) == {}
Detached(f) == {h \in Handles : ref[h] = f}

(* record_access(f) and set_evictable(f, FALSE), on history past.          *)
Accessed_StillEvictable(f, past) ==
  /\ history' = [past EXCEPT ![f] = Remember(@, current_time)]
  /\ current_time' = current_time + 1
  /\ evictable' = evictable
Accessed(f, past) ==
  /\ history' = [past EXCEPT ![f] = Remember(@, current_time)]
  /\ current_time' = current_time + 1
  /\ evictable' = evictable \ {f}

(* A caller may fetch any page the file has.                               *)
CanFetch(h, p) ==
  /\ mode[h] = "closed"
  /\ p[2] < num_pages[p[1]]
  /\ current_time < MaxTime

(* The caller holds the bytearray of frame f; the handles in gone are left *)
(* with the one it replaced there.                                         *)
Hold(h, p, f, gone) ==
  /\ hpage' = [hpage EXCEPT ![h] = p]
  /\ mode' = [mode EXCEPT ![h] = "pinned"]
  /\ ref' = [g \in Handles |->
               IF g = h THEN f ELSE IF g \in gone THEN NoFrame ELSE ref[g]]
  /\ copy' = [g \in Handles |-> IF g \in gone THEN frames[f] ELSE copy[g]]
  /\ UNCHANGED wrote

(* Lines 18-23: the page is in a frame.                                    *)
FetchHit(h, p) ==
  /\ CanFetch(h, p)
  /\ page_table[p] # NoFrame
  /\ pin_count' = [pin_count EXCEPT ![page_table[p]] = @ + 1]
  /\ Accessed(page_table[p], history)
  /\ Hold(h, p, page_table[p], {})
  /\ UNCHANGED <<frames, page_table, frame_table, free_frames, dirty, storage>>

(* page_table without the page that frame f held (lines 31-33).            *)
Unmapped_KeepOld(f) == page_table
Unmapped(f) ==
  [p \in Pages |-> IF p = frame_table[f] THEN NoFrame ELSE page_table[p]]

(* Lines 37-48: frame f takes page p, read from what is on disk by then.   *)
Load(h, p, f, past) ==
  /\ frame_table' = [frame_table EXCEPT ![f] = p]
  /\ page_table' = [Unmapped(f) EXCEPT ![p] = f]
  /\ frames' = [frames EXCEPT ![f] = disk'[p]]
  /\ pin_count' = [pin_count EXCEPT ![f] = 1]
  /\ dirty' = [dirty EXCEPT ![f] = FALSE]
  /\ Accessed(f, past)
  /\ Hold(h, p, f, Detached(f))
  /\ UNCHANGED num_pages

(* Lines 27-28: the page goes into any free frame (set.pop()).             *)
FetchFree(h, p) ==
  /\ CanFetch(h, p)
  /\ page_table[p] = NoFrame
  /\ \E f \in free_frames :
       /\ free_frames' = free_frames \ {f}
       /\ disk' = disk
       /\ Load(h, p, f, history)

(* Lines 29-35: the LRU-K victim is written back if it is dirty.  With no  *)
(* evictable frame evict() returns None and fetch_page raises before it    *)
(* has changed anything: no step here.                                     *)
FetchEvict(h, p) ==
  /\ CanFetch(h, p)
  /\ page_table[p] = NoFrame
  /\ free_frames = {}
  /\ evictable # {}
  /\ \E f \in Victims(history, evictable) :
       /\ disk' = IF dirty[f] THEN Written({frame_table[f]}) ELSE disk
       /\ Load(h, p, f, [history EXCEPT ![f] = <<>>])
  /\ UNCHANGED free_frames
-----------------------------------------------------------------------------
(* A caller changes the bytes it has pinned (struct.pack_into on the       *)
(* bytearray); the pool hears of it when the caller unpins.                *)
Modify(h, v) ==
  /\ mode[h] = "pinned"
  /\ frames' = [frames EXCEPT ![ref[h]] = [page |-> hpage[h], version |-> v]]
  /\ wrote' = wrote \cup {h}
  /\ UNCHANGED <<page_table, frame_table, free_frames, pin_count, dirty,
                 replacer, storage, hpage, mode, ref, copy>>

(* One unpin of frame f: lines 61-67 apart from the dirty flag.            *)
Released_NeverEvictable(f) ==
  /\ pin_count' = [pin_count EXCEPT ![f] = @ - 1]
  /\ evictable' = evictable
Released(f) ==
  /\ pin_count' = [pin_count EXCEPT ![f] = @ - 1]
  /\ evictable' = IF pin_count[f] = 1 THEN evictable \cup {f} ELSE evictable

(* The dirty flags after an unpin with is_dirty (lines 63-64).             *)
Marked_Overwrite(f, is_dirty) == [dirty EXCEPT ![f] = is_dirty]
Marked(f, is_dirty) == IF is_dirty THEN [dirty EXCEPT ![f] = TRUE] ELSE dirty

(* unpin_page; every caller reports is_dirty = it has written, and goes on *)
(* holding the bytes.  The two early returns need an unpin without a pin,  *)
(* which no caller does.                                                   *)
unpin_page(h) ==
  LET f == page_table[hpage[h]]
  IN  /\ mode[h] = "pinned"
      /\ f # NoFrame /\ pin_count[f] # 0
      /\ Released(f)
      /\ dirty' = Marked(f, h \in wrote)
      /\ mode' = [mode EXCEPT ![h] = "released"]
      /\ wrote' = wrote \ {h}
      /\ UNCHANGED <<frames, page_table, frame_table, free_frames, history,
                     current_time, storage, hpage, ref, copy>>

(* HeapFile.create_directory reports no change, then calls flush_page.     *)
UnpinAndFlush(h) ==
  LET f == page_table[hpage[h]]
  IN  /\ mode[h] = "pinned"
      /\ f # NoFrame /\ pin_count[f] # 0
      /\ Released(f)
      /\ disk' = Written({hpage[h]})
      /\ dirty' = [dirty EXCEPT ![f] = FALSE]
      /\ mode' = [mode EXCEPT ![h] = "released"]
      /\ wrote' = wrote \ {h}
      /\ UNCHANGED <<frames, page_table, frame_table, free_frames, history,
                     current_time, num_pages, hpage, ref, copy>>

(* The caller's last use of the bytes is over.                             *)
Drop(h) ==
  /\ mode[h] = "released"
  /\ mode' = [mode EXCEPT ![h] = "closed"]
  /\ hpage' = [hpage EXCEPT ![h] = NoPage]
  /\ ref' = [ref EXCEPT ![h] = NoFrame]
  /\ copy' = [copy EXCEPT ![h] = NoCopy]
  /\ UNCHANGED <<pool, replacer, storage, wrote>>
-----------------------------------------------------------------------------
(* A new page of zeros at the end of the file.                             *)
allocate_page(x) ==
  /\ num_pages[x] < MaxPages
  /\ num_pages' = [num_pages EXCEPT ![x] = @ + 1]
  /\ disk' = [disk EXCEPT ![<<x, num_pages[x]>>] = Blank[<<x, num_pages[x]>>]]
  /\ UNCHANGED <<pool, replacer, callers>>

(* The pages that the loops of flush_all and close() write.                *)
DirtyPages_NotPinned ==
  {frame_table[f] : f \in {g \in Frames : dirty[g] /\ pin_count[g] = 0}}
DirtyPages == {frame_table[f] : f \in {g \in Frames : dirty[g]}}

(* After each statement that succeeds.                                     *)
flush_all ==
  /\ disk' = Written(DirtyPages)
  /\ dirty' = [f \in Frames |-> FALSE]
  /\ UNCHANGED <<frames, page_table, frame_table, free_frames, pin_count,
                 replacer, num_pages, callers>>

(* A new process: __init__ of pool and replacer, no caller active.         *)
Started ==
  /\ frames' = Always(Frames, NoCopy)
  /\ page_table' = Always(Pages, NoFrame)
  /\ frame_table' = Always(Frames, NoPage)
  /\ free_frames' = Frames
  /\ pin_count' = Always(Frames, 0)
  /\ dirty' = Always(Frames, FALSE)
  /\ history' = Always(Frames, <<>>)
  /\ evictable' = {}
  /\ current_time' = 0
  /\ hpage' = Always(Handles, NoPage)
  /\ mode' = Always(Handles, "closed")
  /\ wrote' = {}
  /\ ref' = Always(Handles, NoFrame)
  /\ copy' = Always(Handles, NoCopy)
  /\ UNCHANGED num_pages

(* close() at the end of main.py, and the next start.                      *)
Shutdown ==
  /\ disk' = Written(DirtyPages)
  /\ Started

(* The process dies between two page operations.                           *)
Crash ==
  /\ disk' = disk
  /\ Started

Next ==
  \/ \E h \in Handles, p \in Pages :
       FetchHit(h, p) \/ FetchFree(h, p) \/ FetchEvict(h, p)
  \/ \E h \in Handles, v \in Versions : Modify(h, v)
  \/ \E h \in Handles : unpin_page(h) \/ UnpinAndFlush(h) \/ Drop(h)
  \/ \E x \in Files : allocate_page(x)
  \/ flush_all \/ Shutdown \/ Crash

Spec == Init /\ [][Next]_vars
-----------------------------------------------------------------------------
(* The type of the pool's, the disk's and the callers' state.              *)
TypeOK ==
  /\ frames \in [Frames -> Content \cup {NoCopy}]
  /\ page_table \in [Pages -> Frames \cup {NoFrame}]
  /\ frame_table \in [Frames -> Pages \cup {NoPage}]
  /\ free_frames \subseteq Frames
  /\ pin_count \in [Frames -> Nat]
  /\ dirty \in [Frames -> BOOLEAN]
  /\ history \in [Frames -> Seq(Nat)]
  /\ evictable \subseteq Frames
  /\ current_time \in Nat
  /\ disk \in [Pages -> Content]
  /\ num_pages \in [Files -> 0 .. MaxPages]
  /\ hpage \in [Handles -> Pages \cup {NoPage}]
  /\ mode \in [Handles -> {"closed", "pinned", "released"}]
  /\ wrote \subseteq Handles
  /\ ref \in [Handles -> Frames \cup {NoFrame}]
  /\ copy \in [Handles -> Content \cup {NoCopy}]

Mapped == {f \in Frames : frame_table[f] # NoPage}
Pinners(f) == {h \in Handles : mode[h] = "pinned" /\ ref[h] = f}

(* page_table and frame_table are inverses, and exactly the frames of no   *)
(* page are free.                                                          *)
TablesAgree ==
  /\ \A p \in Pages, f \in Frames : page_table[p] = f <=> frame_table[f] = p
  /\ free_frames = Frames \ Mapped

(* A pin count is the number of callers that have the page pinned, and a   *)
(* frame may be evicted exactly when it holds a page nobody has pinned.    *)
PinsCounted ==
  /\ \A f \in Frames : pin_count[f] = Cardinality(Pinners(f))
  /\ evictable = {f \in Mapped : Pinners(f) = {}}
  /\ \A f \in Mapped : history[f] # <<>>

(* An open handle reads the page it was fetched for, never the page that   *)
(* took over its frame.                                                    *)
HandlesReadTheirPage ==
  \A h \in Handles :
    /\ mode[h] # "closed" => hpage[h] \in Pages /\ Bytes(h).page = hpage[h]
    /\ mode[h] = "pinned" => ref[h] # NoFrame
    /\ mode[h] = "closed" => ref[h] = NoFrame
    /\ ref[h] # NoFrame => frame_table[ref[h]] = hpage[h]

(* The bytes in a frame differ from the file only while the frame is dirty *)
(* or a caller has yet to report its change.                               *)
CleanIsOnDisk ==
  /\ wrote \subseteq {h \in Handles : mode[h] = "pinned"}
  /\ \A f \in Frames : dirty[f] => f \in Mapped
  /\ \A f \in Mapped :
       ~dirty[f] /\ Pinners(f) \cap wrote = {} => frames[f] = disk[frame_table[f]]

(* Every page of bytes is where it belongs, on disk and in the pool, and   *)
(* what lies beyond the end of a file is zero and not cached.              *)
BytesInPlace ==
  /\ \A p \in Pages : disk[p].page = p
  /\ \A f \in Mapped : frames[f].page = frame_table[f]
  /\ \A p \in Pages : p[2] >= num_pages[p[1]] =>
                        disk[p] = Blank[p] /\ page_table[p] = NoFrame

(* All of the above: what keeps the pool working.                          *)
PoolConsistent ==
  /\ TypeOK
  /\ TablesAgree
  /\ PinsCounted
  /\ HandlesReadTheirPage
  /\ CleanIsOnDisk
  /\ BytesInPlace
-----------------------------------------------------------------------------
(* Callers that have the same page pinned at the same time share one       *)
(* bytearray, the one the pool would return for the page: none of them can *)
(* change a page behind another's back, and no pinned page is evicted.     *)
PinnedHandlesShareBytes ==
  \A h \in Handles : mode[h] = "pinned" =>
    ref[h] # NoFrame /\ ref[h] = page_table[hpage[h]]

(* No frame is lost to the pool: one that is neither free nor evictable is *)
(* pinned by a caller that can still unpin it.                             *)
NoFrameLost ==
  \A f \in Frames : f \in free_frames \/ f \in evictable \/ Pinners(f) # {}

(* What a fetch would return.                                              *)
Current(p) == IF page_table[p] = NoFrame THEN disk[p] ELSE frames[page_table[p]]

(* flush_all and close() leave every page whose changes were reported      *)
(* durable, also those that other callers still have pinned.               *)
Flushes == flush_all \/ Shutdown
Reported(p) == \A h \in wrote : hpage[h] # p
FlushIsDurable ==
  [][Flushes => \A p \in Pages : Reported(p) => disk'[p] = Current(p)]_vars

(* The pool implements PageStore: frames, pins and replacement never show. *)
PS == INSTANCE PageStore WITH
        store <- [p \in Pages |-> Current(p)],
        saved <- disk
ImplementsPageStore == PS!Spec
=============================================================================
