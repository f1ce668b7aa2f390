--------------------------- MODULE HeapFileProofs ----------------------------
(***************************************************************************)
(* Theorems about HeapFile, for every page size, tuple length and bound.   *)
(* The page arithmetic comes first, as lemmas about the operators of       *)
(* HeapPage; then, once for the running file and once for its crashes, the *)
(* inductive invariant and a lemma per action.                             *)
(***************************************************************************)
EXTENDS HeapFile, TLAPS

(* A page as TypeOK has it.                                                *)
GoodPage(pg) == pg \in PageType /\ Len(pg.slots) = pg.num_slots

(* Writing one or two fields of a page header.                             *)
LEMMA FieldsWritten ==
  ASSUME NEW pg \in [num_slots : Nat, free_space_pointer : 0 .. PAGE_SIZE,
                     free_space : Int, slots : Seq(SlotType),
                     intact : BOOLEAN, long : BOOLEAN],
         NEW x \in 0 .. PAGE_SIZE, NEW y \in 0 .. PAGE_SIZE
  PROVE  /\ [pg EXCEPT !.free_space = y] \in PageType
         /\ [pg EXCEPT !.free_space = y].slots = pg.slots
         /\ [pg EXCEPT !.free_space = y].num_slots = pg.num_slots
         /\ [pg EXCEPT !.free_space_pointer = x, !.free_space = y] \in PageType
         /\ [pg EXCEPT !.free_space_pointer = x, !.free_space = y].slots = pg.slots
         /\ [pg EXCEPT !.free_space_pointer = x, !.free_space = y].num_slots
              = pg.num_slots
         /\ [pg EXCEPT !.free_space_pointer = x, !.free_space = y].free_space_pointer = x
         /\ [pg EXCEPT !.free_space_pointer = x, !.free_space = y].free_space = y
         /\ [pg EXCEPT !.free_space_pointer = x, !.free_space = y].intact = pg.intact
         /\ [pg EXCEPT !.free_space_pointer = x, !.free_space = y].long = pg.long
BY DEF PageType

LEMMA SlotEndNext ==
  ASSUME NEW n \in Nat
  PROVE  /\ SlotEnd(n) \in Nat
         /\ SlotEnd(n + 1) = SlotEnd(n) + SLOT_SIZE
BY PageAssumption DEF SlotEnd

LEMMA RangesGrow ==
  ASSUME NEW a \in Int, NEW b \in Int, a <= b
  PROVE  1 .. a \subseteq 1 .. b /\ 0 .. a \subseteq 0 .. b
OBVIOUS

LEMMA EntriesFit == MaxEntries \in Nat /\ \A i \in Nat : 6 * i <= PAGE_SIZE => i <= MaxEntries
BY PageAssumption DEF MaxEntries

LEMMA EntriesReadable == \A i \in Nat : i <= MaxEntries => EntryEnd(i, 4) <= PAGE_SIZE
BY PageAssumption DEF MaxEntries, EntryEnd

LEMMA FreshPages ==
  /\ GoodPage(ZeroPage) /\ ZeroPage.num_slots = 0
  /\ GoodPage(NewPage) /\ PageSound(NewPage) /\ NewPage.num_slots = 0
  /\ GoodPage(Garbage)
<1>1. <<>> \in Seq(SlotType) /\ Len(<<>>) = 0
  OBVIOUS
<1>2. PAGE_SIZE \in 0 .. PAGE_SIZE /\ PAGE_SIZE - HEADER_SIZE \in 0 .. PAGE_SIZE
  BY PageAssumption
<1>3. /\ ZeroPage \in PageType /\ ZeroPage.slots = <<>> /\ ZeroPage.num_slots = 0
      /\ ZeroPage.intact /\ ~ZeroPage.long
  BY <1>1, PageAssumption DEF ZeroPage, PageType
<1>4. GoodPage(ZeroPage)
  BY <1>1, <1>3 DEF GoodPage
<1>5. ZeroPage \in [num_slots : Nat, free_space_pointer : 0 .. PAGE_SIZE,
                    free_space : Int, slots : Seq(SlotType),
                    intact : BOOLEAN, long : BOOLEAN]
  BY <1>3, PageAssumption DEF PageType
<1>6. /\ NewPage \in PageType /\ NewPage.slots = <<>> /\ NewPage.num_slots = 0
      /\ NewPage.intact /\ ~NewPage.long /\ NewPage.free_space_pointer = PAGE_SIZE
      /\ NewPage.free_space = PAGE_SIZE - HEADER_SIZE
  BY <1>2, <1>3, <1>5, FieldsWritten DEF NewPage
<1>7. PageSound(NewPage)
  BY <1>2, <1>6, PageAssumption DEF PageSound, SlotEnd
<1>8. GoodPage(Garbage)
  BY <1>1, <1>3 DEF Garbage, GoodPage, PageType
<1> QED  BY <1>1, <1>3, <1>4, <1>6, <1>7, <1>8 DEF GoodPage

(* What insert_tuple leaves when every field packs.                        *)
LEMMA InsertedGood ==
  ASSUME NEW pg, GoodPage(pg), NEW row \in 0 .. MaxInserts, NEW len \in Lengths,
         SlotPacks(pg, len)
  PROVE  /\ Slot(pg, row, len) \in SlotType
         /\ Append(pg.slots, Slot(pg, row, len)) \in Seq(SlotType)
         /\ SpacePacks(pg, len) => GoodPage(Inserted(pg, row, len))
<1>1. len \in Nat /\ pg.free_space_pointer \in 0 .. PAGE_SIZE /\ PAGE_SIZE \in Nat
  BY PageAssumption DEF GoodPage, PageType
<1>2. Offset(pg, len) \in 0 .. PAGE_SIZE
  BY <1>1 DEF Offset, SlotPacks
<1>3. Slot(pg, row, len) \in SlotType
  BY <1>2 DEF Slot, SlotType
<1>4. Append(pg.slots, Slot(pg, row, len)) \in Seq(SlotType)
  BY <1>3 DEF GoodPage, PageType
<1>5. ASSUME SpacePacks(pg, len) PROVE GoodPage(Inserted(pg, row, len))
  <2>1. pg.free_space - (len + SLOT_SIZE) \in 0 .. PAGE_SIZE
    BY <1>1, <1>5, PageAssumption DEF SpacePacks, GoodPage, PageType
  <2>2. /\ pg.num_slots + 1 \in Nat /\ (pg.intact /\ ~Overlap(pg, len)) \in BOOLEAN
        /\ pg.long \in BOOLEAN
    BY DEF GoodPage, PageType
  <2>3. Len(Append(pg.slots, Slot(pg, row, len))) = pg.num_slots + 1
    BY <1>3 DEF GoodPage, PageType
  <2> QED  BY <1>2, <1>4, <2>1, <2>2, <2>3 DEF GoodPage, PageType, Inserted
<1> QED  BY <1>3, <1>4, <1>5

LEMMA InsertedSound ==
  ASSUME NEW pg, GoodPage(pg), PageSound(pg),
         NEW row \in 0 .. MaxInserts, NEW len \in Lengths,
         SlotPacks(pg, len), SpacePacks(pg, len)
  PROVE  PageSound(Inserted(pg, row, len))
<1> DEFINE new == Inserted(pg, row, len)
           n == pg.num_slots
<1>1. n \in Nat /\ pg.free_space_pointer \in Int /\ pg.free_space \in Int /\ len \in Nat
      /\ pg.intact \in BOOLEAN
  BY PageAssumption DEF GoodPage, PageType
<1>2. Offset(pg, len) >= SlotEnd(n + 1)
  BY <1>1, SlotEndNext, PageAssumption DEF PageSound, SpacePacks, Offset
<1>3. ~Overlap(pg, len)
  BY <1>1, <1>2, SlotEndNext, PageAssumption DEF Overlap, Offset
<1>4. /\ new.num_slots = n + 1 /\ new.free_space_pointer = Offset(pg, len)
      /\ new.free_space = pg.free_space - (len + SLOT_SIZE)
      /\ new.slots = Append(pg.slots, Slot(pg, row, len))
  BY DEF Inserted
<1>5. new.intact /\ ~new.long
  BY <1>1, <1>3 DEF Inserted, PageSound
<1>6. new.free_space = new.free_space_pointer - SlotEnd(new.num_slots)
  <2>1. SlotEnd(n) \in Nat /\ SlotEnd(n + 1) = SlotEnd(n) + SLOT_SIZE
    BY <1>1, SlotEndNext
  <2>2. pg.free_space = pg.free_space_pointer - SlotEnd(n)
    BY DEF PageSound
  <2>3. pg.free_space - (len + SLOT_SIZE) = Offset(pg, len) - SlotEnd(n + 1)
    BY <1>1, <2>1, <2>2, PageAssumption DEF Offset
  <2> QED  BY <1>4, <2>3
<1>7. new.free_space >= 0
  BY <1>1, <1>4, PageAssumption DEF SpacePacks
<1>8. /\ \A s \in 1 .. n : new.slots[s] = pg.slots[s]
      /\ new.slots[n + 1] = Slot(pg, row, len)
  BY <1>4, <1>1, InsertedGood DEF GoodPage, PageType
<1>9. new.slots[n + 1].offset + new.slots[n + 1].length =
        IF n + 1 = 1 THEN PAGE_SIZE ELSE new.slots[n].offset
  BY <1>1, <1>8 DEF Slot, Offset, PageSound
<1>10. ASSUME NEW s \in 1 .. n + 1
      PROVE  new.slots[s].offset + new.slots[s].length =
               IF s = 1 THEN PAGE_SIZE ELSE new.slots[s - 1].offset
  <2>1. CASE s = n + 1
    BY <2>1, <1>9, <1>1
  <2>2. CASE s # n + 1
    <3>1. s \in 1 .. n /\ (s # 1 => s - 1 \in 1 .. n)
      BY <2>2, <1>1
    <3> QED  BY <3>1, <1>8 DEF PageSound
  <2> QED  BY <2>1, <2>2
<1>11. new.free_space_pointer = new.slots[new.num_slots].offset /\ new.num_slots # 0
  <2>1. new.slots[new.num_slots] = Slot(pg, row, len) /\ new.num_slots # 0
    BY <1>1, <1>4, <1>8
  <2>2. Slot(pg, row, len).offset = Offset(pg, len)
    BY DEF Slot
  <2> QED  BY <1>4, <2>1, <2>2
<1> HIDE DEF new, n
<1>12. \A s \in 1 .. new.num_slots :
        new.slots[s].offset + new.slots[s].length =
          IF s = 1 THEN PAGE_SIZE ELSE new.slots[s - 1].offset
  BY <1>4, <1>10
<1>13. PageSound(new)
  BY <1>5, <1>6, <1>7, <1>11, <1>12 DEF PageSound
<1> QED  BY <1>13 DEF new

(* What insert_tuple leaves when it raises, before it has packed the slot. *)
LEMMA TornUnpacked ==
  ASSUME NEW pg, GoodPage(pg), NEW row, NEW len \in Lengths, ~SlotPacks(pg, len)
  PROVE  /\ GoodPage(Torn(pg, row, len)) /\ ~Torn(pg, row, len).intact
         /\ Offset(pg, len) < 0 => Torn(pg, row, len).long
         /\ Torn(pg, row, len).free_space = pg.free_space
         /\ Torn(pg, row, len).num_slots = pg.num_slots
<1>1. PICK x \in Int : x = Offset(pg, len)
  BY PageAssumption DEF GoodPage, PageType, Offset
<1>2. PICK b : b = (x < 0)
  OBVIOUS
<1>3. b \in BOOLEAN
  BY <1>2
<1>4. x < 0 => b
  BY <1>2, <1>3
<1>5. Torn(pg, row, len) = [pg EXCEPT !.intact = FALSE, !.long = b]
  BY <1>1, <1>2 DEF Torn
<1>6. pg \in PageType /\ Len(pg.slots) = pg.num_slots
  BY DEF GoodPage
<1>7. PICK t : t = Torn(pg, row, len)
  OBVIOUS
<1>8. /\ t \in PageType /\ t.slots = pg.slots /\ t.num_slots = pg.num_slots
      /\ t.free_space = pg.free_space /\ ~t.intact /\ t.long = b
  BY <1>3, <1>5, <1>6, <1>7 DEF PageType
<1> QED  BY <1>1, <1>4, <1>6, <1>7, <1>8 DEF GoodPage

(* What it leaves when it raises, at any field.                            *)
LEMMA TornGood ==
  ASSUME NEW pg, GoodPage(pg), NEW row \in 0 .. MaxInserts, NEW len \in Lengths
  PROVE  GoodPage(Torn(pg, row, len))
<1>1. CASE SlotPacks(pg, len)
  <2> DEFINE new == Inserted(pg, row, len)
  <2>1. Len(Append(pg.slots, Slot(pg, row, len))) = pg.num_slots + 1
    BY <1>1, InsertedGood DEF GoodPage, PageType
  <2>2. /\ Offset(pg, len) \in 0 .. PAGE_SIZE /\ pg.num_slots + 1 \in Nat
        /\ pg.free_space - (len + SLOT_SIZE) \in Int
    BY <1>1, PageAssumption DEF GoodPage, PageType, Offset, SlotPacks
  <2>3. (pg.intact /\ ~Overlap(pg, len)) \in BOOLEAN /\ pg.long \in BOOLEAN
    BY DEF GoodPage, PageType
  <2>4. new \in [num_slots : Nat, free_space_pointer : 0 .. PAGE_SIZE,
                 free_space : Int, slots : Seq(SlotType),
                 intact : BOOLEAN, long : BOOLEAN]
    BY <1>1, <2>2, <2>3, InsertedGood DEF Inserted
  <2>5. Len(new.slots) = new.num_slots
    BY <2>1 DEF Inserted
  <2>6. Torn(pg, row, len) = [new EXCEPT !.free_space = 0]
    BY <1>1 DEF Torn
  <2>7. 0 \in 0 .. PAGE_SIZE
    BY PageAssumption
  <2> HIDE DEF new
  <2>8. /\ [new EXCEPT !.free_space = 0] \in PageType
        /\ [new EXCEPT !.free_space = 0].slots = new.slots
        /\ [new EXCEPT !.free_space = 0].num_slots = new.num_slots
    BY <2>4, <2>7 DEF PageType
  <2> QED  BY <2>5, <2>6, <2>8 DEF GoodPage
<1>2. CASE ~SlotPacks(pg, len)
  BY <1>2, TornUnpacked
<1> QED  BY <1>1, <1>2

LEMMA DeletedGood ==
  ASSUME NEW pg, GoodPage(pg), NEW s \in 1 .. pg.num_slots
  PROVE  /\ GoodPage(Deleted(pg, s))
         /\ PageSound(pg) => PageSound(Deleted(pg, s))
         /\ Deleted(pg, s).num_slots = pg.num_slots
         /\ Deleted(pg, s).free_space = pg.free_space
         /\ Deleted(pg, s).intact = pg.intact /\ Deleted(pg, s).long = pg.long
         /\ ~Deleted(pg, s).slots[s].is_valid
         /\ \A t \in 1 .. pg.num_slots : Deleted(pg, s).slots[t].row = pg.slots[t].row
         /\ \A t \in 1 .. pg.num_slots \ {s} : Deleted(pg, s).slots[t] = pg.slots[t]
<1> DEFINE new == Deleted(pg, s)
<1>1. pg.slots \in Seq(SlotType) /\ Len(pg.slots) = pg.num_slots /\ pg.num_slots \in Nat
  BY DEF GoodPage, PageType
<1>2. /\ new.num_slots = pg.num_slots /\ new.free_space = pg.free_space
      /\ new.intact = pg.intact /\ new.free_space_pointer = pg.free_space_pointer
      /\ new.long = pg.long
      /\ new.slots = [pg.slots EXCEPT ![s] = [@ EXCEPT !.is_valid = FALSE]]
  BY DEF Deleted, GoodPage, PageType
<1>3. s \in DOMAIN pg.slots /\ pg.slots[s] \in SlotType
  BY <1>1
<1>4. new.slots[s] = [pg.slots[s] EXCEPT !.is_valid = FALSE]
  BY <1>2, <1>3
<1>5. /\ new.slots[s] \in SlotType /\ ~new.slots[s].is_valid
      /\ new.slots[s].row = pg.slots[s].row
      /\ new.slots[s].offset = pg.slots[s].offset
      /\ new.slots[s].length = pg.slots[s].length
  BY <1>3, <1>4 DEF SlotType
<1>6. \A t \in 1 .. pg.num_slots \ {s} : new.slots[t] = pg.slots[t]
  BY <1>1, <1>2
<1>7. new.slots \in Seq(SlotType) /\ Len(new.slots) = pg.num_slots
  BY <1>1, <1>2, <1>3, <1>4, <1>5
<1>8. GoodPage(new)
  BY <1>7, <1>2 DEF GoodPage, PageType, Deleted
<1>9. /\ \A t \in 1 .. pg.num_slots : /\ new.slots[t].row = pg.slots[t].row
                                      /\ new.slots[t].offset = pg.slots[t].offset
                                      /\ new.slots[t].length = pg.slots[t].length
  BY <1>5, <1>6
<1> HIDE DEF new
<1>10. ASSUME PageSound(pg) PROVE PageSound(new)
  <2>1. \A t \in 1 .. new.num_slots : t # 1 => t - 1 \in 1 .. pg.num_slots
    BY <1>1, <1>2
  <2>2. pg.num_slots # 0 => pg.num_slots \in 1 .. pg.num_slots
    BY <1>1
  <2> QED  BY <1>2, <1>9, <1>10, <2>1, <2>2 DEF PageSound
<1> QED  BY <1>2, <1>5, <1>6, <1>8, <1>9, <1>10 DEF new
-----------------------------------------------------------------------------
(* The inductive invariant.  Of the current and the durable directory only *)
(* the count matters once an insert has raised; before that every page is  *)
(* sound and registered, a page that is not dirty is on the disk as it is, *)
(* and the valid slots are exactly the rids in live, with their rows.      *)
CountsInv ==
  dir.page_count \in 1 .. num_pages /\ saved_dir.page_count \in 1 .. num_pages

SoundInv ==
  /\ dir.page_count = num_pages /\ num_pages - 1 <= MaxEntries
  /\ \A p \in 1 .. num_pages - 1 : PageSound(pages[p])
  /\ \A p \in 1 .. num_pages - 1 : dir.free_space[p] = pages[p].free_space
  /\ \A p \in PageIds : p >= num_pages => pages[p].num_slots = 0

CleanInv ==
  /\ 0 \notin dirty => saved_dir = dir
  /\ \A p \in PageIds \ dirty : saved_pages[p] = pages[p]

LiveInv ==
  /\ DOMAIN live \subseteq PageIds \X Nat
  /\ \A p \in PageIds, s \in Nat :
       /\ <<p, s>> \in DOMAIN live <=> p < num_pages /\ s \in PageScan(pages[p])
       /\ <<p, s>> \in DOMAIN live => live[<<p, s>>] = pages[p].slots[s].row

HeapInv == TypeOK /\ CountsInv /\ (Sane => SoundInv /\ CleanInv /\ LiveInv)

(* TypeOK, page by page.                                                   *)
GoodPages(ps) == ps = [p \in PageIds |-> ps[p]] /\ \A p \in PageIds : GoodPage(ps[p])

LEMMA GoodPagesType ==
  ASSUME NEW ps
  PROVE  GoodPages(ps) <=> /\ ps \in [PageIds -> PageType]
                           /\ \A p \in PageIds : Len(ps[p].slots) = ps[p].num_slots
BY DEF GoodPages, GoodPage

LEMMA ScanSlots ==
  ASSUME NEW pg, GoodPage(pg)
  PROVE  /\ PageScan(pg) \subseteq 1 .. pg.num_slots
         /\ 1 .. pg.num_slots \subseteq Nat
         /\ pg.num_slots = 0 => PageScan(pg) = {}
BY DEF PageScan, GoodPage, PageType

LEMMA DirectoryUpdated ==
  ASSUME NEW d \in DirectoryType, NEW p, NEW space \in Nat
  PROVE  /\ Updated(d, p, space) \in DirectoryType
         /\ Updated(d, p, space).page_count = d.page_count
         /\ \A q \in 1 .. MaxEntries : q # p =>
              Updated(d, p, space).free_space[q] = d.free_space[q]
         /\ p \in 1 .. d.page_count - 1 /\ p \in 1 .. MaxEntries =>
              Updated(d, p, space).free_space[p] = space
BY DEF Updated, DirectoryType

LEMMA DirectoryCounted ==
  ASSUME NEW d \in DirectoryType
  PROVE  /\ Counted(d) \in DirectoryType
         /\ Counted(d).page_count = d.page_count + 1
         /\ Counted(d).free_space = d.free_space
BY DEF Counted, DirectoryType

(* The initial file.                                                       *)
LEMMA InitHeapInv == Init => HeapInv
<1> SUFFICES ASSUME Init PROVE HeapInv
  OBVIOUS
<1>1. /\ NewDirectory \in DirectoryType /\ NewDirectory.page_count = 1
  BY PageAssumption DEF NewDirectory, DirectoryType
<1>2. /\ spilled = FALSE
      /\ pages = [p \in PageIds |-> ZeroPage] /\ saved_pages = pages
      /\ dir = NewDirectory /\ saved_dir = NewDirectory
      /\ num_pages = 1 /\ dirty = {} /\ leaked = {} /\ inserts = 0
      /\ running = TRUE /\ failed = FALSE /\ live = <<>>
  BY DEF Init
<1>3. GoodPages(pages)
  BY <1>2, FreshPages DEF GoodPages
<1>4. TypeOK
  <2>1. 1 \in 1 .. MaxPages /\ 0 \in 0 .. MaxInserts
    BY BoundAssumption
  <2> QED  BY <1>1, <1>2, <1>3, <2>1, GoodPagesType DEF TypeOK
<1>5. CountsInv
  BY <1>1, <1>2 DEF CountsInv
<1>6. SoundInv
  <2>1. 1 .. num_pages - 1 = {}
    BY <1>2
  <2>2. num_pages - 1 <= MaxEntries
    BY <1>2, EntriesFit
  <2> QED  BY <1>1, <1>2, <2>1, <2>2, FreshPages DEF SoundInv
<1>7. CleanInv
  BY <1>2 DEF CleanInv
<1>8. LiveInv
  <2>1. DOMAIN live = {}
    BY <1>2
  <2>2. \A p \in PageIds : ~(p < num_pages)
    BY <1>2 DEF PageIds
  <2> QED  BY <2>1, <2>2 DEF LiveInv
<1> QED  BY <1>4, <1>5, <1>6, <1>7, <1>8 DEF HeapInv

(* While no insert has raised, directory d is that of n pages, and agrees  *)
(* with dir except on page p, which holds pg: a page of the file, or the   *)
(* new one.                                                                *)
Ready(d, p, pg, n) ==
  Sane => /\ d.page_count = n /\ n - 1 <= MaxEntries
          /\ PageSound(pg)
          /\ \A q \in 1 .. num_pages - 1 :
               q # p => d.free_space[q] = dir.free_space[q]
          /\ \A s \in Nat :
               /\ <<p, s>> \in DOMAIN live <=> s \in PageScan(pg)
               /\ s \in PageScan(pg) => live[<<p, s>>] = pg.slots[s].row

(* What a call takes from a directory and leaves on the disk.              *)
SavedOthers(p) == /\ GoodPages(saved_pages') /\ UNCHANGED <<saved_dir, spilled>>
                  /\ \A q \in PageIds \ {p} : saved_pages'[q] = saved_pages[q]

(* Page p, holding pg, is or becomes one of the n pages that the file has  *)
(* after the call, and d is a directory for it.                            *)
Target(d, p, pg, n) ==
  /\ n \in 1 .. MaxPages /\ num_pages' = n
  /\ p \in PageIds /\ p < n
  /\ n = num_pages \/ (n = num_pages + 1 /\ p = num_pages)
  /\ GoodPage(pg)
  /\ d \in DirectoryType /\ d.page_count \in 1 .. n
  /\ SavedOthers(p)

(* A call that returns.                                                    *)
LEMMA AcceptedInsert ==
  ASSUME HeapInv, NEW d, NEW p, NEW pg, NEW n, NEW len \in Lengths,
         Calls, running' = running, Target(d, p, pg, n), Ready(d, p, pg, n),
         Returns(d, p, pg, len)
  PROVE  HeapInv'
<1> USE DEF Target
<1> DEFINE new == Inserted(pg, inserts, len)
           m == new.num_slots
<1>1. /\ SlotPacks(pg, len) /\ SpacePacks(pg, len)
      /\ pages' = [pages EXCEPT ![p] = new]
      /\ dir' = Updated(d, p, new.free_space)
      /\ live' = [r \in DOMAIN live \cup {<<p, m>>} |->
                    IF r = <<p, m>> THEN inserts ELSE live[r]]
      /\ dirty' = dirty \cup {0, p}
      /\ UNCHANGED <<leaked, failed, committed>>
      /\ inserts < MaxInserts /\ inserts' = inserts + 1
  BY DEF Returns, Calls, Reported
<1>2. /\ TypeOK /\ CountsInv /\ inserts \in 0 .. MaxInserts /\ num_pages \in Nat
      /\ GoodPages(pages) /\ n \in Nat /\ num_pages \in 1 .. MaxPages
      /\ MaxPages \in Nat /\ p \in Nat /\ p >= 1
  BY GoodPagesType, BoundAssumption DEF HeapInv, TypeOK, PageIds
<1>3. GoodPage(new) /\ m = pg.num_slots + 1 /\ pg.num_slots \in Nat
      /\ new.slots = Append(pg.slots, Slot(pg, inserts, len))
  BY <1>1, <1>2, InsertedGood DEF Inserted, GoodPage, PageType
<1>4. new.free_space \in 0 .. PAGE_SIZE
  BY <1>3 DEF GoodPage, PageType
<1> HIDE DEF new
<1>5. /\ pages' = [q \in PageIds |-> IF q = p THEN new ELSE pages[q]]
      /\ pages'[p] = new
      /\ \A q \in PageIds \ {p} : pages'[q] = pages[q]
  BY <1>1, <1>2 DEF GoodPages
<1>6. GoodPages(pages')
  BY <1>2, <1>3, <1>5 DEF GoodPages
<1>7. /\ dir' \in DirectoryType /\ dir'.page_count = d.page_count
      /\ \A q \in 1 .. MaxEntries : q # p => dir'.free_space[q] = d.free_space[q]
      /\ p \in 1 .. d.page_count - 1 /\ p \in 1 .. MaxEntries =>
           dir'.free_space[p] = new.free_space
  BY <1>1, <1>4, DirectoryUpdated
<1>8. TypeOK'
  <2>2. inserts' \in 0 .. MaxInserts
    BY <1>1, <1>2, BoundAssumption
  <2>3. /\ 0 .. num_pages - 1 \subseteq 0 .. n - 1
        /\ 0 \in 0 .. n - 1 /\ p \in 0 .. n - 1
    BY <1>2, RangesGrow
  <2>4. dirty' \subseteq 0 .. n - 1 /\ leaked' \subseteq 0 .. n - 1
    <3>1. dirty \subseteq 0 .. num_pages - 1 /\ leaked \subseteq 0 .. num_pages - 1
      BY <1>2 DEF TypeOK
    <3>2. dirty' = dirty \cup {0, p} /\ leaked' = leaked
      BY <1>1
    <3>3. leaked' \subseteq 0 .. n - 1
      BY <2>3, <3>1, <3>2
    <3>4. dirty' \subseteq 0 .. n - 1
      <4> SUFFICES ASSUME NEW x \in dirty' PROVE x \in 0 .. n - 1
        OBVIOUS
      <4>1. x \in dirty \/ x = 0 \/ x = p
        BY <3>2
      <4> QED  BY <2>3, <3>1, <4>1
    <3> QED  BY <3>3, <3>4
  <2> QED  BY <2>2, <2>4, <1>1, <1>2, <1>6, <1>7, GoodPagesType DEF TypeOK, SavedOthers
<1>9. CountsInv'
  BY <1>2, <1>7 DEF CountsInv, TypeOK, DirectoryType, SavedOthers
<1> SUFFICES ASSUME Sane' PROVE SoundInv' /\ CleanInv' /\ LiveInv'
  BY <1>8, <1>9 DEF HeapInv
<1>10. Sane /\ SoundInv /\ CleanInv /\ LiveInv
  BY <1>1 DEF Sane, HeapInv
<1>11. /\ d.page_count = n /\ n - 1 <= MaxEntries
       /\ PageSound(pg)
       /\ \A q \in 1 .. num_pages - 1 :
            q # p => d.free_space[q] = dir.free_space[q]
  BY <1>10 DEF Ready
<1>12. \A s \in Nat :
         /\ <<p, s>> \in DOMAIN live <=> s \in PageScan(pg)
         /\ s \in PageScan(pg) => live[<<p, s>>] = pg.slots[s].row
  BY <1>10 DEF Ready
<1>13. SoundInv'
  <2>1. PageSound(new)
    BY <1>1, <1>2, <1>11, InsertedSound DEF new
  <2>2. \A q \in 1 .. n - 1 : q = p \/ q \in 1 .. num_pages - 1
    BY <1>2
  <2>3. \A q \in 1 .. n - 1 : q \in PageIds /\ q \in 1 .. MaxEntries
    <3>1. n - 1 <= MaxEntries
      BY <1>11
    <3>2. MaxEntries \in Nat
      BY EntriesFit
    <3>3. n - 1 \in Int /\ MaxPages - 1 \in Int /\ n - 1 <= MaxPages - 1
      BY <1>2
    <3>4. 1 .. n - 1 \subseteq PageIds
      BY <3>3, RangesGrow DEF PageIds
    <3>5. 1 .. n - 1 \subseteq 1 .. MaxEntries
      <4> DEFINE a == n - 1
                 b == MaxEntries
      <4>1. a \in Int /\ b \in Int /\ a <= b
        BY <3>1, <3>2, <3>3
      <4> HIDE DEF a, b
      <4>2. 1 .. a \subseteq 1 .. b
        BY <4>1, RangesGrow
      <4> QED  BY <4>2 DEF a, b
    <3> QED  BY <3>4, <3>5
  <2>4. \A q \in 1 .. n - 1 : PageSound(pages'[q])
    BY <2>1, <2>2, <2>3, <1>5, <1>10 DEF SoundInv
  <2>5. ASSUME NEW q \in 1 .. n - 1
        PROVE  dir'.free_space[q] = pages'[q].free_space
    <3>1. CASE q = p
      <4>1. p \in 1 .. d.page_count - 1
        BY <3>1, <1>11
      <4> QED  BY <3>1, <4>1, <2>3, <1>5, <1>7
    <3>2. CASE q # p
      BY <3>2, <2>2, <2>3, <1>5, <1>7, <1>10, <1>11 DEF SoundInv
    <3> QED  BY <3>1, <3>2
  <2>6. \A q \in PageIds : q >= n =>
          q # p /\ q >= num_pages
    BY <1>2 DEF PageIds
  <2>7. \A q \in PageIds : q >= n => pages'[q].num_slots = 0
    BY <2>6, <1>5, <1>10 DEF SoundInv
  <2>8. dir'.page_count = n /\ n - 1 <= MaxEntries
    BY <1>7, <1>11
  <2> QED  BY <2>4, <2>5, <2>7, <2>8 DEF SoundInv
<1>14. CleanInv'
  <2>1. 0 \in dirty' /\ p \in dirty' /\ dirty \subseteq dirty'
    BY <1>1
  <2> QED  BY <2>1, <1>5, <1>10 DEF CleanInv, SavedOthers
<1>15. LiveInv'
  <2>1. m \in Nat /\ DOMAIN live' = DOMAIN live \cup {<<p, m>>}
    BY <1>1, <1>3
  <2>2. DOMAIN live' \subseteq PageIds \X Nat
    BY <2>1, <1>10 DEF LiveInv
  <2>3. pg.intact /\ pg.slots \in Seq(SlotType) /\ Len(pg.slots) = pg.num_slots
    BY <1>11 DEF PageSound, GoodPage, PageType
  <2>4. new.intact
    BY <1>1, <1>2, <1>11, InsertedSound DEF new, PageSound
  <2>5. /\ \A s \in 1 .. pg.num_slots : new.slots[s] = pg.slots[s]
        /\ new.slots[m] = Slot(pg, inserts, len)
    BY <1>1, <1>2, <1>3, <2>3, InsertedGood
  <2>6. new.slots[m].is_valid /\ new.slots[m].row = inserts
    BY <2>5 DEF Slot
  <2>7. /\ PageScan(new) = PageScan(pg) \cup {m}
        /\ m \notin PageScan(pg)
    BY <1>3, <2>3, <2>4, <2>5, <2>6 DEF PageScan
  <2>8. \A s \in PageScan(pg) : new.slots[s] = pg.slots[s]
    BY <2>5 DEF PageScan
  <2>9. ASSUME NEW q \in PageIds, NEW s \in Nat
        PROVE  /\ <<q, s>> \in DOMAIN live' <=> q < n /\ s \in PageScan(pages'[q])
               /\ <<q, s>> \in DOMAIN live' => live'[<<q, s>>] = pages'[q].slots[s].row
    <3>1. CASE q = p /\ s = m
      BY <3>1, <1>1, <1>5, <2>1, <2>6, <2>7
    <3>2. CASE q = p /\ s # m
      <4>1. <<q, s>> # <<p, m>>
        BY <3>2
      <4>2. /\ <<q, s>> \in DOMAIN live' <=> <<q, s>> \in DOMAIN live
            /\ <<q, s>> \in DOMAIN live => live'[<<q, s>>] = live[<<q, s>>]
        BY <4>1, <2>1, <1>1
      <4>3. s \in PageScan(new) <=> s \in PageScan(pg)
        BY <3>2, <2>7
      <4> QED  BY <3>2, <4>2, <4>3, <1>5, <1>12, <2>8
    <3>3. CASE q # p
      <4>1. <<q, s>> # <<p, m>>
        BY <3>3
      <4>2. /\ <<q, s>> \in DOMAIN live' <=> <<q, s>> \in DOMAIN live
            /\ <<q, s>> \in DOMAIN live => live'[<<q, s>>] = live[<<q, s>>]
        BY <4>1, <2>1, <1>1
      <4>3. q < n <=> q < num_pages
        BY <3>3, <1>2 DEF PageIds
      <4> QED  BY <3>3, <4>2, <4>3, <1>5, <1>10 DEF LiveInv
    <3> QED  BY <3>1, <3>2, <3>3
  <2> QED  BY <2>2, <2>9 DEF LiveInv
<1> QED  BY <1>13, <1>14, <1>15

(* A call that raises while it writes its tuple.                           *)
LEMMA RefusedInsert ==
  ASSUME HeapInv, NEW d, NEW p, NEW pg, NEW n, NEW len \in Lengths,
         Calls, running' = running, Target(d, p, pg, n),
         Raises(d, p, pg, len)
  PROVE  HeapInv'
<1> USE DEF Target
<1> DEFINE torn == Torn(pg, inserts, len)
<1>1. /\ pages' = [pages EXCEPT ![p] = torn]
      /\ dir' = d /\ leaked' = leaked \cup {0, p} /\ failed' = TRUE
      /\ dirty' = dirty /\ inserts < MaxInserts /\ inserts' = inserts + 1
  BY DEF Raises, Calls
<1>2. /\ TypeOK /\ CountsInv /\ inserts \in 0 .. MaxInserts /\ num_pages \in Nat
      /\ GoodPages(pages) /\ n \in Nat /\ num_pages \in 1 .. MaxPages
      /\ MaxPages \in Nat /\ p \in Nat /\ p >= 1
  <2>1. TypeOK /\ CountsInv /\ inserts \in 0 .. MaxInserts /\ num_pages \in 1 .. MaxPages
        /\ GoodPages(pages)
    BY GoodPagesType DEF HeapInv, TypeOK
  <2>2. p \in Nat /\ p >= 1 /\ n \in Nat /\ MaxPages \in Nat
    BY BoundAssumption DEF PageIds
  <2> QED  BY <2>1, <2>2
<1>3. GoodPage(torn)
  BY <1>2, TornGood
<1> HIDE DEF torn
<1>4. GoodPages(pages')
  BY <1>1, <1>2, <1>3 DEF GoodPages
<1>5. inserts' \in 0 .. MaxInserts
  BY <1>1, <1>2, BoundAssumption
<1>6. /\ 0 .. num_pages - 1 \subseteq 0 .. n - 1
      /\ 0 \in 0 .. n - 1 /\ p \in 0 .. n - 1
  <2>1. num_pages - 1 <= n - 1 /\ num_pages - 1 \in Int /\ n - 1 \in Int
    BY <1>2
  <2> QED  BY <1>2, <2>1, RangesGrow
<1>7. dirty' \subseteq 0 .. n - 1
  BY <1>1, <1>2, <1>6 DEF TypeOK
<1>8. leaked' \subseteq 0 .. n - 1
  <2> SUFFICES ASSUME NEW x \in leaked' PROVE x \in 0 .. n - 1
    OBVIOUS
  <2>1. leaked \subseteq 0 .. num_pages - 1
    BY <1>2 DEF TypeOK
  <2>2. x \in leaked \/ x = 0 \/ x = p
    BY <1>1
  <2> QED  BY <1>6, <2>1, <2>2
<1>9. TypeOK'
  BY <1>1, <1>2, <1>4, <1>5, <1>7, <1>8, GoodPagesType DEF TypeOK, SavedOthers
<1>10. CountsInv'
  BY <1>1, <1>2 DEF CountsInv, TypeOK, DirectoryType, SavedOthers
<1> QED  BY <1>1, <1>9, <1>10 DEF HeapInv, Sane

(* A page that the directory names is one of the file's, and has been      *)
(* given its content there.                                                *)
LEMMA NamedPage ==
  ASSUME HeapInv, NEW p \in Nat, p \in 1 .. dir.page_count - 1
  PROVE  p \in PageIds /\ p < num_pages /\ GoodPage(pages[p])
<1>1. /\ num_pages \in 1 .. MaxPages /\ dir.page_count \in 1 .. num_pages
      /\ GoodPages(pages)
  BY GoodPagesType DEF HeapInv, TypeOK, CountsInv
<1>2. p < num_pages /\ p \in PageIds
  BY <1>1, BoundAssumption DEF PageIds
<1> QED  BY <1>1, <1>2 DEF GoodPages

LEMMA InsertInPageStep ==
  ASSUME HeapInv, NEW len \in Lengths, InsertInPage(len)
  PROVE  HeapInv'
<1>1. PICK p \in FirstFit(dir, len + HEADER_SIZE) :
        Returns(dir, p, pages[p], len) \/ Raises(dir, p, pages[p], len)
  BY DEF InsertInPage
<1>2. /\ Calls /\ running /\ running' = running /\ UNCHANGED <<saved, num_pages>>
  BY DEF InsertInPage, Calls
<1>3. p \in 1 .. dir.page_count - 1
  BY DEF FirstFit, Candidates
<1>4. p \in PageIds /\ p < num_pages /\ GoodPage(pages[p])
  <2>1. dir.page_count - 1 \in Int
    BY DEF HeapInv, CountsInv, TypeOK
  <2>2. p \in Nat
    BY <1>3, <2>1
  <2> QED  BY <1>3, <2>2, NamedPage
<1>5. /\ dir \in DirectoryType /\ num_pages \in 1 .. MaxPages
      /\ dir.page_count \in 1 .. num_pages
  BY DEF HeapInv, TypeOK, CountsInv
<1>6. SavedOthers(p)
  BY <1>2, GoodPagesType DEF SavedOthers, HeapInv, TypeOK, saved
<1>7. Ready(dir, p, pages[p], num_pages)
  <2> SUFFICES ASSUME Sane PROVE
        /\ dir.page_count = num_pages /\ num_pages - 1 <= MaxEntries
        /\ PageSound(pages[p])
        /\ \A s \in Nat :
             /\ <<p, s>> \in DOMAIN live <=> s \in PageScan(pages[p])
             /\ s \in PageScan(pages[p]) => live[<<p, s>>] = pages[p].slots[s].row
    BY DEF Ready
  <2>1. SoundInv /\ LiveInv
    BY DEF HeapInv
  <2>2. dir.page_count = num_pages /\ num_pages - 1 <= MaxEntries
    BY <2>1 DEF SoundInv
  <2>3. PageSound(pages[p])
    BY <1>3, <2>1, <2>2 DEF SoundInv
  <2> QED  BY <1>4, <2>1, <2>2, <2>3 DEF LiveInv
<1>8. Target(dir, p, pages[p], num_pages)
  BY <1>2, <1>4, <1>5, <1>6 DEF Target
<1>9. CASE Returns(dir, p, pages[p], len)
  BY <1>2, <1>7, <1>8, <1>9, AcceptedInsert
<1>10. CASE Raises(dir, p, pages[p], len)
  BY <1>2, <1>8, <1>10, RefusedInsert
<1> QED  BY <1>1, <1>9, <1>10

(* While no insert has raised, no page is long, and none is garbage.       *)
LEMMA SanePages ==
  ASSUME HeapInv, Sane, NEW p \in 1 .. num_pages - 1
  PROVE  p \in PageIds /\ pages[p].intact /\ ~pages[p].long
BY BoundAssumption DEF HeapInv, TypeOK, SoundInv, PageSound, PageIds

LEMMA InsertInLongPageStep ==
  ASSUME HeapInv, NEW len \in Lengths, InsertInLongPage(len)
  PROVE  HeapInv' /\ ~Sane
<1>1. PICK p \in FirstFit(dir, len + HEADER_SIZE) :
        /\ pages[p].long
        /\ \/ /\ \E space \in Spaces : dir' = Updated(dir, p, space)
              /\ dirty' = dirty \cup Reported(p)
              /\ UNCHANGED <<leaked, failed>>
           \/ /\ leaked' = leaked \cup {0, p}
              /\ failed' = TRUE
              /\ UNCHANGED <<dir, dirty>>
  BY DEF InsertInLongPage
<1>2. /\ running /\ inserts < MaxInserts /\ inserts' = inserts + 1
      /\ UNCHANGED <<pages, saved_dir, saved_pages, spilled, num_pages, live, running>>
  BY DEF InsertInLongPage, Calls, saved
<1>3. p \in 1 .. dir.page_count - 1
  BY DEF FirstFit, Candidates
<1>4. /\ TypeOK /\ CountsInv /\ dir \in DirectoryType /\ num_pages \in Nat
      /\ dir.page_count \in 1 .. num_pages /\ inserts \in 0 .. MaxInserts
      /\ dirty \subseteq 0 .. num_pages - 1 /\ leaked \subseteq 0 .. num_pages - 1
  BY DEF HeapInv, TypeOK, CountsInv
<1>5. p \in 1 .. num_pages - 1 /\ {0, p} \subseteq 0 .. num_pages - 1
  BY <1>3, <1>4
<1>6. ~Sane
  BY <1>1, <1>5, SanePages
<1>7. ~Sane'
  <2>1. CASE failed' = failed
    BY <2>1, <1>2, <1>6 DEF Sane
  <2>2. CASE failed' = TRUE
    BY <2>2 DEF Sane
  <2> QED  BY <1>1, <2>1, <2>2
<1>8. /\ dirty' \subseteq 0 .. num_pages - 1 /\ leaked' \subseteq 0 .. num_pages - 1
      /\ failed' \in BOOLEAN
  BY <1>1, <1>4, <1>5 DEF Reported, TypeOK
<1>9. dir' \in DirectoryType /\ dir'.page_count = dir.page_count
  <2>1. CASE dir' = dir
    BY <2>1, <1>4
  <2>2. ASSUME NEW space \in Spaces, dir' = Updated(dir, p, space)
        PROVE  dir' \in DirectoryType /\ dir'.page_count = dir.page_count
    <3>1. space \in Nat
      BY PageAssumption
    <3> QED  BY <3>1, <2>2, <1>4, DirectoryUpdated
  <2> QED  BY <1>1, <2>1, <2>2
<1>10. inserts' \in 0 .. MaxInserts
  BY <1>2, <1>4, BoundAssumption
<1>11. TypeOK' /\ CountsInv'
  BY <1>2, <1>4, <1>8, <1>9, <1>10 DEF TypeOK, CountsInv
<1> QED  BY <1>6, <1>7, <1>11 DEF HeapInv

LEMMA DeleteGarbageStep ==
  ASSUME HeapInv, NEW p \in PageIds, DeleteGarbage(p)
  PROVE  HeapInv' /\ ~Sane
<1>1. /\ running /\ p \in 1 .. dir.page_count - 1 /\ ~pages[p].intact
      /\ dirty' = dirty \cup {p}
      /\ UNCHANGED <<dir, pages, saved_dir, saved_pages, spilled, num_pages, leaked,
                     inserts, failed, live, running>>
  BY DEF DeleteGarbage, saved, history
<1>2. /\ TypeOK /\ CountsInv /\ num_pages \in Nat
      /\ dir.page_count \in 1 .. num_pages /\ dirty \subseteq 0 .. num_pages - 1
  BY DEF HeapInv, TypeOK, CountsInv
<1>3. p \in 1 .. num_pages - 1 /\ p \in 0 .. num_pages - 1
  BY <1>1, <1>2
<1>4. ~Sane /\ ~Sane'
  BY <1>1, <1>3, SanePages DEF Sane
<1>5. dirty' \subseteq 0 .. num_pages - 1
  BY <1>1, <1>2, <1>3
<1>6. TypeOK' /\ CountsInv'
  BY <1>1, <1>2, <1>5 DEF TypeOK, CountsInv
<1> QED  BY <1>4, <1>6 DEF HeapInv

(* What both insertions that extend the file do to it.                     *)
LEMMA AllocatesStep ==
  ASSUME HeapInv, NEW len \in Lengths, Allocates(len)
  PROVE  /\ Calls /\ running /\ running' = running
         /\ num_pages \in PageIds /\ num_pages + 1 \in 1 .. MaxPages
         /\ num_pages' = num_pages + 1
         /\ SavedOthers(num_pages)
<1>1. /\ Calls /\ running /\ running' = running
      /\ num_pages < MaxPages /\ num_pages' = num_pages + 1
      /\ saved_pages' = [saved_pages EXCEPT ![num_pages] = ZeroPage]
      /\ saved_dir' = saved_dir /\ spilled' = spilled
  BY DEF Allocates, Calls
<1>2. GoodPages(saved_pages) /\ num_pages \in 1 .. MaxPages /\ MaxPages \in Nat
  BY GoodPagesType, BoundAssumption DEF HeapInv, TypeOK
<1>3. num_pages \in PageIds /\ num_pages + 1 \in 1 .. MaxPages
  BY <1>1, <1>2 DEF PageIds
<1>4. /\ saved_pages' = [q \in PageIds |->
                           IF q = num_pages THEN ZeroPage ELSE saved_pages[q]]
  BY <1>1, <1>2 DEF GoodPages
<1>5. SavedOthers(num_pages)
  BY <1>1, <1>2, <1>4, FreshPages DEF SavedOthers, GoodPages
<1> QED  BY <1>1, <1>3, <1>5

LEMMA InsertInNewPageStep ==
  ASSUME HeapInv, NEW len \in Lengths, InsertInNewPage(len)
  PROVE  HeapInv'
<1> DEFINE d == Updated(Counted(dir), num_pages, PAGE_SIZE)
           n == num_pages + 1
<1>1. /\ Allocates(len) /\ EntryFits(dir, num_pages)
      /\ Returns(d, num_pages, NewPage, len) \/ Raises(d, num_pages, NewPage, len)
  BY DEF InsertInNewPage
<1>2. /\ Calls /\ running /\ running' = running
      /\ num_pages \in PageIds /\ n \in 1 .. MaxPages /\ num_pages' = n
      /\ SavedOthers(num_pages)
  BY <1>1, AllocatesStep
<1>3. /\ dir \in DirectoryType /\ dir.page_count \in 1 .. num_pages
      /\ num_pages \in Nat
  BY DEF HeapInv, TypeOK, CountsInv
<1>4. /\ Counted(dir) \in DirectoryType
      /\ Counted(dir).page_count = dir.page_count + 1
      /\ Counted(dir).free_space = dir.free_space
  BY <1>3, DirectoryCounted
<1>5. /\ d \in DirectoryType /\ d.page_count = dir.page_count + 1
      /\ \A q \in 1 .. MaxEntries : q # num_pages =>
           d.free_space[q] = dir.free_space[q]
  <2>1. PAGE_SIZE \in 0 .. PAGE_SIZE
    BY PageAssumption
  <2> QED  BY <2>1, <1>4, DirectoryUpdated
<1> HIDE DEF d
<1>6. Target(d, num_pages, NewPage, n)
  <2>1. d.page_count \in 1 .. n /\ num_pages < n
    BY <1>3, <1>5
  <2> QED  BY <1>2, <1>5, <2>1, FreshPages DEF Target
<1>7. Ready(d, num_pages, NewPage, n)
  <2> SUFFICES ASSUME Sane PROVE
        /\ d.page_count = n /\ n - 1 <= MaxEntries
        /\ \A q \in 1 .. num_pages - 1 : d.free_space[q] = dir.free_space[q]
        /\ \A s \in Nat : <<num_pages, s>> \notin DOMAIN live
        /\ PageScan(NewPage) = {}
    BY FreshPages DEF Ready
  <2>1. SoundInv /\ LiveInv
    BY DEF HeapInv
  <2>2. dir.page_count = num_pages /\ num_pages - 1 <= MaxEntries
    BY <2>1 DEF SoundInv
  <2>3. n - 1 <= MaxEntries
    BY <1>1, <1>3, <2>2 DEF EntryFits
  <2>4. \A q \in 1 .. num_pages - 1 : q \in 1 .. MaxEntries /\ q # num_pages
    <3>1. MaxEntries \in Nat
      BY EntriesFit
    <3> QED  BY <1>3, <2>2, <3>1
  <2>5. \A s \in Nat : <<num_pages, s>> \notin DOMAIN live
    BY <1>2, <1>3, <2>1 DEF LiveInv
  <2>6. PageScan(NewPage) = {}
    BY FreshPages, ScanSlots
  <2> QED  BY <1>3, <1>5, <2>2, <2>3, <2>4, <2>5, <2>6
<1>8. CASE Returns(d, num_pages, NewPage, len)
  BY <1>2, <1>6, <1>7, <1>8, AcceptedInsert
<1>9. CASE Raises(d, num_pages, NewPage, len)
  BY <1>2, <1>6, <1>9, RefusedInsert
<1> QED  BY <1>1, <1>8, <1>9

LEMMA InsertDirectoryFullStep ==
  ASSUME HeapInv, NEW len \in Lengths, InsertDirectoryFull(len)
  PROVE  HeapInv'
<1>1. /\ Allocates(len) /\ dir' = Counted(dir) /\ leaked' = leaked \cup {0}
      /\ failed' = TRUE /\ pages' = pages /\ dirty' = dirty
      /\ inserts < MaxInserts /\ inserts' = inserts + 1
  BY DEF InsertDirectoryFull, Allocates, Calls
<1>2. /\ running' = running /\ num_pages + 1 \in 1 .. MaxPages
      /\ num_pages' = num_pages + 1 /\ SavedOthers(num_pages)
  BY <1>1, AllocatesStep
<1>3. /\ TypeOK /\ CountsInv /\ num_pages \in Nat
      /\ dir \in DirectoryType /\ dir.page_count \in 1 .. num_pages
      /\ saved_dir.page_count \in 1 .. num_pages
      /\ dirty \subseteq 0 .. num_pages - 1 /\ leaked \subseteq 0 .. num_pages - 1
      /\ inserts \in 0 .. MaxInserts
  BY DEF HeapInv, TypeOK, CountsInv
<1>4. dir' \in DirectoryType /\ dir'.page_count = dir.page_count + 1
  BY <1>1, <1>3, DirectoryCounted
<1>5. 0 .. num_pages - 1 \subseteq 0 .. num_pages /\ 0 \in 0 .. num_pages
  BY <1>3
<1>6. inserts' \in 0 .. MaxInserts
  BY <1>1, <1>3, BoundAssumption
<1>7. dirty' \subseteq 0 .. num_pages' - 1 /\ leaked' \subseteq 0 .. num_pages' - 1
  <2>1. num_pages' - 1 = num_pages
    BY <1>2, <1>3
  <2> QED  BY <2>1, <1>1, <1>3, <1>5
<1>8. TypeOK'
  BY <1>1, <1>2, <1>3, <1>4, <1>6, <1>7, GoodPagesType DEF TypeOK, SavedOthers
<1>9. CountsInv'
  BY <1>2, <1>3, <1>4 DEF CountsInv, SavedOthers
<1> QED  BY <1>1, <1>8, <1>9 DEF HeapInv, Sane

(* The rids that scan() returns.                                           *)
LEMMA VisibleSlots ==
  ASSUME HeapInv, NEW p, NEW s, NEW row, <<<<p, s>>, row>> \in Visible
  PROVE  /\ p \in PageIds /\ p \in 1 .. dir.page_count - 1
         /\ s \in PageScan(pages[p]) /\ row = pages[p].slots[s].row
<1>1. <<<<p, s>>, row>> \in
        UNION {Rows(pages, q) : q \in PageIds \cap (1 .. dir.page_count - 1)}
  BY DEF Visible, Scan
<1>2. PICK q \in PageIds \cap (1 .. dir.page_count - 1) :
        <<<<p, s>>, row>> \in Rows(pages, q)
  BY <1>1
<1>3. PICK t \in PageScan(pages[q]) :
        <<<<p, s>>, row>> = <<<<q, t>>, pages[q].slots[t].row>>
  BY <1>2 DEF Rows
<1>4. p = q /\ s = t /\ row = pages[q].slots[t].row
  BY <1>3
<1> QED  BY <1>2, <1>3, <1>4

LEMMA DeleteStep ==
  ASSUME HeapInv, NEW p \in PageIds, NEW s \in 1 .. MaxInserts, delete_tuple(<<p, s>>)
  PROVE  HeapInv'
<1> DEFINE new == Deleted(pages[p], s)
<1>1. /\ running /\ pages' = [pages EXCEPT ![p] = new]
      /\ dirty' = dirty \cup {p}
      /\ live' = [r \in DOMAIN live \ {<<p, s>>} |-> live[r]]
      /\ UNCHANGED <<dir, saved_dir, saved_pages, spilled, num_pages, leaked, inserts,
                     failed, running>>
  BY DEF delete_tuple, saved
<1>2. PICK row \in 0 .. inserts : <<<<p, s>>, row>> \in Visible
  BY DEF delete_tuple
<1>3. p \in 1 .. dir.page_count - 1 /\ s \in PageScan(pages[p])
  BY <1>2, VisibleSlots
<1>4. /\ TypeOK /\ CountsInv /\ GoodPages(pages) /\ num_pages \in Nat
      /\ dir.page_count \in 1 .. num_pages
  BY GoodPagesType DEF HeapInv, TypeOK, CountsInv
<1>5. GoodPage(pages[p]) /\ s \in 1 .. pages[p].num_slots /\ s \in Nat
      /\ p < num_pages /\ p \in Nat /\ p >= 1
  <2>1. GoodPage(pages[p])
    BY <1>4 DEF GoodPages
  <2>2. s \in 1 .. pages[p].num_slots /\ s \in Nat
    BY <1>3, <2>1, ScanSlots
  <2> QED  BY <2>1, <2>2, <1>3, <1>4 DEF PageIds
<1>6. /\ GoodPage(new)
      /\ PageSound(pages[p]) => PageSound(new)
      /\ new.num_slots = pages[p].num_slots /\ new.free_space = pages[p].free_space
      /\ new.intact = pages[p].intact /\ ~new.slots[s].is_valid
      /\ \A t \in 1 .. pages[p].num_slots : new.slots[t].row = pages[p].slots[t].row
      /\ \A t \in 1 .. pages[p].num_slots \ {s} : new.slots[t] = pages[p].slots[t]
  BY <1>5, DeletedGood
<1> HIDE DEF new
<1>7. /\ pages' = [q \in PageIds |-> IF q = p THEN new ELSE pages[q]]
      /\ pages'[p] = new
      /\ \A q \in PageIds \ {p} : pages'[q] = pages[q]
  BY <1>1, <1>4 DEF GoodPages
<1>8. GoodPages(pages')
  BY <1>4, <1>6, <1>7 DEF GoodPages
<1>9. dirty' \subseteq 0 .. num_pages - 1
  <2>1. p \in 0 .. num_pages - 1
    BY <1>4, <1>5
  <2> QED  BY <2>1, <1>1, <1>4 DEF TypeOK
<1>10. TypeOK' /\ CountsInv'
  BY <1>1, <1>4, <1>8, <1>9, GoodPagesType DEF TypeOK, CountsInv
<1> SUFFICES ASSUME Sane' PROVE SoundInv' /\ CleanInv' /\ LiveInv'
  BY <1>10 DEF HeapInv
<1>11. SoundInv /\ CleanInv /\ LiveInv
  BY <1>1 DEF Sane, HeapInv
<1>12. SoundInv'
  <2>1. PageSound(new)
    BY <1>3, <1>6, <1>11 DEF SoundInv
  <2>2. \A q \in 1 .. num_pages - 1 : q \in PageIds
    BY <1>4, BoundAssumption DEF PageIds, TypeOK
  <2>3. \A q \in 1 .. num_pages - 1 :
          PageSound(pages'[q]) /\ pages'[q].free_space = pages[q].free_space
    BY <2>1, <2>2, <1>6, <1>7, <1>11 DEF SoundInv
  <2>4. \A q \in PageIds : q >= num_pages => q # p
    BY <1>4, <1>5 DEF PageIds
  <2>5. \A q \in PageIds : q >= num_pages => pages'[q].num_slots = 0
    BY <2>4, <1>7, <1>11 DEF SoundInv
  <2> QED  BY <2>3, <2>5, <1>1, <1>11 DEF SoundInv
<1>13. CleanInv'
  <2>1. 0 \notin dirty' => 0 \notin dirty
    BY <1>1
  <2>2. \A q \in PageIds \ dirty' : q # p /\ q \notin dirty
    BY <1>1
  <2> QED  BY <2>1, <2>2, <1>1, <1>7, <1>11 DEF CleanInv
<1>14. LiveInv'
  <2>1. DOMAIN live' = DOMAIN live \ {<<p, s>>}
    BY <1>1
  <2>2. PageScan(new) = PageScan(pages[p]) \ {s}
    BY <1>6 DEF PageScan
  <2>3. PageScan(new) \subseteq 1 .. pages[p].num_slots
    BY <1>6, ScanSlots
  <2>4. ASSUME NEW q \in PageIds, NEW t \in Nat
        PROVE  /\ <<q, t>> \in DOMAIN live' <=> q < num_pages' /\ t \in PageScan(pages'[q])
               /\ <<q, t>> \in DOMAIN live' => live'[<<q, t>>] = pages'[q].slots[t].row
    <3>1. <<q, t>> \in DOMAIN live' => live'[<<q, t>>] = live[<<q, t>>]
      BY <1>1
    <3>2. CASE q = p
      <4>1. <<q, t>> \in DOMAIN live' <=> <<q, t>> \in DOMAIN live /\ t # s
        BY <2>1, <3>2
      <4>2. t \in PageScan(new) => new.slots[t].row = pages[p].slots[t].row
        BY <1>6, <2>3
      <4> QED  BY <1>1, <1>7, <1>11, <2>2, <3>1, <3>2, <4>1, <4>2 DEF LiveInv
    <3>3. CASE q # p
      <4>1. <<q, t>> \in DOMAIN live' <=> <<q, t>> \in DOMAIN live
        BY <2>1, <3>3
      <4> QED  BY <1>1, <1>7, <1>11, <3>1, <3>3, <4>1 DEF LiveInv
    <3> QED  BY <3>2, <3>3
  <2> QED  BY <2>1, <2>4, <1>11 DEF LiveInv
<1> QED  BY <1>12, <1>13, <1>14

(* Writing pages back changes only what is on the disk; unless a long page *)
(* is among them, each is in its place there.                              *)
LEMMA WrittenFile ==
  ASSUME HeapInv, NEW P, Written(P)
  PROVE  /\ GoodPages(saved_pages') /\ saved_dir' \in DirectoryType
         /\ saved_dir'.page_count \in 1 .. num_pages
         /\ dirty' = dirty \ P /\ dirty' \subseteq 0 .. num_pages - 1
         /\ 0 \in P => saved_dir' = dir
         /\ 0 \notin P => saved_dir' = saved_dir
         /\ spilled' = (spilled \/ LongIn(P) # {})
<1>1. /\ saved_dir' = IF 0 \in P THEN dir ELSE saved_dir
      /\ dirty' = dirty \ P
      /\ spilled' = (spilled \/ LongIn(P) # {})
  BY DEF Written
<1>2. PICK over \in SUBSET Following(P) :
        saved_pages' = [p \in PageIds |-> IF p \in LongIn(P) \cup over THEN Garbage
                                          ELSE Stored(P)[p]]
  BY DEF Written
<1>3. /\ GoodPages(pages) /\ GoodPages(saved_pages)
      /\ dir \in DirectoryType /\ saved_dir \in DirectoryType
      /\ dir.page_count \in 1 .. num_pages /\ saved_dir.page_count \in 1 .. num_pages
      /\ dirty \subseteq 0 .. num_pages - 1
  BY GoodPagesType DEF HeapInv, TypeOK, CountsInv
<1>4. \A p \in PageIds : GoodPage(Stored(P)[p])
  BY <1>3 DEF Stored, GoodPages
<1>5. GoodPages(saved_pages')
  <2>1. \A p \in PageIds : GoodPage(saved_pages'[p])
    BY <1>2, <1>4, FreshPages
  <2> QED  BY <1>2, <2>1 DEF GoodPages
<1> QED  BY <1>1, <1>3, <1>5

LEMMA WrittenPages ==
  ASSUME HeapInv, NEW P, Written(P), LongIn(P) = {}
  PROVE  /\ saved_pages' = Stored(P)
         /\ \A p \in PageIds : /\ p \in P => saved_pages'[p] = pages[p]
                               /\ p \notin P => saved_pages'[p] = saved_pages[p]
<1>1. Following(P) = {}
  BY DEF Following
<1>2. PICK over \in SUBSET Following(P) :
        saved_pages' = [p \in PageIds |-> IF p \in LongIn(P) \cup over THEN Garbage
                                          ELSE Stored(P)[p]]
  BY DEF Written
<1>3. saved_pages' = [p \in PageIds |-> Stored(P)[p]]
  BY <1>1, <1>2
<1>4. saved_pages' = Stored(P)
  BY <1>3 DEF Stored
<1> QED  BY <1>4 DEF Stored

(* No page of a file whose inserts all returned is long.                   *)
LEMMA NoneLong ==
  ASSUME HeapInv, Sane, NEW P, P \subseteq dirty
  PROVE  LongIn(P) = {}
<1> SUFFICES ASSUME NEW p \in LongIn(P) PROVE FALSE
  OBVIOUS
<1>1. p \in PageIds /\ p \in P /\ pages[p].long
  BY DEF LongIn
<1>2. p \in 1 .. num_pages - 1
  BY <1>1 DEF HeapInv, TypeOK, PageIds
<1> QED  BY <1>1, <1>2, SanePages

LEMMA WrittenClean ==
  ASSUME HeapInv, Sane, NEW P, P \subseteq dirty, Written(P)
  PROVE  /\ 0 \notin dirty' => saved_dir' = dir
         /\ \A p \in PageIds \ dirty' : saved_pages'[p] = pages[p]
<1>1. LongIn(P) = {} /\ CleanInv
  BY NoneLong DEF HeapInv
<1>2. 0 \notin dirty' => saved_dir' = dir
  <2>1. 0 \notin dirty' => 0 \in P \/ 0 \notin dirty
    BY WrittenFile
  <2> QED  BY <1>1, <2>1, WrittenFile DEF CleanInv
<1>3. ASSUME NEW p \in PageIds \ dirty' PROVE saved_pages'[p] = pages[p]
  <2>1. p \in P => saved_pages'[p] = pages[p]
    BY <1>1, WrittenPages
  <2>2. p \notin P => saved_pages'[p] = saved_pages[p] /\ p \notin dirty
    BY <1>1, WrittenFile, WrittenPages
  <2>3. p \notin dirty => saved_pages[p] = pages[p]
    BY <1>1 DEF CleanInv
  <2> QED  BY <2>1, <2>2, <2>3
<1> QED  BY <1>2, <1>3

LEMMA EvictStep ==
  ASSUME HeapInv, NEW p, Evict(p)
  PROVE  HeapInv'
<1>1. /\ Written({p}) /\ {p} \subseteq dirty
      /\ UNCHANGED <<dir, pages, num_pages, leaked, inserts, failed, live, running>>
  BY DEF Evict, history
<1>2. TypeOK'
  BY <1>1, WrittenFile, GoodPagesType DEF HeapInv, TypeOK
<1>3. CountsInv'
  BY <1>1, WrittenFile DEF HeapInv, CountsInv
<1>4. ASSUME Sane' PROVE SoundInv' /\ CleanInv' /\ LiveInv'
  <2>1. SoundInv /\ CleanInv /\ LiveInv
    BY <1>1, <1>4 DEF HeapInv, Sane
  <2>2. CleanInv'
    BY <1>1, <1>4, <2>1, WrittenClean DEF CleanInv, Sane
  <2> QED  BY <1>1, <2>1, <2>2 DEF SoundInv, LiveInv
<1> QED  BY <1>2, <1>3, <1>4 DEF HeapInv

LEMMA FlushAllStep ==
  ASSUME HeapInv, flush_all
  PROVE  HeapInv'
<1>1. /\ Written(dirty)
      /\ UNCHANGED <<dir, pages, num_pages, leaked, inserts, failed, live, running>>
  BY DEF flush_all
<1>2. TypeOK'
  BY <1>1, WrittenFile, GoodPagesType DEF HeapInv, TypeOK
<1>3. CountsInv'
  BY <1>1, WrittenFile DEF HeapInv, CountsInv
<1>4. ASSUME Sane' PROVE SoundInv' /\ CleanInv' /\ LiveInv'
  <2>1. SoundInv /\ CleanInv /\ LiveInv
    BY <1>1, <1>4 DEF HeapInv, Sane
  <2>2. CleanInv'
    BY <1>1, <1>4, <2>1, WrittenClean DEF CleanInv, Sane
  <2> QED  BY <1>1, <2>1, <2>2 DEF SoundInv, LiveInv
<1> QED  BY <1>2, <1>3, <1>4 DEF HeapInv

(* An orderly restart reads back what was current: what was not dirty is   *)
(* on the disk already, by CleanInv.                                       *)
LEMMA RestartStep ==
  ASSUME HeapInv, Restart
  PROVE  HeapInv'
<1>1. /\ Written(dirty) /\ dir' = saved_dir' /\ pages' = saved_pages' /\ leaked' = {}
      /\ UNCHANGED <<num_pages, inserts, failed, live, running>>
  BY DEF Restart, history
<1>2. TypeOK'
  BY <1>1, WrittenFile, GoodPagesType DEF HeapInv, TypeOK
<1>3. CountsInv'
  BY <1>1, WrittenFile DEF HeapInv, CountsInv
<1>4. ASSUME Sane' PROVE SoundInv' /\ CleanInv' /\ LiveInv'
  <2>1. SoundInv /\ CleanInv /\ LiveInv
    BY <1>1, <1>4 DEF HeapInv, Sane
  <2>2. dirty' = {} /\ GoodPages(saved_pages')
    BY <1>1, WrittenFile
  <2>3. saved_dir' = dir /\ \A p \in PageIds : saved_pages'[p] = pages[p]
    BY <1>1, <1>4, <2>2, WrittenClean DEF Sane
  <2>4. saved_pages' = pages
    BY <2>2, <2>3, GoodPagesType DEF HeapInv, TypeOK, GoodPages
  <2>5. dir' = dir /\ pages' = pages
    BY <1>1, <2>3, <2>4
  <2> QED  BY <1>1, <2>1, <2>3, <2>4, <2>5 DEF SoundInv, LiveInv, CleanInv
<1> QED  BY <1>2, <1>3, <1>4 DEF HeapInv

LEMMA CrashStep ==
  ASSUME HeapInv, Crash
  PROVE  HeapInv'
<1>1. /\ dir' = saved_dir /\ pages' = saved_pages /\ dirty' = {} /\ leaked' = {}
      /\ running' = FALSE
      /\ UNCHANGED <<saved_dir, saved_pages, spilled, num_pages, inserts, failed>>
  BY DEF Crash, saved, history
<1>2. TypeOK' /\ CountsInv'
  BY <1>1 DEF HeapInv, TypeOK, CountsInv
<1> QED  BY <1>1, <1>2 DEF HeapInv, Sane
-----------------------------------------------------------------------------
LEMMA StepHeapInv == HeapInv /\ [Next]_vars => HeapInv'
<1> SUFFICES ASSUME HeapInv, [Next]_vars PROVE HeapInv'
  OBVIOUS
<1>1. ASSUME NEW len \in Lengths, InsertInPage(len) PROVE HeapInv'
  BY <1>1, InsertInPageStep
<1>2. ASSUME NEW len \in Lengths, InsertInNewPage(len) PROVE HeapInv'
  BY <1>2, InsertInNewPageStep
<1>3. ASSUME NEW len \in Lengths, InsertDirectoryFull(len) PROVE HeapInv'
  BY <1>3, InsertDirectoryFullStep
<1>4. ASSUME NEW p \in PageIds, NEW s \in 1 .. MaxInserts, delete_tuple(<<p, s>>)
      PROVE  HeapInv'
  BY <1>4, DeleteStep
<1>5. ASSUME NEW p \in 0 .. MaxPages - 1, Evict(p) PROVE HeapInv'
  BY <1>5, EvictStep
<1>6. CASE flush_all
  BY <1>6, FlushAllStep
<1>7. CASE Restart
  BY <1>7, RestartStep
<1>8. CASE Crash
  BY <1>8, CrashStep
<1>9. CASE UNCHANGED vars
  <2>1. UNCHANGED <<dir, pages, saved_dir, saved_pages, spilled, num_pages, dirty,
                    leaked, inserts, failed, live, running>>
    BY <1>9 DEF vars, file, saved, history
  <2> QED  BY <2>1 DEF HeapInv, TypeOK, CountsInv, SoundInv, CleanInv, LiveInv, Sane
<1>10. ASSUME NEW len \in Lengths, InsertInLongPage(len) PROVE HeapInv'
  BY <1>10, InsertInLongPageStep
<1>11. ASSUME NEW p \in PageIds, DeleteGarbage(p) PROVE HeapInv'
  BY <1>11, DeleteGarbageStep
<1> QED  BY <1>1, <1>2, <1>3, <1>4, <1>5, <1>6, <1>7, <1>8, <1>9, <1>10, <1>11 DEF Next

(* The proof's invariant holds in every behaviour of the heap file.        *)
THEOREM HeapInvariant == Spec => []HeapInv
BY InitHeapInv, StepHeapInv, PTL DEF Spec

(* The heap file keeps its type: every header field and offset of a page   *)
(* stays inside the page, and a page's slot count is that of its slots,    *)
(* after torn inserts and crashes too.                                     *)
THEOREM HeapTypeCorrect == Spec => []TypeOK
<1>1. HeapInv => TypeOK
  BY DEF HeapInv
<1> QED  BY HeapInvariant, <1>1, PTL

(* However many inserts and deletions it has taken, a slotted page adds up *)
(* as long as no insert has raised.                                        *)
THEOREM PagesStaySound == Spec => []PagesAreSound
<1>1. HeapInv => PagesAreSound
  BY DEF HeapInv, SoundInv, PagesAreSound
<1> QED  BY HeapInvariant, <1>1, PTL

(* The directory and the pages' own headers agree.                         *)
THEOREM DirectoryStaysExact == Spec => []DirectoryAgrees
<1>1. HeapInv => DirectoryAgrees
  BY DEF HeapInv, SoundInv, DirectoryAgrees
<1> QED  BY HeapInvariant, <1>1, PTL

LEMMA ScanLive == HeapInv => ScanIsExact
<1> SUFFICES ASSUME HeapInv, Sane PROVE Visible = LiveRows
  BY DEF ScanIsExact
<1>1. SoundInv /\ LiveInv
  BY DEF HeapInv
<1>2. dir.page_count = num_pages /\ num_pages - 1 <= MaxEntries /\ num_pages \in Nat
      /\ MaxEntries \in Nat
  BY <1>1, EntriesFit DEF SoundInv, HeapInv, TypeOK
<1>3. Readable(dir)
  BY <1>2, EntriesReadable DEF Readable
<1>4. GoodPages(pages)
  BY GoodPagesType DEF HeapInv, TypeOK
<1>5. ASSUME NEW x \in Visible PROVE x \in LiveRows
  <2>1. PICK p \in PageIds \cap (1 .. dir.page_count - 1) : x \in Rows(pages, p)
    BY <1>3 DEF Visible, Scan
  <2>2. PICK s \in PageScan(pages[p]) : x = <<<<p, s>>, pages[p].slots[s].row>>
    BY <2>1 DEF Rows
  <2>3. s \in Nat /\ p < num_pages
    BY <1>2, <1>4, <2>1, <2>2, ScanSlots DEF GoodPages
  <2>4. <<p, s>> \in DOMAIN live /\ live[<<p, s>>] = pages[p].slots[s].row
    BY <1>1, <2>1, <2>2, <2>3 DEF LiveInv
  <2> QED  BY <2>2, <2>4 DEF LiveRows
<1>6. ASSUME NEW x \in LiveRows PROVE x \in Visible
  <2>1. PICK r \in DOMAIN live : x = <<r, live[r]>>
    BY DEF LiveRows
  <2>2. PICK p \in PageIds, s \in Nat : r = <<p, s>>
    BY <1>1, <2>1 DEF LiveInv
  <2>3. p < num_pages /\ s \in PageScan(pages[p]) /\ live[r] = pages[p].slots[s].row
    BY <1>1, <2>1, <2>2 DEF LiveInv
  <2>4. p \in PageIds \cap (1 .. dir.page_count - 1)
    BY <1>2, <2>2, <2>3 DEF PageIds
  <2>5. x \in Rows(pages, p)
    BY <2>1, <2>2, <2>3 DEF Rows
  <2> QED  BY <1>3, <2>4, <2>5 DEF Visible, Scan
<1> QED  BY <1>5, <1>6

(* scan() finds exactly the accepted, undeleted rows, whatever the page    *)
(* size, the tuple lengths, and the evictions and restarts in between.     *)
THEOREM ScanStaysExact == Spec => []ScanIsExact
BY HeapInvariant, ScanLive, PTL
-----------------------------------------------------------------------------
(* What SlotsAreNotReused says of a step.                                  *)
SlotsKept ==
  \A p \in PageIds :
    /\ pages[p].num_slots <= pages'[p].num_slots
    /\ \A s \in 1 .. pages[p].num_slots :
         pages'[p].slots[s].row = pages[p].slots[s].row

LEMMA InsertKeepsSlots ==
  ASSUME HeapInv, NEW d, NEW p \in PageIds, NEW pg, NEW len \in Lengths, GoodPage(pg),
         pg = pages[p] \/ pages[p].num_slots = 0,
         inserts \in 0 .. MaxInserts, Returns(d, p, pg, len)
  PROVE  SlotsKept
<1> DEFINE new == Inserted(pg, inserts, len)
<1>1. SlotPacks(pg, len) /\ pages' = [pages EXCEPT ![p] = new]
  BY DEF Returns
<1>2. GoodPages(pages)
  BY GoodPagesType DEF HeapInv, TypeOK
<1>3. new.num_slots = pg.num_slots + 1 /\ new.slots = Append(pg.slots, Slot(pg, inserts, len))
  BY DEF Inserted
<1> HIDE DEF new
<1>4. /\ pg.num_slots \in Nat /\ pg.slots \in Seq(SlotType) /\ Len(pg.slots) = pg.num_slots
      /\ Slot(pg, inserts, len) \in SlotType
  BY <1>1, InsertedGood DEF GoodPage, PageType
<1>5. \A s \in 1 .. pg.num_slots : new.slots[s] = pg.slots[s]
  BY <1>3, <1>4
<1>6. \A q \in PageIds : pages'[q] = IF q = p THEN new ELSE pages[q]
  BY <1>1, <1>2 DEF GoodPages
<1>7. \A q \in PageIds : pages[q].num_slots \in Nat
  BY <1>2 DEF GoodPages, GoodPage, PageType
<1>8. /\ pages[p].num_slots <= new.num_slots
      /\ \A s \in 1 .. pages[p].num_slots : new.slots[s].row = pages[p].slots[s].row
  <2>1. CASE pg = pages[p]
    BY <2>1, <1>3, <1>4, <1>5
  <2>2. CASE pages[p].num_slots = 0
    BY <2>2, <1>3, <1>4
  <2> QED  BY <2>1, <2>2
<1> QED  BY <1>6, <1>7, <1>8 DEF SlotsKept

LEMMA SamePagesKeepSlots ==
  ASSUME HeapInv, pages' = pages
  PROVE  SlotsKept
<1>1. \A q \in PageIds : pages[q].num_slots \in Nat
  BY GoodPagesType DEF HeapInv, TypeOK, GoodPages, GoodPage, PageType
<1> QED  BY <1>1 DEF SlotsKept

LEMMA DeleteKeepsSlots ==
  ASSUME HeapInv, NEW p \in PageIds, NEW s \in 1 .. MaxInserts, delete_tuple(<<p, s>>)
  PROVE  SlotsKept
<1> DEFINE new == Deleted(pages[p], s)
<1>1. PICK row \in 0 .. inserts : <<<<p, s>>, row>> \in Visible
  BY DEF delete_tuple
<1>2. GoodPages(pages)
  BY GoodPagesType DEF HeapInv, TypeOK
<1>3. GoodPage(pages[p]) /\ s \in 1 .. pages[p].num_slots
  BY <1>1, <1>2, VisibleSlots, ScanSlots DEF GoodPages
<1>4. /\ new.num_slots = pages[p].num_slots
      /\ \A t \in 1 .. pages[p].num_slots : new.slots[t].row = pages[p].slots[t].row
  BY <1>3, DeletedGood
<1> HIDE DEF new
<1>5. \A q \in PageIds : pages'[q] = IF q = p THEN new ELSE pages[q]
  BY <1>2 DEF delete_tuple, GoodPages, new
<1>6. \A q \in PageIds : pages[q].num_slots \in Nat
  BY <1>2 DEF GoodPages, GoodPage, PageType
<1> QED  BY <1>4, <1>5, <1>6 DEF SlotsKept

LEMMA StepKeepsSlots ==
  ASSUME HeapInv, [Next]_vars, Sane'
  PROVE  SlotsKept
<1>1. /\ GoodPages(pages) /\ inserts \in 0 .. MaxInserts
      /\ num_pages \in 1 .. MaxPages
  BY GoodPagesType DEF HeapInv, TypeOK
<1>2. ~failed' /\ running'
  BY DEF Sane
<1>3. ASSUME NEW len \in Lengths, InsertInPage(len) PROVE SlotsKept
  <2>1. PICK p \in FirstFit(dir, len + HEADER_SIZE) : Returns(dir, p, pages[p], len)
    BY <1>2, <1>3 DEF InsertInPage, Raises
  <2>2. p \in 1 .. dir.page_count - 1 /\ p \in Nat
    BY DEF FirstFit, Candidates, HeapInv, TypeOK, CountsInv
  <2>3. p \in PageIds /\ GoodPage(pages[p])
    BY <2>2, NamedPage
  <2> QED  BY <1>1, <2>1, <2>3, InsertKeepsSlots
<1>4. ASSUME NEW len \in Lengths, InsertInNewPage(len) PROVE SlotsKept
  <2> DEFINE d == Updated(Counted(dir), num_pages, PAGE_SIZE)
  <2>1. Allocates(len) /\ Returns(d, num_pages, NewPage, len)
    BY <1>2, <1>4 DEF InsertInNewPage, Raises
  <2> HIDE DEF d
  <2>2. num_pages \in PageIds /\ running
    BY <2>1, AllocatesStep
  <2>3. Sane
    BY <1>2, <2>1, <2>2 DEF Sane, Returns
  <2>4. pages[num_pages].num_slots = 0
    BY <1>1, <2>2, <2>3 DEF HeapInv, SoundInv
  <2> QED  BY <1>1, <2>1, <2>2, <2>4, FreshPages, InsertKeepsSlots
<1>5. ASSUME NEW len \in Lengths, InsertDirectoryFull(len) PROVE FALSE
  BY <1>2, <1>5 DEF InsertDirectoryFull
<1>6. ASSUME NEW p \in PageIds, NEW s \in 1 .. MaxInserts, delete_tuple(<<p, s>>)
      PROVE  SlotsKept
  BY <1>6, DeleteKeepsSlots
<1>7. ASSUME NEW p \in 0 .. MaxPages - 1, Evict(p) PROVE SlotsKept
  BY <1>7, SamePagesKeepSlots DEF Evict
<1>8. CASE flush_all
  BY <1>8, SamePagesKeepSlots DEF flush_all
<1>9. CASE Restart
  <2>1. Sane /\ Written(dirty) /\ pages' = saved_pages'
    BY <1>2, <1>9 DEF Restart, Sane, history
  <2>3. dirty' = {} /\ GoodPages(saved_pages')
    BY <2>1, WrittenFile
  <2>4. \A p \in PageIds : saved_pages'[p] = pages[p]
    BY <2>1, <2>3, WrittenClean
  <2>5. pages' = pages
    BY <1>1, <2>1, <2>3, <2>4 DEF GoodPages
  <2> QED  BY <2>5, SamePagesKeepSlots
<1>10. CASE Crash
  BY <1>2, <1>10 DEF Crash
<1>11. CASE UNCHANGED vars
  BY <1>11, SamePagesKeepSlots DEF vars, file
<1>12. ASSUME NEW len \in Lengths, InsertInLongPage(len) PROVE SlotsKept
  BY <1>12, SamePagesKeepSlots DEF InsertInLongPage
<1>13. ASSUME NEW p \in PageIds, DeleteGarbage(p) PROVE SlotsKept
  BY <1>13, SamePagesKeepSlots DEF DeleteGarbage
<1> QED  BY <1>3, <1>4, <1>5, <1>6, <1>7, <1>8, <1>9, <1>10, <1>11, <1>12, <1>13 DEF Next

(* A slot that was given to a row is never given to another one: a rid     *)
(* kept in an index cannot come to name a different row.                   *)
THEOREM SlotsStayGiven == Spec => SlotsAreNotReused
<1>1. HeapInv /\ [Next]_vars => [Sane' => SlotsKept]_vars
  BY StepKeepsSlots
<1> QED  BY HeapInvariant, <1>1, PTL DEF Spec, SlotsAreNotReused, SlotsKept
-----------------------------------------------------------------------------
(***************************************************************************)
(* What a crash cannot take from a heap file.  The proof follows every     *)
(* page in its two states, in the pool and in the file, through evictions  *)
(* of some of them, through flushes and restarts, and through inserts that *)
(* have raised and left their pages torn, pinned and unreported.           *)
(***************************************************************************)
(* A page bears rows, or it is barren: zeros, or torn by an insert that    *)
(* raised and then too long, or of no room for another tuple.              *)
Bearing(pg) == PageSound(pg) /\ pg.num_slots # 0
Full(pg) == pg.free_space = 0 \/ SlotEnd(pg.num_slots + 1) > PAGE_SIZE
Barren(pg) == pg = ZeroPage \/ (~pg.intact /\ (pg.long \/ Full(pg)))

(* The directory promises no more space than a bearing page has, so that   *)
(* an insert never tears such a page.                                      *)
Fits(d, p, pg) ==
  \/ Barren(pg)
  \/ Bearing(pg) /\ (p \in 1 .. MaxEntries => d.free_space[p] <= pg.free_space)

(* Pages that the file does not have yet are zeros everywhere.             *)
UnusedInv ==
  \A p \in PageIds : p >= num_pages =>
    /\ pages[p] = ZeroPage /\ saved_pages[p] = ZeroPage
    /\ p \in 1 .. MaxEntries => dir.free_space[p] = 0 /\ saved_dir.free_space[p] = 0

(* The pool's directory fits the pool's pages, and so does the file's      *)
(* directory while the pool's is not to be written.                        *)
PagesInv ==
  /\ saved_dir.page_count <= dir.page_count
  /\ UnusedInv
  /\ \A p \in PageIds : Fits(dir, p, pages[p])
  /\ 0 \notin dirty => \A p \in PageIds : Fits(saved_dir, p, pages[p])

(* Whatever is not in the file as it is in the pool is dirty or leaked,    *)
(* and a leaked page is barren; a page that is barren in the pool is in    *)
(* the file, too.                                                          *)
WrittenInv ==
  /\ 0 \notin dirty \cup leaked => saved_dir = dir
  /\ \A p \in PageIds :
       /\ p \notin dirty \cup leaked => saved_pages[p] = pages[p]
       /\ p \in leaked => Barren(pages[p])
       /\ Barren(pages[p]) => Barren(saved_pages[p])

(* Committed rows are in the pool's pages, and in the file's as far as its *)
(* directory counts them.                                                  *)
CommittedInv ==
  /\ \A c \in committed : \E p \in PageIds : c \in Rows(pages, p)
  /\ Readable(saved_dir) => committed \subseteq Scan(saved_dir, saved_pages)

CrashInv ==
  /\ running /\ ~spilled => PagesInv /\ WrittenInv /\ CommittedInv
  /\ CrashKeepsCommitted
-----------------------------------------------------------------------------
(* The two kinds of pages.                                                 *)
LEMMA BarrenOrBearing ==
  ASSUME NEW pg
  PROVE  /\ ~(Barren(pg) /\ Bearing(pg))
         /\ Barren(pg) => PageScan(pg) = {}
<1>1. ZeroPage.num_slots = 0 /\ PageScan(ZeroPage) = {}
  BY FreshPages, ScanSlots
<1> QED  BY <1>1 DEF Barren, Bearing, PageSound, PageScan

LEMMA ZeroBarren == Barren(ZeroPage)
BY DEF Barren

LEMMA BarrenStays ==
  ASSUME NEW pg, GoodPage(pg), Barren(pg), ~pg.long,
         NEW row \in 0 .. MaxInserts, NEW len \in Lengths
  PROVE  /\ ~(SlotPacks(pg, len) /\ SpacePacks(pg, len))
         /\ Barren(Torn(pg, row, len))
<1>1. /\ len \in Nat /\ len >= 1 /\ SLOT_SIZE \in Nat /\ SLOT_SIZE >= 1 /\ PAGE_SIZE \in Nat
      /\ HEADER_SIZE \in Nat
  BY PageAssumption
<1>2. /\ pg.num_slots \in Nat /\ pg.free_space \in Nat /\ pg.intact \in BOOLEAN
      /\ pg.free_space_pointer \in Nat
  BY DEF GoodPage, PageType
<1>3. /\ ZeroPage.free_space = 0 /\ ZeroPage.free_space_pointer = 0
      /\ ZeroPage.num_slots = 0 /\ ZeroPage.intact
  BY DEF ZeroPage
<1>4. SlotEnd(pg.num_slots + 1) \in Int
  BY <1>1, <1>2 DEF SlotEnd
<1>5. CASE pg = ZeroPage
  <2>1. ~SlotPacks(pg, len)
    BY <1>1, <1>3, <1>5 DEF SlotPacks, Offset
  <2>2. ~Torn(pg, row, len).intact /\ Torn(pg, row, len).free_space = 0
    BY <2>1, <1>3, <1>5, TornUnpacked
  <2> QED  BY <2>1, <2>2 DEF Barren, Full
<1>6. CASE ~pg.intact /\ Full(pg)
  <2>1. CASE SlotPacks(pg, len)
    <3>1. pg.free_space = 0
      BY <2>1, <1>1, <1>4, <1>6 DEF SlotPacks, Full
    <3>2. ~SpacePacks(pg, len)
      BY <3>1, <1>1 DEF SpacePacks
    <3>3. ~Inserted(pg, row, len).intact
      BY <1>6 DEF Inserted
    <3>4. Torn(pg, row, len) = [Inserted(pg, row, len) EXCEPT !.free_space = 0]
      BY <2>1 DEF Torn
    <3>5. Torn(pg, row, len).free_space = 0 /\ ~Torn(pg, row, len).intact
      BY <3>3, <3>4 DEF Inserted
    <3> QED  BY <3>2, <3>5 DEF Barren, Full
  <2>2. CASE ~SlotPacks(pg, len)
    <3>1. /\ ~Torn(pg, row, len).intact /\ Torn(pg, row, len).free_space = pg.free_space
          /\ Torn(pg, row, len).num_slots = pg.num_slots
      BY <2>2, TornUnpacked
    <3> QED  BY <2>2, <3>1, <1>6 DEF Barren, Full
  <2> QED  BY <2>1, <2>2
<1> QED  BY <1>5, <1>6 DEF Barren

(* A tuple for which a new page has no room.                               *)
LEMMA NewPageTorn ==
  ASSUME NEW row \in 0 .. MaxInserts, NEW len \in Lengths,
         ~(SlotPacks(NewPage, len) /\ SpacePacks(NewPage, len))
  PROVE  Barren(Torn(NewPage, row, len))
<1>1. /\ len \in Nat \ {0} /\ SLOT_SIZE \in Nat /\ PAGE_SIZE \in Nat
      /\ HEADER_SIZE \in 1 .. PAGE_SIZE
  BY PageAssumption
<1>2. /\ NewPage.num_slots = 0 /\ NewPage.free_space_pointer = PAGE_SIZE
      /\ NewPage.free_space = PAGE_SIZE - HEADER_SIZE /\ GoodPage(NewPage)
  BY FreshPages DEF NewPage, ZeroPage
<1>3. SlotEnd(0 + 1) = HEADER_SIZE + SLOT_SIZE /\ Offset(NewPage, len) = PAGE_SIZE - len
  BY <1>1, <1>2 DEF SlotEnd, Offset
<1>4. CASE SlotPacks(NewPage, len)
  <2>1. ~(PAGE_SIZE - HEADER_SIZE >= len + SLOT_SIZE)
    BY <1>2, <1>4 DEF SpacePacks
  <2>2. Overlap(NewPage, len)
    BY <2>1, <1>1, <1>2, <1>3 DEF Overlap
  <2>3. ~Inserted(NewPage, row, len).intact
    BY <2>2 DEF Inserted
  <2>4. Torn(NewPage, row, len) = [Inserted(NewPage, row, len) EXCEPT !.free_space = 0]
    BY <1>4 DEF Torn
  <2>5. Torn(NewPage, row, len).free_space = 0 /\ ~Torn(NewPage, row, len).intact
    BY <2>3, <2>4 DEF Inserted
  <2> QED  BY <2>5 DEF Barren, Full
<1>5. CASE ~SlotPacks(NewPage, len)
  <2>1. SlotEnd(NewPage.num_slots + 1) > PAGE_SIZE \/ Offset(NewPage, len) < 0
    BY <1>1, <1>2, <1>3, <1>5 DEF SlotPacks
  <2>2. /\ ~Torn(NewPage, row, len).intact /\ Torn(NewPage, row, len).num_slots = 0
        /\ Offset(NewPage, len) < 0 => Torn(NewPage, row, len).long
    BY <1>2, <1>5, TornUnpacked
  <2> QED  BY <2>1, <2>2, <1>2 DEF Barren, Full
<1> QED  BY <1>4, <1>5

(* Where the directory finds room on a bearing page, there is room.        *)
LEMMA BearingTakes ==
  ASSUME NEW pg, GoodPage(pg), Bearing(pg), NEW len \in Lengths,
         pg.free_space >= len + HEADER_SIZE
  PROVE  SlotPacks(pg, len) /\ SpacePacks(pg, len)
<1>1. /\ len \in Nat /\ SLOT_SIZE \in Nat /\ PAGE_SIZE \in Nat /\ HEADER_SIZE \in Nat
      /\ SLOT_SIZE <= HEADER_SIZE
  BY PageAssumption, SlotAssumption
<1>2. /\ pg.num_slots \in Nat /\ pg.free_space \in Nat
      /\ pg.free_space_pointer \in 0 .. PAGE_SIZE
  BY DEF GoodPage, PageType
<1>3. SpacePacks(pg, len)
  BY <1>1, <1>2 DEF SpacePacks
<1>4. SlotEnd(pg.num_slots) \in Nat /\ SlotEnd(pg.num_slots + 1) = SlotEnd(pg.num_slots) + SLOT_SIZE
  BY <1>2, SlotEndNext
<1>5. pg.free_space = pg.free_space_pointer - SlotEnd(pg.num_slots)
  BY DEF Bearing, PageSound
<1>6. SlotPacks(pg, len)
  BY <1>1, <1>2, <1>3, <1>4, <1>5 DEF SlotPacks, SpacePacks, Offset
<1> QED  BY <1>3, <1>6

(* An insert that returns keeps the rows of the page.                      *)
LEMMA InsertedBears ==
  ASSUME NEW pg, GoodPage(pg), PageSound(pg), NEW row \in 0 .. MaxInserts,
         NEW len \in Lengths, SlotPacks(pg, len), SpacePacks(pg, len)
  PROVE  /\ Bearing(Inserted(pg, row, len))
         /\ PageScan(pg) \subseteq PageScan(Inserted(pg, row, len))
         /\ \A s \in PageScan(pg) : Inserted(pg, row, len).slots[s] = pg.slots[s]
<1> DEFINE new == Inserted(pg, row, len)
<1>1. /\ PageSound(new) /\ pg.num_slots \in Nat /\ pg.slots \in Seq(SlotType)
      /\ Len(pg.slots) = pg.num_slots /\ Slot(pg, row, len) \in SlotType
  BY InsertedSound, InsertedGood DEF GoodPage, PageType
<1>2. new.num_slots = pg.num_slots + 1 /\ new.slots = Append(pg.slots, Slot(pg, row, len))
  BY DEF Inserted
<1> HIDE DEF new
<1>3. \A s \in 1 .. pg.num_slots : s \in 1 .. new.num_slots /\ new.slots[s] = pg.slots[s]
  BY <1>1, <1>2
<1>4. pg.intact /\ new.intact
  BY <1>1 DEF PageSound
<1>5. /\ PageScan(pg) \subseteq PageScan(new)
      /\ \A s \in PageScan(pg) : new.slots[s] = pg.slots[s]
  BY <1>3, <1>4 DEF PageScan
<1>6. Bearing(new)
  BY <1>1, <1>2 DEF Bearing
<1> QED  BY <1>5, <1>6 DEF new

(* Deleting a row of a bearing page, whose free space stays.               *)
LEMMA DeletedBears ==
  ASSUME NEW pg, GoodPage(pg), Bearing(pg), NEW s \in 1 .. pg.num_slots
  PROVE  /\ Bearing(Deleted(pg, s)) /\ Deleted(pg, s).free_space = pg.free_space
         /\ \A t \in PageScan(pg) \ {s} : /\ t \in PageScan(Deleted(pg, s))
                                          /\ Deleted(pg, s).slots[t] = pg.slots[t]
BY DeletedGood DEF Bearing, PageScan
-----------------------------------------------------------------------------
(* Rows and scans.                                                         *)
LEMMA RowIsAt ==
  ASSUME NEW ps, NEW p, NEW c
  PROVE  c \in Rows(ps, p) <=>
           \E s \in PageScan(ps[p]) : c = <<<<p, s>>, ps[p].slots[s].row>>
BY DEF Rows

LEMMA RowsOfOnePage ==
  ASSUME NEW ps, NEW qs, NEW p, NEW q, NEW c, c \in Rows(ps, p), c \in Rows(qs, q)
  PROVE  p = q
BY RowIsAt

LEMMA SamePage ==
  ASSUME NEW ps, NEW qs, NEW p, ps[p] = qs[p]
  PROVE  Rows(ps, p) = Rows(qs, p)
BY DEF Rows

LEMMA ScanFinds ==
  ASSUME NEW d, NEW ps, NEW c, Readable(d)
  PROVE  c \in Scan(d, ps) <=>
           \E p \in PageIds : p \in 1 .. d.page_count - 1 /\ c \in Rows(ps, p)
BY DEF Scan

LEMMA ReadableBefore ==
  ASSUME NEW d, NEW e, d.page_count \in Nat, e.page_count \in Nat,
         d.page_count <= e.page_count, Readable(e)
  PROVE  Readable(d) /\ 1 .. d.page_count - 1 \subseteq 1 .. e.page_count - 1
BY DEF Readable

LEMMA CountsAndPages ==
  ASSUME HeapInv
  PROVE  /\ num_pages \in 1 .. MaxPages /\ MaxPages \in Nat
         /\ dir.page_count \in 1 .. num_pages /\ saved_dir.page_count \in 1 .. num_pages
         /\ dir \in DirectoryType /\ saved_dir \in DirectoryType
         /\ inserts \in 0 .. MaxInserts
         /\ GoodPages(pages) /\ GoodPages(saved_pages)
         /\ dirty \subseteq 0 .. num_pages - 1 /\ leaked \subseteq 0 .. num_pages - 1
BY GoodPagesType, BoundAssumption DEF HeapInv, TypeOK, CountsInv
-----------------------------------------------------------------------------
(* Page p, with content pg when the call reaches it, takes a tuple; d is   *)
(* the directory so far and n the number of pages after the call.          *)
Placed(d, p, pg, n) ==
  /\ p \in PageIds /\ p < n /\ num_pages' = n /\ n \in 1 .. MaxPages
  /\ \/ n = num_pages /\ pg = pages[p]
     \/ n = num_pages + 1 /\ p = num_pages /\ pg = NewPage
  /\ d \in DirectoryType /\ d.page_count >= dir.page_count
  /\ \A q \in 1 .. MaxEntries : q # p => d.free_space[q] = dir.free_space[q]
  /\ p \in 1 .. MaxEntries => p \in 1 .. d.page_count - 1 \/ d.free_space[p] = 0
  /\ UNCHANGED <<saved, running>>

(* What the call does to the page, to the directory and to what has been   *)
(* reported or leaked.                                                     *)
Outcome(d, p) ==
  /\ dir' \in DirectoryType /\ dir'.page_count = d.page_count
  /\ \A q \in 1 .. MaxEntries : q # p => dir'.free_space[q] = d.free_space[q]
  /\ \A q \in PageIds : q # p => /\ pages'[q] = pages[q]
                                 /\ q \in dirty' <=> q \in dirty
                                 /\ q \in leaked' <=> q \in leaked
  /\ 0 \in dirty' \cup leaked' /\ p \in dirty' \cup leaked'
  /\ p \in leaked' => Barren(pages'[p])
  /\ Barren(pages'[p]) => Barren(saved_pages[p])
  /\ Fits(dir', p, pages'[p])
  /\ 0 \notin dirty' => 0 \notin dirty /\ Fits(saved_dir, p, pages'[p])
  /\ committed' = committed
  /\ Rows(pages, p) \subseteq Rows(pages', p)

LEMMA PlacedStep ==
  ASSUME HeapInv, CrashInv, running, ~spilled,
         NEW d, NEW p, NEW pg, NEW n, Placed(d, p, pg, n), Outcome(d, p)
  PROVE  CrashInv'
<1> USE DEF Placed, Outcome
<1>1. /\ saved_dir' = saved_dir /\ saved_pages' = saved_pages /\ running' /\ ~spilled'
      /\ PagesInv /\ WrittenInv /\ CommittedInv
  BY DEF saved, CrashInv
<1>2. /\ num_pages \in Nat /\ num_pages' \in Nat /\ num_pages' >= num_pages
      /\ d.page_count \in Nat /\ dir.page_count \in Nat /\ saved_dir.page_count \in Nat
  BY CountsAndPages DEF DirectoryType
<1>3. UnusedInv'
  <2> SUFFICES ASSUME NEW q \in PageIds, q >= num_pages'
               PROVE  /\ pages'[q] = ZeroPage /\ saved_pages'[q] = ZeroPage
                      /\ q \in 1 .. MaxEntries =>
                           dir'.free_space[q] = 0 /\ saved_dir'.free_space[q] = 0
    BY DEF UnusedInv, PageIds
  <2>1. q # p /\ q >= num_pages
    BY <1>2 DEF PageIds
  <2> QED  BY <1>1, <2>1 DEF PagesInv, UnusedInv
<1>4. ASSUME NEW q \in PageIds PROVE Fits(dir', q, pages'[q])
  <2>1. CASE q = p
    BY <2>1
  <2>2. CASE q # p
    BY <1>1, <2>2 DEF PagesInv, Fits
  <2> QED  BY <2>1, <2>2
<1>5. ASSUME 0 \notin dirty', NEW q \in PageIds PROVE Fits(saved_dir', q, pages'[q])
  <2>1. CASE q = p
    BY <1>1, <1>5, <2>1
  <2>2. CASE q # p
    BY <1>1, <1>5, <2>2 DEF PagesInv, Fits
  <2> QED  BY <2>1, <2>2
<1>6. PagesInv'
  <2>1. saved_dir'.page_count <= dir'.page_count
    BY <1>1, <1>2 DEF PagesInv
  <2> QED  BY <1>3, <1>4, <1>5, <2>1 DEF PagesInv, PageIds
<1>7. WrittenInv'
  <2>1. 0 \notin dirty' \cup leaked' => saved_dir' = dir'
    BY <1>1 DEF WrittenInv
  <2>2. ASSUME NEW q \in PageIds
        PROVE  /\ q \notin dirty' \cup leaked' => saved_pages'[q] = pages'[q]
               /\ q \in leaked' => Barren(pages'[q])
               /\ Barren(pages'[q]) => Barren(saved_pages'[q])
    <3>1. CASE q = p
      BY <1>1, <3>1
    <3>2. CASE q # p
      BY <1>1, <3>2 DEF WrittenInv
    <3> QED  BY <3>1, <3>2
  <2> QED  BY <2>1, <2>2 DEF WrittenInv, PageIds
<1>8. CommittedInv'
  <2>1. ASSUME NEW c \in committed PROVE \E q \in PageIds : c \in Rows(pages', q)
    <3>1. PICK q \in PageIds : c \in Rows(pages, q)
      BY <1>1 DEF CommittedInv
    <3>2. q # p => Rows(pages', q) = Rows(pages, q)
      BY SamePage
    <3> QED  BY <3>1, <3>2
  <2> QED  BY <1>1, <2>1 DEF CommittedInv, PageIds, Readable, Scan, Rows
<1> QED  BY <1>1, <1>6, <1>7, <1>8 DEF CrashInv, CrashKeepsCommitted

LEMMA AcceptedKeeps ==
  ASSUME HeapInv, CrashInv, running, ~spilled, NEW d, NEW p, NEW pg, NEW n, Placed(d, p, pg, n),
         NEW len \in Lengths, Returns(d, p, pg, len), ~pg.long
  PROVE  CrashInv'
<1> DEFINE new == Inserted(pg, inserts, len)
<1>1. /\ SlotPacks(pg, len) /\ SpacePacks(pg, len)
      /\ pages' = [pages EXCEPT ![p] = new]
      /\ dir' = Updated(d, p, new.free_space)
      /\ dirty' = dirty \cup {0, p}
      /\ leaked' = leaked /\ committed' = committed
  BY DEF Returns, Reported
<1>2. /\ PagesInv /\ WrittenInv /\ CommittedInv /\ p \in PageIds /\ p # 0
      /\ d \in DirectoryType /\ GoodPages(pages) /\ inserts \in 0 .. MaxInserts
  BY CountsAndPages DEF CrashInv, Placed, PageIds
<1>3. GoodPage(pg) /\ PageSound(pg)
  <2>1. CASE pg = pages[p]
    <3>1. GoodPage(pg) /\ Fits(dir, p, pg)
      BY <1>2, <2>1 DEF GoodPages, PagesInv
    <3>2. ~Barren(pg)
      BY <1>1, <1>2, <3>1, BarrenStays
    <3> QED  BY <3>1, <3>2 DEF Fits, Bearing
  <2>2. CASE pg = NewPage
    BY <2>2, FreshPages
  <2> QED  BY <2>1, <2>2 DEF Placed
<1>4. /\ Bearing(new) /\ GoodPage(new) /\ new.free_space \in 0 .. PAGE_SIZE
      /\ PageScan(pg) \subseteq PageScan(new)
      /\ \A s \in PageScan(pg) : new.slots[s] = pg.slots[s]
  BY <1>1, <1>2, <1>3, InsertedBears, InsertedGood DEF GoodPage, PageType
<1> HIDE DEF new
<1>5. pages'[p] = new /\ \A q \in PageIds : q # p => pages'[q] = pages[q]
  BY <1>1, <1>2 DEF GoodPages
<1>6. /\ dir' \in DirectoryType /\ dir'.page_count = d.page_count
      /\ \A q \in 1 .. MaxEntries : q # p => dir'.free_space[q] = d.free_space[q]
      /\ p \in 1 .. d.page_count - 1 /\ p \in 1 .. MaxEntries => dir'.free_space[p] = new.free_space
  BY <1>1, <1>2, <1>4, DirectoryUpdated
<1>7. Fits(dir', p, pages'[p])
  <2>1. ASSUME p \in 1 .. MaxEntries PROVE dir'.free_space[p] <= new.free_space
    <3>1. CASE p \in 1 .. d.page_count - 1
      BY <1>4, <1>6, <2>1, <3>1
    <3>2. CASE p \notin 1 .. d.page_count - 1
      <4>1. dir' = d /\ d.free_space[p] = 0
        BY <1>1, <2>1, <3>2 DEF Updated, Placed
      <4> QED  BY <1>4, <4>1
    <3> QED  BY <3>1, <3>2
  <2> QED  BY <1>4, <1>5, <2>1 DEF Fits
<1>8. p \notin leaked
  <2>1. CASE pg = pages[p]
    BY <1>2, <1>3, <2>1, BarrenOrBearing, <1>1, BarrenStays DEF WrittenInv
  <2>2. CASE p = num_pages
    BY <2>2, CountsAndPages
  <2> QED  BY <2>1, <2>2 DEF Placed
<1>9. Rows(pages, p) \subseteq Rows(pages', p)
  <2>1. CASE pg = pages[p]
    <3> SUFFICES ASSUME NEW c \in Rows(pages, p) PROVE c \in Rows(pages', p)
      OBVIOUS
    <3>1. PICK s \in PageScan(pages[p]) : c = <<<<p, s>>, pages[p].slots[s].row>>
      BY RowIsAt
    <3>2. s \in PageScan(pages'[p]) /\ pages'[p].slots[s] = pages[p].slots[s]
      BY <1>4, <1>5, <2>1
    <3> QED  BY <3>1, <3>2, RowIsAt
  <2>2. CASE p = num_pages
    <3>1. pages[p] = ZeroPage
      BY <1>2, <2>2, CountsAndPages DEF PagesInv, UnusedInv
    <3>2. Rows(pages, p) = {}
      BY <3>1, ZeroBarren, BarrenOrBearing DEF Rows
    <3> QED  BY <3>2
  <2> QED  BY <2>1, <2>2 DEF Placed
<1>10. /\ 0 \in dirty' /\ p \in dirty' /\ p \notin leaked'
       /\ \A q \in PageIds : q # p => /\ q \in dirty' <=> q \in dirty
                                      /\ q \in leaked' <=> q \in leaked
       /\ ~Barren(pages'[p])
  BY <1>1, <1>4, <1>5, <1>8, BarrenOrBearing DEF PageIds
<1>11. committed' = committed
  BY <1>1
<1>12. Outcome(d, p)
  <2>1. \A q \in PageIds : q # p => /\ pages'[q] = pages[q]
                                    /\ q \in dirty' <=> q \in dirty
                                    /\ q \in leaked' <=> q \in leaked
    BY <1>5, <1>10
  <2>2. 0 \in dirty' \cup leaked' /\ p \in dirty' \cup leaked'
    BY <1>10
  <2> QED  BY <1>6, <1>7, <1>9, <1>10, <1>11, <2>1, <2>2 DEF Outcome
<1> QED  BY <1>12, PlacedStep

LEMMA RaisingKeeps ==
  ASSUME HeapInv, CrashInv, running, ~spilled, NEW d, NEW p, NEW pg, NEW n, Placed(d, p, pg, n),
         NEW len \in Lengths, Raises(d, p, pg, len),
         pg = NewPage \/ (Barren(pg) /\ ~pg.long)
  PROVE  CrashInv'
<1> DEFINE torn == Torn(pg, inserts, len)
<1>1. /\ ~(SlotPacks(pg, len) /\ SpacePacks(pg, len))
      /\ pages' = [pages EXCEPT ![p] = torn]
      /\ dir' = d /\ leaked' = leaked \cup {0, p} /\ dirty' = dirty /\ committed' = committed
  BY DEF Raises
<1>2. /\ PagesInv /\ WrittenInv /\ CommittedInv /\ p \in PageIds /\ p # 0
      /\ d \in DirectoryType /\ GoodPages(pages) /\ inserts \in 0 .. MaxInserts
  BY CountsAndPages DEF CrashInv, Placed, PageIds
<1>3. Barren(pages[p]) /\ Barren(torn)
  <2>1. CASE pg = pages[p] /\ Barren(pg) /\ ~pg.long
    BY <1>2, <2>1, BarrenStays DEF GoodPages
  <2>2. CASE pg = NewPage
    <3>1. NewPage.num_slots = 0 /\ NewPage.intact /\ NewPage # ZeroPage
      <4>1. NewPage.free_space_pointer = PAGE_SIZE /\ ZeroPage.free_space_pointer = 0
        BY FreshPages DEF NewPage, ZeroPage
      <4> QED  BY <4>1, FreshPages, PageAssumption DEF PageSound
    <3>2. ~(pg = pages[p])
      BY <2>2, <3>1, <1>2 DEF PagesInv, Fits, Barren, Bearing
    <3>3. p = num_pages
      BY <3>2 DEF Placed
    <3>4. Barren(pages[p])
      BY <1>2, <3>3, CountsAndPages, ZeroBarren DEF PagesInv, UnusedInv
    <3> QED  BY <1>1, <1>2, <2>2, <3>4, NewPageTorn
  <2>3. CASE p = num_pages /\ pg = NewPage
    BY <2>2, <2>3
  <2> QED  BY <2>1, <2>2, <2>3 DEF Placed
<1> HIDE DEF torn
<1>4. pages'[p] = torn /\ \A q \in PageIds : q # p => pages'[q] = pages[q]
  BY <1>1, <1>2 DEF GoodPages
<1>5. Barren(saved_pages[p])
  BY <1>2, <1>3 DEF WrittenInv
<1>6. Rows(pages, p) = {}
  BY <1>3, BarrenOrBearing DEF Rows
<1>7. /\ 0 \in leaked' /\ p \in leaked'
      /\ \A q \in PageIds : q # p => /\ q \in dirty' <=> q \in dirty
                                     /\ q \in leaked' <=> q \in leaked
      /\ 0 \notin dirty' => 0 \notin dirty
      /\ Barren(pages'[p]) /\ Barren(saved_pages[p])
  BY <1>1, <1>3, <1>4, <1>5 DEF PageIds
<1>8. Fits(dir', p, pages'[p]) /\ Fits(saved_dir, p, pages'[p])
  BY <1>7 DEF Fits
<1>9. Rows(pages, p) \subseteq Rows(pages', p)
  BY <1>6
<1>10. /\ dir' \in DirectoryType /\ dir'.page_count = d.page_count
       /\ \A q \in 1 .. MaxEntries : q # p => dir'.free_space[q] = d.free_space[q]
       /\ committed' = committed
  BY <1>1, <1>2
<1>11. Outcome(d, p)
  <2>1. \A q \in PageIds : q # p => /\ pages'[q] = pages[q]
                                    /\ q \in dirty' <=> q \in dirty
                                    /\ q \in leaked' <=> q \in leaked
    BY <1>4, <1>7
  <2>2. 0 \in dirty' \cup leaked' /\ p \in dirty' \cup leaked'
    BY <1>7
  <2> QED  BY <1>7, <1>8, <1>9, <1>10, <2>1, <2>2 DEF Outcome
<1> QED  BY <1>11, PlacedStep
-----------------------------------------------------------------------------
(* The inserts.                                                            *)
LEMMA InsertInPageKeeps ==
  ASSUME HeapInv, CrashInv, NEW len \in Lengths, InsertInPage(len)
  PROVE  CrashInv'
<1>1. /\ running /\ running' = running /\ ~spilled /\ Readable(dir)
      /\ UNCHANGED <<saved, num_pages>>
  BY DEF InsertInPage, Calls
<1>2. PICK p \in FirstFit(dir, len + HEADER_SIZE) :
        /\ ~pages[p].long
        /\ Returns(dir, p, pages[p], len) \/ Raises(dir, p, pages[p], len)
  BY DEF InsertInPage
<1>3. p \in 1 .. dir.page_count - 1 /\ dir.free_space[p] >= len + HEADER_SIZE
  BY DEF FirstFit, Candidates
<1>4. /\ num_pages \in 1 .. MaxPages /\ dir.page_count \in Nat /\ dir \in DirectoryType
      /\ p \in Nat
  BY <1>3, CountsAndPages DEF DirectoryType
<1>5. p \in PageIds /\ p < num_pages /\ GoodPage(pages[p])
  BY <1>3, <1>4, NamedPage
<1>6. p \in 1 .. MaxEntries
  <2>1. 6 * p <= PAGE_SIZE
    BY <1>1, <1>3, <1>4, PageAssumption DEF Readable, EntryEnd
  <2> QED  BY <1>3, <1>4, <2>1, EntriesFit
<1>7. Placed(dir, p, pages[p], num_pages)
  BY <1>1, <1>3, <1>4, <1>5 DEF Placed
<1>8. CASE Returns(dir, p, pages[p], len)
  BY <1>1, <1>2, <1>7, <1>8, AcceptedKeeps
<1>9. CASE Raises(dir, p, pages[p], len)
  <2>1. Fits(dir, p, pages[p])
    BY <1>1, <1>5 DEF CrashInv, PagesInv
  <2>2. ASSUME Bearing(pages[p]) PROVE FALSE
    <3>1. dir.free_space[p] <= pages[p].free_space
      BY <1>6, <2>1, <2>2, BarrenOrBearing DEF Fits
    <3>2. pages[p].free_space >= len + HEADER_SIZE
      <4>1. len \in Nat /\ HEADER_SIZE \in Nat /\ PAGE_SIZE \in Nat
        BY PageAssumption
      <4>2. dir.free_space[p] \in Nat
        BY <1>4, <1>6 DEF DirectoryType
      <4>3. pages[p].free_space \in 0 .. PAGE_SIZE
        BY <1>5 DEF GoodPage, PageType
      <4> QED  BY <1>3, <3>1, <4>1, <4>2, <4>3
    <3> QED  BY <1>5, <1>9, <2>2, <3>2, BearingTakes DEF Raises
  <2>3. Barren(pages[p])
    BY <2>1, <2>2 DEF Fits
  <2> QED  BY <1>1, <1>2, <1>7, <1>9, <2>3, RaisingKeeps
<1> QED  BY <1>2, <1>8, <1>9

(* A call on a long page, which is leaked, changes what is reported.       *)
LEMMA InsertInLongPageKeeps ==
  ASSUME HeapInv, CrashInv, NEW len \in Lengths, InsertInLongPage(len)
  PROVE  CrashInv'
<1>1. /\ running /\ running' = running /\ ~spilled /\ Readable(dir)
      /\ pages' = pages /\ committed' = committed /\ UNCHANGED <<saved, num_pages>>
  BY DEF InsertInLongPage, Calls
<1>2. PICK p \in FirstFit(dir, len + HEADER_SIZE) :
        /\ pages[p].long
        /\ \/ /\ \E space \in Spaces : dir' = Updated(dir, p, space)
              /\ dirty' = dirty \cup {0, p}
              /\ leaked' = leaked
           \/ /\ leaked' = leaked \cup {0, p}
              /\ dir' = dir /\ dirty' = dirty
  BY DEF InsertInLongPage, Reported
<1>3. p \in 1 .. dir.page_count - 1
  BY DEF FirstFit, Candidates
<1>4. /\ num_pages \in 1 .. MaxPages /\ dir.page_count \in Nat /\ dir \in DirectoryType
      /\ p \in Nat
  BY <1>3, CountsAndPages DEF DirectoryType
<1>5. p \in PageIds /\ p < num_pages /\ p # 0
  BY <1>3, <1>4, NamedPage
<1>6. Placed(dir, p, pages[p], num_pages)
  BY <1>1, <1>3, <1>4, <1>5 DEF Placed
<1>7. PagesInv /\ WrittenInv
  BY <1>1 DEF CrashInv
<1>8. Barren(pages[p])
  <2>1. ~Bearing(pages[p])
    BY <1>2 DEF Bearing, PageSound
  <2> QED  BY <1>5, <1>7, <2>1 DEF PagesInv, Fits
<1>9. Barren(saved_pages[p])
  BY <1>5, <1>7, <1>8 DEF WrittenInv
<1>10. /\ dir' \in DirectoryType /\ dir'.page_count = dir.page_count
       /\ \A q \in 1 .. MaxEntries : q # p => dir'.free_space[q] = dir.free_space[q]
  <2>1. CASE dir' = dir
    BY <1>4, <2>1
  <2>2. ASSUME NEW space \in Spaces, dir' = Updated(dir, p, space)
        PROVE  /\ dir' \in DirectoryType /\ dir'.page_count = dir.page_count
               /\ \A q \in 1 .. MaxEntries : q # p =>
                    dir'.free_space[q] = dir.free_space[q]
    <3>1. space \in Nat
      BY PageAssumption
    <3> QED  BY <1>4, <2>2, <3>1, DirectoryUpdated
  <2> QED  BY <1>2, <2>1, <2>2
<1>11. Fits(dir', p, pages'[p]) /\ Fits(saved_dir, p, pages'[p])
  BY <1>1, <1>8 DEF Fits
<1>12. /\ \A q \in PageIds : q # p => /\ q \in dirty' <=> q \in dirty
                                      /\ q \in leaked' <=> q \in leaked
       /\ 0 \in dirty' \cup leaked' /\ p \in dirty' \cup leaked'
       /\ 0 \notin dirty' => 0 \notin dirty
  <2>1. 0 \notin PageIds
    BY DEF PageIds
  <2>2. CASE dirty' = dirty \cup {0, p} /\ leaked' = leaked
    <3>1. p \in dirty' /\ 0 \in dirty'
      BY <2>2
    <3>2. \A q \in PageIds : q # p => (q \in dirty' <=> q \in dirty)
      BY <2>1, <2>2
    <3> QED  BY <2>2, <3>1, <3>2
  <2>3. CASE leaked' = leaked \cup {0, p} /\ dirty' = dirty
    <3>1. p \in leaked' /\ 0 \in leaked'
      BY <2>3
    <3>2. \A q \in PageIds : q # p => (q \in leaked' <=> q \in leaked)
      BY <2>1, <2>3
    <3> QED  BY <2>3, <3>1, <3>2
  <2> QED  BY <1>2, <2>2, <2>3
<1>13. Outcome(dir, p)
  <2>1. Barren(pages'[p]) /\ Rows(pages', p) = Rows(pages, p)
    BY <1>1, <1>8, SamePage
  <2>2. \A q \in PageIds : q # p => /\ pages'[q] = pages[q]
                                    /\ q \in dirty' <=> q \in dirty
                                    /\ q \in leaked' <=> q \in leaked
    BY <1>1, <1>12
  <2> QED  BY <1>1, <1>9, <1>10, <1>11, <1>12, <2>1, <2>2 DEF Outcome
<1> QED  BY <1>1, <1>6, <1>13, PlacedStep

(* The new page was zeros in the file already.                             *)
LEMMA AllocatedPage ==
  ASSUME HeapInv, CrashInv, NEW len \in Lengths, Allocates(len)
  PROVE  /\ running /\ running' = running /\ ~spilled /\ UNCHANGED saved
         /\ num_pages \in PageIds /\ num_pages' = num_pages + 1
         /\ num_pages + 1 \in 1 .. MaxPages /\ num_pages \in Nat
         /\ num_pages \in 1 .. MaxEntries => dir.free_space[num_pages] = 0
<1>1. /\ running /\ running' = running /\ num_pages \in PageIds
      /\ num_pages' = num_pages + 1 /\ num_pages + 1 \in 1 .. MaxPages
  BY AllocatesStep
<1>2. num_pages \in Nat /\ GoodPages(saved_pages)
  BY CountsAndPages
<1>3. ~spilled
  BY DEF Allocates, Calls
<1>4. /\ saved_pages[num_pages] = ZeroPage
      /\ num_pages \in 1 .. MaxEntries => dir.free_space[num_pages] = 0
  BY <1>1, <1>2, <1>3 DEF CrashInv, PagesInv, UnusedInv
<1>5. /\ saved_dir' = saved_dir /\ spilled' = spilled
      /\ saved_pages' = [saved_pages EXCEPT ![num_pages] = ZeroPage]
  BY DEF Allocates
<1>6. saved_pages' = saved_pages
  BY <1>2, <1>4, <1>5 DEF GoodPages
<1> QED  BY <1>1, <1>2, <1>3, <1>5, <1>6, <1>4 DEF saved

LEMMA InsertInNewPageKeeps ==
  ASSUME HeapInv, CrashInv, NEW len \in Lengths, InsertInNewPage(len)
  PROVE  CrashInv'
<1> DEFINE p == num_pages
           d == Updated(Counted(dir), p, PAGE_SIZE)
<1>1. /\ Allocates(len)
      /\ Returns(d, p, NewPage, len) \/ Raises(d, p, NewPage, len)
  BY DEF InsertInNewPage
<1>2. /\ running /\ running' = running /\ ~spilled /\ UNCHANGED saved
      /\ p \in PageIds /\ num_pages' = p + 1
      /\ p + 1 \in 1 .. MaxPages /\ p \in Nat
      /\ p \in 1 .. MaxEntries => dir.free_space[p] = 0
  BY <1>1, AllocatedPage
<1>3. dir \in DirectoryType /\ dir.page_count \in Nat /\ PAGE_SIZE \in 0 .. PAGE_SIZE
  BY CountsAndPages, PageAssumption DEF DirectoryType
<1>4. /\ Counted(dir) \in DirectoryType /\ Counted(dir).page_count = dir.page_count + 1
      /\ Counted(dir).free_space = dir.free_space
  BY <1>3, DirectoryCounted
<1>5. /\ d \in DirectoryType /\ d.page_count = dir.page_count + 1
      /\ \A q \in 1 .. MaxEntries : q # p => d.free_space[q] = dir.free_space[q]
  BY <1>3, <1>4, DirectoryUpdated
<1>6. p \in 1 .. MaxEntries => p \in 1 .. d.page_count - 1 \/ d.free_space[p] = 0
  <2>1. CASE p \in 1 .. Counted(dir).page_count - 1
    BY <1>4, <1>5, <2>1
  <2>2. CASE p \notin 1 .. Counted(dir).page_count - 1
    BY <1>2, <1>4, <2>2 DEF Updated
  <2> QED  BY <2>1, <2>2
<1> HIDE DEF d
<1>7. Placed(d, p, NewPage, p + 1)
  BY <1>2, <1>3, <1>5, <1>6 DEF Placed
<1>8. CASE Returns(d, p, NewPage, len)
  BY <1>2, <1>7, <1>8, FreshPages, AcceptedKeeps DEF PageSound
<1>9. CASE Raises(d, p, NewPage, len)
  BY <1>2, <1>7, <1>9, RaisingKeeps
<1> QED  BY <1>1, <1>8, <1>9

LEMMA InsertDirectoryFullKeeps ==
  ASSUME HeapInv, CrashInv, NEW len \in Lengths, InsertDirectoryFull(len)
  PROVE  CrashInv'
<1>1. /\ Allocates(len) /\ dir' = Counted(dir) /\ leaked' = leaked \cup {0}
      /\ UNCHANGED <<pages, dirty, committed>>
  BY DEF InsertDirectoryFull
<1>2. /\ running /\ running' /\ ~spilled /\ ~spilled'
      /\ saved_dir' = saved_dir /\ saved_pages' = saved_pages
      /\ num_pages' = num_pages + 1 /\ num_pages \in Nat
  BY <1>1, AllocatedPage DEF saved
<1>3. /\ dir.page_count \in Nat /\ saved_dir.page_count \in Nat
      /\ dir'.page_count = dir.page_count + 1 /\ dir'.free_space = dir.free_space
  BY <1>1, CountsAndPages, DirectoryCounted DEF DirectoryType
<1>4. PagesInv /\ WrittenInv /\ CommittedInv
  BY <1>2 DEF CrashInv
<1>5. UnusedInv'
  <2> SUFFICES ASSUME NEW q \in PageIds, q >= num_pages'
               PROVE  /\ pages'[q] = ZeroPage /\ saved_pages'[q] = ZeroPage
                      /\ q \in 1 .. MaxEntries =>
                           dir'.free_space[q] = 0 /\ saved_dir'.free_space[q] = 0
    BY DEF UnusedInv, PageIds
  <2>1. q >= num_pages
    BY <1>2 DEF PageIds
  <2> QED  BY <1>1, <1>2, <1>3, <1>4, <2>1 DEF PagesInv, UnusedInv
<1>6. PagesInv'
  <2>1. saved_dir'.page_count <= dir'.page_count
    BY <1>2, <1>3, <1>4 DEF PagesInv
  <2>2. ASSUME NEW q \in PageIds PROVE Fits(dir', q, pages'[q])
    BY <1>1, <1>3, <1>4 DEF PagesInv, Fits
  <2>3. 0 \notin dirty' => \A q \in PageIds : Fits(saved_dir', q, pages'[q])
    BY <1>1, <1>2, <1>4 DEF PagesInv
  <2> QED  BY <1>5, <2>1, <2>2, <2>3 DEF PagesInv, PageIds
<1>7. WrittenInv'
  <2>1. \A q \in PageIds : q \in leaked' <=> q \in leaked
    BY <1>1, BoundAssumption DEF PageIds
  <2> QED  BY <1>1, <1>2, <1>4, <2>1 DEF WrittenInv, PageIds
<1>8. CommittedInv'
  BY <1>1, <1>2, <1>4 DEF CommittedInv, PageIds, Readable, Scan, Rows
<1> QED  BY <1>2, <1>6, <1>7, <1>8 DEF CrashInv, CrashKeepsCommitted
-----------------------------------------------------------------------------
(* Deleting a row that a scan found.                                       *)
LEMMA DeleteKeeps ==
  ASSUME HeapInv, CrashInv, NEW p \in PageIds, NEW s \in 1 .. MaxInserts,
         delete_tuple(<<p, s>>)
  PROVE  CrashInv'
<1> SUFFICES ASSUME ~spilled PROVE CrashInv'
  BY DEF CrashInv, CrashKeepsCommitted, delete_tuple, saved
<1>1. /\ running /\ running' = running
      /\ pages' = [pages EXCEPT ![p] = Deleted(pages[p], s)]
      /\ dirty' = dirty \cup {p}
      /\ committed' = {c \in committed : c[1] # <<p, s>>}
      /\ UNCHANGED <<dir, saved_dir, saved_pages, spilled, num_pages, leaked>>
  BY DEF delete_tuple, saved
<1>2. PICK row \in 0 .. inserts : <<<<p, s>>, row>> \in Visible
  BY DEF delete_tuple
<1>3. /\ p \in 1 .. dir.page_count - 1 /\ s \in PageScan(pages[p])
      /\ PagesInv /\ WrittenInv /\ CommittedInv /\ GoodPages(pages) /\ p # 0
  BY <1>1, <1>2, VisibleSlots, CountsAndPages DEF CrashInv, PageIds
<1>4. ~Barren(pages[p]) /\ GoodPage(pages[p]) /\ s \in 1 .. pages[p].num_slots
  BY <1>3, BarrenOrBearing DEF GoodPages, PageScan
<1>5. Bearing(pages[p])
  BY <1>3, <1>4 DEF PagesInv, Fits
<1>6. /\ pages'[p] = Deleted(pages[p], s)
      /\ \A q \in PageIds : q # p => pages'[q] = pages[q]
  BY <1>1, <1>3 DEF GoodPages
<1>7. /\ Bearing(pages'[p]) /\ pages'[p].free_space = pages[p].free_space
      /\ \A t \in PageScan(pages[p]) \ {s} : /\ t \in PageScan(pages'[p])
                                             /\ pages'[p].slots[t] = pages[p].slots[t]
  BY <1>4, <1>5, <1>6, DeletedBears
<1>8. p \notin leaked /\ p < num_pages
  <2>1. p < num_pages
    BY <1>3, NamedPage DEF PageIds
  <2> QED  BY <1>3, <1>4, <2>1 DEF WrittenInv
<1>9. PagesInv'
  <2>1. UnusedInv'
    <3>1. \A q \in PageIds : q >= num_pages => q # p
      BY <1>8, CountsAndPages DEF PageIds
    <3> QED  BY <1>1, <1>3, <1>6, <3>1 DEF PagesInv, UnusedInv, PageIds
  <2>2. ASSUME NEW d, NEW q \in PageIds, Fits(d, q, pages[q]) PROVE Fits(d, q, pages'[q])
    <3>1. CASE q = p
      BY <1>4, <1>7, <2>2, <3>1 DEF Fits
    <3>2. CASE q # p
      BY <1>6, <2>2, <3>2
    <3> QED  BY <3>1, <3>2
  <2>3. \A q \in PageIds : Fits(dir', q, pages'[q])
    BY <1>1, <1>3, <2>2 DEF PagesInv
  <2>4. 0 \notin dirty' => \A q \in PageIds : Fits(saved_dir', q, pages'[q])
    BY <1>1, <1>3, <2>2 DEF PagesInv
  <2> QED  BY <1>1, <1>3, <2>1, <2>3, <2>4 DEF PagesInv, PageIds
<1>10. WrittenInv'
  <2>1. 0 \notin dirty' \cup leaked' => saved_dir' = dir'
    BY <1>1, <1>3 DEF WrittenInv
  <2>2. ASSUME NEW q \in PageIds
        PROVE  /\ q \notin dirty' \cup leaked' => saved_pages'[q] = pages'[q]
               /\ q \in leaked' => Barren(pages'[q])
               /\ Barren(pages'[q]) => Barren(saved_pages'[q])
    <3>1. CASE q = p
      BY <1>1, <1>7, <1>8, <3>1, BarrenOrBearing
    <3>2. CASE q # p
      BY <1>1, <1>3, <1>6, <3>2 DEF WrittenInv
    <3> QED  BY <3>1, <3>2
  <2> QED  BY <2>1, <2>2 DEF WrittenInv, PageIds
<1>11. CommittedInv'
  <2>1. ASSUME NEW c \in committed' PROVE \E q \in PageIds : c \in Rows(pages', q)
    <3>1. c \in committed /\ c[1] # <<p, s>>
      BY <1>1
    <3>2. PICK q \in PageIds : c \in Rows(pages, q)
      BY <1>3, <3>1 DEF CommittedInv
    <3>3. PICK t \in PageScan(pages[q]) : c = <<<<q, t>>, pages[q].slots[t].row>>
      BY <3>2, RowIsAt
    <3>4. CASE q = p
      <4>1. t # s
        BY <3>1, <3>3, <3>4
      <4>2. t \in PageScan(pages'[q]) /\ pages'[q].slots[t] = pages[q].slots[t]
        BY <1>7, <3>3, <3>4, <4>1
      <4> QED  BY <3>3, <4>2, RowIsAt
    <3>5. CASE q # p
      BY <1>6, <3>2, <3>5, SamePage
    <3> QED  BY <3>4, <3>5
  <2>2. Readable(saved_dir') => committed' \subseteq Scan(saved_dir', saved_pages')
    BY <1>1, <1>3 DEF CommittedInv
  <2> QED  BY <2>1, <2>2 DEF CommittedInv, PageIds
<1> QED  BY <1>1, <1>9, <1>10, <1>11 DEF CrashInv, CrashKeepsCommitted

(* Deleting a row that only the garbage of a page shows.                   *)
LEMMA DeleteGarbageKeeps ==
  ASSUME HeapInv, CrashInv, NEW p \in PageIds, DeleteGarbage(p)
  PROVE  CrashInv'
<1>1. /\ running' = running /\ running /\ dirty' = dirty \cup {p} /\ p # 0
      /\ UNCHANGED <<dir, pages, saved_dir, saved_pages, spilled, num_pages, leaked,
                     committed>>
  BY DEF DeleteGarbage, saved, history, PageIds
<1>2. CASE spilled
  BY <1>1, <1>2 DEF CrashInv, CrashKeepsCommitted
<1>3. CASE ~spilled
  <2>1. PagesInv /\ WrittenInv /\ CommittedInv
    BY <1>1, <1>3 DEF CrashInv
  <2>2. PagesInv'
    BY <1>1, <2>1 DEF PagesInv, UnusedInv, PageIds
  <2>3. WrittenInv'
    BY <1>1, <2>1 DEF WrittenInv, PageIds
  <2>4. CommittedInv'
    BY <1>1, <2>1 DEF CommittedInv, PageIds
  <2> QED  BY <1>1, <2>2, <2>3, <2>4 DEF CrashInv, CrashKeepsCommitted
<1> QED  BY <1>2, <1>3
-----------------------------------------------------------------------------
(* Writing any of the pages of the pool back, none of them long: the file  *)
(* still has what was committed.                                           *)
LEMMA WrittenKeepsCommitted ==
  ASSUME HeapInv, CrashInv, running, ~spilled, NEW P, Written(P), LongIn(P) = {},
         Readable(saved_dir')
  PROVE  committed \subseteq Scan(saved_dir', saved_pages')
<1>1. PagesInv /\ CommittedInv
  BY DEF CrashInv
<1>2. /\ saved_dir' = dir \/ saved_dir' = saved_dir
      /\ \A p \in PageIds : saved_pages'[p] = pages[p] \/ saved_pages'[p] = saved_pages[p]
  BY WrittenFile, WrittenPages
<1>3. Readable(saved_dir) /\ 1 .. saved_dir.page_count - 1 \subseteq 1 .. saved_dir'.page_count - 1
  <2>1. /\ saved_dir.page_count \in Nat /\ dir.page_count \in Nat
        /\ saved_dir.page_count <= dir.page_count
    BY <1>1, CountsAndPages DEF PagesInv, DirectoryType
  <2> QED  BY <1>2, <2>1, ReadableBefore
<1> SUFFICES ASSUME NEW c \in committed PROVE c \in Scan(saved_dir', saved_pages')
  OBVIOUS
<1>4. PICK q \in PageIds : q \in 1 .. saved_dir.page_count - 1 /\ c \in Rows(saved_pages, q)
  BY <1>1, <1>3, ScanFinds DEF CommittedInv
<1>5. PICK p \in PageIds : c \in Rows(pages, p)
  BY <1>1 DEF CommittedInv
<1>6. p = q
  BY <1>4, <1>5, RowsOfOnePage
<1>7. c \in Rows(saved_pages', q)
  BY <1>2, <1>4, <1>5, <1>6, SamePage
<1> QED  BY <1>3, <1>4, <1>7, ScanFinds

(* Writing all that is dirty back: every page that bears rows is in the    *)
(* file, and the file's directory fits the pool's pages.                   *)
LEMMA AllWritten ==
  ASSUME HeapInv, CrashInv, running, ~spilled, Written(dirty), LongIn(dirty) = {}
  PROVE  /\ dirty' = {}
         /\ saved_pages' = Stored(dirty)
         /\ 0 \notin leaked => saved_dir' = dir
         /\ saved_dir'.page_count <= dir.page_count
         /\ \A q \in PageIds :
              \/ saved_pages'[q] = pages[q]
              \/ q \in leaked /\ Barren(pages[q]) /\ Barren(saved_pages'[q])
         /\ \A q \in PageIds : Fits(saved_dir', q, pages[q])
         /\ \A q \in PageIds : q >= num_pages =>
              /\ saved_pages'[q] = ZeroPage
              /\ q \in 1 .. MaxEntries => saved_dir'.free_space[q] = 0
<1>1. PagesInv /\ WrittenInv
  BY DEF CrashInv
<1>2. /\ dirty' = {} /\ saved_pages' = Stored(dirty)
      /\ 0 \in dirty => saved_dir' = dir
      /\ 0 \notin dirty => saved_dir' = saved_dir
      /\ \A p \in PageIds : /\ p \in dirty => saved_pages'[p] = pages[p]
                            /\ p \notin dirty => saved_pages'[p] = saved_pages[p]
  BY WrittenFile, WrittenPages
<1>3. 0 \notin leaked => saved_dir' = dir
  BY <1>1, <1>2 DEF WrittenInv
<1>4. saved_dir'.page_count <= dir.page_count
  <2>1. dir.page_count \in Nat
    BY CountsAndPages DEF DirectoryType
  <2> QED  BY <1>1, <1>2, <2>1 DEF PagesInv
<1>5. ASSUME NEW q \in PageIds
      PROVE  /\ \/ saved_pages'[q] = pages[q]
                \/ q \in leaked /\ Barren(pages[q]) /\ Barren(saved_pages'[q])
             /\ Fits(saved_dir', q, pages[q])
  <2>1. \/ saved_pages'[q] = pages[q]
        \/ q \in leaked /\ Barren(pages[q]) /\ Barren(saved_pages'[q])
    BY <1>1, <1>2 DEF WrittenInv
  <2>2. CASE 0 \in dirty
    BY <1>1, <1>2, <2>1, <2>2 DEF PagesInv
  <2>3. CASE 0 \notin dirty
    BY <1>1, <1>2, <2>1, <2>3 DEF PagesInv
  <2> QED  BY <2>2, <2>3
<1>6. ASSUME NEW q \in PageIds, q >= num_pages
      PROVE  /\ saved_pages'[q] = ZeroPage
             /\ q \in 1 .. MaxEntries => saved_dir'.free_space[q] = 0
  <2>1. /\ pages[q] = ZeroPage /\ saved_pages[q] = ZeroPage
        /\ q \in 1 .. MaxEntries => dir.free_space[q] = 0 /\ saved_dir.free_space[q] = 0
    BY <1>1, <1>6 DEF PagesInv, UnusedInv
  <2>2. saved_dir' = dir \/ saved_dir' = saved_dir
    BY <1>2
  <2>3. saved_pages'[q] = pages[q] \/ saved_pages'[q] = saved_pages[q]
    BY <1>2
  <2> QED  BY <2>1, <2>2, <2>3
<1> QED  BY <1>2, <1>3, <1>4, <1>5, <1>6

(* When a long page is written, nothing is left to show.                   *)
LEMMA SpilledKeeps ==
  ASSUME HeapInv, NEW P, Written(P), running', spilled \/ LongIn(P) # {}
  PROVE  CrashInv'
<1>1. spilled'
  BY WrittenFile
<1> QED  BY <1>1 DEF CrashInv, CrashKeepsCommitted

LEMMA EvictKeeps ==
  ASSUME HeapInv, CrashInv, NEW p \in 0 .. MaxPages - 1, Evict(p)
  PROVE  CrashInv'
<1> SUFFICES ASSUME ~spilled, LongIn({p}) = {} PROVE CrashInv'
  BY SpilledKeeps DEF Evict
<1>1. /\ running /\ running' = running /\ p \in dirty /\ p \notin leaked /\ Written({p})
      /\ UNCHANGED <<dir, pages, num_pages, leaked, committed>>
  BY DEF Evict, history
<1>2. /\ PagesInv /\ WrittenInv /\ CommittedInv
      /\ num_pages \in Nat /\ p \in 0 .. num_pages - 1 /\ dir.page_count \in Nat
  BY <1>1, CountsAndPages DEF CrashInv, DirectoryType
<1>3. /\ dirty' = dirty \ {p}
      /\ p = 0 => saved_dir' = dir
      /\ p # 0 => saved_dir' = saved_dir
      /\ \A q \in PageIds : /\ q = p => saved_pages'[q] = pages[q]
                            /\ q # p => saved_pages'[q] = saved_pages[q]
  BY <1>1, WrittenFile, WrittenPages
<1>4. PagesInv'
  <2>1. saved_dir'.page_count <= dir'.page_count
    BY <1>1, <1>2, <1>3 DEF PagesInv
  <2>2. UnusedInv'
    <3>1. saved_dir' = dir \/ saved_dir' = saved_dir
      BY <1>3
    <3>2. \A q \in PageIds : q >= num_pages => saved_pages'[q] = saved_pages[q]
      BY <1>2, <1>3 DEF PageIds
    <3> QED  BY <1>1, <1>2, <3>1, <3>2 DEF PagesInv, UnusedInv, PageIds
  <2>3. 0 \notin dirty' => \A q \in PageIds : Fits(saved_dir', q, pages'[q])
    BY <1>1, <1>2, <1>3 DEF PagesInv
  <2>4. \A q \in PageIds : Fits(dir', q, pages'[q])
    BY <1>1, <1>2 DEF PagesInv
  <2> QED  BY <2>1, <2>2, <2>3, <2>4 DEF PagesInv, PageIds
<1>5. WrittenInv'
  <2>1. 0 \notin dirty' \cup leaked' => saved_dir' = dir'
    BY <1>1, <1>2, <1>3 DEF WrittenInv
  <2>2. ASSUME NEW q \in PageIds
        PROVE  /\ q \notin dirty' \cup leaked' => saved_pages'[q] = pages'[q]
               /\ q \in leaked' => Barren(pages'[q])
               /\ Barren(pages'[q]) => Barren(saved_pages'[q])
    <3>1. CASE q = p
      BY <1>1, <1>3, <3>1
    <3>2. CASE q # p
      BY <1>1, <1>2, <1>3, <3>2 DEF WrittenInv
    <3> QED  BY <3>1, <3>2
  <2> QED  BY <2>1, <2>2 DEF WrittenInv, PageIds
<1>6. CommittedInv'
  <2>1. Readable(saved_dir') => committed \subseteq Scan(saved_dir', saved_pages')
    BY <1>1, WrittenKeepsCommitted
  <2> QED  BY <1>1, <1>2, <2>1 DEF CommittedInv, PageIds, Rows
<1> QED  BY <1>1, <1>4, <1>5, <1>6 DEF CrashInv, CrashKeepsCommitted

LEMMA FlushAllKeeps ==
  ASSUME HeapInv, CrashInv, flush_all
  PROVE  CrashInv'
<1> SUFFICES ASSUME ~spilled, LongIn(dirty) = {} PROVE CrashInv'
  BY SpilledKeeps DEF flush_all
<1>1. /\ running /\ running' = running /\ Written(dirty) /\ committed' = Promised
      /\ UNCHANGED <<dir, pages, num_pages, leaked>>
  BY DEF flush_all
<1>2. PagesInv /\ WrittenInv /\ CommittedInv
  BY <1>1 DEF CrashInv
<1>3. /\ dirty' = {}
      /\ 0 \notin leaked => saved_dir' = dir
      /\ \A q \in PageIds :
           \/ saved_pages'[q] = pages[q]
           \/ q \in leaked /\ Barren(pages[q]) /\ Barren(saved_pages'[q])
      /\ \A q \in PageIds : Fits(saved_dir', q, pages[q])
      /\ \A q \in PageIds : q >= num_pages =>
           /\ saved_pages'[q] = ZeroPage
           /\ q \in 1 .. MaxEntries => saved_dir'.free_space[q] = 0
  BY <1>1, AllWritten
<1>4. saved_dir'.page_count <= dir.page_count
  BY <1>1, AllWritten
<1>5. PagesInv'
  <2>1. UnusedInv'
    BY <1>1, <1>2, <1>3 DEF PagesInv, UnusedInv, PageIds
  <2> QED  BY <1>1, <1>2, <1>3, <1>4, <2>1 DEF PagesInv, PageIds
<1>6. WrittenInv'
  <2>1. \A q \in PageIds : q \in leaked => Barren(pages[q]) /\ Barren(saved_pages'[q])
    BY <1>2, <1>3 DEF WrittenInv
  <2> QED  BY <1>1, <1>3, <2>1 DEF WrittenInv, PageIds
<1>7. CommittedInv'
  <2>1. CASE leaked = {}
    <3>1. committed' = Scan(dir, pages) /\ saved_dir' = dir
      BY <1>1, <1>3, <2>1 DEF Promised, Visible
    <3>2. \A q \in PageIds : Rows(saved_pages', q) = Rows(pages, q)
      BY <1>3, <2>1, SamePage
    <3>3. ASSUME NEW c \in committed'
          PROVE  Readable(dir) /\ \E q \in PageIds : q \in 1 .. dir.page_count - 1
                                                     /\ c \in Rows(pages, q)
      <4>1. Readable(dir)
        BY <3>1 DEF Scan
      <4> QED  BY <3>1, <4>1, ScanFinds
    <3>4. \A c \in committed' : \E q \in PageIds : c \in Rows(pages', q)
      BY <1>1, <3>3
    <3>5. \A c \in committed' : c \in Scan(saved_dir', saved_pages')
      BY <3>1, <3>2, <3>3, ScanFinds
    <3> QED  BY <3>4, <3>5 DEF CommittedInv, PageIds
  <2>2. CASE leaked # {}
    <3>1. committed' = Scan(saved_dir', saved_pages')
      BY <1>1, <2>2, AllWritten DEF Promised
    <3>2. ASSUME NEW c \in committed' PROVE \E q \in PageIds : c \in Rows(pages', q)
      <4>1. Readable(saved_dir')
        BY <3>1 DEF Scan
      <4>2. PICK q \in PageIds : c \in Rows(saved_pages', q)
        BY <3>1, <4>1, ScanFinds
      <4>3. ~Barren(saved_pages'[q])
        BY <4>2, BarrenOrBearing DEF Rows
      <4>4. c \in Rows(pages, q)
        BY <1>3, <4>2, <4>3, SamePage
      <4> QED  BY <1>1, <4>4
    <3> QED  BY <3>1, <3>2 DEF CommittedInv, PageIds
  <2> QED  BY <2>1, <2>2
<1> QED  BY <1>1, <1>5, <1>6, <1>7 DEF CrashInv, CrashKeepsCommitted

LEMMA RestartKeeps ==
  ASSUME HeapInv, CrashInv, Restart
  PROVE  CrashInv'
<1> SUFFICES ASSUME ~spilled, LongIn(dirty) = {} PROVE CrashInv'
  BY SpilledKeeps DEF Restart
<1>1. /\ running /\ running' = running /\ Written(dirty)
      /\ dir' = saved_dir' /\ pages' = saved_pages' /\ leaked' = {}
      /\ UNCHANGED <<num_pages, committed>>
  BY DEF Restart, history
<1>2. PagesInv /\ WrittenInv /\ CommittedInv
  BY <1>1 DEF CrashInv
<1>3. /\ dirty' = {}
      /\ \A q \in PageIds :
           \/ saved_pages'[q] = pages[q]
           \/ q \in leaked /\ Barren(pages[q]) /\ Barren(saved_pages'[q])
      /\ \A q \in PageIds : Fits(saved_dir', q, pages[q])
      /\ \A q \in PageIds : q >= num_pages =>
           /\ saved_pages'[q] = ZeroPage
           /\ q \in 1 .. MaxEntries => saved_dir'.free_space[q] = 0
  BY <1>1, AllWritten
<1>4. saved_dir'.page_count \in Nat
  BY <1>1, WrittenFile DEF DirectoryType
<1>5. PagesInv'
  <2>1. UnusedInv'
    BY <1>1, <1>3 DEF UnusedInv, PageIds
  <2>2. \A q \in PageIds : Fits(saved_dir', q, saved_pages'[q])
    BY <1>3 DEF Fits
  <2>3. saved_dir'.page_count <= dir'.page_count
    BY <1>1, <1>4
  <2> QED  BY <1>1, <2>1, <2>2, <2>3 DEF PagesInv, PageIds
<1>6. WrittenInv'
  BY <1>1, <1>3 DEF WrittenInv, PageIds
<1>7. CommittedInv'
  <2>1. ASSUME NEW c \in committed PROVE \E q \in PageIds : c \in Rows(pages', q)
    <3>1. PICK q \in PageIds : c \in Rows(pages, q)
      BY <1>2 DEF CommittedInv
    <3>2. ~Barren(pages[q])
      BY <3>1, BarrenOrBearing DEF Rows
    <3> QED  BY <1>1, <1>3, <3>1, <3>2, SamePage
  <2>2. Readable(saved_dir') => committed \subseteq Scan(saved_dir', saved_pages')
    BY <1>1, WrittenKeepsCommitted
  <2> QED  BY <1>1, <2>1, <2>2 DEF CommittedInv, PageIds
<1> QED  BY <1>1, <1>5, <1>6, <1>7 DEF CrashInv, CrashKeepsCommitted

LEMMA CrashKeeps ==
  ASSUME CrashInv, Crash
  PROVE  CrashInv'
<1>1. /\ running /\ ~running' /\ dir' = saved_dir /\ pages' = saved_pages
      /\ committed' = committed /\ spilled' = spilled
  BY DEF Crash, saved, history
<1>2. ~spilled => CommittedInv
  BY <1>1 DEF CrashInv
<1>3. CrashKeepsCommitted'
  BY <1>1, <1>2 DEF CrashKeepsCommitted, CommittedInv, Visible, Scan, Rows, Readable, PageIds
<1> QED  BY <1>1, <1>3 DEF CrashInv
-----------------------------------------------------------------------------
LEMMA InitCrashInv == Init => CrashInv
<1> SUFFICES ASSUME Init PROVE CrashInv
  OBVIOUS
<1>1. /\ dir = NewDirectory /\ saved_dir = NewDirectory
      /\ pages = [p \in PageIds |-> ZeroPage] /\ saved_pages = pages
      /\ dirty = {} /\ leaked = {} /\ running /\ committed = {}
  BY DEF Init
<1>2. \A q \in 1 .. MaxEntries : NewDirectory.free_space[q] = 0
  BY DEF NewDirectory
<1>3. NewDirectory.page_count = 1
  BY DEF NewDirectory
<1>4. \A d, q : Fits(d, q, ZeroPage)
  BY ZeroBarren DEF Fits
<1>5. PagesInv
  BY <1>1, <1>2, <1>3, <1>4 DEF PagesInv, UnusedInv
<1>6. WrittenInv /\ CommittedInv
  BY <1>1 DEF WrittenInv, CommittedInv
<1> QED  BY <1>1, <1>5, <1>6 DEF CrashInv, CrashKeepsCommitted

LEMMA StepCrashInv == HeapInv /\ CrashInv /\ [Next]_vars => CrashInv'
<1> SUFFICES ASSUME HeapInv, CrashInv, [Next]_vars PROVE CrashInv'
  OBVIOUS
<1>1. ASSUME NEW len \in Lengths, InsertInPage(len) PROVE CrashInv'
  BY <1>1, InsertInPageKeeps
<1>2. ASSUME NEW len \in Lengths, InsertInNewPage(len) PROVE CrashInv'
  BY <1>2, InsertInNewPageKeeps
<1>3. ASSUME NEW len \in Lengths, InsertDirectoryFull(len) PROVE CrashInv'
  BY <1>3, InsertDirectoryFullKeeps
<1>4. ASSUME NEW p \in PageIds, NEW s \in 1 .. MaxInserts, delete_tuple(<<p, s>>)
      PROVE  CrashInv'
  BY <1>4, DeleteKeeps
<1>5. ASSUME NEW p \in 0 .. MaxPages - 1, Evict(p) PROVE CrashInv'
  BY <1>5, EvictKeeps
<1>6. CASE flush_all
  BY <1>6, FlushAllKeeps
<1>7. CASE Restart
  BY <1>7, RestartKeeps
<1>8. CASE Crash
  BY <1>8, CrashKeeps
<1>9. CASE UNCHANGED vars
  BY <1>9 DEF vars, file, saved, history, CrashInv, PagesInv, UnusedInv, WrittenInv,
     CommittedInv, CrashKeepsCommitted, Visible, Scan, Rows, Readable, PageIds
<1>10. ASSUME NEW len \in Lengths, InsertInLongPage(len) PROVE CrashInv'
  BY <1>10, InsertInLongPageKeeps
<1>11. ASSUME NEW p \in PageIds, DeleteGarbage(p) PROVE CrashInv'
  BY <1>11, DeleteGarbageKeeps
<1> QED  BY <1>1, <1>2, <1>3, <1>4, <1>5, <1>6, <1>7, <1>8, <1>9, <1>10, <1>11 DEF Next

(* What the last flush of a heap file promised and nobody deleted is there *)
(* after a crash at any point, whatever was evicted and whichever inserts  *)
(* raised in between (heap_file.py, buffer_pool.py: flush_all, evict).     *)
THEOREM CommittedSurvives == Spec => []CrashKeepsCommitted
<1>1. Init => HeapInv /\ CrashInv
  BY InitHeapInv, InitCrashInv
<1>2. (HeapInv /\ CrashInv) /\ [Next]_vars => (HeapInv /\ CrashInv)'
  BY StepHeapInv, StepCrashInv
<1>3. HeapInv /\ CrashInv => CrashKeepsCommitted
  BY DEF CrashInv
<1> QED  BY <1>1, <1>2, <1>3, PTL DEF Spec
=============================================================================
