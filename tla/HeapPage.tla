------------------------------ MODULE HeapPage ------------------------------
(***************************************************************************)
(* The two page formats of a heap file as operators on values: slotted     *)
(* pages (storage/page.py) and the directory page                          *)
(* (storage/directory_page.py).  A tuple's bytes are reduced to the row    *)
(* they encode and their length; offsets and free space are kept.          *)
(***************************************************************************)
EXTENDS Integers, Sequences

CONSTANTS
  PAGE_SIZE,    \* bytes of a page, 4096 in the code
  HEADER_SIZE,  \* bytes of a page header: 3 fields of 2 bytes
  SLOT_SIZE,    \* bytes of a slot: offset, length, is_valid
  Lengths,      \* tuple lengths that callers insert; nothing limits them
  Spaces        \* what the free_space field of a long page (below) can show

(* 22 and 4096 agree modulo 6, the size of a directory entry: in both, the *)
(* first entry that does not fit still has its page_id inside the page.    *)
ASSUME PageAssumption ==
  /\ PAGE_SIZE \in Nat /\ PAGE_SIZE % 6 = 4 /\ PAGE_SIZE > 22 - 6
  /\ HEADER_SIZE \in 1 .. PAGE_SIZE
  /\ SLOT_SIZE \in Nat \ {0}
  /\ Lengths \subseteq Nat \ {0}
  /\ Spaces \subseteq Nat

(* insert_tuple of a heap file asks a page for len + HEADER_SIZE bytes; what *)
(* it uses is len + SLOT_SIZE.                                              *)
ASSUME SlotAssumption == SLOT_SIZE <= HEADER_SIZE

(* The raw page is zero until the first Page(..., new_page=True).          *)
ZeroPage == [num_slots |-> 0, free_space_pointer |-> 0, free_space |-> 0,
             slots |-> <<>>, intact |-> TRUE, long |-> FALSE]
NewPage == [ZeroPage EXCEPT !.free_space_pointer = PAGE_SIZE,
                            !.free_space = PAGE_SIZE - HEADER_SIZE]

(* A page whose bytes are no longer what was stored in it.                 *)
Garbage == [ZeroPage EXCEPT !.intact = FALSE]

SlotEnd(n) == HEADER_SIZE + n * SLOT_SIZE
Offset(pg, len) == pg.free_space_pointer - len

(* insert_tuple raises struct.error when it packs a negative number, or    *)
(* past the end of the page: first at the slot, last at free_space.        *)
SlotPacks(pg, len) == Offset(pg, len) >= 0 /\ SlotEnd(pg.num_slots + 1) <= PAGE_SIZE
SpacePacks(pg, len) == pg.free_space >= len + SLOT_SIZE

(* A slot array that grows into tuple data, or the reverse, leaves bytes   *)
(* that no longer are what was stored.                                     *)
Overlap(pg, len) == Offset(pg, len) < SlotEnd(pg.num_slots + 1)

Slot(pg, row, len) == [offset |-> Offset(pg, len), length |-> len,
                       is_valid |-> TRUE, row |-> row]

(* The page when insert_tuple returns, and when it raises: a pack_into     *)
(* that fails leaves zeros in its field.                                   *)
Inserted_NoSlotCost(pg, row, len) ==
  [num_slots |-> pg.num_slots + 1,
   free_space_pointer |-> Offset(pg, len),
   free_space |-> pg.free_space - len,
   slots |-> Append(pg.slots, Slot(pg, row, len)),
   intact |-> pg.intact /\ ~Overlap(pg, len), long |-> pg.long]
Inserted(pg, row, len) ==
  [num_slots |-> pg.num_slots + 1,
   free_space_pointer |-> Offset(pg, len),
   free_space |-> pg.free_space - (len + SLOT_SIZE),
   slots |-> Append(pg.slots, Slot(pg, row, len)),
   intact |-> pg.intact /\ ~Overlap(pg, len), long |-> pg.long]

(* A tuple that starts before the page, at a negative index, is a slice    *)
(* shorter than its bytes: the assignment makes the frame longer than a    *)
(* page, before the slot fails to pack.                                    *)
Torn(pg, row, len) ==
  IF SlotPacks(pg, len)
  THEN [Inserted(pg, row, len) EXCEPT !.free_space = 0]
  ELSE [pg EXCEPT !.intact = FALSE, !.long = Offset(pg, len) < 0]

(* delete_tuple clears is_valid and keeps the slot; page.scan skips it.    *)
Deleted_DropSlot(pg, slot) ==
  [pg EXCEPT !.num_slots = @ - 1,
             !.slots = SubSeq(@, 1, slot - 1) \o SubSeq(@, slot + 1, Len(@))]
Deleted_KeepCount(pg, slot) ==
  [pg EXCEPT !.slots = SubSeq(@, 1, slot - 1) \o SubSeq(@, slot + 1, Len(@))]
Deleted(pg, slot) == [pg EXCEPT !.slots[slot].is_valid = FALSE]

(* What a page whose slots and data overlap yields is garbage: not counted. *)
PageScan(pg) ==
  IF pg.intact THEN {s \in 1 .. pg.num_slots : pg.slots[s].is_valid} ELSE {}
-----------------------------------------------------------------------------
(* The directory: page_count, then an entry of 6 bytes for every page      *)
(* except page 0, of which only free_space is ever used again.             *)
EntryEnd(i, bytes) == 6 * i - 4 + bytes
MaxEntries == (PAGE_SIZE - 2) \div 6

NewDirectory == [page_count |-> 1, free_space |-> [i \in 1 .. MaxEntries |-> 0]]

(* deserialize reads page_id and free_space of every entry.                *)
Readable(d) == \A i \in 1 .. d.page_count - 1 : EntryEnd(i, 4) <= PAGE_SIZE

(* update_directory ignores a page that is not counted.                    *)
Updated_SkipsLast(d, page_id, space) ==
  IF page_id \in 1 .. d.page_count - 2
  THEN [d EXCEPT !.free_space[page_id] = space] ELSE d
Updated(d, page_id, space) ==
  IF page_id \in 1 .. d.page_count - 1
  THEN [d EXCEPT !.free_space[page_id] = space] ELSE d

(* increase_page_count raises when the new page's entry does not fit, with *)
(* the count already written.                                              *)
Counted(d) == [d EXCEPT !.page_count = @ + 1]
EntryFits(d, page_id) == page_id < d.page_count + 1 => page_id <= MaxEntries

(* find_page_with_enough_space: the first page that has the space.         *)
Candidates(d, space) == {i \in 1 .. d.page_count - 1 : d.free_space[i] >= space}
FirstFit(d, space) ==
  {i \in Candidates(d, space) : \A j \in Candidates(d, space) : i <= j}
=============================================================================
