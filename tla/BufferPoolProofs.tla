-------------------------- MODULE BufferPoolProofs --------------------------
(***************************************************************************)
(* Proofs about BufferPool for any number of frames, files, pages and      *)
(* callers.  PoolConsistent is inductive; the other invariants, the        *)
(* durability of a flush and the refinement of PageStore follow from it.   *)
(***************************************************************************)
EXTENDS BufferPool, FiniteSetTheorems, SequenceTheorems, TLAPS

(* One more caller on a frame, or one less, changes the count by one.      *)
LEMMA OnePinMore ==
  ASSUME NEW S \in SUBSET Handles, NEW h \in Handles \ S
  PROVE  Cardinality(S \cup {h}) = Cardinality(S) + 1
<1>1. IsFiniteSet(S)
  BY PoolAssumption, FS_Subset
<1> QED  BY <1>1, FS_AddElement

LEMMA OnePinLess ==
  ASSUME NEW S \in SUBSET Handles, NEW h \in S
  PROVE  /\ Cardinality(S \ {h}) = Cardinality(S) - 1
         /\ Cardinality(S) = 1 <=> S \ {h} = {}
<1>1. IsFiniteSet(S) /\ IsFiniteSet(S \ {h})
  BY PoolAssumption, FS_Subset
<1>2. Cardinality(S \ {h}) = Cardinality(S) - 1
  BY <1>1, FS_RemoveElement
<1>3. Cardinality(S) \in Nat
  BY <1>1, FS_CardinalityType
<1> QED  BY <1>1, <1>2, <1>3, FS_EmptySet

LEMMA PinCount ==
  ASSUME NEW S \in SUBSET Handles
  PROVE  Cardinality(S) \in Nat /\ (Cardinality(S) = 0 <=> S = {})
<1>1. IsFiniteSet(S)
  BY PoolAssumption, FS_Subset
<1> QED  BY <1>1, FS_CardinalityType, FS_EmptySet

(* A history with one more access is a history, and not empty.             *)
LEMMA RememberType ==
  ASSUME NEW q \in Seq(Nat), NEW t \in Nat
  PROVE  Remember(q, t) \in Seq(Nat) /\ Remember(q, t) # <<>>
<1>1. \A s \in Seq(Nat) : Append(s, t) \in Seq(Nat) /\ Append(s, t) # <<>>
  BY AppendProperties, SMTT(30)
<1>2. ASSUME ~(Len(q) < K)  PROVE Tail(q) \in Seq(Nat)
  <2>1. Len(q) \in Nat /\ (q = <<>> => Len(q) = 0)
    BY EmptySeq, LenProperties
  <2>2. q # <<>>
    BY <1>2, <2>1, KAssumption
  <2> QED  BY <2>2, HeadTailProperties
<1> QED  BY <1>1, <1>2 DEF Remember
-----------------------------------------------------------------------------
LEMMA InitPoolConsistent == Init => PoolConsistent
<1> SUFFICES ASSUME Init PROVE PoolConsistent
  OBVIOUS
<1> USE PoolAssumption DEF Init, Always
<1>1. \A x, y : <<x, y>> \in Pages => y >= 0
  BY DEF Pages
<1>2. TypeOK
  BY EmptySeq DEF TypeOK, Blank, Content
<1>3. \A f \in Frames : Pinners(f) = {}
  BY DEF Pinners
<1>4. Mapped = {}
  BY DEF Mapped
<1>5. TablesAgree
  BY <1>4 DEF TablesAgree
<1>6. PinsCounted
  BY <1>3, <1>4, FS_EmptySet DEF PinsCounted
<1>7. HandlesReadTheirPage
  BY DEF HandlesReadTheirPage
<1>8. CleanIsOnDisk
  BY <1>4 DEF CleanIsOnDisk
<1>9. BytesInPlace
  BY <1>4 DEF BytesInPlace, Blank
<1> QED  BY <1>2, <1>5, <1>6, <1>7, <1>8, <1>9 DEF PoolConsistent

(* What accessing a frame does to the replacer, in terms of types.         *)
LEMMA AccessedType ==
  ASSUME TypeOK, NEW f \in Frames, NEW past \in [Frames -> Seq(Nat)],
         Accessed(f, past)
  PROVE  /\ history' \in [Frames -> Seq(Nat)]
         /\ history'[f] # <<>>
         /\ \A g \in Frames \ {f} : history'[g] = past[g]
         /\ evictable' = evictable \ {f}
         /\ current_time' \in Nat
<1>1. current_time \in Nat /\ past[f] \in Seq(Nat)
  BY DEF TypeOK
<1>2. Remember(past[f], current_time) \in Seq(Nat) /\ Remember(past[f], current_time) # <<>>
  BY <1>1, RememberType
<1> QED  BY <1>1, <1>2 DEF Accessed

(* A further caller of a cached page: every part of the invariant.         *)
LEMMA HitStep ==
  ASSUME PoolConsistent, NEW h \in Handles, NEW p \in Pages, FetchHit(h, p)
  PROVE  PoolConsistent'
<1> DEFINE f == page_table[p]
<1> USE DEF PoolConsistent
<1>0. /\ f \in Frames /\ frame_table[f] = p /\ f \in Mapped
      /\ mode[h] = "closed" /\ ref[h] = NoFrame /\ h \notin wrote
  BY PoolAssumption
  DEF FetchHit, CanFetch, TypeOK, TablesAgree, HandlesReadTheirPage, Mapped, CleanIsOnDisk
<1>1. /\ history' \in [Frames -> Seq(Nat)] /\ history'[f] # <<>>
      /\ \A g \in Frames \ {f} : history'[g] = history[g]
      /\ evictable' = evictable \ {f} /\ current_time' \in Nat
  <2>1. history \in [Frames -> Seq(Nat)] /\ Accessed(f, history)
    BY DEF FetchHit, TypeOK
  <2> QED  BY <1>0, <2>1, AccessedType
<1>2. /\ hpage' = [hpage EXCEPT ![h] = p]
      /\ mode' = [mode EXCEPT ![h] = "pinned"]
      /\ ref' = [g \in Handles |-> IF g = h THEN f ELSE ref[g]]
      /\ copy' = [g \in Handles |-> copy[g]]
      /\ wrote' = wrote
      /\ UNCHANGED <<frames, page_table, frame_table, free_frames, dirty, disk, num_pages>>
      /\ pin_count' = [pin_count EXCEPT ![f] = @ + 1]
  BY DEF FetchHit, Hold, storage
<1>3. TypeOK'
  BY <1>0, <1>1, <1>2 DEF TypeOK
<1>4. Mapped' = Mapped
  BY <1>2 DEF Mapped
<1>5. \A g \in Frames : Pinners(g)' = IF g = f THEN Pinners(g) \cup {h} ELSE Pinners(g)
  BY <1>0, <1>2 DEF Pinners, TypeOK
<1>6. TablesAgree'
  BY <1>2, <1>4 DEF TablesAgree
<1>7. PinsCounted'
  <2>1. h \in Handles \ Pinners(f) /\ Pinners(f) \in SUBSET Handles
    BY <1>0 DEF Pinners
  <2>2. Cardinality(Pinners(f) \cup {h}) = Cardinality(Pinners(f)) + 1
    BY <2>1, OnePinMore
  <2>3. \A g \in Frames : pin_count'[g] = Cardinality(Pinners(g)')
    BY <1>0, <1>2, <1>5, <2>2 DEF PinsCounted, TypeOK
  <2>4. evictable' = {g \in Mapped' : Pinners(g)' = {}}
    BY <1>0, <1>1, <1>4, <1>5 DEF PinsCounted, Mapped
  <2>5. \A g \in Mapped' : history'[g] # <<>>
    BY <1>1, <1>4 DEF PinsCounted, Mapped
  <2> QED  BY <2>3, <2>4, <2>5 DEF PinsCounted
<1>8. HandlesReadTheirPage'
  BY <1>0, <1>2, PoolAssumption DEF HandlesReadTheirPage, Bytes, BytesInPlace, TypeOK
<1>9. CleanIsOnDisk'
  BY <1>0, <1>2, <1>4, <1>5, SMTT(30) DEF CleanIsOnDisk, Mapped, TypeOK
<1>10. BytesInPlace'
  BY <1>2, <1>4 DEF BytesInPlace
<1> QED  BY <1>3, <1>6, <1>7, <1>8, <1>9, <1>10

(* Frame f, which nobody has pinned, takes page p: common to a free frame  *)
(* and to an evicted one, whose dirty bytes are on disk by then.           *)
LEMMA LoadStep ==
  ASSUME PoolConsistent, NEW h \in Handles, NEW p \in Pages, NEW f \in Frames,
         NEW past \in [Frames -> Seq(Nat)],
         CanFetch(h, p), page_table[p] = NoFrame, Pinners(f) = {},
         \A g \in Frames \ {f} : past[g] = history[g],
         disk' = IF dirty[f] THEN Written({frame_table[f]}) ELSE disk,
         free_frames' = free_frames \ {f},
         Load(h, p, f, past)
  PROVE  PoolConsistent'
<1> USE DEF PoolConsistent
<1>0. /\ mode[h] = "closed" /\ ref[h] = NoFrame /\ h \notin wrote
      /\ \A g \in Frames : frame_table[g] # p
      /\ frame_table[f] # NoPage => page_table[frame_table[f]] = f
      /\ p[2] < num_pages[p[1]]
  BY PoolAssumption
  DEF CanFetch, TypeOK, TablesAgree, HandlesReadTheirPage, CleanIsOnDisk
<1>1. /\ history' \in [Frames -> Seq(Nat)] /\ history'[f] # <<>>
      /\ \A g \in Frames \ {f} : history'[g] = history[g]
      /\ evictable' = evictable \ {f} /\ current_time' \in Nat
  <2>1. Accessed(f, past)
    BY DEF Load
  <2> QED  BY <2>1, AccessedType
<1>2. /\ hpage' = [hpage EXCEPT ![h] = p]
      /\ mode' = [mode EXCEPT ![h] = "pinned"]
      /\ ref' = [g \in Handles |-> IF g = h THEN f ELSE IF ref[g] = f THEN NoFrame ELSE ref[g]]
      /\ copy' = [g \in Handles |-> IF ref[g] = f THEN frames[f] ELSE copy[g]]
      /\ wrote' = wrote /\ num_pages' = num_pages
      /\ frame_table' = [frame_table EXCEPT ![f] = p]
      /\ page_table' = [[q \in Pages |-> IF q = frame_table[f] THEN NoFrame ELSE page_table[q]]
                          EXCEPT ![p] = f]
      /\ frames' = [frames EXCEPT ![f] = disk'[p]]
      /\ pin_count' = [pin_count EXCEPT ![f] = 1]
      /\ dirty' = [dirty EXCEPT ![f] = FALSE]
  BY DEF Load, Hold, Detached, Unmapped
<1>3. \A q \in Pages : disk'[q] = IF dirty[f] /\ q = frame_table[f] THEN frames[f] ELSE disk[q]
  BY <1>0, PoolAssumption DEF Written
<1>4. /\ disk' \in [Pages -> Content]
      /\ \A q \in Pages : disk'[q].page = q
      /\ disk'[p] = disk[p]
  <2>1. dirty[f] => f \in Mapped /\ frames[f].page = frame_table[f] /\ frame_table[f] \in Pages
    BY DEF CleanIsOnDisk, BytesInPlace, Mapped, TypeOK
  <2>2. dirty[f] => frames[f] \in Content
    BY <2>1, PoolAssumption DEF TypeOK, NoCopy
  <2>3. \A q \in Pages : disk'[q] \in Content /\ disk'[q].page = q
    BY <1>3, <2>1, <2>2, ZenonT(30) DEF TypeOK, BytesInPlace
  <2>4. disk' = [q \in Pages |-> disk'[q]]
    BY DEF Written, TypeOK
  <2> QED  BY <1>0, <1>3, <2>3, <2>4
<1>5. TypeOK'
  <2>1. frames' \in [Frames -> Content \cup {NoCopy}]
    BY <1>2, <1>4 DEF TypeOK
  <2>2. copy' \in [Handles -> Content \cup {NoCopy}]
    BY <1>2 DEF TypeOK
  <2>3. page_table' \in [Pages -> Frames \cup {NoFrame}]
    BY <1>2 DEF TypeOK
  <2>4. ref' \in [Handles -> Frames \cup {NoFrame}] /\ hpage' \in [Handles -> Pages \cup {NoPage}]
        /\ mode' \in [Handles -> {"closed", "pinned", "released"}] /\ wrote' \subseteq Handles
    BY <1>2 DEF TypeOK
  <2>5. /\ frame_table' \in [Frames -> Pages \cup {NoPage}]
        /\ free_frames' \subseteq Frames /\ pin_count' \in [Frames -> Nat]
        /\ dirty' \in [Frames -> BOOLEAN] /\ num_pages' \in [Files -> 0 .. MaxPages]
    BY <1>2 DEF TypeOK
  <2>6. evictable' \subseteq Frames
    BY <1>1 DEF TypeOK
  <2> QED  BY <1>1, <1>4, <2>1, <2>2, <2>3, <2>4, <2>5, <2>6 DEF TypeOK
<1>6. Mapped' = Mapped \cup {f}
  BY <1>2, PoolAssumption DEF Mapped, TypeOK
<1>7. \A g \in Frames : Pinners(g)' = IF g = f THEN {h} ELSE Pinners(g)
  BY <1>0, <1>2, PoolAssumption DEF Pinners, TypeOK
<1>8. TablesAgree'
  <2>1. \A q \in Pages, g \in Frames : page_table'[q] = g <=> frame_table'[g] = q
    BY <1>0, <1>2, PoolAssumption DEF TablesAgree, TypeOK
  <2>2. free_frames' = Frames \ Mapped'
    BY <1>6 DEF TablesAgree
  <2> QED  BY <2>1, <2>2 DEF TablesAgree
<1>9. PinsCounted'
  <2>1. Cardinality({h}) = 1
    BY FS_Singleton
  <2>2. \A g \in Frames : pin_count'[g] = Cardinality(Pinners(g)')
    BY <1>2, <1>7, <2>1 DEF PinsCounted, TypeOK
  <2>3. evictable' = {g \in Mapped' : Pinners(g)' = {}}
    BY <1>1, <1>6, <1>7 DEF PinsCounted, Mapped
  <2>4. \A g \in Mapped' : history'[g] # <<>>
    BY <1>1, <1>6 DEF PinsCounted, Mapped
  <2> QED  BY <2>2, <2>3, <2>4 DEF PinsCounted
<1>10. HandlesReadTheirPage'
  <2> SUFFICES ASSUME NEW g \in Handles
      PROVE /\ mode'[g] # "closed" => hpage'[g] \in Pages /\ Bytes(g)'.page = hpage'[g]
            /\ mode'[g] = "pinned" => ref'[g] # NoFrame
            /\ mode'[g] = "closed" => ref'[g] = NoFrame
            /\ ref'[g] # NoFrame => frame_table'[ref'[g]] = hpage'[g]
    BY DEF HandlesReadTheirPage
  <2>1. CASE g = h
    BY <1>2, <1>4, <2>1, PoolAssumption DEF Bytes, TypeOK
  <2>2. CASE g # h /\ ref[g] = f
    <3>1. mode[g] # "pinned"
      BY <2>2 DEF Pinners
    <3> QED  BY <1>2, <2>2, <3>1, PoolAssumption DEF HandlesReadTheirPage, Bytes, TypeOK
  <2>3. CASE g # h /\ ref[g] # f
    BY <1>2, <2>3, PoolAssumption DEF HandlesReadTheirPage, Bytes, TypeOK
  <2> QED  BY <2>1, <2>2, <2>3
<1>11. CleanIsOnDisk'
  <2>1. wrote' \subseteq {g \in Handles : mode'[g] = "pinned"}
    BY <1>0, <1>2 DEF CleanIsOnDisk, TypeOK
  <2>2. \A g \in Frames : dirty'[g] => g \in Mapped'
    BY <1>2, <1>6 DEF CleanIsOnDisk, TypeOK
  <2>3. ASSUME NEW g \in Mapped', ~dirty'[g], Pinners(g)' \cap wrote' = {}
        PROVE  frames'[g] = disk'[frame_table'[g]]
    <3>1. CASE g = f
      BY <1>2, <3>1 DEF TypeOK
    <3>2. CASE g # f
      <4>1. g \in Mapped /\ ~dirty[g] /\ Pinners(g) \cap wrote = {}
        BY <1>2, <1>6, <1>7, <2>3, <3>2 DEF TypeOK, Mapped
      <4>2. frames[g] = disk[frame_table[g]] /\ frame_table[g] \in Pages
        BY <4>1 DEF CleanIsOnDisk, Mapped, TypeOK
      <4>3. frame_table[g] # frame_table[f]
        BY <1>0, <3>2, <4>1, <4>2 DEF TablesAgree, Mapped
      <4> QED  BY <1>2, <1>3, <3>2, <4>1, <4>2, <4>3 DEF Mapped, TypeOK
    <3> QED  BY <3>1, <3>2
  <2> QED  BY <2>1, <2>2, <2>3 DEF CleanIsOnDisk
<1>12. BytesInPlace'
  <2>1. \A g \in Mapped' : frames'[g].page = frame_table'[g]
    BY <1>2, <1>4, <1>6 DEF BytesInPlace, Mapped, TypeOK
  <2>2. ASSUME NEW q \in Pages, q[2] >= num_pages'[q[1]]
        PROVE  disk'[q] = Blank[q] /\ page_table'[q] = NoFrame
    <3>1. disk[q] = Blank[q] /\ page_table[q] = NoFrame
      BY <1>2, <2>2 DEF BytesInPlace
    <3>2. q # p
      <4>1. num_pages[p[1]] \in Nat /\ p[2] \in Nat
        BY PoolAssumption DEF TypeOK, Pages
      <4> QED  BY <1>0, <1>2, <2>2, <4>1
    <3>3. q # frame_table[f]
      BY <1>0, <3>1, PoolAssumption DEF TypeOK
    <3> QED  BY <1>2, <1>3, <3>1, <3>2, <3>3 DEF TypeOK
  <2> QED  BY <1>4, <2>1, <2>2 DEF BytesInPlace
<1> QED  BY <1>5, <1>8, <1>9, <1>10, <1>11, <1>12

LEMMA FetchStep ==
  ASSUME PoolConsistent, NEW h \in Handles, NEW p \in Pages,
         FetchFree(h, p) \/ FetchEvict(h, p)
  PROVE  PoolConsistent'
<1>1. CASE FetchFree(h, p)
  <2>1. PICK f \in free_frames : /\ free_frames' = free_frames \ {f}
                                 /\ disk' = disk
                                 /\ Load(h, p, f, history)
    BY <1>1 DEF FetchFree
  <2>2. f \in Frames /\ f \notin Mapped
    BY <2>1 DEF PoolConsistent, TablesAgree
  <2>3. frame_table[f] = NoPage /\ ~dirty[f]
    BY <2>2 DEF PoolConsistent, CleanIsOnDisk, Mapped
  <2>4. Pinners(f) = {}
    BY <2>2, <2>3, PoolAssumption DEF PoolConsistent, HandlesReadTheirPage, Pinners
  <2>5. /\ history \in [Frames -> Seq(Nat)]
        /\ disk' = IF dirty[f] THEN Written({frame_table[f]}) ELSE disk
    BY <2>1, <2>3 DEF PoolConsistent, TypeOK
  <2> QED  BY <1>1, <2>1, <2>2, <2>4, <2>5, LoadStep DEF FetchFree
<1>2. CASE FetchEvict(h, p)
  <2>1. PICK f \in Victims(history, evictable) :
           /\ disk' = IF dirty[f] THEN Written({frame_table[f]}) ELSE disk
           /\ Load(h, p, f, [history EXCEPT ![f] = <<>>])
    BY <1>2 DEF FetchEvict
  <2>2. f \in evictable
    BY <2>1 DEF Victims, Contenders
  <2>3. f \in Frames /\ Pinners(f) = {}
    BY <2>2 DEF PoolConsistent, PinsCounted, Mapped
  <2>4. /\ [history EXCEPT ![f] = <<>>] \in [Frames -> Seq(Nat)]
        /\ \A g \in Frames \ {f} : [history EXCEPT ![f] = <<>>][g] = history[g]
    BY EmptySeq DEF PoolConsistent, TypeOK
  <2>5. free_frames' = free_frames \ {f}
    BY <1>2 DEF FetchEvict
  <2> QED  BY <1>2, <2>1, <2>3, <2>4, <2>5, LoadStep DEF FetchEvict
<1> QED  BY <1>1, <1>2

LEMMA ModifyStep ==
  ASSUME PoolConsistent, NEW h \in Handles, NEW v \in Versions, Modify(h, v)
  PROVE  PoolConsistent'
<1> DEFINE f == ref[h]
<1> USE DEF PoolConsistent
<1>0. /\ mode[h] = "pinned" /\ f \in Frames /\ hpage[h] \in Pages
      /\ frame_table[f] = hpage[h] /\ f \in Mapped /\ h \in Pinners(f)
  BY PoolAssumption DEF Modify, HandlesReadTheirPage, TypeOK, Mapped, Pinners
<1>1. /\ frames' = [frames EXCEPT ![f] = [page |-> hpage[h], version |-> v]]
      /\ wrote' = wrote \cup {h}
      /\ UNCHANGED <<page_table, frame_table, free_frames, pin_count, dirty,
                     history, evictable, current_time, disk, num_pages,
                     hpage, mode, ref, copy>>
  BY DEF Modify, replacer, storage
<1>2. /\ Mapped' = Mapped
      /\ \A g \in Frames : Pinners(g)' = Pinners(g)
  BY <1>1 DEF Mapped, Pinners
<1>3. TypeOK'
  BY <1>0, <1>1 DEF TypeOK, Content
<1>4. TablesAgree'
  BY <1>1, <1>2 DEF TablesAgree
<1>5. PinsCounted'
  BY <1>1, <1>2 DEF PinsCounted, Mapped
<1>6. HandlesReadTheirPage'
  BY <1>0, <1>1, PoolAssumption DEF HandlesReadTheirPage, Bytes, TypeOK
<1>7. CleanIsOnDisk'
  BY <1>0, <1>1, <1>2 DEF CleanIsOnDisk, Mapped, TypeOK
<1>8. BytesInPlace'
  BY <1>0, <1>1, <1>2 DEF BytesInPlace, Mapped, TypeOK
<1> QED  BY <1>3, <1>4, <1>5, <1>6, <1>7, <1>8

(* One pin less: common to unpin_page and to create_directory's flush.  D  *)
(* says which bytes of the page are on disk and whether the frame is clean.*)
LEMMA ReleaseStep ==
  ASSUME PoolConsistent, NEW h \in Handles, NEW f \in Frames,
         mode[h] = "pinned", f = page_table[hpage[h]], Released(f),
         \/ disk' = disk /\ dirty' = Marked(f, h \in wrote)
         \/ disk' = Written({hpage[h]}) /\ dirty' = [dirty EXCEPT ![f] = FALSE],
         mode' = [mode EXCEPT ![h] = "released"],
         wrote' = wrote \ {h},
         UNCHANGED <<frames, page_table, frame_table, free_frames, history,
                     current_time, num_pages, hpage, ref, copy>>
  PROVE  PoolConsistent'
<1> USE DEF PoolConsistent
<1>0. /\ hpage[h] \in Pages /\ frame_table[f] = hpage[h] /\ f \in Mapped
      /\ ref[h] = f /\ h \in Pinners(f)
  <2>1. hpage[h] \in Pages /\ ref[h] \in Frames /\ frame_table[ref[h]] = hpage[h]
    BY DEF HandlesReadTheirPage, TypeOK
  <2>2. frame_table[f] = hpage[h] /\ ref[h] = f
    BY <2>1 DEF TablesAgree
  <2> QED  BY <2>1, <2>2, PoolAssumption DEF Mapped, Pinners
<1>1. /\ pin_count' = [pin_count EXCEPT ![f] = @ - 1]
      /\ evictable' = IF pin_count[f] = 1 THEN evictable \cup {f} ELSE evictable
  BY DEF Released
<1>2. /\ disk' \in [Pages -> Content]
      /\ \A q \in Pages : disk'[q] = disk[q] \/ (q = hpage[h] /\ disk'[q] = frames[f])
  <2>1. frames[f] \in Content
    BY <1>0, PoolAssumption DEF TypeOK, BytesInPlace, NoCopy
  <2>2. \A q \in Pages : Written({hpage[h]})[q] = IF q = hpage[h] THEN frames[f] ELSE disk[q]
    BY <1>0 DEF Written
  <2>3. Written({hpage[h]}) \in [Pages -> Content]
    BY <1>0, <2>1, <2>2 DEF Written, TypeOK
  <2> QED  BY <2>2, <2>3 DEF TypeOK
<1>3. /\ dirty' \in [Frames -> BOOLEAN]
      /\ \A g \in Frames \ {f} : dirty'[g] = dirty[g]
      /\ ~dirty'[f] => \/ disk' = disk /\ ~dirty[f] /\ h \notin wrote
                       \/ disk'[hpage[h]] = frames[f]
  BY <1>0 DEF Marked, Written, TypeOK
<1>4. Mapped' = Mapped
  BY DEF Mapped
<1>5. \A g \in Frames : Pinners(g)' = IF g = f THEN Pinners(g) \ {h} ELSE Pinners(g)
  BY <1>0 DEF Pinners, TypeOK
<1>6. /\ Cardinality(Pinners(f) \ {h}) = Cardinality(Pinners(f)) - 1
      /\ Cardinality(Pinners(f)) = 1 <=> Pinners(f) \ {h} = {}
  <2>1. Pinners(f) \in SUBSET Handles
    BY DEF Pinners
  <2> QED  BY <1>0, <2>1, OnePinLess
<1>7. pin_count'[f] \in Nat /\ pin_count' \in [Frames -> Nat]
  <2>1. Pinners(f) \ {h} \in SUBSET Handles
    BY DEF Pinners
  <2>2. Cardinality(Pinners(f) \ {h}) \in Nat
    BY <2>1, PinCount
  <2>3. pin_count[f] = Cardinality(Pinners(f))
    BY DEF PinsCounted
  <2> QED  BY <1>1, <1>6, <2>2, <2>3 DEF TypeOK
<1>8. TypeOK'
  BY <1>1, <1>2, <1>3, <1>7 DEF TypeOK
<1>9. TablesAgree'
  BY <1>4 DEF TablesAgree
<1>10. PinsCounted'
  <2>1. \A g \in Frames : pin_count'[g] = Cardinality(Pinners(g)')
    BY <1>1, <1>5, <1>6 DEF PinsCounted, TypeOK
  <2>2. evictable' = {g \in Mapped' : Pinners(g)' = {}}
    BY <1>0, <1>1, <1>4, <1>5, <1>6 DEF PinsCounted, Mapped
  <2> QED  BY <1>4, <2>1, <2>2 DEF PinsCounted, Mapped
<1>11. HandlesReadTheirPage'
  BY <1>0 DEF HandlesReadTheirPage, Bytes, TypeOK
<1>12. CleanIsOnDisk'
  <2>1. wrote' \subseteq {g \in Handles : mode'[g] = "pinned"}
    BY DEF CleanIsOnDisk, TypeOK
  <2>2. \A g \in Frames : dirty'[g] => g \in Mapped'
    BY <1>0, <1>3, <1>4 DEF CleanIsOnDisk
  <2>3. ASSUME NEW g \in Mapped', ~dirty'[g], Pinners(g)' \cap wrote' = {}
        PROVE  frames'[g] = disk'[frame_table'[g]]
    <3>1. CASE g = f
      <4>1. CASE disk'[hpage[h]] = frames[f]
        BY <1>0, <3>1, <4>1
      <4>2. CASE disk' = disk /\ ~dirty[f] /\ h \notin wrote
        <5>1. Pinners(f) \cap wrote = {}
          BY <1>5, <2>3, <3>1, <4>2
        <5> QED  BY <1>0, <3>1, <4>2, <5>1 DEF CleanIsOnDisk
      <4> QED  BY <1>3, <2>3, <3>1, <4>1, <4>2
    <3>2. CASE g # f
      <4>1. frame_table[g] # hpage[h] /\ frame_table[g] \in Pages /\ g \in Frames
        BY <1>0, <1>4, <2>3, <3>2 DEF TablesAgree, Mapped, TypeOK
      <4>2. ~dirty[g] /\ Pinners(g) \cap wrote = {}
        BY <1>0, <1>3, <1>5, <2>3, <3>2, <4>1 DEF Pinners
      <4> QED  BY <1>2, <1>4, <2>3, <4>1, <4>2 DEF CleanIsOnDisk
    <3> QED  BY <3>1, <3>2
  <2> QED  BY <2>1, <2>2, <2>3 DEF CleanIsOnDisk
<1>13. BytesInPlace'
  <2>1. \A q \in Pages : disk'[q].page = q
    BY <1>0, <1>2 DEF BytesInPlace
  <2>2. \A q \in Pages : q[2] >= num_pages[q[1]] => disk'[q] = Blank[q]
    BY <1>0, <1>2, PoolAssumption DEF BytesInPlace
  <2> QED  BY <1>4, <2>1, <2>2 DEF BytesInPlace
<1> QED  BY <1>8, <1>9, <1>10, <1>11, <1>12, <1>13

LEMMA DropStep ==
  ASSUME PoolConsistent, NEW h \in Handles, Drop(h)
  PROVE  PoolConsistent'
<1> USE DEF PoolConsistent
<1>1. /\ mode[h] = "released"
      /\ mode' = [mode EXCEPT ![h] = "closed"]
      /\ hpage' = [hpage EXCEPT ![h] = NoPage]
      /\ ref' = [ref EXCEPT ![h] = NoFrame]
      /\ copy' = [copy EXCEPT ![h] = NoCopy]
      /\ UNCHANGED <<frames, page_table, frame_table, free_frames, pin_count,
                     dirty, history, evictable, current_time, disk, num_pages, wrote>>
  BY DEF Drop, pool, replacer, storage
<1>2. /\ Mapped' = Mapped
      /\ \A g \in Frames : Pinners(g)' = Pinners(g)
  BY <1>1 DEF Mapped, Pinners, TypeOK
<1>3. TypeOK'
  BY <1>1 DEF TypeOK
<1>4. TablesAgree'
  BY <1>1, <1>2 DEF TablesAgree
<1>5. PinsCounted'
  BY <1>1, <1>2 DEF PinsCounted, Mapped
<1>6. HandlesReadTheirPage'
  BY <1>1, PoolAssumption DEF HandlesReadTheirPage, Bytes, TypeOK
<1>7. CleanIsOnDisk'
  BY <1>1, <1>2 DEF CleanIsOnDisk, Mapped, TypeOK
<1>8. BytesInPlace'
  BY <1>1, <1>2 DEF BytesInPlace
<1> QED  BY <1>3, <1>4, <1>5, <1>6, <1>7, <1>8

LEMMA AllocateStep ==
  ASSUME PoolConsistent, NEW x \in Files, allocate_page(x)
  PROVE  PoolConsistent' /\ disk' = disk
<1> USE DEF PoolConsistent
<1> DEFINE q == <<x, num_pages[x]>>
<1>0. num_pages[x] \in Nat /\ MaxPages \in Nat /\ num_pages[x] < MaxPages
  BY PoolAssumption DEF TypeOK, allocate_page
<1>1. q \in Pages /\ disk[q] = Blank[q]
  <2>1. q \in Pages /\ q[1] = x /\ q[2] = num_pages[x]
    BY <1>0 DEF Pages
  <2> QED  BY <1>0, <2>1 DEF BytesInPlace
<1>2. /\ disk' = disk
      /\ num_pages' = [num_pages EXCEPT ![x] = @ + 1]
      /\ UNCHANGED <<frames, page_table, frame_table, free_frames, pin_count, dirty,
                     history, evictable, current_time, hpage, mode, wrote, ref, copy>>
  BY <1>1 DEF allocate_page, pool, replacer, callers, TypeOK
<1>3. TypeOK'
  BY <1>0, <1>2 DEF TypeOK
<1>4. Mapped' = Mapped /\ \A g \in Frames : Pinners(g)' = Pinners(g)
  BY <1>2 DEF Mapped, Pinners
<1>5. TablesAgree' /\ CleanIsOnDisk'
  BY <1>2, <1>4 DEF TablesAgree, CleanIsOnDisk, Mapped
<1>6. PinsCounted'
  BY <1>2, <1>4 DEF PinsCounted, Mapped
<1>7. HandlesReadTheirPage'
  BY <1>2 DEF HandlesReadTheirPage, Bytes
<1>8. BytesInPlace'
  <2>1. ASSUME NEW r \in Pages, r[2] >= num_pages'[r[1]]  PROVE r[2] >= num_pages[r[1]]
    <3>1. r[1] \in Files /\ r[2] \in Nat /\ num_pages[r[1]] \in Nat
      BY <1>0 DEF Pages, TypeOK
    <3> QED  BY <1>0, <1>2, <2>1, <3>1 DEF TypeOK
  <2> QED  BY <1>2, <1>4, <2>1 DEF BytesInPlace
<1> QED  BY <1>2, <1>3, <1>5, <1>6, <1>7, <1>8

(* What flushing the dirty pages writes is what the pool holds.            *)
LEMMA FlushedDisk ==
  ASSUME PoolConsistent, disk' = Written(DirtyPages)
  PROVE  /\ disk' \in [Pages -> Content]
         /\ \A q \in Pages : disk'[q].page = q
         /\ \A q \in Pages : page_table[q] = NoFrame => disk'[q] = disk[q]
         /\ \A f \in Mapped : dirty[f] => disk'[frame_table[f]] = frames[f]
         /\ \A f \in Mapped : ~dirty[f] => disk'[frame_table[f]] = disk[frame_table[f]]
<1> USE DEF PoolConsistent
<1>1. \A q \in Pages : q \in DirtyPages <=>
         /\ page_table[q] \in Frames
         /\ frame_table[page_table[q]] = q
         /\ page_table[q] \in Mapped
         /\ dirty[page_table[q]]
  BY PoolAssumption DEF DirtyPages, TablesAgree, TypeOK, Mapped
<1>2. \A q \in Pages : q \in DirtyPages =>
         frames[page_table[q]] \in Content /\ frames[page_table[q]].page = q
  BY <1>1, PoolAssumption DEF BytesInPlace, TypeOK, NoCopy
<1>3. disk' \in [Pages -> Content] /\ \A q \in Pages : disk'[q].page = q
  BY <1>2 DEF Written, TypeOK, BytesInPlace
<1>4. \A q \in Pages : page_table[q] = NoFrame => disk'[q] = disk[q]
  BY <1>1, PoolAssumption DEF Written
<1>5. ASSUME NEW f \in Mapped
      PROVE  disk'[frame_table[f]] = IF dirty[f] THEN frames[f] ELSE disk[frame_table[f]]
  <2>1. frame_table[f] \in Pages /\ page_table[frame_table[f]] = f /\ f \in Frames
    BY DEF Mapped, TypeOK, TablesAgree
  <2> QED  BY <1>1, <2>1 DEF Written
<1> QED  BY <1>3, <1>4, <1>5

LEMMA FlushAllStep ==
  ASSUME PoolConsistent, flush_all
  PROVE  PoolConsistent'
<1> USE DEF PoolConsistent
<1>1. /\ disk' = Written(DirtyPages)
      /\ dirty' = [f \in Frames |-> FALSE]
      /\ UNCHANGED <<frames, page_table, frame_table, free_frames, pin_count,
                     history, evictable, current_time, num_pages,
                     hpage, mode, wrote, ref, copy>>
  BY DEF flush_all, replacer, callers
<1>2. /\ disk' \in [Pages -> Content]
      /\ \A q \in Pages : disk'[q].page = q
      /\ \A q \in Pages : page_table[q] = NoFrame => disk'[q] = disk[q]
      /\ \A f \in Mapped : dirty[f] => disk'[frame_table[f]] = frames[f]
      /\ \A f \in Mapped : ~dirty[f] => disk'[frame_table[f]] = disk[frame_table[f]]
  BY <1>1, FlushedDisk
<1>3. Mapped' = Mapped /\ \A g \in Frames : Pinners(g)' = Pinners(g)
  BY <1>1 DEF Mapped, Pinners
<1>4. TypeOK'
  BY <1>1, <1>2 DEF TypeOK
<1>5. TablesAgree' /\ HandlesReadTheirPage'
  BY <1>1, <1>3 DEF TablesAgree, HandlesReadTheirPage, Bytes
<1>6. PinsCounted'
  BY <1>1, <1>3 DEF PinsCounted, Mapped
<1>7. CleanIsOnDisk'
  BY <1>1, <1>2, <1>3 DEF CleanIsOnDisk, Mapped
<1>8. BytesInPlace'
  BY <1>1, <1>2, <1>3 DEF BytesInPlace
<1> QED  BY <1>4, <1>5, <1>6, <1>7, <1>8

(* A new process finds nothing but the disk.                               *)
LEMMA StartedStep ==
  ASSUME PoolConsistent, Started,
         disk' = disk \/ disk' = Written(DirtyPages)
  PROVE  PoolConsistent'
<1> USE DEF PoolConsistent, Always
<1>1. /\ disk' \in [Pages -> Content]
      /\ \A q \in Pages : disk'[q].page = q
      /\ \A q \in Pages : page_table[q] = NoFrame => disk'[q] = disk[q]
  BY FlushedDisk DEF TypeOK, BytesInPlace
<1>2. TypeOK'
  BY <1>1, EmptySeq DEF TypeOK, Started
<1>3. Mapped' = {} /\ \A g \in Frames : Pinners(g)' = {}
  BY DEF Mapped, Pinners, Started
<1>4. TablesAgree'
  BY <1>3, PoolAssumption DEF TablesAgree, Started
<1>5. PinsCounted'
  BY <1>3, FS_EmptySet DEF PinsCounted, Started
<1>6. HandlesReadTheirPage'
  BY DEF HandlesReadTheirPage, Started
<1>7. CleanIsOnDisk'
  BY <1>3 DEF CleanIsOnDisk, Started
<1>8. BytesInPlace'
  BY <1>1, <1>3 DEF BytesInPlace, Started
<1> QED  BY <1>2, <1>4, <1>5, <1>6, <1>7, <1>8

LEMMA NextPoolConsistent == PoolConsistent /\ [Next]_vars => PoolConsistent'
<1> SUFFICES ASSUME PoolConsistent, [Next]_vars PROVE PoolConsistent'
  OBVIOUS
<1>1. ASSUME NEW h \in Handles, NEW p \in Pages, FetchHit(h, p)
      PROVE  PoolConsistent'
  BY <1>1, HitStep
<1>2. ASSUME NEW h \in Handles, NEW p \in Pages, FetchFree(h, p) \/ FetchEvict(h, p)
      PROVE  PoolConsistent'
  BY <1>2, FetchStep
<1>3. ASSUME NEW h \in Handles, NEW v \in Versions, Modify(h, v)
      PROVE  PoolConsistent'
  BY <1>3, ModifyStep
<1>4. ASSUME NEW h \in Handles, unpin_page(h) \/ UnpinAndFlush(h)
      PROVE  PoolConsistent'
  <2> DEFINE f == page_table[hpage[h]]
  <2>1. mode[h] = "pinned" /\ Released(f) /\ f # NoFrame
    BY <1>4 DEF unpin_page, UnpinAndFlush
  <2>2. hpage[h] \in Pages
    BY <2>1 DEF PoolConsistent, HandlesReadTheirPage
  <2>3. f \in Frames
    BY <2>1, <2>2 DEF PoolConsistent, TypeOK
  <2>4. /\ \/ disk' = disk /\ dirty' = Marked(f, h \in wrote)
           \/ disk' = Written({hpage[h]}) /\ dirty' = [dirty EXCEPT ![f] = FALSE]
        /\ mode' = [mode EXCEPT ![h] = "released"]
        /\ wrote' = wrote \ {h}
        /\ UNCHANGED <<frames, page_table, frame_table, free_frames, history,
                       current_time, num_pages, hpage, ref, copy>>
    BY <1>4 DEF unpin_page, UnpinAndFlush, storage
  <2> QED  BY <2>1, <2>3, <2>4, ReleaseStep
<1>5. ASSUME NEW h \in Handles, Drop(h)
      PROVE  PoolConsistent'
  BY <1>5, DropStep
<1>6. ASSUME NEW x \in Files, allocate_page(x)
      PROVE  PoolConsistent'
  BY <1>6, AllocateStep
<1>7. ASSUME flush_all
      PROVE  PoolConsistent'
  BY <1>7, FlushAllStep
<1>8. ASSUME Shutdown \/ Crash
      PROVE  PoolConsistent'
  BY <1>8, StartedStep DEF Shutdown, Crash
<1>9. ASSUME UNCHANGED vars
      PROVE  PoolConsistent'
  BY <1>9 DEF vars, pool, replacer, storage, callers, PoolConsistent, TypeOK,
     TablesAgree, PinsCounted, HandlesReadTheirPage, CleanIsOnDisk,
     BytesInPlace, Mapped, Pinners, Bytes
<1> QED  BY <1>1, <1>2, <1>3, <1>4, <1>5, <1>6, <1>7, <1>8, <1>9 DEF Next

(* Type correctness and the consistency of tables, free frames, pins,      *)
(* evictable set and dirty flags (BufferPoolManager): the inductive        *)
(* invariant, for any number of frames, pages and callers.                 *)
THEOREM PoolIsConsistent == Spec => []PoolConsistent
<1> QED  BY InitPoolConsistent, NextPoolConsistent, PTL DEF Spec

(* A caller that has a page pinned holds the very bytes that fetch_page    *)
(* would return for the page: a pinned page is never evicted or reloaded.  *)
THEOREM PinnedPagesAreShared == Spec => []PinnedHandlesShareBytes
<1>1. PoolConsistent => PinnedHandlesShareBytes
  <2> SUFFICES ASSUME PoolConsistent, NEW h \in Handles, mode[h] = "pinned"
               PROVE  ref[h] # NoFrame /\ ref[h] = page_table[hpage[h]]
    BY DEF PinnedHandlesShareBytes
  <2>1. hpage[h] \in Pages /\ ref[h] # NoFrame /\ frame_table[ref[h]] = hpage[h]
    BY DEF PoolConsistent, HandlesReadTheirPage
  <2> QED  BY <2>1 DEF PoolConsistent, TypeOK, TablesAgree
<1> QED  BY <1>1, PoolIsConsistent, PTL

(* heap_file.py reads through a bytearray after unpinning it: the bytes    *)
(* are still those of the page it fetched, even if the frame was reloaded. *)
THEOREM ReadAfterUnpin == Spec => []HandlesReadTheirPage
<1>1. PoolConsistent => HandlesReadTheirPage
  BY DEF PoolConsistent
<1> QED  BY <1>1, PoolIsConsistent, PTL

(* Every frame is free, evictable or pinned: unpinning all callers makes   *)
(* the whole pool available again.                                         *)
THEOREM FramesAreNeverLost == Spec => []NoFrameLost
<1>1. PoolConsistent => NoFrameLost
  BY DEF PoolConsistent, TablesAgree, PinsCounted, NoFrameLost, Mapped
<1> QED  BY <1>1, PoolIsConsistent, PTL

(* After flush_all or close() every page whose changes were reported is on *)
(* disk with its current bytes.                                            *)
THEOREM FlushesAreDurable == Spec => FlushIsDurable
<1>1. ASSUME PoolConsistent, Flushes, NEW p \in Pages, Reported(p)
      PROVE  disk'[p] = Current(p)
  <2>1. disk' = Written(DirtyPages)
    BY <1>1 DEF Flushes, flush_all, Shutdown
  <2>2. CASE page_table[p] = NoFrame
    BY <1>1, <2>1, <2>2, FlushedDisk DEF Current
  <2>3. CASE page_table[p] # NoFrame
    <3> DEFINE f == page_table[p]
    <3>1. f \in Frames /\ frame_table[f] = p /\ f \in Mapped
      BY <1>1, <2>3, PoolAssumption DEF PoolConsistent, TypeOK, TablesAgree, Mapped
    <3>2. Pinners(f) \cap wrote = {}
      BY <1>1, <3>1 DEF PoolConsistent, HandlesReadTheirPage, Pinners, Reported
    <3>3. ~dirty[f] => frames[f] = disk[p]
      BY <1>1, <3>1, <3>2 DEF PoolConsistent, CleanIsOnDisk
    <3> QED  BY <1>1, <2>1, <2>3, <3>1, <3>3, FlushedDisk DEF Current
  <2> QED  BY <2>2, <2>3
<1>2. PoolConsistent /\ [Next]_vars
        => [Flushes => \A p \in Pages : Reported(p) => disk'[p] = Current(p)]_vars
  BY <1>1
<1> QED  BY <1>2, PoolIsConsistent, PTL DEF Spec, FlushIsDurable
-----------------------------------------------------------------------------
(* The refinement.  What the pool would return for a page changes only     *)
(* when a caller writes to it or the process restarts.                     *)
CurrentKept == \A q \in Pages : Current(q)' = Current(q)

LEMMA HitKeepsCurrent ==
  ASSUME PoolConsistent, NEW h \in Handles, NEW p \in Pages, FetchHit(h, p)
  PROVE  PS!Open(h, p)
<1>1. /\ mode[h] = "closed" /\ hpage' = [hpage EXCEPT ![h] = p]
      /\ mode' = [mode EXCEPT ![h] = "pinned"] /\ wrote' = wrote
      /\ UNCHANGED <<frames, page_table, disk>>
  BY DEF FetchHit, CanFetch, Hold, storage
<1>2. CurrentKept
  BY <1>1 DEF CurrentKept, Current
<1>3. disk' = PS!Saved({})
  BY <1>1 DEF PS!Saved, PoolConsistent, TypeOK, Pages, PS!Pages
<1> QED  BY <1>1, <1>2, <1>3 DEF PS!Open, PS!SaveSome, CurrentKept

LEMMA FetchKeepsCurrent ==
  ASSUME PoolConsistent, NEW h \in Handles, NEW p \in Pages,
         FetchFree(h, p) \/ FetchEvict(h, p)
  PROVE  PS!Open(h, p)
<1>1. PICK f \in Frames :
        /\ f \in free_frames \/ f \in evictable
        /\ disk' = IF dirty[f] THEN Written({frame_table[f]}) ELSE disk
        /\ page_table' = [Unmapped(f) EXCEPT ![p] = f]
        /\ frames' = [frames EXCEPT ![f] = disk'[p]]
  <2>1. CASE FetchFree(h, p)
    <3>1. \A f \in free_frames : f \in Frames /\ ~dirty[f]
      BY DEF PoolConsistent, TablesAgree, CleanIsOnDisk
    <3> QED  BY <2>1, <3>1 DEF FetchFree, Load
  <2>2. CASE FetchEvict(h, p)
    <3>1. \A f \in Victims(history, evictable) : f \in Frames /\ f \in evictable
      BY DEF Victims, Contenders, PoolConsistent, PinsCounted, Mapped
    <3> QED  BY <2>2, <3>1 DEF FetchEvict, Load
  <2> QED  BY <2>1, <2>2
<1>2. /\ mode[h] = "closed" /\ hpage' = [hpage EXCEPT ![h] = p]
      /\ mode' = [mode EXCEPT ![h] = "pinned"] /\ wrote' = wrote
      /\ page_table[p] = NoFrame
  BY DEF FetchFree, FetchEvict, CanFetch, Load, Hold
<1>3. Pinners(f) = {}
  BY <1>1, PoolAssumption
  DEF PoolConsistent, PinsCounted, TablesAgree, Mapped, HandlesReadTheirPage, Pinners
<1>4. /\ \A g \in Frames : frame_table[g] # p
      /\ frame_table[f] # NoPage =>
           frame_table[f] \in Pages /\ page_table[frame_table[f]] = f
      /\ \A q \in Pages : page_table[q] = f => frame_table[f] = q
  BY <1>1, <1>2, PoolAssumption DEF PoolConsistent, TablesAgree, TypeOK
<1>5. frame_table[f] # NoPage => Current(frame_table[f]) = frames[f]
  BY <1>1, <1>4, PoolAssumption DEF Current
<1>6. frame_table[f] # NoPage /\ ~dirty[f] => frames[f] = disk[frame_table[f]]
  BY <1>1, <1>3 DEF PoolConsistent, CleanIsOnDisk, Mapped
<1>7. \A q \in Pages : disk'[q] = IF dirty[f] /\ q = frame_table[f] THEN frames[f] ELSE disk[q]
  BY <1>1, <1>4, PoolAssumption DEF Written
<1>8. CurrentKept
  <2> SUFFICES ASSUME NEW q \in Pages PROVE Current(q)' = Current(q)
    BY DEF CurrentKept
  <2>1. CASE q = p
    BY <1>1, <1>2, <1>4, <1>7, <2>1, PoolAssumption DEF Current, Unmapped, PoolConsistent, TypeOK
  <2>2. CASE q # p /\ q = frame_table[f]
    BY <1>1, <1>4, <1>5, <1>6, <1>7, <2>2, PoolAssumption DEF Current, Unmapped
  <2>3. CASE q # p /\ q # frame_table[f]
    <3>1. page_table'[q] = page_table[q] /\ page_table[q] # f
      BY <1>1, <1>4, <2>3 DEF Unmapped
    <3>2. disk'[q] = disk[q]
      BY <1>7, <2>3
    <3>3. page_table[q] # NoFrame => frames'[page_table[q]] = frames[page_table[q]]
      <4>1. page_table[q] # NoFrame => page_table[q] \in Frames
        BY DEF PoolConsistent, TypeOK
      <4> QED  BY <1>1, <3>1, <4>1 DEF PoolConsistent, TypeOK
    <3> QED  BY <3>1, <3>2, <3>3 DEF Current
  <2> QED  BY <2>1, <2>2, <2>3
<1>9. PS!SaveSome
  <2> DEFINE P == IF dirty[f] THEN {frame_table[f]} ELSE {}
  <2>1. dirty[f] => frame_table[f] \in Pages
    BY <1>1, <1>4 DEF PoolConsistent, CleanIsOnDisk, Mapped
  <2>2. disk' = [q \in Pages |-> IF q \in P THEN Current(q) ELSE disk[q]]
    <3>1. disk' = [q \in Pages |-> disk'[q]]
      BY <1>1 DEF Written, PoolConsistent, TypeOK
    <3> QED  BY <1>5, <1>7, <2>1, <3>1, PoolAssumption
  <2> QED  BY <2>1, <2>2 DEF PS!SaveSome, PS!Saved, Pages, PS!Pages
<1> QED  BY <1>2, <1>8, <1>9 DEF PS!Open, CurrentKept

LEMMA ModifyChangesCurrent ==
  ASSUME PoolConsistent, NEW h \in Handles, NEW v \in Versions, Modify(h, v)
  PROVE  PS!Modify(h, v)
<1>1. /\ mode[h] = "pinned"
      /\ frames' = [frames EXCEPT ![ref[h]] = [page |-> hpage[h], version |-> v]]
      /\ wrote' = wrote \cup {h}
      /\ UNCHANGED <<page_table, disk, hpage, mode>>
  BY DEF Modify, storage
<1>2. hpage[h] \in Pages /\ ref[h] \in Frames /\ frame_table[ref[h]] = hpage[h]
  BY <1>1 DEF PoolConsistent, HandlesReadTheirPage, TypeOK
<1>3. /\ page_table[hpage[h]] = ref[h]
      /\ \A q \in Pages \ {hpage[h]} : page_table[q] # ref[h]
  BY <1>2 DEF PoolConsistent, TablesAgree
<1>4. \A q \in Pages : Current(q)' = IF q = hpage[h] THEN [page |-> hpage[h], version |-> v]
                                     ELSE Current(q)
  BY <1>1, <1>2, <1>3, PoolAssumption DEF Current, PoolConsistent, TypeOK
<1> QED  BY <1>1, <1>4 DEF PS!Modify

LEMMA ReleaseKeepsCurrent ==
  ASSUME PoolConsistent, NEW h \in Handles, unpin_page(h) \/ UnpinAndFlush(h)
  PROVE  PS!Release(h)
<1>1. /\ mode[h] = "pinned" /\ page_table[hpage[h]] # NoFrame
      /\ mode' = [mode EXCEPT ![h] = "released"]
      /\ wrote' = wrote \ {h}
      /\ UNCHANGED <<frames, page_table, hpage>>
      /\ disk' = disk \/ disk' = Written({hpage[h]})
  BY DEF unpin_page, UnpinAndFlush, storage
<1>2. hpage[h] \in Pages
  BY <1>1 DEF PoolConsistent, HandlesReadTheirPage
<1>3. CurrentKept
  <2>1. CASE disk' = disk
    BY <1>1, <2>1 DEF CurrentKept, Current
  <2>2. CASE disk' = Written({hpage[h]})
    BY <1>1, <2>2 DEF CurrentKept, Current, Written
  <2> QED  BY <1>1, <2>1, <2>2
<1>4. PS!SaveSome
  <2>1. CASE disk' = disk
    <3>1. disk' = PS!Saved({})
      BY <2>1 DEF PS!Saved, PoolConsistent, TypeOK, Pages, PS!Pages
    <3> QED  BY <3>1 DEF PS!SaveSome
  <2>2. CASE disk' = Written({hpage[h]})
    <3>1. disk' = PS!Saved({hpage[h]})
      BY <1>1, <1>2, <2>2 DEF Written, Current, PS!Saved, Pages, PS!Pages
    <3> QED  BY <1>2, <3>1 DEF PS!SaveSome, Pages, PS!Pages
  <2> QED  BY <1>1, <2>1, <2>2
<1> QED  BY <1>1, <1>3, <1>4 DEF PS!Release, CurrentKept

(* Writing the dirty pages saves their current content.                    *)
LEMMA FlushSavesCurrent ==
  ASSUME PoolConsistent, disk' = Written(DirtyPages)
  PROVE  PS!SaveSome
<1> DEFINE P == DirtyPages \cap Pages
<1>1. \A q \in P : page_table[q] # NoFrame
  BY PoolAssumption DEF DirtyPages, PoolConsistent, TablesAgree, TypeOK
<1>2. disk' = PS!Saved(P)
  BY <1>1 DEF Written, Current, PS!Saved, Pages, PS!Pages
<1> QED  BY <1>2 DEF PS!SaveSome, Pages, PS!Pages

LEMMA RestartRefines ==
  ASSUME PoolConsistent, Shutdown \/ Crash
  PROVE  PS!Restart
<1>1. Started /\ (disk' = disk \/ disk' = Written(DirtyPages))
  BY DEF Shutdown, Crash
<1>2. PS!SaveSome
  <2>1. CASE disk' = disk
    <3>1. disk' = PS!Saved({})
      BY <2>1 DEF PS!Saved, PoolConsistent, TypeOK, Pages, PS!Pages
    <3> QED  BY <3>1 DEF PS!SaveSome
  <2> QED  BY <1>1, <2>1, FlushSavesCurrent
<1>3. \A q \in Pages : Current(q)' = disk'[q]
  BY <1>1 DEF Current, Started, Always
<1>4. disk' = [q \in Pages |-> disk'[q]]
  BY <1>1 DEF Written, PoolConsistent, TypeOK
<1>5. [q \in Pages |-> Current(q)]' = disk'
  BY <1>3, <1>4
<1>6. hpage' = [h \in Handles |-> NoPage] /\ mode' = [h \in Handles |-> "closed"] /\ wrote' = {}
  BY <1>1 DEF Started, Always
<1> QED  BY <1>2, <1>5, <1>6 DEF PS!Restart

LEMMA StepRefines == PoolConsistent /\ [Next]_vars => [PS!Next]_(PS!vars)
<1> SUFFICES ASSUME PoolConsistent, [Next]_vars PROVE [PS!Next]_(PS!vars)
  OBVIOUS
<1> USE DEF PS!Next, PS!vars
<1>1. ASSUME NEW h \in Handles, NEW p \in Pages,
             FetchHit(h, p) \/ FetchFree(h, p) \/ FetchEvict(h, p)
      PROVE  PS!Next
  BY <1>1, HitKeepsCurrent, FetchKeepsCurrent DEF Pages, PS!Pages
<1>2. ASSUME NEW h \in Handles, NEW v \in Versions, Modify(h, v)
      PROVE  PS!Next
  BY <1>2, ModifyChangesCurrent
<1>3. ASSUME NEW h \in Handles, unpin_page(h) \/ UnpinAndFlush(h)
      PROVE  PS!Next
  BY <1>3, ReleaseKeepsCurrent
<1>4. ASSUME NEW h \in Handles, Drop(h)
      PROVE  PS!Next
  <2>1. UNCHANGED <<frames, page_table, disk, wrote>>
    BY <1>4 DEF Drop, pool, storage
  <2>2. PS!Drop(h)
    BY <1>4, <2>1 DEF Drop, PS!Drop, Current
  <2> QED  BY <2>2
<1>5. ASSUME NEW x \in Files, allocate_page(x)
      PROVE  UNCHANGED PS!vars
  <2>1. UNCHANGED <<frames, page_table, disk, hpage, mode, wrote>>
    BY <1>5, AllocateStep DEF allocate_page, pool, callers
  <2> QED  BY <2>1 DEF Current
<1>6. ASSUME flush_all
      PROVE  PS!Next
  <2>1. UNCHANGED <<frames, page_table, hpage, mode, wrote>>
    BY <1>6 DEF flush_all, callers
  <2>2. PS!SaveSome
    BY <1>6, FlushSavesCurrent DEF flush_all
  <2>3. CurrentKept
    <3>1. \A q \in Pages : page_table[q] = NoFrame => disk'[q] = disk[q]
      BY <1>6, FlushedDisk DEF flush_all
    <3> QED  BY <2>1, <3>1 DEF CurrentKept, Current
  <2> QED  BY <2>1, <2>2, <2>3 DEF PS!Save, CurrentKept
<1>7. ASSUME Shutdown \/ Crash
      PROVE  PS!Next
  BY <1>7, RestartRefines
<1>8. ASSUME UNCHANGED vars
      PROVE  UNCHANGED PS!vars
  BY <1>8 DEF vars, pool, storage, callers, Current
<1> QED  BY <1>1, <1>2, <1>3, <1>4, <1>5, <1>6, <1>7, <1>8 DEF Next

(* The buffer pool implements PageStore: whatever is evicted, reloaded or  *)
(* flushed, every page has one current content that only its pinning       *)
(* callers change.                                                         *)
THEOREM PoolImplementsPageStore == Spec => ImplementsPageStore
<1>1. Init => PS!Init
  BY DEF Init, Always, PS!Init, Current, Blank, PS!Blank, Pages, PS!Pages
<1> QED  BY <1>1, StepRefines, PoolIsConsistent, PTL DEF Spec, PS!Spec, ImplementsPageStore
=============================================================================
