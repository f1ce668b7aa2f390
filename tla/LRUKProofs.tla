----------------------------- MODULE LRUKProofs ------------------------------
(***************************************************************************)
(* Proofs about LRUKReplacer for every K and any frames, finitely many or  *)
(* not: the victim found in truncated histories is the one that the        *)
(* complete access log names, and it is unique.                            *)
(***************************************************************************)
EXTENDS LRUKReplacer, FiniteSetTheorems, SequenceTheorems, WellFoundedInduction, TLAPS

(* The inductive invariant.  Accesses have times of the past, in order,    *)
(* and no two of one time; evictable frames have some; a history is the    *)
(* end of the frame's log, of at most K.                                   *)
Shapes ==
  /\ history \in [Frames -> Seq(Nat)]
  /\ accesses \in [Frames -> Seq(Nat)]
  /\ evictable \subseteq Frames
  /\ current_time \in Nat
TimesInv ==
  /\ \A f \in Frames : \A i \in 1 .. Len(accesses[f]) : accesses[f][i] < current_time
  /\ \A f, g \in Frames : \A i \in 1 .. Len(accesses[f]), j \in 1 .. Len(accesses[g]) :
       accesses[f][i] = accesses[g][j] => f = g
IsEndOf(h, log) ==
  /\ Len(h) = IF Len(log) < K THEN Len(log) ELSE K
  /\ \A i \in 1 .. Len(h) : h[i] = log[Len(log) - Len(h) + i]
HistoryInv == \A f \in Frames : IsEndOf(history[f], accesses[f])
EvictableInv == \A f \in evictable : accesses[f] # <<>>

LogInv == Shapes /\ TimesInv /\ HistoryInv /\ EvictableInv
-----------------------------------------------------------------------------
(* A history remembers the next access as the log does.                    *)
LEMMA RememberedEnd ==
  ASSUME NEW h \in Seq(Nat), NEW log \in Seq(Nat), NEW t \in Nat, IsEndOf(h, log)
  PROVE  Remember(h, t) \in Seq(Nat) /\ IsEndOf(Remember(h, t), Append(log, t))
<1> USE KAssumption
<1>1. /\ Append(log, t) \in Seq(Nat) /\ Len(Append(log, t)) = Len(log) + 1
      /\ \A i \in 1 .. Len(log) : Append(log, t)[i] = log[i]
      /\ Append(log, t)[Len(log) + 1] = t
  BY AppendProperties
<1>2. Len(log) \in Nat /\ Len(h) \in Nat
  OBVIOUS
<1>3. CASE Len(h) < K
  <2>1. /\ Remember(h, t) = Append(h, t) /\ Append(h, t) \in Seq(Nat)
        /\ Len(Append(h, t)) = Len(h) + 1
        /\ \A i \in 1 .. Len(h) : Append(h, t)[i] = h[i]
        /\ Append(h, t)[Len(h) + 1] = t
    BY <1>3, AppendProperties DEF Remember
  <2>2. Len(h) = Len(log)
    BY <1>2, <1>3 DEF IsEndOf
  <2> QED BY <1>1, <1>2, <1>3, <2>1, <2>2 DEF IsEndOf
<1>4. CASE ~(Len(h) < K)
  <2>1. Len(h) = K /\ K <= Len(log) /\ h # <<>>
    BY <1>2, <1>4 DEF IsEndOf
  <2>2. /\ Tail(h) \in Seq(Nat) /\ Len(Tail(h)) = K - 1
        /\ \A i \in 1 .. K - 1 : Tail(h)[i] = h[i + 1]
    BY <2>1, HeadTailProperties
  <2>3. /\ Remember(h, t) = Append(Tail(h), t) /\ Remember(h, t) \in Seq(Nat)
        /\ Len(Remember(h, t)) = K
        /\ \A i \in 1 .. K - 1 : Remember(h, t)[i] = h[i + 1]
        /\ Remember(h, t)[K] = t
    BY <1>4, <2>2, AppendProperties DEF Remember
  <2>4. \A i \in 1 .. K : h[i] = log[Len(log) - K + i]
    BY <2>1 DEF IsEndOf
  <2>5. ASSUME NEW i \in 1 .. K
        PROVE  Remember(h, t)[i] = Append(log, t)[Len(log) + 1 - K + i]
    <3>1. CASE i = K
      BY <3>1, <1>1, <1>2, <2>1, <2>3
    <3>2. CASE i # K
      <4>1. i \in 1 .. K - 1 /\ i + 1 \in 1 .. K /\ Len(log) - K + (i + 1) \in 1 .. Len(log)
        BY <3>2, <1>2, <2>1
      <4>2. Remember(h, t)[i] = log[Len(log) - K + (i + 1)]
        BY <4>1, <2>3, <2>4
      <4>3. Len(log) - K + (i + 1) = Len(log) + 1 - K + i
        BY <1>2
      <4> QED BY <4>1, <4>2, <4>3, <1>1
    <3> QED BY <3>1, <3>2
  <2>6. ~(Len(log) + 1 < K)
    BY <1>2, <2>1
  <2>7. Len(Append(log, t)) = Len(log) + 1 /\ Len(Remember(h, t)) = K
    BY <1>1, <2>3
  <2>8. \A i \in 1 .. K : Remember(h, t)[i] = Append(log, t)[Len(log) + 1 - K + i]
    BY <2>5
  <2>9. IsEndOf(Remember(h, t), Append(log, t))
    <3> DEFINE new == Remember(h, t)
               longer == Append(log, t)
    <3>1. Len(longer) - Len(new) = Len(log) + 1 - K
      BY <2>7
    <3>2. Len(new) = IF Len(longer) < K THEN Len(longer) ELSE K
      BY <2>6, <2>7
    <3>3. \A i \in 1 .. Len(new) : new[i] = longer[Len(longer) - Len(new) + i]
      BY <2>7, <2>8, <3>1
    <3> HIDE DEF new, longer
    <3>4. IsEndOf(new, longer)
      BY <3>2, <3>3 DEF IsEndOf
    <3> QED BY <3>4 DEF new, longer
  <2> QED BY <2>3, <2>9
<1> QED BY <1>3, <1>4

LEMMA EmptyEnd == IsEndOf(<<>>, <<>>) /\ <<>> \in Seq(Nat)
BY KAssumption DEF IsEndOf

LEMMA RecordStep ==
  ASSUME LogInv, NEW f \in Frames, record_access(f)
  PROVE  LogInv'
<1>1. /\ history' = [history EXCEPT ![f] = Remember(history[f], current_time)]
      /\ accesses' = [accesses EXCEPT ![f] = Append(accesses[f], current_time)]
      /\ current_time' = current_time + 1
      /\ evictable' = evictable
      /\ current_time \in Nat /\ history[f] \in Seq(Nat) /\ accesses[f] \in Seq(Nat)
  BY DEF record_access, LogInv, Shapes
<1>2. /\ Remember(history[f], current_time) \in Seq(Nat)
      /\ IsEndOf(Remember(history[f], current_time), Append(accesses[f], current_time))
  BY <1>1, RememberedEnd DEF LogInv, HistoryInv
<1>3. /\ Append(accesses[f], current_time) \in Seq(Nat)
      /\ Append(accesses[f], current_time) # <<>>
      /\ Len(Append(accesses[f], current_time)) = Len(accesses[f]) + 1
      /\ \A i \in 1 .. Len(accesses[f]) : Append(accesses[f], current_time)[i] = accesses[f][i]
      /\ Append(accesses[f], current_time)[Len(accesses[f]) + 1] = current_time
  BY <1>1, AppendProperties
<1>4. Shapes'
  BY <1>1, <1>2, <1>3 DEF LogInv, Shapes
<1>5. HistoryInv'
  BY <1>1, <1>2 DEF LogInv, Shapes, HistoryInv
<1>6. EvictableInv'
  BY <1>1, <1>3 DEF LogInv, Shapes, EvictableInv
<1>7. \A g \in Frames : \A i \in 1 .. Len(accesses'[g]) :
        \/ g = f /\ i = Len(accesses[f]) + 1 /\ accesses'[g][i] = current_time
        \/ i \in 1 .. Len(accesses[g]) /\ accesses'[g][i] = accesses[g][i]
  <2> TAKE g \in Frames
  <2> TAKE i \in 1 .. Len(accesses'[g])
  <2>1. CASE g = f
    BY <2>1, <1>1, <1>3 DEF LogInv, Shapes
  <2>2. CASE g # f
    BY <2>2, <1>1 DEF LogInv, Shapes
  <2> QED BY <2>1, <2>2
<1>8. \A g \in Frames : \A i \in 1 .. Len(accesses[g]) :
        accesses[g][i] \in Nat /\ accesses[g][i] < current_time
  BY DEF LogInv, Shapes, TimesInv
<1>9. TimesInv'
  <2>1. \A g \in Frames : \A i \in 1 .. Len(accesses'[g]) : accesses'[g][i] < current_time'
    BY <1>1, <1>7, <1>8
  <2>2. ASSUME NEW g \in Frames, NEW h \in Frames, NEW i \in 1 .. Len(accesses'[g]),
               NEW j \in 1 .. Len(accesses'[h]), accesses'[g][i] = accesses'[h][j]
        PROVE  g = h
    BY <2>2, <1>1, <1>7, <1>8 DEF LogInv, TimesInv
  <2> QED BY <2>1, <2>2 DEF TimesInv
<1> QED BY <1>4, <1>5, <1>6, <1>9 DEF LogInv

LEMMA EvictStep ==
  ASSUME LogInv, evict
  PROVE  LogInv'
<1>1. PICK f \in Victims(history, evictable) :
        /\ evictable' = evictable \ {f}
        /\ history' = Forget(history, f)
        /\ accesses' = [accesses EXCEPT ![f] = <<>>]
  BY DEF evict
<1>2. current_time' = current_time /\ history' = [history EXCEPT ![f] = <<>>]
  BY <1>1 DEF evict, Forget
<1>3. Shapes'
  BY <1>1, <1>2, EmptyEnd DEF LogInv, Shapes
<1>4. HistoryInv'
  BY <1>1, <1>2, EmptyEnd DEF LogInv, Shapes, HistoryInv
<1>5. EvictableInv'
  BY <1>1 DEF LogInv, Shapes, EvictableInv
<1>6. \A g \in Frames : \A i \in 1 .. Len(accesses'[g]) : g # f /\ accesses'[g] = accesses[g]
  BY <1>1 DEF LogInv, Shapes
<1>7. TimesInv'
  BY <1>2, <1>6 DEF LogInv, TimesInv
<1> QED BY <1>3, <1>4, <1>5, <1>7 DEF LogInv

LEMMA LogInvariant == Spec => []LogInv
<1>1. Init => LogInv
  BY EmptyEnd DEF Init, LogInv, Shapes, TimesInv, HistoryInv, EvictableInv
<1>2. LogInv /\ [Next]_vars => LogInv'
  <2> SUFFICES ASSUME LogInv, [Next]_vars PROVE LogInv'
    OBVIOUS
  <2>1. CASE \E f \in Frames : record_access(f)
    BY <2>1, RecordStep
  <2>2. CASE \E f \in Frames, flag \in BOOLEAN : set_evictable(f, flag)
    BY <2>2 DEF set_evictable, LogInv, Shapes, TimesInv, HistoryInv, EvictableInv
  <2>3. CASE evict
    BY <2>3, EvictStep
  <2>4. CASE UNCHANGED vars
    BY <2>4 DEF vars, LogInv, Shapes, TimesInv, HistoryInv, EvictableInv
  <2> QED BY <2>1, <2>2, <2>3, <2>4 DEF Next
<1> QED BY <1>1, <1>2, PTL DEF Spec
-----------------------------------------------------------------------------
(* What the oldest time of a history says of the log.                      *)
LEMMA OldestTime ==
  ASSUME LogInv, NEW f \in evictable
  PROVE  /\ f \in Frames /\ Head(history[f]) \in Nat
         /\ Len(history[f]) < K <=> Infinite(f)
         /\ Infinite(f) => Head(history[f]) = Head(accesses[f])
         /\ ~Infinite(f) => Head(history[f]) = KthRecent(f)
         /\ \E i \in 1 .. Len(accesses[f]) : Head(history[f]) = accesses[f][i]
<1> USE KAssumption
<1>1. /\ f \in Frames /\ history[f] \in Seq(Nat) /\ accesses[f] \in Seq(Nat)
      /\ accesses[f] # <<>> /\ IsEndOf(history[f], accesses[f])
  BY DEF LogInv, Shapes, EvictableInv, HistoryInv
<1>2. Len(accesses[f]) \in Nat /\ Len(accesses[f]) >= 1
  BY <1>1
<1>3. /\ Len(history[f]) = IF Infinite(f) THEN Len(accesses[f]) ELSE K
      /\ Len(history[f]) >= 1
  BY <1>1, <1>2 DEF IsEndOf, Infinite
<1>4. /\ Head(history[f]) = history[f][1] /\ Head(accesses[f]) = accesses[f][1]
      /\ history[f][1] \in Nat
  BY <1>1, <1>2, <1>3
<1>5. history[f][1] = accesses[f][Len(accesses[f]) - Len(history[f]) + 1]
  <2>1. 1 \in 1 .. Len(history[f])
    BY <1>1, <1>3
  <2> QED BY <1>1, <2>1 DEF IsEndOf
<1>6. CASE Infinite(f)
  <2>1. Len(accesses[f]) - Len(history[f]) + 1 = 1 /\ Len(history[f]) < K
    BY <1>2, <1>3, <1>6 DEF Infinite
  <2>2. Head(history[f]) = accesses[f][1] /\ 1 \in 1 .. Len(accesses[f])
    <3>1. history[f][1] = accesses[f][1]
      BY <1>5, <2>1
    <3> QED BY <3>1, <1>2, <1>4
  <2> QED BY <1>1, <1>4, <1>6, <2>1, <2>2
<1>7. CASE ~Infinite(f)
  <2>1. /\ Len(accesses[f]) - Len(history[f]) + 1 = Len(accesses[f]) - K + 1
        /\ Len(history[f]) = K
        /\ Len(accesses[f]) - K + 1 \in 1 .. Len(accesses[f])
    BY <1>2, <1>3, <1>7 DEF Infinite
  <2>2. Head(history[f]) = KthRecent(f)
    BY <1>4, <1>5, <2>1 DEF KthRecent
  <2> QED BY <1>1, <1>4, <1>5, <1>7, <2>1, <2>2, SMTT(30)
<1> QED BY <1>6, <1>7

LEMMA OldestTimesDiffer ==
  ASSUME LogInv, NEW f \in evictable, NEW g \in evictable, f # g
  PROVE  Head(history[f]) # Head(history[g])
<1>1. PICK i \in 1 .. Len(accesses[f]) : Head(history[f]) = accesses[f][i]
  BY OldestTime
<1>2. PICK j \in 1 .. Len(accesses[g]) : Head(history[g]) = accesses[g][j]
  BY OldestTime
<1>3. f \in Frames /\ g \in Frames
  BY OldestTime
<1> QED BY <1>1, <1>2, <1>3 DEF LogInv, TimesInv

(* The definition of LRU-K in terms of the oldest times.                   *)
LEMMA GoesBeforeIs ==
  ASSUME LogInv, NEW f \in evictable, NEW g \in evictable, f # g
  PROVE  GoesBefore(f, g) <=>
           \/ Infinite(f) /\ ~Infinite(g)
           \/ (Infinite(f) <=> Infinite(g)) /\ Head(history[f]) <= Head(history[g])
<1>1. /\ Head(history[f]) \in Nat /\ Head(history[g]) \in Nat
      /\ Head(history[f]) # Head(history[g])
  BY OldestTime, OldestTimesDiffer
<1>2. /\ Infinite(f) => Head(history[f]) = Head(accesses[f])
      /\ ~Infinite(f) => Head(history[f]) = KthRecent(f)
      /\ Infinite(g) => Head(history[g]) = Head(accesses[g])
      /\ ~Infinite(g) => Head(history[g]) = KthRecent(g)
  BY OldestTime
<1> QED BY <1>1, <1>2 DEF GoesBefore

LEMMA VictimsAre ==
  ASSUME LogInv
  PROVE  VictimHasLargestKDistance
<1> DEFINE young == {f \in evictable : Len(history[f]) < K}
<1>1. \A f \in evictable : f \in young <=> Infinite(f)
  BY OldestTime
<1>2. \A f \in evictable : Head(history[f]) \in Nat
  BY OldestTime
<1>3. \A f, g \in evictable : f # g =>
        (GoesBefore(f, g) <=> \/ f \in young /\ g \notin young
                              \/ (f \in young <=> g \in young) /\ Head(history[f]) <= Head(history[g]))
  BY <1>1, GoesBeforeIs
<1>4. young \subseteq evictable
  OBVIOUS
<1>5. Contenders(history, evictable) = IF young # {} THEN young ELSE evictable
  BY DEF Contenders
<1> HIDE DEF young
<1>6. CASE young # {}
  <2>1. Victims(history, evictable) = {f \in young : \A g \in young : Head(history[f]) <= Head(history[g])}
    BY <1>5, <1>6 DEF Victims
  <2>2. ASSUME NEW f \in evictable
        PROVE  (f \in young /\ \A g \in young : Head(history[f]) <= Head(history[g]))
                 <=> \A g \in evictable \ {f} : GoesBefore(f, g)
    <3>1. CASE f \in young
      BY <3>1, <1>2, <1>3, <1>4
    <3>2. CASE f \notin young
      <4>1. PICK g \in young : TRUE
        BY <1>6
      <4>2. g \in evictable \ {f} /\ ~GoesBefore(f, g)
        BY <3>2, <4>1, <1>3, <1>4
      <4> QED BY <3>2, <4>2
    <3> QED BY <3>1, <3>2
  <2> QED BY <2>1, <2>2, <1>4 DEF VictimHasLargestKDistance
<1>7. CASE young = {}
  <2>1. Victims(history, evictable) =
          {f \in evictable : \A g \in evictable : Head(history[f]) <= Head(history[g])}
    BY <1>5, <1>7 DEF Victims
  <2>2. ASSUME NEW f \in evictable
        PROVE  (\A g \in evictable : Head(history[f]) <= Head(history[g]))
                 <=> \A g \in evictable \ {f} : GoesBefore(f, g)
    BY <1>2, <1>3, <1>7
  <2> QED BY <2>1, <2>2 DEF VictimHasLargestKDistance
<1> QED BY <1>6, <1>7

LEMMA Smallest ==
  ASSUME NEW T \in SUBSET Nat, T # {}
  PROVE  \E m \in T : \A n \in T : m <= n
<1> DEFINE Less == {p \in Nat \X Nat : p[1] < p[2]}
<1>1. \A m, n \in Nat : <<m, n>> \in Less <=> m < n
  OBVIOUS
<1>2. IsWellFoundedOn(Less, Nat)
  BY NatLessThanWellFounded DEF OpToRel
<1> HIDE DEF Less
<1>3. PICK m \in T : \A n \in T : <<n, m>> \notin Less
  BY <1>2, WFMin
<1>4. \A n \in T : m <= n
  <2> TAKE n \in T
  <2>1. ~(n < m)
    BY <1>1, <1>3
  <2> QED BY <2>1
<1> QED BY <1>4

LEMMA OneVictim ==
  ASSUME LogInv, evictable # {}
  PROVE  \E f : Victims(history, evictable) = {f}
<1> DEFINE C == Contenders(history, evictable)
           T == {Head(history[f]) : f \in C}
<1>1. C \subseteq evictable /\ C # {}
  BY DEF Contenders
<1>2. \A f \in C : Head(history[f]) \in Nat
  BY <1>1, OldestTime
<1>3. \A f, g \in C : Head(history[f]) = Head(history[g]) => f = g
  BY <1>1, OldestTimesDiffer
<1>4. Victims(history, evictable) = {f \in C : \A g \in C : Head(history[f]) <= Head(history[g])}
  BY DEF Victims
<1> HIDE DEF C
<1>5. T \in SUBSET Nat /\ T # {}
  BY <1>1, <1>2
<1>6. PICK m \in T : \A n \in T : m <= n
  BY <1>5, Smallest
<1>7. PICK f \in C : \A g \in C : Head(history[f]) <= Head(history[g])
  BY <1>6
<1>8. \A g \in C : (\A h \in C : Head(history[g]) <= Head(history[h])) => g = f
  BY <1>2, <1>3, <1>7
<1> QED BY <1>4, <1>7, <1>8

(* evict() takes the frame of the greatest backward K-distance, by the     *)
(* complete log of accesses, although record_access keeps K of them.       *)
THEOREM VictimIsLRUK == Spec => []VictimHasLargestKDistance
BY LogInvariant, VictimsAre, PTL

(* Whenever a frame is evictable there is exactly one that evict() may     *)
(* choose: the order in which it goes through a Python set is immaterial.  *)
THEOREM VictimStaysUnique == Spec => []VictimIsUnique
<1>1. LogInv => VictimIsUnique
  BY OneVictim, FS_Singleton DEF VictimIsUnique
<1> QED BY <1>1, LogInvariant, PTL

(* The clock never leaves its bound, for the guard of record_access.       *)
ClockInv == current_time <= MaxTime

(* The replacer's state has its type: a deque of at most K times per frame,*)
(* and a non-empty one for every frame that evict() looks at.              *)
THEOREM ReplacerTypeCorrect == Spec => []TypeOK
<1>1. Init => ClockInv
  BY TimeAssumption DEF Init, ClockInv
<1>2. (LogInv /\ ClockInv) /\ [Next]_vars => ClockInv'
  <2> SUFFICES ASSUME LogInv, ClockInv, [Next]_vars PROVE ClockInv'
    OBVIOUS
  <2>1. current_time' # current_time =>
          current_time < MaxTime /\ current_time' = current_time + 1
    <3>1. ASSUME NEW f \in Frames, record_access(f)
          PROVE  current_time < MaxTime /\ current_time' = current_time + 1
      BY <3>1 DEF record_access
    <3>2. ASSUME NEW f \in Frames, NEW flag \in BOOLEAN, set_evictable(f, flag)
          PROVE  current_time' = current_time
      BY <3>2 DEF set_evictable
    <3>3. CASE evict
      BY <3>3 DEF evict
    <3>4. CASE UNCHANGED vars
      BY <3>4 DEF vars
    <3> QED BY <3>1, <3>2, <3>3, <3>4 DEF Next
  <2>2. current_time \in Nat
    BY DEF LogInv, Shapes
  <2> QED BY <2>1, <2>2, TimeAssumption DEF ClockInv
<1>3. LogInv /\ ClockInv => TypeOK
  <2> SUFFICES ASSUME LogInv, ClockInv PROVE TypeOK
    OBVIOUS
  <2>1. /\ current_time \in 0 .. MaxTime /\ evictable \subseteq Frames
        /\ history \in [Frames -> Seq(Nat)] /\ accesses \in [Frames -> Seq(Nat)]
    BY TimeAssumption DEF LogInv, Shapes, ClockInv, Init
  <2>2. ASSUME NEW f \in Frames
        PROVE  history[f] \in UNION {[1 .. n -> 0 .. MaxTime] : n \in 0 .. K}
    <3>1. /\ history[f] \in Seq(Nat) /\ accesses[f] \in Seq(Nat)
          /\ IsEndOf(history[f], accesses[f])
      BY <2>1 DEF LogInv, HistoryInv
    <3>2. Len(history[f]) \in 0 .. K /\ Len(history[f]) <= Len(accesses[f])
      BY <3>1, KAssumption DEF IsEndOf
    <3>3. ASSUME NEW i \in 1 .. Len(history[f]) PROVE history[f][i] \in 0 .. MaxTime
      <4> DEFINE j == Len(accesses[f]) - Len(history[f]) + i
      <4>1. j \in 1 .. Len(accesses[f])
        <5>1. \A m, n \in Nat : \A k \in 1 .. m : m <= n => n - m + k \in 1 .. n
          OBVIOUS
        <5>2. Len(history[f]) \in Nat /\ Len(accesses[f]) \in Nat
          BY <3>1, LenProperties
        <5>3. Len(history[f]) <= Len(accesses[f])
          BY <3>2
        <5> QED BY <5>1, <5>2, <5>3
      <4>2. history[f][i] = accesses[f][j] /\ accesses[f][j] \in Nat
        BY <3>1, <4>1 DEF IsEndOf
      <4>3. accesses[f][j] < current_time
        BY <4>1 DEF LogInv, TimesInv
      <4>4. history[f][i] \in Nat /\ history[f][i] < current_time
        BY <4>2, <4>3
      <4>5. current_time \in Nat /\ current_time <= MaxTime
        BY DEF LogInv, Shapes, ClockInv
      <4> HIDE DEF j
      <4> QED BY <4>4, <4>5, TimeAssumption
    <3>4. history[f] \in [1 .. Len(history[f]) -> 0 .. MaxTime]
      <4>1. history[f] \in [1 .. Len(history[f]) -> Nat]
        BY <3>1, LenProperties
      <4> QED BY <3>3, <4>1
    <3> QED BY <3>2, <3>4
  <2>3. ASSUME NEW f \in evictable PROVE history[f] # <<>>
    <3>1. /\ history[f] \in Seq(Nat) /\ accesses[f] \in Seq(Nat)
          /\ IsEndOf(history[f], accesses[f]) /\ accesses[f] # <<>>
      BY <2>1 DEF LogInv, HistoryInv, EvictableInv
    <3>2. Len(accesses[f]) # 0
      BY <3>1, EmptySeq
    <3>3. Len(history[f]) # 0
      BY <3>1, <3>2, KAssumption DEF IsEndOf
    <3> QED BY <3>3
  <2> QED BY <2>1, <2>2, <2>3 DEF TypeOK
<1> QED BY <1>1, <1>2, <1>3, LogInvariant, PTL DEF Spec
=============================================================================
