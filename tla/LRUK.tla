-------------------------------- MODULE LRUK --------------------------------
(***************************************************************************)
(* The LRU-K replacement algorithm of buffer/lru_k_replacer.py as          *)
(* operators on values: what one access does to a frame's history, and     *)
(* which frames evict() may choose.  LRUKReplacer is the class as a state  *)
(* machine of its own; BufferPool uses the same operators inside its pool. *)
(***************************************************************************)
EXTENDS Integers, Sequences

CONSTANT K      \* accesses remembered per frame (2 in the code)

ASSUME KAssumption == K \in Nat \ {0}

(* deque(maxlen=K).append(t): a full deque drops its oldest element. *)
Remember_Unbounded(q, t) == Append(q, t)
Remember(q, t) ==
  IF Len(q) < K THEN Append(q, t) ELSE Append(Tail(q), t)

(* The frames the loop of evict() keeps in play: as soon as one candidate  *)
(* has fewer than K accesses, frames with a full history no longer count.  *)
Contenders_FullHistoryFirst(history, evictable) ==
  LET full == {f \in evictable : Len(history[f]) = K}
  IN  IF full # {} THEN full ELSE evictable
Contenders(history, evictable) ==
  LET young == {f \in evictable : Len(history[f]) < K}
  IN  IF young # {} THEN young ELSE evictable

(* The frames evict() may return.  The loop keeps the contender with the   *)
(* smallest queue[0]; on equal times the winner depends on the iteration   *)
(* order of a Python set, hence a set of results.                          *)
Victims(history, evictable) ==
  LET C == Contenders(history, evictable)
  IN  {f \in C : \A g \in C : Head(history[f]) <= Head(history[g])}
=============================================================================
