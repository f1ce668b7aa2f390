---------------------------- MODULE LRUKReplacer ----------------------------
(***************************************************************************)
(* class LRUKReplacer (buffer/lru_k_replacer.py) on its own, driven by any *)
(* caller that records an access before it makes a frame evictable, as     *)
(* BufferPoolManager does.                                                 *)
(***************************************************************************)
EXTENDS LRUK, FiniteSets

CONSTANTS
  Frames,       \* frame ids (range(NUM_FRAMES) in the code)
  MaxTime       \* bound on current_time, for model checking only

ASSUME TimeAssumption == MaxTime \in Nat

VARIABLES
  history,      \* frame -> the times of its last K accesses, oldest first
  evictable,    \* frames that may be chosen
  current_time, \* logical clock, one tick per recorded access
  accesses      \* history variable: EVERY access since the frame was last
                \* evicted, which the code does not keep

vars == <<history, evictable, current_time, accesses>>

Init ==
  /\ history = [f \in Frames |-> <<>>]
  /\ evictable = {}
  /\ current_time = 0
  /\ accesses = [f \in Frames |-> <<>>]

record_access_NoTick(f) ==
  /\ Len(accesses[f]) < MaxTime
  /\ history' = [history EXCEPT ![f] = Remember(@, current_time)]
  /\ accesses' = [accesses EXCEPT ![f] = Append(@, current_time)]
  /\ UNCHANGED <<evictable, current_time>>
record_access(f) ==
  /\ current_time < MaxTime
  /\ history' = [history EXCEPT ![f] = Remember(@, current_time)]
  /\ current_time' = current_time + 1
  /\ accesses' = [accesses EXCEPT ![f] = Append(@, current_time)]
  /\ UNCHANGED evictable

set_evictable(f, flag) ==
  /\ flag => accesses[f] # <<>>
  /\ evictable' = IF flag THEN evictable \cup {f} ELSE evictable \ {f}
  /\ UNCHANGED <<history, current_time, accesses>>

(* The evicted frame starts over with an empty history. *)
Forget(h, f) == [h EXCEPT ![f] = <<>>]

evict ==
  /\ evictable # {}
  /\ \E f \in Victims(history, evictable) :
       /\ evictable' = evictable \ {f}
       /\ history' = Forget(history, f)
       /\ accesses' = [accesses EXCEPT ![f] = <<>>]
  /\ UNCHANGED current_time

Next ==
  \/ \E f \in Frames : record_access(f)
  \/ \E f \in Frames, flag \in BOOLEAN : set_evictable(f, flag)
  \/ evict

Spec == Init /\ [][Next]_vars
-----------------------------------------------------------------------------
(* The type of the replacer's state: a history never holds more than K     *)
(* times, and only frames with a history are evictable (evict() reads      *)
(* queue[0] of each of them).                                              *)
TypeOK ==
  /\ history \in [Frames -> UNION {[1..n -> 0..MaxTime] : n \in 0..K}]
  /\ evictable \subseteq Frames
  /\ current_time \in 0..MaxTime
  /\ \A f \in evictable : history[f] # <<>>

(* LRU-K by its definition, on the complete access log: the backward       *)
(* K-distance of a frame is infinite while it has fewer than K accesses,   *)
(* otherwise it is measured from its K-th most recent access; among        *)
(* infinite distances the frame first accessed earliest goes first.        *)
KthRecent(f) == accesses[f][Len(accesses[f]) - K + 1]
Infinite(f) == Len(accesses[f]) < K
GoesBefore(f, g) ==
  \/ Infinite(f) /\ ~Infinite(g)
  \/ Infinite(f) /\ Infinite(g) /\ Head(accesses[f]) < Head(accesses[g])
  \/ ~Infinite(f) /\ ~Infinite(g) /\ KthRecent(f) < KthRecent(g)

(* What evict() returns from its truncated histories is exactly the frame  *)
(* with the largest backward K-distance according to the full log, in      *)
(* every reachable state and whatever subset of frames is evictable.       *)
VictimHasLargestKDistance ==
  Victims(history, evictable) =
    {f \in evictable : \A g \in evictable \ {f} : GoesBefore(f, g)}

(* The victim never depends on the iteration order of the Python set that  *)
(* evict() loops over: there is always exactly one, when there is any.     *)
VictimIsUnique ==
  evictable # {} => Cardinality(Victims(history, evictable)) = 1
=============================================================================
