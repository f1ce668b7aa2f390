------------------------------ MODULE PageStore ------------------------------
(***************************************************************************)
(* What the buffer pool promises to HeapFile and BPlusTree, with nothing   *)
(* about frames, pins counts, replacement or dirty flags: a page has ONE   *)
(* current content, changed only by a caller that has the page pinned; the *)
(* durable copy of a page may trail behind it, and becomes the current     *)
(* content again when the process is restarted.                            *)
(***************************************************************************)
EXTENDS Naturals

CONSTANTS
  Files, MaxPages,  \* page <<file_id, page_id>> has page_id < MaxPages
  Versions,         \* contents a caller may write; 0 is the zero-filled page
  Handles,          \* references to page bytes that callers may hold
  NoPage

Pages == Files \X (0 .. MaxPages - 1)
Content == [page : Pages, version : Versions]
Blank == [p \in Pages |-> [page |-> p, version |-> 0]]

VARIABLES
  store,    \* page -> its current content
  saved,    \* page -> the content that survives a crash
  hpage,    \* handle -> the page it was fetched for
  mode,     \* handle -> "closed", "pinned" or "released"
  wrote     \* pinned handles with a modification not reported to the pool

vars == <<store, saved, hpage, mode, wrote>>

Init ==
  /\ store = Blank
  /\ saved = Blank
  /\ hpage = [h \in Handles |-> NoPage]
  /\ mode = [h \in Handles |-> "closed"]
  /\ wrote = {}

(* The pool may save the current content of any pages at any time.         *)
Saved(P) == [p \in Pages |-> IF p \in P THEN store[p] ELSE saved[p]]
SaveSome == \E P \in SUBSET Pages : saved' = Saved(P)

Open(h, p) ==
  /\ mode[h] = "closed"
  /\ mode' = [mode EXCEPT ![h] = "pinned"]
  /\ hpage' = [hpage EXCEPT ![h] = p]
  /\ SaveSome
  /\ UNCHANGED <<store, wrote>>

Modify(h, v) ==
  /\ mode[h] = "pinned"
  /\ store' = [store EXCEPT ![hpage[h]] = [page |-> hpage[h], version |-> v]]
  /\ wrote' = wrote \cup {h}
  /\ UNCHANGED <<saved, hpage, mode>>

Release(h) ==
  /\ mode[h] = "pinned"
  /\ mode' = [mode EXCEPT ![h] = "released"]
  /\ wrote' = wrote \ {h}
  /\ SaveSome
  /\ UNCHANGED <<store, hpage>>

Drop(h) ==
  /\ mode[h] = "released"
  /\ mode' = [mode EXCEPT ![h] = "closed"]
  /\ hpage' = [hpage EXCEPT ![h] = NoPage]
  /\ UNCHANGED <<store, saved, wrote>>

Save == SaveSome /\ UNCHANGED <<store, hpage, mode, wrote>>

(* The process ends, after or without saving, and a new one starts on what *)
(* was saved.                                                              *)
Restart ==
  /\ SaveSome
  /\ store' = saved'
  /\ hpage' = [h \in Handles |-> NoPage]
  /\ mode' = [h \in Handles |-> "closed"]
  /\ wrote' = {}

Next ==
  \/ \E h \in Handles, p \in Pages : Open(h, p)
  \/ \E h \in Handles, v \in Versions : Modify(h, v)
  \/ \E h \in Handles : Release(h) \/ Drop(h)
  \/ Save
  \/ Restart

Spec == Init /\ [][Next]_vars
=============================================================================
