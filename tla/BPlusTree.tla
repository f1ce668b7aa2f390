----------------------------- MODULE BPlusTree ------------------------------
(***************************************************************************)
(* class BPlusTree (index/b_tree.py) over pages whose current content is   *)
(* the buffer pool's (PageStore).  A method that splits nodes is a chain   *)
(* of calls; each call is a step, and between two of them the tree is in   *)
(* the state the next one finds.                                           *)
(***************************************************************************)
EXTENDS BTreePage, Bags

CONSTANTS
  SearchKeys,   \* keys that callers use
  Deletable,    \* those of them that callers delete, a bound
  ScanKeys,     \* those of them that bound the range scans, a bound as well
  Copies,       \* 1 .. n: at most n rows with the same key at a time
  MaxPages,     \* bound on the pages of the index file
  Restarts      \* whether the process may be restarted, a bound as well

ASSUME TreeAssumption ==
  /\ Restarts \in BOOLEAN
  /\ SearchKeys \subseteq Int
  /\ Deletable \subseteq SearchKeys /\ ScanKeys \subseteq SearchKeys
  /\ Copies \subseteq Nat \ {0}
  /\ MaxPages \in Nat

VARIABLES
  nodes,        \* pages 1 and up, as sequence: the content they would be read with
  metadata,     \* page 0: root_page_id and num_keys
  root_page_id, num_keys,   \* the object's own attributes
  pc,           \* the call in progress, "idle" between operations
  path,         \* page ids from the root to the leaf (_find_leaf)
  held,         \* the node being split: its page and its changed content
  split,        \* arguments of the next call: nodes, separator, position
  pinned,       \* the pages that calls have pinned, a bag: page id -> pin_count
  rows          \* history variable: the pairs callers have inserted and
                \*   not deleted

call == <<pc, path, held, split>>
vars == <<nodes, metadata, root_page_id, num_keys, call, pinned, rows>>

NoNode == [page |-> 0, node |-> Leaf(<<>>, NoLeaf, NoLeaf)]
NoSplit == [node |-> 0, new |-> 0, separator |-> 0, idx |-> 0]

(* BufferPoolManager on the pin counts: unpin_page of a page that nobody   *)
(* has pinned changes nothing.                                             *)
fetch_page(pins, p) == pins (+) SetToBag({p})
unpin_page(pins, p) == pins (-) SetToBag({p})
Used(pins, p) == unpin_page(fetch_page(pins, p), p)

(* __init__ with new_index: page 0 is written, then page 1.                *)
Init ==
  /\ nodes = <<Leaf(<<>>, NoLeaf, NoLeaf)>>
  /\ metadata = [root_page_id |-> 1, num_keys |-> 0]
  /\ root_page_id = 1
  /\ num_keys = 0
  /\ pc = "idle"
  /\ path = <<>>
  /\ held = NoNode
  /\ split = NoSplit
  /\ pinned = Used(Used(EmptyBag, 0), 1)
  /\ rows = {}
-----------------------------------------------------------------------------
PageIds == 1 .. Len(nodes)
Leaves == {p \in PageIds : nodes[p].is_leaf}

(* The child to follow: right of the last separator below the key.         *)
Child_AtOrBelow(node, key) ==
  node.pointers[1 + Max({i \in DOMAIN node.keys : key >= node.keys[i]} \cup {0})]
Child(node, key) ==
  node.pointers[1 + Max({i \in DOMAIN node.keys : key > node.keys[i]} \cup {0})]

(* _find_leaf.                                                             *)
PathTo(key) ==
  LET down[p \in PageIds] ==
        IF nodes[p].is_leaf THEN <<p>>
        ELSE <<p>> \o down[Child(nodes[p], key)]
  IN  down[root_page_id]
LeafOf(key) == Last(PathTo(key))

(* _find_leftmost_leaft.                                                   *)
LeftmostPath ==
  LET down[p \in PageIds] ==
        IF nodes[p].is_leaf THEN <<p>> ELSE <<p>> \o down[nodes[p].pointers[1]]
  IN  down[root_page_id]
Leftmost == Last(LeftmostPath)

(* search and delete leave the chain of leaves behind a greater key.       *)
Passed_AtKey(leaf, key) ==
  leaf.entries # <<>> /\ Last(leaf.entries)[1] >= key
Passed(leaf, key) == leaf.entries # <<>> /\ Last(leaf.entries)[1] > key
Stops(leaf, key) == Passed(leaf, key) \/ leaf.next_leaf <= 0

search(key) ==
  LET along[p \in Leaves] ==
        IF Stops(nodes[p], key) THEN lookup(nodes[p], key)
        ELSE lookup(nodes[p], key) \o along[nodes[p].next_leaf]
  IN  along[LeafOf(key)]

(* range_scan, both bounds inclusive: one leaf, and the leaves from p on.  *)
InRange_HalfOpen(leaf, lo, hi) == Picked(Reach(leaf, hi), lo .. hi - 1)
InRange(leaf, lo, hi) == Picked(Reach(leaf, hi), lo .. hi)
Beyond(leaf, lo, hi) ==
  \E i \in DOMAIN leaf.entries :
    lo <= leaf.entries[i][1] /\ hi < leaf.entries[i][1]
ScanFrom(first, lo, hi) ==
  LET along[p \in Leaves] ==
        IF Beyond(nodes[p], lo, hi) \/ nodes[p].next_leaf <= 0
        THEN InRange(nodes[p], lo, hi)
        ELSE InRange(nodes[p], lo, hi) \o along[nodes[p].next_leaf]
  IN  RidsOf(along[first])
range_scan(lo, hi) == ScanFrom(LeafOf(lo), lo, hi)

(* Both bounds None: from the leftmost leaf to the end of the chain.       *)
full_scan == ScanFrom(Leftmost, Min(SearchKeys), Max(SearchKeys))

(* The leaves that the three loops over the chain fetch, up to the one     *)
(* that they leave it at.                                                  *)
LeavesTo(ends, first) ==
  LET along[p \in Leaves] ==
        IF p \in ends THEN <<p>> ELSE <<p>> \o along[nodes[p].next_leaf]
  IN  along[first]
Searched(key) == LeavesTo({p \in Leaves : Stops(nodes[p], key)}, LeafOf(key))
Scanned(first, lo, hi) ==
  LeavesTo({p \in Leaves : Beyond(nodes[p], lo, hi) \/ nodes[p].next_leaf <= 0}, first)
Tried(key, rid) ==
  LeavesTo({p \in Leaves : Holds(nodes[p], key, rid) \/ Stops(nodes[p], key)}, LeafOf(key))

(* Down the path and along the chain each page is unpinned before the next *)
(* one is fetched; the last one stays pinned.                              *)
Walked(pins, pages) ==
  LET at[i \in 1 .. Len(pages)] ==
        IF i = 1 THEN fetch_page(pins, pages[1])
        ELSE fetch_page(unpin_page(at[i - 1], pages[i - 1]), pages[i])
  IN  at[Len(pages)]
-----------------------------------------------------------------------------
(* The content a page has for the calls in progress, and the leaf chain;   *)
(* what the index holds is what its leaves hold.                           *)
Content(p) == IF p = held.page THEN held.node ELSE nodes[p]
Chain ==
  LET along[p \in Leaves] ==
        IF nodes[p].next_leaf <= 0 THEN <<p>>
        ELSE <<p>> \o along[nodes[p].next_leaf]
  IN  along[Leftmost]
Contents ==
  UNION {ToSet(Content(Chain[i]).entries) : i \in DOMAIN Chain}

(* The next row with a key: rows are told apart by a number, in the order  *)
(* in which they are inserted.                                             *)
NextRid(key) ==
  <<key, 1 + Max({n \in Copies : <<key, <<key, n>>>> \in rows} \cup {0})>>

Idle == pc = "idle"
Return == pc' = "idle" /\ path' = <<>> /\ held' = NoNode /\ split' = NoSplit
Room == Len(nodes) < MaxPages - 1
NewPage == Len(nodes) + 1

Insert(key) ==
  LET to == PathTo(key)
      p == Last(to)
      leaf == insert(nodes[p], key, NextRid(key))
      pins == Walked(pinned, to)
  IN  /\ Idle
      /\ NextRid(key)[2] \in Copies
      /\ num_keys' = num_keys + 1
      /\ rows' = rows \cup {<<key, NextRid(key)>>}
      /\ IF is_overflow(leaf)
         THEN /\ pc' = "split_leaf"
              /\ path' = to
              /\ held' = [page |-> p, node |-> leaf]
              /\ pinned' = pins
              /\ UNCHANGED <<nodes, split>>
         ELSE /\ nodes' = [nodes EXCEPT ![p] = leaf]
              /\ Return
              /\ pinned' = unpin_page(pins, p)
      /\ UNCHANGED <<metadata, root_page_id>>

(* The leaf on the right learns of its new neighbour.                      *)
Neighbour_NotTold(ns, next, new) == ns
Neighbour(ns, next, new) ==
  IF next > 0 THEN [ns EXCEPT ![next].prev_leaf = new] ELSE ns
Told(pins, next) == IF next > 0 THEN Used(pins, next) ELSE pins

(* The end of a split: the node and the new one are written and unpinned.  *)
Parted_NewKept(pins) == unpin_page(pins, held.page)
Parted(pins) == unpin_page(unpin_page(pins, held.page), NewPage)

_split_leaf ==
  LET leaf == held.node
      n == Half(leaf)
      low == Leaf(UpTo(leaf.entries, n), leaf.prev_leaf, NewPage)
      high == Leaf(From(leaf.entries, n + 1), held.page, leaf.next_leaf)
      key == high.entries[1][1]
      idx == Len(path) - 1
  IN  /\ pc = "split_leaf" /\ Room
      /\ nodes' = Append([Neighbour(nodes, leaf.next_leaf, NewPage)
                            EXCEPT ![held.page] = low], high)
      /\ pinned' = Parted(Told(fetch_page(pinned, NewPage), leaf.next_leaf))
      /\ held' = NoNode
      /\ IF idx >= 1
         THEN /\ pc' = "update_parent"
              /\ split' = [node |-> held.page, new |-> NewPage,
                           separator |-> 0, idx |-> idx]
         ELSE /\ pc' = "split_root"
              /\ split' = [node |-> held.page, new |-> NewPage,
                           separator |-> key, idx |-> 0]
      /\ UNCHANGED <<path, metadata, root_page_id, num_keys, rows>>

(* `separator if separator else new_node.keys[0]`: None, passed for a      *)
(* leaf, and the number 0 are alike here, and 0 stands for both.           *)
Separator_Ignored == Keys(nodes[split.new])[1]
Separator ==
  IF split.separator # 0 THEN split.separator ELSE Keys(nodes[split.new])[1]

(* The node that gets the new pointer, on the path down to the leaf.       *)
Parent_Root(idx) == path[1]
Parent(idx) == path[idx]

_update_parent ==
  LET p == Parent(split.idx)
      node == insert_pointer(nodes[p], Separator, split.new)
      pins == fetch_page(pinned, p)
  IN  /\ pc = "update_parent"
      /\ IF is_overflow(node)
         THEN /\ pc' = "split_internal"
              /\ held' = [page |-> p, node |-> node]
              /\ pinned' = pins
              /\ UNCHANGED <<nodes, path, split>>
         ELSE /\ nodes' = [nodes EXCEPT ![p] = node]
              /\ Return
              /\ pinned' = unpin_page(pins, p)
      /\ UNCHANGED <<metadata, root_page_id, num_keys, rows>>

_split_internal ==
  LET node == held.node
      n == Half(node)
      low == Inner(UpTo(node.keys, n), UpTo(node.pointers, n + 1))
      high == Inner(From(node.keys, n + 2), From(node.pointers, n + 2))
  IN  /\ pc = "split_internal" /\ Room
      /\ nodes' = Append([nodes EXCEPT ![held.page] = low], high)
      /\ pinned' = Parted(fetch_page(pinned, NewPage))
      /\ held' = NoNode
      /\ split' = [node |-> held.page, new |-> NewPage,
                   separator |-> node.keys[n + 1], idx |-> split.idx - 1]
      /\ pc' = IF split.idx = 1 THEN "split_root" ELSE "update_parent"
      /\ UNCHANGED <<path, metadata, root_page_id, num_keys, rows>>

(* _write_metadata after the root has moved to page p.                     *)
Header_OldRoot(p) == [root_page_id |-> root_page_id, num_keys |-> num_keys]
Header(p) == [root_page_id |-> p, num_keys |-> num_keys]

_split_root ==
  /\ pc = "split_root" /\ Room
  /\ nodes' = Append(nodes, insert_pointer(Inner(<<>>, <<split.node>>),
                                           split.separator, split.new))
  /\ root_page_id' = NewPage
  /\ metadata' = Header(NewPage)
  /\ pinned' = Used(Used(pinned, NewPage), 0)
  /\ Return
  /\ UNCHANGED <<num_keys, rows>>
-----------------------------------------------------------------------------
(* The leaf where delete finds the pair, 0 when it gives up before.        *)
HolderOf(key, rid) ==
  LET p == Last(Tried(key, rid))
  IN  IF Holds(nodes[p], key, rid) THEN p ELSE 0
PinsOfDelete(key, rid) == Walked(pinned, PathTo(key) \o Tail(Tried(key, rid)))

(* Lines 225-239 with a pair that is found; _write_metadata packs num_keys *)
(* as an unsigned number.                                                  *)
Delete(key, rid) ==
  LET p == HolderOf(key, rid)
  IN  /\ Idle
      /\ p # 0
      /\ num_keys > 0
      /\ nodes' = [nodes EXCEPT ![p] = remove_key(@, key, rid)]
      /\ num_keys' = num_keys - 1
      /\ metadata' = [root_page_id |-> root_page_id, num_keys |-> num_keys - 1]
      /\ rows' = rows \ {<<key, rid>>}
      /\ pinned' = unpin_page(Used(PinsOfDelete(key, rid), 0), p)
      /\ UNCHANGED <<root_page_id, call>>

(* ... and raises when it is negative, with the leaf and page 0 pinned.    *)
(* What a caller does with the tree after that is not modelled.            *)
DeleteRaises(key, rid) ==
  LET p == HolderOf(key, rid)
  IN  /\ Idle
      /\ p # 0
      /\ num_keys = 0
      /\ nodes' = [nodes EXCEPT ![p] = remove_key(@, key, rid)]
      /\ num_keys' = -1
      /\ rows' = rows \ {<<key, rid>>}
      /\ pinned' = fetch_page(PinsOfDelete(key, rid), 0)
      /\ pc' = "raised"
      /\ UNCHANGED <<metadata, root_page_id, path, held, split>>

(* ... with a pair that is not found, and the calls that only read: what   *)
(* they do to the pins.  range_scan ends at a key beyond its bounds or     *)
(* with the chain; without a bound it goes by the least or greatest key.   *)
tree == <<nodes, metadata, root_page_id, num_keys, call, rows>>
DeleteMisses(key, rid) ==
  /\ Idle
  /\ HolderOf(key, rid) = 0
  /\ pinned' = unpin_page(PinsOfDelete(key, rid), Last(Tried(key, rid)))
  /\ UNCHANGED tree

Search(key) ==
  LET leaves == Searched(key)
  IN  /\ Idle
      /\ pinned' = unpin_page(Walked(pinned, PathTo(key) \o Tail(leaves)), Last(leaves))
      /\ UNCHANGED tree

Left_WithinOnly(pins, p, lo, hi) ==
  IF Beyond(nodes[p], lo, hi) THEN pins ELSE unpin_page(pins, p)
Left(pins, p, lo, hi) == unpin_page(pins, p)
RangeScan(to, lo, hi) ==
  LET leaves == Scanned(Last(to), lo, hi)
  IN  /\ Idle
      /\ pinned' = Left(Walked(pinned, to \o Tail(leaves)), Last(leaves), lo, hi)
      /\ UNCHANGED tree

(* Orderly shutdown and restart: every node is in the file, the object is  *)
(* made anew by _read_metadata.                                            *)
Reopen ==
  /\ Idle /\ Restarts
  /\ root_page_id' = metadata.root_page_id
  /\ num_keys' = metadata.num_keys
  /\ pinned' = Used(EmptyBag, 0)
  /\ UNCHANGED <<nodes, metadata, call, rows>>

AllRids == {<<key, n>> : key \in SearchKeys, n \in Copies}
Splits == _split_leaf \/ _update_parent \/ _split_internal \/ _split_root
Deletes ==
  \E key \in Deletable, n \in Copies :
    \/ Delete(key, <<key, n>>) \/ DeleteRaises(key, <<key, n>>)
    \/ DeleteMisses(key, <<key, n>>)
Inserts == \E key \in SearchKeys : Insert(key)
Reads ==
  \/ \E key \in SearchKeys : Search(key)
  \/ \E lo, hi \in ScanKeys : RangeScan(PathTo(lo), lo, hi)
  \/ \E hi \in ScanKeys : RangeScan(LeftmostPath, Min(SearchKeys), hi)

Next == Inserts \/ Splits \/ Deletes \/ Reads \/ Reopen
Spec == Init /\ [][Next]_vars
-----------------------------------------------------------------------------
EntryType == SearchKeys \X AllRids
IsNode(node) ==
  IF node.is_leaf
  THEN /\ node.entries \in Seq(EntryType)
       /\ node.prev_leaf \in PageIds \cup {NoLeaf}
       /\ node.next_leaf \in PageIds \cup {NoLeaf}
  ELSE /\ node.keys \in Seq(SearchKeys)
       /\ node.pointers \in Seq(PageIds)
       /\ Len(node.pointers) = Len(node.keys) + 1

(* The type of the tree; a node in the file never has more than ORDER      *)
(* keys, so that its serialized form fits the page.                        *)
TypeOK ==
  /\ \A p \in PageIds : IsNode(nodes[p]) /\ Len(Keys(nodes[p])) <= ORDER
  /\ metadata.root_page_id \in PageIds /\ metadata.num_keys \in Nat
  /\ root_page_id \in PageIds
  /\ num_keys \in Nat \cup {-1}
  /\ pc \in {"idle", "split_leaf", "update_parent", "split_internal",
             "split_root", "raised"}
  /\ path \in Seq(PageIds)
  /\ IsNode(held.node)
  /\ IsABag(pinned) /\ DOMAIN pinned \subseteq 0 .. Len(nodes)

RowsOf(key) == {e[2] : e \in {f \in rows : f[1] = key}}
Exactly(rids, wanted) == Len(rids) = Cardinality(wanted) /\ ToSet(rids) = wanted

(* search(key) returns every row inserted with the key and not deleted,    *)
(* once, wherever splits have moved it and whatever was reopened.          *)
SearchIsExact ==
  Idle => \A key \in SearchKeys : Exactly(search(key), RowsOf(key))

InKeyOrder(rids) == \A i \in 1 .. Len(rids) - 1 : rids[i][1] <= rids[i + 1][1]
RowsBetween(lo, hi) ==
  UNION {RowsOf(key) : key \in {k \in SearchKeys : lo <= k /\ k <= hi}}
(* range_scan(lo, hi) returns the rows whose keys are in the range, once   *)
(* each and in the order of their keys, and so does an unbounded scan.     *)
RangeIsExact ==
  Idle =>
    /\ \A lo, hi \in SearchKeys :
         LET rids == range_scan(lo, hi)
         IN  Exactly(rids, RowsBetween(lo, hi)) /\ InKeyOrder(rids)
    /\ Exactly(full_scan, UNION {RowsOf(key) : key \in SearchKeys})
    /\ InKeyOrder(full_scan)

(* The leaves form one doubly linked list in the order of their keys: what *)
(* a scan follows from any leaf is neither cut short nor circular.         *)
LeavesAreChained ==
  Idle =>
    /\ ToSet(Chain) = Leaves /\ Len(Chain) = Cardinality(Leaves)
    /\ \A i \in 1 .. Len(Chain) :
         /\ nodes[Chain[i]].prev_leaf = IF i = 1 THEN NoLeaf ELSE Chain[i - 1]
         /\ \A j \in 1 .. i :
              \A e \in ToSet(nodes[Chain[i]].entries), f \in ToSet(nodes[Chain[j]].entries) :
                j < i => f[1] <= e[1]

(* All leaves are equally deep: a lookup costs the same for every key,     *)
(* whichever nodes were split to make room.                                *)
Children(p) == ToSet(nodes[p].pointers)
Depth ==
  LET depth[p \in PageIds] ==
        IF nodes[p].is_leaf THEN {0} ELSE {1 + d : d \in UNION {depth[c] : c \in Children(p)}}
  IN  depth[root_page_id]
TreeIsBalanced == Idle => Cardinality(Depth) = 1

(* An operation that returns has unpinned every page it fetched, as often  *)
(* as it fetched it: on every path out of search, range_scan, insert and   *)
(* delete, and through any chain of splits.                                *)
PinsAreReturned == Idle => pinned = EmptyBag

(* A delete that finds its entry never raises, also not in the first       *)
(* process that opens the index after it was filled.                       *)
DeleteNeverRaises == pc # "raised"

(* Leaf splits, parent updates and reopening never lose or invent an       *)
(* entry, between any two calls of an insert either: the leaves hold the   *)
(* pairs that callers asked the tree to hold, one chain from the left.     *)
IDX == INSTANCE Index WITH entries <- Contents, rows <- rows
ImplementsIndex == IDX!Spec
=============================================================================
