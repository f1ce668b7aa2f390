------------------------ MODULE BPlusTreeOrderProofs ------------------------
(***************************************************************************)
(* Theorems about the order of the keys in BPlusTree, for every ORDER, any *)
(* set of keys without 0 and up to half a leaf of rows per key: the leaves *)
(* are chained in the order of their keys, and search and range_scan find  *)
(* exactly the rows they are asked for.                                    *)
(***************************************************************************)
EXTENDS BPlusTreeProofs

(* The trees the theorems are about.  With more rows per key a leaf may be *)
(* split between equal keys that fill it, and a separator of 0 is taken    *)
(* for a missing one.                                                      *)
FewCopies == 0 \notin SearchKeys /\ Copies \subseteq 1 .. ORDER \div 2

(***************************************************************************)
(* The order of a tree, as a property of values: C gives the content of    *)
(* each page, l and h are the bounds of a page, sets of one key or of none *)
(* at the edges of the tree.  lo and hi give every page its bounds, up the *)
(* page above it, and b the page that ends where a pointer's subtree ends: *)
(* while a new page is not pointed to, that is another than the pointer's. *)
(***************************************************************************)
Apart(l, h) == \A x \in l : \A y \in h : x < y
Within(l, k, h) == (\A x \in l : x <= k) /\ (\A y \in h : k <= y)
Inside(l, k, h) == (\A x \in l : x < k) /\ (\A y \in h : k < y)

LeafOrder(entries, l, h) ==
  /\ \A i, j \in DOMAIN entries : i < j => entries[i][1] <= entries[j][1]
  /\ \A i \in DOMAIN entries : Within(l, entries[i][1], h)
LinkOrder(next, lo, h) ==
  IF next = NoLeaf THEN h = {} ELSE h # {} /\ lo[next] = h

KeyOrder(keys, l, h) ==
  /\ \A i, j \in DOMAIN keys : i < j => keys[i] < keys[j]
  /\ \A i \in DOMAIN keys : Inside(l, keys[i], h)
LowEnd(node, i, l) == IF i = 1 THEN l ELSE {node.keys[i - 1]}
HighEnd(node, i, h) == IF i = Len(node.pointers) THEN h ELSE {node.keys[i]}
ChildOrder(p, node, b, lo, hi, up) ==
  \A i \in DOMAIN node.pointers :
    /\ up[node.pointers[i]] = p
    /\ lo[node.pointers[i]] = LowEnd(node, i, lo[p])
    /\ hi[b[node.pointers[i]]] = HighEnd(node, i, hi[p])

PageOrder(p, node, b, lo, hi, up) ==
  IF node.is_leaf
  THEN LeafOrder(node.entries, lo[p], hi[p]) /\ LinkOrder(node.next_leaf, lo, hi[p])
  ELSE KeyOrder(node.keys, lo[p], hi[p]) /\ ChildOrder(p, node, b, lo, hi, up)

Bounds(P, root, b, lo, hi, up) ==
  /\ lo \in [P -> SUBSET SearchKeys] /\ hi \in [P -> SUBSET SearchKeys]
  /\ up \in [P -> Nat]
  /\ \A p \in P : Apart(lo[p], hi[p])
  /\ lo[root] = {} /\ hi[b[root]] = {} /\ up[root] = 0 /\ lo[1] = {}
Ordered(C, root, b, lo, hi, up) ==
  /\ Bounds(DOMAIN C, root, b, lo, hi, up)
  /\ \A p \in DOMAIN C : PageOrder(p, C[p], b, lo, hi, up)

(* The pages of a node are in P.                                           *)
PointsInto(node, P) ==
  IF node.is_leaf THEN node.next_leaf \in P \cup {NoLeaf}
  ELSE \A i \in DOMAIN node.pointers : node.pointers[i] \in P
Pages(P) == P \subseteq Nat \ {0} /\ 1 \in P
Itself(P) == [p \in P |-> p]

(***************************************************************************)
(* What a change of one node does to its order.                            *)
(***************************************************************************)
LEMMA EntryKeys ==
  ASSUME NEW s \in Seq(EntryType)
  PROVE  /\ Len(s) \in Nat /\ DOMAIN s = 1 .. Len(s)
         /\ \A i \in 1 .. Len(s) : s[i][1] \in SearchKeys /\ s[i][1] \in Int
<1>1. \A i \in 1 .. Len(s) : s[i] \in EntryType
  OBVIOUS
<1>2. \A e \in EntryType : e[1] \in SearchKeys
  BY DEF EntryType
<1>3. \A k \in SearchKeys : k \in Int
  BY TreeAssumption
<1>4. \A i \in 1 .. Len(s) : s[i][1] \in SearchKeys /\ s[i][1] \in Int
  BY <1>1, <1>2, <1>3
<1>5. Len(s) \in Nat /\ DOMAIN s = 1 .. Len(s)
  OBVIOUS
<1> QED BY <1>4, <1>5

LEMMA InsertedInOrder ==
  ASSUME NEW s \in Seq(EntryType), NEW key \in SearchKeys, NEW t \in Seq(EntryType),
         NEW at, at = Place(KeysOf(s), key), NEW e, e[1] = key,
         Len(t) = Len(s) + 1,
         \A j \in 1 .. Len(s) + 1 : t[j] = IF j < at THEN s[j]
                                           ELSE IF j = at THEN e ELSE s[j - 1],
         NEW l, NEW h, LeafOrder(s, l, h), Within(l, key, h)
  PROVE  LeafOrder(t, l, h)
<1>1. PICK n \in Nat : n = Len(s) /\ DOMAIN s = 1 .. n /\ DOMAIN t = 1 .. n + 1
  BY EntryKeys
<1>2. \A i \in 1 .. n : s[i][1] \in Int
  BY <1>1, EntryKeys
<1>3. key \in Int
  BY TreeAssumption
<1>4. /\ at \in 1 .. n + 1 /\ \A i \in 1 .. n : i < at => s[i][1] <= key
      /\ at <= n => key < s[at][1]
  <2>1. PICK ks : ks = KeysOf(s)
    OBVIOUS
  <2>2. Len(ks) = n /\ \A i \in 1 .. n : ks[i] = s[i][1]
    BY <1>1, <2>1 DEF KeysOf
  <2>3. ks \in Seq(Int)
    <3>1. ks = [i \in 1 .. n |-> s[i][1]]
      BY <1>1, <2>1 DEF KeysOf
    <3> QED BY <1>1, <1>2, <3>1, IsASeq
  <2>4. /\ at \in 1 .. n + 1 /\ \A i \in 1 .. n : i < at => ks[i] <= key
        /\ at <= n => key < ks[at]
    BY <1>3, <2>1, <2>2, <2>3, PlaceOf
  <2> QED BY <1>1, <2>2, <2>4
<1>5. \A i \in 1 .. n : at <= i => key <= s[i][1]
  <2> SUFFICES ASSUME NEW i \in 1 .. n, at <= i PROVE key <= s[i][1]
    OBVIOUS
  <2>1. at \in 1 .. n /\ key < s[at][1]
    BY <1>1, <1>4
  <2>2. s[at][1] <= s[i][1]
    BY <1>1, <1>2, <2>1 DEF LeafOrder
  <2> QED BY <1>2, <1>3, <2>1, <2>2
<1>6. \A j \in 1 .. n + 1 : j < at => t[j] = s[j] /\ j \in 1 .. n
  BY <1>1, <1>4
<1>7. \A j \in 1 .. n + 1 : j = at => t[j] = e
  BY <1>1, <1>4
<1>8. \A j \in 1 .. n + 1 : j > at => t[j] = s[j - 1] /\ j - 1 \in 1 .. n /\ at <= j - 1
  BY <1>1, <1>4
<1>9. ASSUME NEW i \in 1 .. n + 1, NEW j \in 1 .. n + 1, i < j
      PROVE  t[i][1] <= t[j][1]
  <2>0. \A a, c \in 1 .. n : a < c => s[a][1] <= s[c][1]
    BY <1>1 DEF LeafOrder
  <2>1. CASE j < at
    <3>1. i < at
      BY <1>4, <1>9, <2>1
    <3> QED BY <1>6, <1>9, <2>0, <2>1, <3>1
  <2>2. CASE j = at
    <3>1. i < at
      BY <1>9, <2>2
    <3> QED BY <1>4, <1>6, <1>7, <2>2, <3>1
  <2>3. CASE j > at /\ i < at
    <3>1. t[i] = s[i] /\ t[j] = s[j - 1] /\ i \in 1 .. n /\ j - 1 \in 1 .. n /\ i < j - 1
      BY <1>4, <1>6, <1>8, <2>3
    <3> QED BY <2>0, <3>1
  <2>4. CASE j > at /\ i = at
    BY <1>5, <1>7, <1>8, <2>4
  <2>5. CASE j > at /\ i > at
    <3>1. t[i] = s[i - 1] /\ t[j] = s[j - 1] /\ i - 1 \in 1 .. n /\ j - 1 \in 1 .. n
          /\ i - 1 < j - 1
      BY <1>8, <1>9, <2>5
    <3> QED BY <2>0, <3>1
  <2> QED BY <1>4, <2>1, <2>2, <2>3, <2>4, <2>5
<1>10. ASSUME NEW j \in 1 .. n + 1 PROVE Within(l, t[j][1], h)
  <2>0. \A a \in 1 .. n : Within(l, s[a][1], h)
    BY <1>1 DEF LeafOrder
  <2>1. CASE j < at
    BY <1>6, <2>0, <2>1
  <2>2. CASE j = at
    BY <1>7, <2>2
  <2>3. CASE j > at
    BY <1>8, <2>0, <2>3
  <2> QED BY <1>4, <2>1, <2>2, <2>3
<1> QED BY <1>1, <1>9, <1>10 DEF LeafOrder

LEMMA RemovedInOrder ==
  ASSUME NEW s \in Seq(EntryType), NEW t \in Seq(EntryType), NEW at, NEW e,
         Dropped(s, t, at, e), NEW l, NEW h, LeafOrder(s, l, h)
  PROVE  LeafOrder(t, l, h)
<1>1. PICK n \in Nat : n = Len(s) /\ DOMAIN s = 1 .. n /\ DOMAIN t = 1 .. n - 1
  <2>1. Len(t) = Len(s) - 1
    BY DEF Dropped
  <2> QED BY <2>1, EntryKeys
<1>2. at \in 1 .. n /\ \A j \in 1 .. n - 1 : t[j] = IF j < at THEN s[j] ELSE s[j + 1]
  BY <1>1 DEF Dropped
<1>3. \A j \in 1 .. n - 1 : j \in 1 .. n /\ j + 1 \in 1 .. n
  BY <1>1
<1>4. ASSUME NEW i \in 1 .. n - 1, NEW j \in 1 .. n - 1, i < j
      PROVE  t[i][1] <= t[j][1]
  <2>0. \A a, c \in 1 .. n : a < c => s[a][1] <= s[c][1]
    BY <1>1 DEF LeafOrder
  <2>1. PICK a \in 1 .. n : t[i] = s[a] /\ a = IF i < at THEN i ELSE i + 1
    BY <1>2, <1>3
  <2>2. PICK c \in 1 .. n : t[j] = s[c] /\ c = IF j < at THEN j ELSE j + 1
    BY <1>2, <1>3
  <2>3. a < c
    BY <1>2, <1>4, <2>1, <2>2
  <2> QED BY <2>0, <2>1, <2>2, <2>3
<1>5. \A j \in 1 .. n - 1 : Within(l, t[j][1], h)
  BY <1>1, <1>2, <1>3 DEF LeafOrder
<1> QED BY <1>1, <1>4, <1>5 DEF LeafOrder

LEMMA CutInOrder ==
  ASSUME NEW s \in Seq(EntryType), NEW n \in 1 .. Len(s) - 1, NEW k, k = s[n + 1][1],
         NEW l, NEW h, LeafOrder(s, l, h)
  PROVE  LeafOrder(UpTo(s, n), l, {k}) /\ LeafOrder(From(s, n + 1), {k}, h)
<1>1. Len(s) \in Nat /\ n \in 0 .. Len(s) /\ n + 1 \in 1 .. Len(s) /\ DOMAIN s = 1 .. Len(s)
  BY EntryKeys
<1>2. /\ DOMAIN UpTo(s, n) = 1 .. n /\ \A j \in 1 .. n : UpTo(s, n)[j] = s[j]
  <2>1. UpTo(s, n) \in Seq(EntryType) /\ Len(UpTo(s, n)) = n
    BY <1>1, Cut
  <2>2. \A j \in 1 .. n : UpTo(s, n)[j] = s[j]
    BY <1>1, Cut
  <2> QED BY <2>1, <2>2
<1>3. /\ DOMAIN From(s, n + 1) = 1 .. Len(s) - n
      /\ \A j \in 1 .. Len(s) - n : From(s, n + 1)[j] = s[n + j]
  <2>1. From(s, n + 1) \in Seq(EntryType) /\ Len(From(s, n + 1)) = Len(s) - n
    BY <1>1, Cut
  <2>2. \A j \in 1 .. Len(s) - n : From(s, n + 1)[j] = s[n + j]
    BY <1>1, Cut
  <2> QED BY <2>1, <2>2
<1>4. \A i \in 1 .. Len(s) : s[i][1] \in Int
  BY EntryKeys
<1>5. /\ \A i, j \in 1 .. Len(s) : i < j => s[i][1] <= s[j][1]
      /\ \A i \in 1 .. Len(s) : Within(l, s[i][1], h)
  BY <1>1 DEF LeafOrder
<1>6. LeafOrder(UpTo(s, n), l, {k})
  <2>1. \A j \in 1 .. n : j \in 1 .. Len(s) /\ j < n + 1
    BY <1>1
  <2>2. \A j \in 1 .. n : s[j][1] <= k
    BY <1>1, <1>5, <2>1
  <2> QED BY <1>2, <1>5, <2>1, <2>2 DEF LeafOrder, Within
<1>7. LeafOrder(From(s, n + 1), {k}, h)
  <2>1. \A j \in 1 .. Len(s) - n : n + j \in 1 .. Len(s) /\ (n + 1 < n + j \/ n + 1 = n + j)
    BY <1>1
  <2>2. \A j \in 1 .. Len(s) - n : k <= s[n + j][1]
    BY <1>1, <1>4, <1>5, <2>1
  <2>3. \A i, j \in 1 .. Len(s) - n : i < j => n + i < n + j
    BY <1>1
  <2> QED BY <1>3, <1>5, <2>1, <2>2, <2>3 DEF LeafOrder, Within
<1> QED BY <1>6, <1>7

(* A leaf that overflows is split between different keys: more entries     *)
(* than half a leaf cannot have the same key.                              *)
SameKey(s, a, c, x) ==
  a \in DOMAIN s /\ c \in DOMAIN s /\ a <= c /\ \A i \in a .. c : s[i][1] = x
MoreThanHalf(m) == ORDER \div 2 < m

LEMMA SplitParts ==
  /\ MoreThanHalf((ORDER + 1) \div 2 + 1)
  /\ MoreThanHalf(ORDER + 1 - (ORDER + 1) \div 2)
BY OrderAssumption DEF MoreThanHalf

LEMMA FewEqual ==
  ASSUME FewCopies, NEW s \in Seq(EntryType), \A i, j \in DOMAIN s : s[i] = s[j] => i = j,
         \A i \in DOMAIN s : s[i][2][1] = s[i][1],
         NEW a, NEW c, NEW x, SameKey(s, a, c, x)
  PROVE  ~MoreThanHalf(c - a + 1)
<1>0. a \in DOMAIN s /\ c \in DOMAIN s /\ a <= c /\ \A i \in a .. c : s[i][1] = x
  BY DEF SameKey
<1>1. a \in Nat /\ c \in Nat /\ ORDER \div 2 \in Nat /\ a .. c \subseteq DOMAIN s
  BY <1>0, EntryKeys, OrderAssumption
<1>2. PICK q \in Nat : q = ORDER \div 2
  BY <1>1
<1>3. \A i \in a .. c : \E m \in 1 .. q : s[i] = <<x, <<x, m>>>>
  <2> SUFFICES ASSUME NEW i \in a .. c PROVE \E m \in 1 .. q : s[i] = <<x, <<x, m>>>>
    OBVIOUS
  <2>1. s[i] \in EntryType /\ s[i][2][1] = s[i][1] /\ s[i][1] = x
    BY <1>0, <1>1
  <2>2. PICK k \in SearchKeys, r \in AllRids : s[i] = <<k, r>>
    BY <2>1 DEF EntryType
  <2>3. PICK k2 \in SearchKeys, m \in Copies : r = <<k2, m>>
    BY DEF AllRids
  <2> QED BY <1>2, <2>1, <2>2, <2>3 DEF FewCopies
<1>4. PICK f : f = [i \in a .. c |-> s[i][2][2]]
  OBVIOUS
<1>5. \A i \in a .. c : f[i] \in 1 .. q /\ s[i] = <<x, <<x, f[i]>>>>
  BY <1>3, <1>4
<1>6. f \in [a .. c -> 1 .. q]
  BY <1>4, <1>5
<1>7. /\ IsFiniteSet(a .. c) /\ Cardinality(a .. c) = c - a + 1
      /\ IsFiniteSet(1 .. q) /\ Cardinality(1 .. q) = q
  <2>1. a \in Int /\ c \in Int /\ 1 \in Int /\ q \in Int
    BY <1>1
  <2>2. IsFiniteSet(a .. c) /\ IsFiniteSet(1 .. q)
    BY <2>1, FS_Interval
  <2>3. Cardinality(a .. c) = IF a > c THEN 0 ELSE c - a + 1
    BY <2>1, FS_Interval
  <2>4. Cardinality(1 .. q) = IF 1 > q THEN 0 ELSE q - 1 + 1
    BY <2>1, FS_Interval
  <2>5. ~(a > c) /\ (IF 1 > q THEN 0 ELSE q - 1 + 1) = q
    BY <1>0, <1>1
  <2> QED BY <2>2, <2>3, <2>4, <2>5
<1>8. CASE q < c - a + 1
  <2>0. PICK S, T : S = a .. c /\ T = 1 .. q
    OBVIOUS
  <2>3. /\ IsFiniteSet(S) /\ IsFiniteSet(T) /\ Cardinality(T) < Cardinality(S)
        /\ f \in [S -> T]
    BY <1>6, <1>7, <1>8, <2>0
  <2>4. \E i, j \in S : i # j /\ f[i] = f[j]
    BY <2>3, FS_PigeonHole
  <2>1. PICK i, j \in a .. c : i # j /\ f[i] = f[j]
    BY <2>0, <2>4
  <2>2. s[i] = s[j]
    BY <1>5, <2>1
  <2> QED BY <1>1, <2>1, <2>2
<1> QED BY <1>0, <1>1, <1>2, <1>8 DEF MoreThanHalf

LEMMA SplitKeyInside ==
  ASSUME FewCopies, NEW s \in Seq(EntryType), Len(s) = ORDER + 1,
         \A i, j \in DOMAIN s : s[i] = s[j] => i = j,
         \A i \in DOMAIN s : s[i][2][1] = s[i][1],
         NEW l \in SUBSET SearchKeys, NEW h \in SUBSET SearchKeys, LeafOrder(s, l, h),
         NEW n \in 1 .. ORDER - 1, MoreThanHalf(n + 1), MoreThanHalf(ORDER + 1 - n)
  PROVE  n + 1 \in DOMAIN s /\ Inside(l, s[n + 1][1], h)
<1>1. /\ n \in 1 .. ORDER - 1 /\ ORDER \in Nat /\ n + 1 \in DOMAIN s
      /\ DOMAIN s = 1 .. ORDER + 1
  BY OrderAssumption
<1>2. PICK k : k = s[n + 1][1]
  OBVIOUS
<1>3. /\ \A i \in DOMAIN s : s[i][1] \in Int
      /\ \A i, j \in DOMAIN s : i < j => s[i][1] <= s[j][1]
      /\ \A i \in DOMAIN s : Within(l, s[i][1], h)
      /\ l \subseteq Int /\ h \subseteq Int
  BY EntryKeys, TreeAssumption DEF LeafOrder
<1>4. ASSUME NEW x \in l PROVE x < k
  <2>1. x <= k /\ x \in Int /\ k \in Int
    BY <1>1, <1>2, <1>3 DEF Within
  <2>2. CASE x = k
    <3>1. ASSUME NEW i \in 1 .. n + 1 PROVE s[i][1] = x
      <4>1. i \in DOMAIN s /\ (i < n + 1 \/ i = n + 1)
        BY <1>1
      <4>2. s[i][1] \in Int /\ Within(l, s[i][1], h)
        BY <1>3, <4>1
      <4>3. x <= s[i][1]
        BY <4>2 DEF Within
      <4>4. s[i][1] <= k
        BY <1>1, <1>2, <1>3, <4>1, <4>2
      <4> QED BY <2>1, <2>2, <4>2, <4>3, <4>4
    <3>2. 1 \in DOMAIN s /\ 1 <= n + 1
      BY <1>1
    <3>3. PICK a, c : a = 1 /\ c = n + 1
      OBVIOUS
    <3>4. SameKey(s, a, c, x)
      BY <1>1, <3>1, <3>2, <3>3 DEF SameKey
    <3>5. ~MoreThanHalf(c - a + 1)
      BY <3>4, FewEqual
    <3>6. c - a + 1 = n + 1
      BY <1>1, <3>3
    <3> QED BY <3>5, <3>6
  <2> QED BY <2>1, <2>2
<1>5. ASSUME NEW y \in h PROVE k < y
  <2>1. k <= y /\ y \in Int /\ k \in Int
    BY <1>1, <1>2, <1>3 DEF Within
  <2>2. CASE y = k
    <3>0. ORDER + 1 \in DOMAIN s /\ n + 1 <= ORDER + 1
      BY <1>1
    <3>1. ASSUME NEW i \in n + 1 .. ORDER + 1 PROVE s[i][1] = k
      <4>1. i \in DOMAIN s /\ (n + 1 < i \/ i = n + 1)
        BY <1>1
      <4>2. s[i][1] \in Int /\ Within(l, s[i][1], h)
        BY <1>3, <4>1
      <4>3. s[i][1] <= y
        BY <4>2 DEF Within
      <4>4. k <= s[i][1]
        BY <1>1, <1>2, <1>3, <4>1, <4>2
      <4> QED BY <2>1, <2>2, <4>2, <4>3, <4>4
    <3>3. PICK a, c : a = n + 1 /\ c = ORDER + 1
      OBVIOUS
    <3>4. SameKey(s, a, c, y)
      BY <1>1, <2>2, <3>0, <3>1, <3>3 DEF SameKey
    <3>5. ~MoreThanHalf(c - a + 1)
      BY <3>4, FewEqual
    <3>6. c - a + 1 = ORDER + 1 - n
      BY <1>1, <3>3
    <3> QED BY <3>5, <3>6
  <2> QED BY <2>1, <2>2
<1> QED BY <1>1, <1>2, <1>4, <1>5 DEF Inside

(***************************************************************************)
(* What each change of the file does to the order of the tree.             *)
(***************************************************************************)
(* Nodes that are alike but for the link to the leaf before.               *)
Alike(x, y) ==
  /\ x.is_leaf <=> y.is_leaf
  /\ x.is_leaf => x.entries = y.entries /\ x.next_leaf = y.next_leaf
  /\ ~x.is_leaf => x.keys = y.keys /\ x.pointers = y.pointers

(* The bounds after a split of page p at a key, to whose right is new.     *)
Widened(P, p, new, k, lo, hi, up, b2, lo2, hi2, up2) ==
  /\ p \in P /\ new \notin P
  /\ lo2 = [x \in P \cup {new} |-> IF x = new THEN {k} ELSE lo[x]]
  /\ hi2 = [x \in P \cup {new} |-> IF x = p THEN {k} ELSE IF x = new THEN hi[p] ELSE hi[x]]
  /\ b2 = [x \in P \cup {new} |-> IF x = p THEN new ELSE x]
  /\ up2 \in [P \cup {new} -> Nat] /\ up2[new] = 0
  /\ \A x \in P : up[x] # p => up2[x] = up[x]

LEMMA WidenedBounds ==
  ASSUME NEW P, Pages(P), NEW root \in P, NEW p, NEW new, NEW k \in SearchKeys,
         NEW lo, NEW hi, NEW up, Bounds(P, root, Itself(P), lo, hi, up),
         Inside(lo[p], k, hi[p]), NEW b2, NEW lo2, NEW hi2, NEW up2,
         Widened(P, p, new, k, lo, hi, up, b2, lo2, hi2, up2)
  PROVE  Bounds(P \cup {new}, root, b2, lo2, hi2, up2)
<1>1. /\ lo \in [P -> SUBSET SearchKeys] /\ hi \in [P -> SUBSET SearchKeys]
      /\ up \in [P -> Nat] /\ \A q \in P : Apart(lo[q], hi[q])
      /\ lo[root] = {} /\ hi[root] = {} /\ up[root] = 0 /\ lo[1] = {}
  BY DEF Bounds, Itself
<1>2. /\ p \in P /\ new \notin P /\ lo2[new] = {k} /\ hi2[new] = hi[p] /\ hi2[p] = {k}
      /\ \A q \in P : lo2[q] = lo[q] /\ (q # p => hi2[q] = hi[q])
      /\ b2[p] = new /\ \A q \in P : q # p => b2[q] = q
  BY DEF Widened
<1>3. up2 \in [P \cup {new} -> Nat] /\ up2[root] = 0
  BY <1>1, <1>2 DEF Widened, Pages
<1>4. hi2[b2[root]] = {} /\ lo2[root] = {} /\ lo2[1] = {}
  BY <1>1, <1>2 DEF Pages
<1>5. lo2 \in [P \cup {new} -> SUBSET SearchKeys] /\ hi2 \in [P \cup {new} -> SUBSET SearchKeys]
  BY <1>1, <1>2 DEF Widened
<1>6. ASSUME NEW q \in P \cup {new} PROVE Apart(lo2[q], hi2[q])
  BY <1>1, <1>2 DEF Apart, Inside
<1> QED BY <1>3, <1>4, <1>5, <1>6 DEF Bounds

LEMMA WidenedFrame ==
  ASSUME NEW P, Pages(P), NEW p, NEW new, NEW k,
         NEW lo, NEW hi, NEW up, NEW b2, NEW lo2, NEW hi2, NEW up2,
         Widened(P, p, new, k, lo, hi, up, b2, lo2, hi2, up2),
         NEW q \in P, q # p, NEW x, NEW y, Alike(x, y), PointsInto(x, P),
         PageOrder(q, x, Itself(P), lo, hi, up)
  PROVE  PageOrder(q, y, b2, lo2, hi2, up2)
<1>1. /\ p \in P /\ new \notin P /\ hi2[new] = hi[p]
      /\ \A c \in P : lo2[c] = lo[c] /\ (c # p => hi2[c] = hi[c])
      /\ b2[p] = new /\ \A c \in P : c # p => b2[c] = c
      /\ \A c \in P : up[c] # p => up2[c] = up[c]
  BY DEF Widened
<1>2. \A c \in P : hi2[b2[c]] = hi[c] /\ Itself(P)[c] = c
  BY <1>1 DEF Itself
<1>3. lo2[q] = lo[q] /\ hi2[q] = hi[q]
  BY <1>1
<1>4. CASE x.is_leaf
  <2>1. LeafOrder(x.entries, lo[q], hi[q]) /\ LinkOrder(x.next_leaf, lo, hi[q])
    BY <1>4 DEF PageOrder
  <2>2. y.is_leaf /\ y.entries = x.entries /\ y.next_leaf = x.next_leaf
    BY <1>4 DEF Alike
  <2>3. LinkOrder(y.next_leaf, lo2, hi2[q])
    BY <1>1, <1>3, <1>4, <2>1, <2>2 DEF LinkOrder, PointsInto
  <2> QED BY <1>3, <2>1, <2>2, <2>3 DEF PageOrder
<1>5. CASE ~x.is_leaf
  <2>1. KeyOrder(x.keys, lo[q], hi[q]) /\ ChildOrder(q, x, Itself(P), lo, hi, up)
    BY <1>5 DEF PageOrder
  <2>2. ~y.is_leaf /\ y.keys = x.keys /\ y.pointers = x.pointers
    BY <1>5 DEF Alike
  <2>3. ChildOrder(q, y, b2, lo2, hi2, up2)
    <3> SUFFICES ASSUME NEW i \in DOMAIN y.pointers
                 PROVE  /\ up2[y.pointers[i]] = q
                        /\ lo2[y.pointers[i]] = LowEnd(y, i, lo2[q])
                        /\ hi2[b2[y.pointers[i]]] = HighEnd(y, i, hi2[q])
      BY DEF ChildOrder
    <3>1. PICK c : c = x.pointers[i]
      OBVIOUS
    <3>2. c \in P
      BY <1>5, <2>2, <3>1 DEF PointsInto
    <3>3. up[c] = q /\ lo[c] = LowEnd(x, i, lo[q]) /\ hi[c] = HighEnd(x, i, hi[q])
      BY <1>2, <2>1, <2>2, <3>1, <3>2 DEF ChildOrder
    <3>4. LowEnd(y, i, lo[q]) = LowEnd(x, i, lo[q]) /\ HighEnd(y, i, hi[q]) = HighEnd(x, i, hi[q])
      BY <2>2 DEF LowEnd, HighEnd
    <3> QED BY <1>1, <1>2, <1>3, <2>2, <3>1, <3>2, <3>3, <3>4
  <2> QED BY <1>3, <2>1, <2>2, <2>3 DEF PageOrder
<1> QED BY <1>4, <1>5

Source(C, P, root) ==
  P = DOMAIN C /\ Pages(P) /\ root \in P /\ \A q \in P : PointsInto(C[q], P)
LeafHalves(C, D, P, p, new, k, l, h) ==
  /\ DOMAIN D = P \cup {new} /\ \A q \in P : q # p => Alike(C[q], D[q])
  /\ new # NoLeaf /\ k \in SearchKeys /\ Inside(l, k, h) /\ C[p].is_leaf
  /\ D[p].is_leaf /\ D[p].next_leaf = new /\ LeafOrder(D[p].entries, l, {k})
  /\ D[new].is_leaf /\ D[new].next_leaf = C[p].next_leaf /\ LeafOrder(D[new].entries, {k}, h)

LEMMA LeafCut ==
  ASSUME NEW C, NEW P, NEW root, Source(C, P, root), NEW p, NEW new, NEW k,
         NEW lo, NEW hi, NEW up, Ordered(C, root, Itself(P), lo, hi, up),
         NEW b2, NEW lo2, NEW hi2, NEW up2,
         Widened(P, p, new, k, lo, hi, up, b2, lo2, hi2, up2),
         NEW D, LeafHalves(C, D, P, p, new, k, lo[p], hi[p])
  PROVE  Ordered(D, root, b2, lo2, hi2, up2)
<1> SUFFICES ASSUME P = DOMAIN C, Pages(P), root \in P, \A q \in P : PointsInto(C[q], P),
                    DOMAIN D = P \cup {new}, \A q \in P : q # p => Alike(C[q], D[q]),
                    new # NoLeaf, k \in SearchKeys, Inside(lo[p], k, hi[p]), C[p].is_leaf,
                    D[p].is_leaf, D[p].next_leaf = new, LeafOrder(D[p].entries, lo[p], {k}),
                    D[new].is_leaf, D[new].next_leaf = C[p].next_leaf,
                    LeafOrder(D[new].entries, {k}, hi[p])
             PROVE  Ordered(D, root, b2, lo2, hi2, up2)
  BY DEF Source, LeafHalves
<1>1. Bounds(P, root, Itself(P), lo, hi, up) /\ \A q \in P : PageOrder(q, C[q], Itself(P), lo, hi, up)
  BY DEF Ordered
<1>2. Bounds(P \cup {new}, root, b2, lo2, hi2, up2)
  BY <1>1, WidenedBounds
<1>3. /\ p \in P /\ new \notin P /\ lo2[new] = {k} /\ hi2[new] = hi[p] /\ hi2[p] = {k}
      /\ \A q \in P : lo2[q] = lo[q]
  BY DEF Widened
<1>4. PageOrder(p, D[p], b2, lo2, hi2, up2)
  BY <1>3 DEF PageOrder, LinkOrder
<1>5. PageOrder(new, D[new], b2, lo2, hi2, up2)
  <2>1. LinkOrder(C[p].next_leaf, lo, hi[p])
    BY <1>1, <1>3 DEF PageOrder
  <2>2. C[p].next_leaf \in P \cup {NoLeaf}
    BY <1>3 DEF PointsInto
  <2>3. LinkOrder(D[new].next_leaf, lo2, hi2[new])
    BY <1>3, <2>1, <2>2 DEF LinkOrder
  <2> QED BY <1>3, <2>3 DEF PageOrder
<1>6. ASSUME NEW q \in P, q # p PROVE PageOrder(q, D[q], b2, lo2, hi2, up2)
  <2>1. PICK x, y : x = C[q] /\ y = D[q]
    OBVIOUS
  <2>2. Alike(x, y) /\ PointsInto(x, P) /\ PageOrder(q, x, Itself(P), lo, hi, up)
    BY <1>1, <1>6, <2>1
  <2>3. PageOrder(q, y, b2, lo2, hi2, up2)
    BY <1>6, <2>2, WidenedFrame
  <2> QED BY <2>1, <2>3
<1> QED BY <1>2, <1>4, <1>5, <1>6 DEF Ordered

IsInner(node) ==
  /\ ~node.is_leaf /\ node.keys \in Seq(SearchKeys) /\ node.pointers \in Seq(Nat)
  /\ Len(node.pointers) = Len(node.keys) + 1

LEMMA InnerKeys ==
  ASSUME NEW node, IsInner(node), NEW l, NEW h, KeyOrder(node.keys, l, h)
  PROVE  \E m \in Nat :
           /\ Len(node.keys) = m /\ Len(node.pointers) = m + 1
           /\ DOMAIN node.keys = 1 .. m /\ DOMAIN node.pointers = 1 .. m + 1
           /\ \A i \in 1 .. m : node.keys[i] \in SearchKeys /\ node.keys[i] \in Int
           /\ \A i \in 1 .. m : \A j \in 1 .. m : i < j => node.keys[i] < node.keys[j]
           /\ \A i \in 1 .. m : Inside(l, node.keys[i], h)
<1>1. PICK ks, ps : ks = node.keys /\ ps = node.pointers
  OBVIOUS
<1>2. ks \in Seq(SearchKeys) /\ ps \in Seq(Nat) /\ Len(ps) = Len(ks) + 1
  BY <1>1 DEF IsInner
<1>3. PICK m \in Nat : m = Len(ks) /\ DOMAIN ks = 1 .. m
  BY <1>2
<1>4. Len(ps) = m + 1 /\ DOMAIN ps = 1 .. m + 1
  BY <1>2, <1>3
<1>5. \A i \in 1 .. m : ks[i] \in SearchKeys
  BY <1>2, <1>3
<1>6. \A x \in SearchKeys : x \in Int
  BY TreeAssumption
<1>7. /\ \A i \in 1 .. m : \A j \in 1 .. m : i < j => ks[i] < ks[j]
      /\ \A i \in 1 .. m : Inside(l, ks[i], h)
  BY <1>1, <1>3 DEF KeyOrder
<1> QED BY <1>1, <1>3, <1>4, <1>5, <1>6, <1>7

LEMMA PointersDiffer ==
  ASSUME NEW p, NEW node, IsInner(node), NEW b, NEW lo, NEW hi, NEW up,
         KeyOrder(node.keys, lo[p], hi[p]), ChildOrder(p, node, b, lo, hi, up),
         NEW i \in DOMAIN node.pointers, NEW j \in DOMAIN node.pointers, i < j
  PROVE  node.pointers[i] # node.pointers[j]
<1>1. PICK m \in Nat :
        /\ DOMAIN node.pointers = 1 .. m + 1
        /\ \A a \in 1 .. m : node.keys[a] \in Int
        /\ \A a \in 1 .. m : \A c \in 1 .. m : a < c => node.keys[a] < node.keys[c]
        /\ \A a \in 1 .. m : Inside(lo[p], node.keys[a], hi[p])
  BY InnerKeys
<1>5. ASSUME NEW a \in DOMAIN node.pointers, a # 1
      PROVE  lo[node.pointers[a]] = {node.keys[a - 1]} /\ a - 1 \in 1 .. m
  <2>1. lo[node.pointers[a]] = LowEnd(node, a, lo[p])
    BY DEF ChildOrder
  <2>2. a - 1 \in 1 .. m
    BY <1>1, <1>5
  <2> QED BY <1>5, <2>1, <2>2 DEF LowEnd
<1>2. lo[node.pointers[j]] = {node.keys[j - 1]} /\ j - 1 \in 1 .. m
  <2>1. j # 1
    BY <1>1
  <2> QED BY <1>5, <2>1
<1>3. CASE i = 1
  <2>1. lo[node.pointers[i]] = lo[p]
    BY <1>3 DEF ChildOrder, LowEnd
  <2>2. node.keys[j - 1] \notin lo[p]
    BY <1>1, <1>2 DEF Inside
  <2> QED BY <1>2, <2>1, <2>2
<1>4. CASE i # 1
  <2>1. lo[node.pointers[i]] = {node.keys[i - 1]} /\ i - 1 \in 1 .. m
    BY <1>4, <1>5
  <2>2. i - 1 < j - 1
    BY <1>1
  <2>3. node.keys[i - 1] < node.keys[j - 1]
    BY <1>1, <1>2, <2>1, <2>2
  <2>4. node.keys[i - 1] \in Int /\ node.keys[j - 1] \in Int
    BY <1>1, <1>2, <2>1
  <2>5. node.keys[i - 1] # node.keys[j - 1]
    BY <2>3, <2>4
  <2> QED BY <1>2, <2>1, <2>5
<1> QED BY <1>3, <1>4

(* An inner node p is cut behind pointer n + 1: the key between the halves *)
(* becomes their separator, and the pointers behind it move to new.        *)
Divided(node, n, low, high) ==
  /\ IsInner(low) /\ IsInner(high) /\ n \in 1 .. Len(node.keys) - 1
  /\ Len(low.keys) = n /\ \A j \in 1 .. n : low.keys[j] = node.keys[j]
  /\ \A j \in 1 .. n + 1 : low.pointers[j] = node.pointers[j]
  /\ Len(high.keys) = Len(node.keys) - n - 1
  /\ \A j \in 1 .. Len(node.keys) - n - 1 : high.keys[j] = node.keys[n + 1 + j]
  /\ \A j \in 1 .. Len(node.keys) - n : high.pointers[j] = node.pointers[n + 1 + j]

LEMMA LowHalf ==
  ASSUME NEW P, Pages(P), NEW p, NEW new, NEW node, IsInner(node), PointsInto(node, P),
         NEW n, NEW low, NEW high, Divided(node, n, low, high), NEW k, k = node.keys[n + 1],
         NEW lo, NEW hi, NEW up, PageOrder(p, node, Itself(P), lo, hi, up),
         NEW b2, NEW lo2, NEW hi2, NEW up2,
         Widened(P, p, new, k, lo, hi, up, b2, lo2, hi2, up2),
         \A j \in 1 .. n + 1 : up2[node.pointers[j]] = p
  PROVE  PageOrder(p, low, b2, lo2, hi2, up2)
<1>1. KeyOrder(node.keys, lo[p], hi[p]) /\ ChildOrder(p, node, Itself(P), lo, hi, up)
  BY DEF PageOrder, IsInner
<1>2. PICK m \in Nat :
        /\ Len(node.keys) = m /\ DOMAIN node.pointers = 1 .. m + 1
        /\ Len(node.pointers) = m + 1
        /\ \A i \in 1 .. m : node.keys[i] \in SearchKeys /\ node.keys[i] \in Int
        /\ \A i \in 1 .. m : \A j \in 1 .. m : i < j => node.keys[i] < node.keys[j]
        /\ \A i \in 1 .. m : Inside(lo[p], node.keys[i], hi[p])
  BY <1>1, InnerKeys
<1>3. /\ n \in 1 .. m - 1 /\ n \in Nat /\ ~low.is_leaf
      /\ DOMAIN low.keys = 1 .. n /\ DOMAIN low.pointers = 1 .. n + 1 /\ Len(low.pointers) = n + 1
      /\ \A j \in 1 .. n : low.keys[j] = node.keys[j]
      /\ \A j \in 1 .. n + 1 : low.pointers[j] = node.pointers[j]
  <2>1. n \in 1 .. m - 1 /\ n \in Nat
    BY <1>2 DEF Divided
  <2>2. PICK ks, ps : ks = low.keys /\ ps = low.pointers
    OBVIOUS
  <2>3. /\ ~low.is_leaf /\ ks \in Seq(SearchKeys) /\ ps \in Seq(Nat)
        /\ Len(ks) = n /\ Len(ps) = Len(ks) + 1
    BY <2>2 DEF Divided, IsInner
  <2>4. DOMAIN ks = 1 .. n /\ DOMAIN ps = 1 .. n + 1 /\ Len(ps) = n + 1
    BY <2>1, <2>3
  <2>5. /\ \A j \in 1 .. n : low.keys[j] = node.keys[j]
        /\ \A j \in 1 .. n + 1 : low.pointers[j] = node.pointers[j]
    BY DEF Divided
  <2> QED BY <2>1, <2>2, <2>3, <2>4, <2>5
<1>4. /\ p \in P /\ hi2[p] = {k} /\ lo2[p] = lo[p]
      /\ \A c \in P : lo2[c] = lo[c] /\ (c # p => hi2[c] = hi[c])
      /\ hi2[new] = hi[p] /\ b2[p] = new /\ \A c \in P : c # p => b2[c] = c
      /\ new \notin P
  BY DEF Widened
<1>5. \A c \in P : hi2[b2[c]] = hi[c] /\ Itself(P)[c] = c
  BY <1>4 DEF Itself
<1>6. KeyOrder(low.keys, lo2[p], hi2[p])
  <2>1. \A i \in 1 .. n : i \in 1 .. m /\ i < n + 1 /\ n + 1 \in 1 .. m
    BY <1>2, <1>3
  <2>2. \A i \in 1 .. n : low.keys[i] < k
    BY <1>2, <1>3, <2>1
  <2>3. \A i \in 1 .. n : Inside(lo[p], low.keys[i], {k})
    BY <1>2, <1>3, <2>1, <2>2 DEF Inside
  <2>4. \A i, j \in 1 .. n : i < j => low.keys[i] < low.keys[j]
    BY <1>2, <1>3, <2>1
  <2> QED BY <1>3, <1>4, <2>3, <2>4 DEF KeyOrder
<1>7. ASSUME NEW i \in 1 .. n + 1
      PROVE  /\ up2[low.pointers[i]] = p
             /\ lo2[low.pointers[i]] = LowEnd(low, i, lo2[p])
             /\ hi2[b2[low.pointers[i]]] = HighEnd(low, i, hi2[p])
  <2>1. PICK c : c = node.pointers[i] /\ c = low.pointers[i]
    BY <1>3
  <2>2. i \in 1 .. m + 1 /\ i # m + 1 /\ i \in 1 .. m
    BY <1>2, <1>3
  <2>3. c \in P
    BY <1>2, <2>1, <2>2 DEF PointsInto, IsInner
  <2>4. lo[c] = LowEnd(node, i, lo[p]) /\ hi[c] = HighEnd(node, i, hi[p])
    BY <1>1, <1>2, <1>5, <2>1, <2>2, <2>3 DEF ChildOrder
  <2>5. hi[c] = {node.keys[i]}
    BY <1>2, <2>2, <2>4 DEF HighEnd
  <2>6. HighEnd(low, i, {k}) = {node.keys[i]}
    <3>1. CASE i = n + 1
      BY <1>3, <3>1 DEF HighEnd
    <3>2. CASE i # n + 1
      <4>1. i \in 1 .. n
        BY <1>3, <3>2
      <4> QED BY <1>3, <3>2, <4>1 DEF HighEnd
    <3> QED BY <3>1, <3>2
  <2>7. LowEnd(low, i, lo[p]) = LowEnd(node, i, lo[p])
    <3>1. CASE i = 1
      BY <3>1 DEF LowEnd
    <3>2. CASE i # 1
      <4>1. i - 1 \in 1 .. n
        BY <1>3, <3>2
      <4> QED BY <1>3, <3>2, <4>1 DEF LowEnd
    <3> QED BY <3>1, <3>2
  <2>8. up2[c] = p
    BY <2>1
  <2>9. lo2[c] = LowEnd(low, i, lo2[p])
    BY <1>4, <2>3, <2>4, <2>7
  <2>10. hi2[b2[c]] = HighEnd(low, i, hi2[p])
    BY <1>4, <1>5, <2>3, <2>5, <2>6
  <2> QED BY <2>1, <2>8, <2>9, <2>10
<1>8. ChildOrder(p, low, b2, lo2, hi2, up2)
  BY <1>3, <1>7 DEF ChildOrder
<1> QED BY <1>3, <1>6, <1>8 DEF PageOrder

LEMMA HighHalf ==
  ASSUME NEW P, Pages(P), NEW p, NEW new, NEW node, IsInner(node), PointsInto(node, P),
         NEW n, NEW low, NEW high, Divided(node, n, low, high), NEW k, k = node.keys[n + 1],
         NEW lo, NEW hi, NEW up, PageOrder(p, node, Itself(P), lo, hi, up),
         NEW b2, NEW lo2, NEW hi2, NEW up2,
         Widened(P, p, new, k, lo, hi, up, b2, lo2, hi2, up2),
         \A j \in n + 2 .. Len(node.pointers) : up2[node.pointers[j]] = new
  PROVE  PageOrder(new, high, b2, lo2, hi2, up2)
<1>1. KeyOrder(node.keys, lo[p], hi[p]) /\ ChildOrder(p, node, Itself(P), lo, hi, up)
  BY DEF PageOrder, IsInner
<1>2. PICK m \in Nat :
        /\ Len(node.keys) = m /\ DOMAIN node.pointers = 1 .. m + 1
        /\ Len(node.pointers) = m + 1
        /\ \A i \in 1 .. m : node.keys[i] \in SearchKeys /\ node.keys[i] \in Int
        /\ \A i \in 1 .. m : \A j \in 1 .. m : i < j => node.keys[i] < node.keys[j]
        /\ \A i \in 1 .. m : Inside(lo[p], node.keys[i], hi[p])
  BY <1>1, InnerKeys
<1>3. PICK a \in Nat, r \in Nat : a = n + 1 /\ r = m - a /\ a \in 1 .. m /\ n \in Nat
  <2>1. n \in 1 .. m - 1
    BY <1>2 DEF Divided
  <2>2. n + 1 \in Nat /\ m - (n + 1) \in Nat /\ n + 1 \in 1 .. m /\ n \in Nat
    BY <2>1
  <2> QED BY <2>2
<1>4. /\ ~high.is_leaf /\ DOMAIN high.keys = 1 .. r
      /\ DOMAIN high.pointers = 1 .. r + 1 /\ Len(high.pointers) = r + 1
      /\ \A j \in 1 .. r : high.keys[j] = node.keys[a + j]
      /\ \A j \in 1 .. r + 1 : high.pointers[j] = node.pointers[a + j]
  <2>1. PICK ks, ps : ks = high.keys /\ ps = high.pointers
    OBVIOUS
  <2>2. m - n - 1 = r /\ m - n = r + 1
    BY <1>3
  <2>3. /\ ~high.is_leaf /\ ks \in Seq(SearchKeys) /\ ps \in Seq(Nat)
        /\ Len(ks) = r /\ Len(ps) = Len(ks) + 1
    BY <1>2, <2>1, <2>2 DEF Divided, IsInner
  <2>4. DOMAIN ks = 1 .. r /\ DOMAIN ps = 1 .. r + 1 /\ Len(ps) = r + 1
    BY <2>3
  <2>5. /\ \A j \in 1 .. Len(node.keys) - n - 1 : high.keys[j] = node.keys[n + 1 + j]
        /\ \A j \in 1 .. Len(node.keys) - n : high.pointers[j] = node.pointers[n + 1 + j]
    BY DEF Divided
  <2> QED BY <1>2, <1>3, <2>1, <2>2, <2>3, <2>4, <2>5
<1>5. /\ p \in P /\ hi2[new] = hi[p] /\ lo2[new] = {k}
      /\ \A c \in P : lo2[c] = lo[c] /\ (c # p => hi2[c] = hi[c])
      /\ b2[p] = new /\ \A c \in P : c # p => b2[c] = c
  BY DEF Widened
<1>6. \A c \in P : hi2[b2[c]] = hi[c] /\ Itself(P)[c] = c
  BY <1>5 DEF Itself
<1>7. KeyOrder(high.keys, lo2[new], hi2[new])
  <2>1. \A i \in 1 .. r : a + i \in 1 .. m /\ a < a + i
    BY <1>3
  <2>2. \A i \in 1 .. r : k < high.keys[i]
    BY <1>2, <1>3, <1>4, <2>1
  <2>3. \A i \in 1 .. r : Inside({k}, high.keys[i], hi[p])
    BY <1>2, <1>4, <2>1, <2>2 DEF Inside
  <2>4. \A i, j \in 1 .. r : i < j => a + i < a + j
    BY <1>3
  <2>5. \A i, j \in 1 .. r : i < j => high.keys[i] < high.keys[j]
    BY <1>2, <1>4, <2>1, <2>4
  <2> QED BY <1>4, <1>5, <2>3, <2>5 DEF KeyOrder
<1>8. ASSUME NEW i \in 1 .. r + 1
      PROVE  /\ up2[high.pointers[i]] = new
             /\ lo2[high.pointers[i]] = LowEnd(high, i, lo2[new])
             /\ hi2[b2[high.pointers[i]]] = HighEnd(high, i, hi2[new])
  <2>1. PICK j : j = a + i /\ j \in 1 .. m + 1 /\ j # 1 /\ j - 1 \in 1 .. m
                 /\ j \in n + 2 .. m + 1 /\ (j = m + 1 <=> i = r + 1)
    BY <1>3
  <2>2. PICK c : c = high.pointers[i] /\ c = node.pointers[j]
    BY <1>4, <2>1
  <2>3. c \in P
    BY <1>2, <2>1, <2>2 DEF PointsInto, IsInner
  <2>4. lo[c] = LowEnd(node, j, lo[p]) /\ hi[c] = HighEnd(node, j, hi[p])
    BY <1>1, <1>2, <1>6, <2>1, <2>2, <2>3, SMTT(30) DEF ChildOrder
  <2>5. LowEnd(high, i, {k}) = LowEnd(node, j, lo[p])
    <3>1. CASE i = 1
      <4>1. j - 1 = n + 1
        BY <1>3, <2>1, <3>1
      <4> QED BY <2>1, <3>1, <4>1 DEF LowEnd
    <3>2. CASE i # 1
      <4>2. i - 1 \in 1 .. r
        BY <1>3, <3>2
      <4>3. a + (i - 1) = j - 1
        <5>1. j = a + i
          BY <2>1
        <5> QED BY <1>3, <5>1
      <4>1. i - 1 \in 1 .. r /\ a + (i - 1) = j - 1
        BY <4>2, <4>3
      <4> QED BY <1>4, <2>1, <3>2, <4>1 DEF LowEnd
    <3> QED BY <3>1, <3>2
  <2>6. HighEnd(high, i, hi[p]) = HighEnd(node, j, hi[p])
    <3>1. CASE i = r + 1
      BY <1>2, <1>4, <2>1, <3>1 DEF HighEnd
    <3>2. CASE i # r + 1
      <4>1. i \in 1 .. r
        BY <3>2
      <4> QED BY <1>2, <1>4, <2>1, <3>2, <4>1 DEF HighEnd
    <3> QED BY <3>1, <3>2
  <2>8. up2[c] = new
    BY <1>2, <2>1, <2>2
  <2>9. lo2[c] = LowEnd(high, i, lo2[new])
    BY <1>5, <2>3, <2>4, <2>5
  <2>10. hi2[b2[c]] = HighEnd(high, i, hi2[new])
    BY <1>5, <1>6, <2>3, <2>4, <2>6
  <2> QED BY <2>2, <2>8, <2>9, <2>10
<1>9. ChildOrder(new, high, b2, lo2, hi2, up2)
  BY <1>4, <1>8 DEF ChildOrder
<1> QED BY <1>4, <1>7, <1>9 DEF PageOrder

InnerHalves(C, D, P, p, new, n, k, up2) ==
  /\ DOMAIN D = P \cup {new} /\ \A q \in P : q # p => Alike(C[q], D[q])
  /\ IsInner(C[p]) /\ Divided(C[p], n, D[p], D[new]) /\ k = C[p].keys[n + 1]
  /\ \A j \in 1 .. n + 1 : up2[C[p].pointers[j]] = p
  /\ \A j \in n + 2 .. Len(C[p].pointers) : up2[C[p].pointers[j]] = new

LEMMA InnerCut ==
  ASSUME NEW C, NEW P, NEW root, Source(C, P, root), NEW p, NEW new, NEW n, NEW k,
         NEW lo, NEW hi, NEW up, Ordered(C, root, Itself(P), lo, hi, up),
         NEW b2, NEW lo2, NEW hi2, NEW up2,
         Widened(P, p, new, k, lo, hi, up, b2, lo2, hi2, up2),
         NEW D, InnerHalves(C, D, P, p, new, n, k, up2)
  PROVE  Ordered(D, root, b2, lo2, hi2, up2)
<1> SUFFICES ASSUME P = DOMAIN C, Pages(P), root \in P, \A q \in P : PointsInto(C[q], P),
                    DOMAIN D = P \cup {new}, \A q \in P : q # p => Alike(C[q], D[q]),
                    IsInner(C[p]), Divided(C[p], n, D[p], D[new]), k = C[p].keys[n + 1],
                    \A j \in 1 .. n + 1 : up2[C[p].pointers[j]] = p,
                    \A j \in n + 2 .. Len(C[p].pointers) : up2[C[p].pointers[j]] = new
             PROVE  Ordered(D, root, b2, lo2, hi2, up2)
  BY DEF Source, InnerHalves
<1>1. Bounds(P, root, Itself(P), lo, hi, up) /\ \A q \in P : PageOrder(q, C[q], Itself(P), lo, hi, up)
  BY DEF Ordered
<1>2. p \in P
  BY DEF Widened
<1>3. PICK node, low, high : node = C[p] /\ low = D[p] /\ high = D[new]
  OBVIOUS
<1>4. /\ IsInner(node) /\ PointsInto(node, P) /\ Divided(node, n, low, high)
      /\ k = node.keys[n + 1] /\ PageOrder(p, node, Itself(P), lo, hi, up)
      /\ \A j \in 1 .. n + 1 : up2[node.pointers[j]] = p
      /\ \A j \in n + 2 .. Len(node.pointers) : up2[node.pointers[j]] = new
  BY <1>1, <1>2, <1>3
<1>5. PageOrder(p, low, b2, lo2, hi2, up2)
  BY <1>4, LowHalf, ZenonT(60)
<1>6. PageOrder(new, high, b2, lo2, hi2, up2)
  BY <1>4, HighHalf
<1>7. k \in SearchKeys /\ Inside(lo[p], k, hi[p])
  <2>1. KeyOrder(node.keys, lo[p], hi[p])
    BY <1>4 DEF PageOrder, IsInner
  <2>2. PICK m \in Nat :
          /\ Len(node.keys) = m /\ \A i \in 1 .. m : node.keys[i] \in SearchKeys
          /\ \A i \in 1 .. m : Inside(lo[p], node.keys[i], hi[p])
    BY <1>4, <2>1, InnerKeys
  <2>3. n + 1 \in 1 .. m
    BY <1>4, <2>2 DEF Divided
  <2> QED BY <1>4, <2>2, <2>3
<1>8. Bounds(P \cup {new}, root, b2, lo2, hi2, up2)
  BY <1>1, <1>7, WidenedBounds
<1>9. ASSUME NEW q \in P, q # p PROVE PageOrder(q, D[q], b2, lo2, hi2, up2)
  <2>1. PICK x, y : x = C[q] /\ y = D[q]
    OBVIOUS
  <2>2. Alike(x, y) /\ PointsInto(x, P) /\ PageOrder(q, x, Itself(P), lo, hi, up)
    BY <1>1, <1>9, <2>1
  <2>3. PageOrder(q, y, b2, lo2, hi2, up2)
    BY <1>9, <2>2, WidenedFrame
  <2> QED BY <2>1, <2>3
<1> QED BY <1>3, <1>5, <1>6, <1>8, <1>9 DEF Ordered

(* An inner node gets a key and a pointer behind it.                       *)
Grown(old, node, at, key, pointer) ==
  /\ IsInner(node) /\ at \in 1 .. Len(old.keys) + 1 /\ Len(node.keys) = Len(old.keys) + 1
  /\ \A j \in 1 .. Len(old.keys) + 1 :
       node.keys[j] = IF j < at THEN old.keys[j] ELSE IF j = at THEN key ELSE old.keys[j - 1]
  /\ \A j \in 1 .. Len(old.pointers) + 1 :
       node.pointers[j] = IF j < at + 1 THEN old.pointers[j]
                          ELSE IF j = at + 1 THEN pointer ELSE old.pointers[j - 1]

LEMMA GrownKeys ==
  ASSUME NEW old, IsInner(old), NEW l, NEW h, l \subseteq Int, h \subseteq Int,
         KeyOrder(old.keys, l, h),
         NEW key \in Int, NEW pointer, NEW at, NEW node, Grown(old, node, at, key, pointer),
         Inside(LowEnd(old, at, l), key, HighEnd(old, at, h))
  PROVE  KeyOrder(node.keys, l, h)
<1>1. PICK m \in Nat :
        /\ Len(old.keys) = m /\ Len(old.pointers) = m + 1
        /\ \A i \in 1 .. m : old.keys[i] \in Int
        /\ \A i \in 1 .. m : \A j \in 1 .. m : i < j => old.keys[i] < old.keys[j]
        /\ \A i \in 1 .. m : Inside(l, old.keys[i], h)
  BY InnerKeys
<1>2. at \in 1 .. m + 1 /\ DOMAIN node.keys = 1 .. m + 1
  <2>1. PICK ks : ks = node.keys
    OBVIOUS
  <2>2. ks \in Seq(SearchKeys) /\ Len(ks) = m + 1 /\ at \in 1 .. m + 1
    BY <1>1, <2>1 DEF Grown, IsInner
  <2> QED BY <2>1, <2>2
<1>3. /\ \A j \in 1 .. m + 1 : j < at => node.keys[j] = old.keys[j] /\ j \in 1 .. m
      /\ \A j \in 1 .. m + 1 : j = at => node.keys[j] = key
      /\ \A j \in 1 .. m + 1 : j > at => /\ node.keys[j] = old.keys[j - 1]
                                         /\ j - 1 \in 1 .. m /\ at <= j - 1
  <2>1. \A j \in 1 .. m + 1 : node.keys[j] = IF j < at THEN old.keys[j]
                                             ELSE IF j = at THEN key ELSE old.keys[j - 1]
    BY <1>1 DEF Grown
  <2>2. \A j \in 1 .. m + 1 : j < at => j \in 1 .. m
    BY <1>2
  <2>3. \A j \in 1 .. m + 1 : j > at => j - 1 \in 1 .. m /\ at <= j - 1
    BY <1>2
  <2>4. \A j \in 1 .. m + 1 : j > at => ~(j < at) /\ j # at
    BY <1>2
  <2>5. \A j \in 1 .. m + 1 : j = at => ~(j < at)
    BY <1>2
  <2> QED BY <2>1, <2>2, <2>3, <2>4, <2>5
<1>4. ASSUME NEW i \in 1 .. m, i < at PROVE old.keys[i] < key
  <2>1. at # 1 /\ at - 1 \in 1 .. m /\ (i < at - 1 \/ i = at - 1)
    BY <1>2, <1>4
  <2>2. old.keys[at - 1] < key
    BY <2>1 DEF Inside, LowEnd
  <2>3. old.keys[i] < old.keys[at - 1] \/ i = at - 1
    BY <1>1, <2>1
  <2> QED BY <1>1, <2>1, <2>2, <2>3
<1>5. ASSUME NEW i \in 1 .. m, at <= i PROVE key < old.keys[i]
  <2>1. at # m + 1 /\ at \in 1 .. m /\ (at < i \/ at = i)
    BY <1>2, <1>5
  <2>2. key < old.keys[at]
    BY <1>1, <2>1 DEF Inside, HighEnd
  <2>3. old.keys[at] < old.keys[i] \/ at = i
    BY <1>1, <2>1
  <2> QED BY <1>1, <2>1, <2>2, <2>3
<1>6. Inside(l, key, h)
  <2>1. ASSUME NEW x \in l PROVE x < key
    <3>1. CASE at = 1
      BY <3>1 DEF Inside, LowEnd
    <3>2. CASE at # 1
      <4>1. at - 1 \in 1 .. m /\ at - 1 < at
        BY <1>2, <3>2
      <4>2. PICK z \in Int : z = old.keys[at - 1]
        BY <1>1, <4>1
      <4>3. z < key
        BY <1>4, <4>1, <4>2
      <4>4. x < z
        BY <1>1, <4>1, <4>2 DEF Inside
      <4>5. x \in Int
        OBVIOUS
      <4> QED BY <4>2, <4>3, <4>4, <4>5
    <3> QED BY <3>1, <3>2
  <2>2. ASSUME NEW y \in h PROVE key < y
    <3>1. CASE at = m + 1
      BY <1>1, <3>1 DEF Inside, HighEnd
    <3>2. CASE at # m + 1
      <4>1. at \in 1 .. m /\ at <= at
        BY <1>2, <3>2
      <4>2. key < old.keys[at] /\ old.keys[at] < y
        BY <1>1, <1>5, <4>1 DEF Inside
      <4> QED BY <1>1, <4>1, <4>2
    <3> QED BY <3>1, <3>2
  <2> QED BY <2>1, <2>2 DEF Inside
<1>7. ASSUME NEW i \in 1 .. m + 1, NEW j \in 1 .. m + 1, i < j
      PROVE  node.keys[i] < node.keys[j]
  <2>1. CASE j < at
    <3>1. i < at
      BY <1>2, <1>7, <2>1
    <3> QED BY <1>1, <1>3, <1>7, <2>1, <3>1
  <2>2. CASE j = at
    <3>1. i < at
      BY <1>7, <2>2
    <3> QED BY <1>3, <1>4, <2>2, <3>1
  <2>3. CASE j > at /\ i < at
    <3>1. node.keys[i] = old.keys[i] /\ node.keys[j] = old.keys[j - 1]
          /\ i \in 1 .. m /\ j - 1 \in 1 .. m
      BY <1>3, <2>3
    <3>2. i < j - 1
      BY <1>2, <2>3
    <3> QED BY <1>1, <3>1, <3>2
  <2>4. CASE j > at /\ i = at
    BY <1>3, <1>5, <2>4
  <2>5. CASE j > at /\ i > at
    <3>1. node.keys[i] = old.keys[i - 1] /\ node.keys[j] = old.keys[j - 1]
          /\ i - 1 \in 1 .. m /\ j - 1 \in 1 .. m
      BY <1>3, <2>5
    <3>2. i - 1 < j - 1
      BY <1>7
    <3> QED BY <1>1, <3>1, <3>2
  <2> QED BY <1>2, <2>1, <2>2, <2>3, <2>4, <2>5
<1>8. ASSUME NEW j \in 1 .. m + 1 PROVE Inside(l, node.keys[j], h)
  <2>1. CASE j < at
    BY <1>1, <1>3, <2>1
  <2>2. CASE j = at
    BY <1>3, <1>6, <2>2
  <2>3. CASE j > at
    BY <1>1, <1>3, <2>3
  <2> QED BY <1>2, <2>1, <2>2, <2>3
<1> QED BY <1>2, <1>7, <1>8 DEF KeyOrder

(* The key of a split child goes where the pointer to the child is.        *)
LEMMA PlaceOfChild ==
  ASSUME NEW old, IsInner(old), NEW l, NEW h, l \subseteq Int, h \subseteq Int,
         KeyOrder(old.keys, l, h), NEW key \in Int, NEW j \in DOMAIN old.pointers,
         Inside(LowEnd(old, j, l), key, HighEnd(old, j, h))
  PROVE  Place(old.keys, key) = j
<1>1. PICK m \in Nat :
        /\ Len(old.keys) = m /\ Len(old.pointers) = m + 1 /\ DOMAIN old.pointers = 1 .. m + 1
        /\ \A i \in 1 .. m : old.keys[i] \in Int
        /\ \A i \in 1 .. m : \A c \in 1 .. m : i < c => old.keys[i] < old.keys[c]
  BY InnerKeys
<1>2. PICK at : at = Place(old.keys, key)
  OBVIOUS
<1>3. /\ at \in 1 .. m + 1 /\ \A i \in 1 .. m : i < at => old.keys[i] <= key
      /\ at <= m => key < old.keys[at]
  <2>1. PICK ks : ks = old.keys
    OBVIOUS
  <2>2. ks \in Seq(Int)
    <3>1. ks \in Seq(SearchKeys) /\ SearchKeys \subseteq Int
      BY <2>1, TreeAssumption DEF IsInner
    <3> QED BY <3>1, SeqMonotonic
  <2>3. /\ at \in 1 .. Len(ks) + 1 /\ \A i \in 1 .. Len(ks) : i < at => ks[i] <= key
        /\ at <= Len(ks) => key < ks[at]
    BY <1>2, <2>1, <2>2, PlaceOf
  <2> QED BY <1>1, <2>1, <2>3
<1>4. CASE at < j
  <2>1. j # 1 /\ j - 1 \in 1 .. m /\ at \in 1 .. m /\ (at < j - 1 \/ at = j - 1)
    BY <1>1, <1>3, <1>4
  <2>2. old.keys[j - 1] < key
    BY <2>1 DEF Inside, LowEnd
  <2>3. key < old.keys[at] /\ (old.keys[at] < old.keys[j - 1] \/ at = j - 1)
    BY <1>1, <1>3, <2>1
  <2> QED BY <1>1, <2>1, <2>2, <2>3
<1>5. CASE j < at
  <2>1. j # m + 1 /\ j \in 1 .. m
    BY <1>1, <1>3, <1>5
  <2>2. key < old.keys[j]
    BY <1>1, <2>1 DEF Inside, HighEnd
  <2> QED BY <1>1, <1>3, <1>5, <2>1, <2>2
<1> QED BY <1>1, <1>2, <1>3, <1>4, <1>5

(* While page x has been split and new is not pointed to.                  *)
Rerouted(P, x, new, b) == x \in P /\ new \in P /\ b = [q \in P |-> IF q = x THEN new ELSE q]

Linking(P, p, old, x, new, b, lo, hi, up, j, key, node, up2) ==
  /\ IsInner(old) /\ PointsInto(old, P) /\ Rerouted(P, x, new, b)
  /\ KeyOrder(old.keys, lo[p], hi[p]) /\ ChildOrder(p, old, b, lo, hi, up)
  /\ j \in DOMAIN old.pointers /\ old.pointers[j] = x
  /\ hi[x] = {key} /\ lo[new] = {key} /\ Grown(old, node, j, key, new)
  /\ up2[new] = p /\ \A q \in P : q # new => up2[q] = up[q]

LEMMA GrownChildren ==
  ASSUME NEW P, NEW p, NEW old, NEW x, NEW new, NEW b, NEW lo, NEW hi, NEW up, NEW j,
         NEW key, NEW node, NEW up2,
         Linking(P, p, old, x, new, b, lo, hi, up, j, key, node, up2)
  PROVE  ChildOrder(p, node, Itself(P), lo, hi, up2)
<1> SUFFICES ASSUME IsInner(old), PointsInto(old, P), Rerouted(P, x, new, b),
                    KeyOrder(old.keys, lo[p], hi[p]), ChildOrder(p, old, b, lo, hi, up),
                    j \in DOMAIN old.pointers, old.pointers[j] = x,
                    hi[x] = {key}, lo[new] = {key}, Grown(old, node, j, key, new),
                    up2[new] = p, \A q \in P : q # new => up2[q] = up[q]
             PROVE  ChildOrder(p, node, Itself(P), lo, hi, up2)
  BY DEF Linking
<1>1. PICK m \in Nat :
        /\ Len(old.keys) = m /\ Len(old.pointers) = m + 1 /\ DOMAIN old.pointers = 1 .. m + 1
  BY InnerKeys
<1>2. /\ j \in 1 .. m + 1 /\ DOMAIN node.pointers = 1 .. m + 2 /\ Len(node.pointers) = m + 2
  <2>1. PICK ps : ps = node.pointers
    OBVIOUS
  <2>2. ps \in Seq(Nat) /\ Len(ps) = (m + 1) + 1
    BY <1>1, <2>1 DEF Grown, IsInner
  <2>3. Len(ps) = m + 2 /\ DOMAIN ps = 1 .. m + 2
    BY <2>2
  <2> QED BY <1>1, <2>1, <2>3
<1>3. /\ x \in P /\ new \in P /\ b[x] = new /\ \A q \in P : q # x => b[q] = q
      /\ \A q \in P : Itself(P)[q] = q
  BY DEF Rerouted, Itself
<1>4. ASSUME NEW i \in 1 .. m + 1
      PROVE  /\ old.pointers[i] \in P /\ up2[old.pointers[i]] = p
             /\ lo[old.pointers[i]] = LowEnd(old, i, lo[p])
             /\ i # j => hi[old.pointers[i]] = HighEnd(old, i, hi[p])
  <2>1. old.pointers[i] \in P
    BY <1>1 DEF PointsInto, IsInner
  <2>2. /\ up[old.pointers[i]] = p /\ lo[old.pointers[i]] = LowEnd(old, i, lo[p])
        /\ hi[b[old.pointers[i]]] = HighEnd(old, i, hi[p])
    BY <1>1 DEF ChildOrder
  <2>3. ASSUME i # j PROVE old.pointers[i] # x
    <3>1. i < j \/ j < i
      BY <1>2, <2>3
    <3> QED BY <1>1, <3>1, PointersDiffer
  <2> QED BY <1>3, <2>1, <2>2, <2>3
<1>5. hi[new] = HighEnd(old, j, hi[p])
  BY <1>1, <1>3 DEF ChildOrder
<1>6. /\ \A i \in 1 .. m + 1 : node.keys[i] = IF i < j THEN old.keys[i]
                                              ELSE IF i = j THEN key ELSE old.keys[i - 1]
      /\ \A i \in 1 .. m + 2 : node.pointers[i] = IF i < j + 1 THEN old.pointers[i]
                                                  ELSE IF i = j + 1 THEN new
                                                  ELSE old.pointers[i - 1]
  <2>1. (m + 1) + 1 = m + 2
    BY <1>1
  <2> QED BY <1>1, <2>1 DEF Grown
<1>7. ASSUME NEW i \in 1 .. m + 2
      PROVE  /\ up2[node.pointers[i]] = p
             /\ lo[node.pointers[i]] = LowEnd(node, i, lo[p])
             /\ hi[node.pointers[i]] = HighEnd(node, i, hi[p])
             /\ node.pointers[i] \in P
  <2>1. CASE i < j
    <3>1. i \in 1 .. m + 1 /\ i \in 1 .. m /\ i < j + 1 /\ i # j /\ i # m + 1 /\ i # m + 2
      BY <1>2, <2>1
    <3>2. node.pointers[i] = old.pointers[i] /\ node.keys[i] = old.keys[i]
      BY <1>6, <2>1, <3>1
    <3>3. LowEnd(node, i, lo[p]) = LowEnd(old, i, lo[p])
      <4>1. CASE i = 1
        BY <4>1 DEF LowEnd
      <4>2. CASE i # 1
        <5>1. i - 1 \in 1 .. m + 1 /\ i - 1 < j
          BY <1>2, <2>1, <4>2
        <5> QED BY <1>6, <4>2, <5>1 DEF LowEnd
      <4> QED BY <4>1, <4>2
    <3>4. HighEnd(node, i, hi[p]) = HighEnd(old, i, hi[p])
      BY <1>1, <1>2, <3>1, <3>2 DEF HighEnd
    <3> QED BY <1>4, <3>1, <3>2, <3>3, <3>4
  <2>2. CASE i = j
    <3>1. i \in 1 .. m + 1 /\ i < j + 1 /\ i # m + 2 /\ ~(i < j)
      BY <1>2, <2>2
    <3>2. node.pointers[i] = x /\ node.keys[i] = key
      BY <1>6, <2>2, <3>1
    <3>3. LowEnd(node, i, lo[p]) = LowEnd(old, i, lo[p])
      <4>1. CASE i = 1
        BY <4>1 DEF LowEnd
      <4>2. CASE i # 1
        <5>1. i - 1 \in 1 .. m + 1 /\ i - 1 < j
          BY <1>2, <2>2, <4>2
        <5> QED BY <1>6, <4>2, <5>1 DEF LowEnd
      <4> QED BY <4>1, <4>2
    <3>4. HighEnd(node, i, hi[p]) = {key}
      BY <1>2, <3>1, <3>2 DEF HighEnd
    <3> QED BY <1>4, <2>2, <3>1, <3>2, <3>3, <3>4
  <2>3. CASE i = j + 1
    <3>1. ~(i < j + 1) /\ i # 1 /\ i - 1 = j /\ ~(j < j) /\ j \in 1 .. m + 1
      BY <1>2, <2>3
    <3>2. node.pointers[i] = new /\ node.keys[i - 1] = key
      BY <1>6, <2>3, <3>1
    <3>3. LowEnd(node, i, lo[p]) = {key}
      BY <3>1, <3>2 DEF LowEnd
    <3>4. HighEnd(node, i, hi[p]) = HighEnd(old, j, hi[p])
      <4>1. CASE j = m + 1
        <5>1. i = m + 2
          BY <2>3, <4>1
        <5> QED BY <1>1, <1>2, <4>1, <5>1 DEF HighEnd
      <4>2. CASE j # m + 1
        <5>1. i # m + 2 /\ i \in 1 .. m + 1 /\ ~(i < j) /\ i # j
          BY <1>2, <2>3, <4>2
        <5>2. node.keys[i] = old.keys[j]
          BY <1>6, <3>1, <5>1
        <5> QED BY <1>1, <1>2, <4>2, <5>1, <5>2 DEF HighEnd
      <4> QED BY <4>1, <4>2
    <3> QED BY <1>3, <1>5, <3>2, <3>3, <3>4
  <2>4. CASE i > j + 1
    <3>1. PICK k \in 1 .. m + 1 : k = i - 1 /\ k # j /\ k # 1 /\ ~(i < j + 1) /\ i # j + 1
                                 /\ ~(k < j) /\ i # 1 /\ (i = m + 2 <=> k = m + 1)
      BY <1>2, <2>4
    <3>2. node.pointers[i] = old.pointers[k] /\ node.keys[k] = old.keys[k - 1]
      BY <1>6, <3>1
    <3>3. LowEnd(node, i, lo[p]) = LowEnd(old, k, lo[p])
      BY <3>1, <3>2 DEF LowEnd
    <3>4. HighEnd(node, i, hi[p]) = HighEnd(old, k, hi[p])
      <4>1. CASE k = m + 1
        BY <1>1, <1>2, <3>1, <4>1 DEF HighEnd
      <4>2. CASE k # m + 1
        <5>1. i \in 1 .. m + 1 /\ ~(i < j) /\ i # j
          BY <1>2, <2>4, <3>1, <4>2
        <5>2. node.keys[i] = old.keys[k]
          BY <1>6, <3>1, <5>1
        <5> QED BY <1>1, <1>2, <3>1, <4>2, <5>2 DEF HighEnd
      <4> QED BY <4>1, <4>2
    <3> QED BY <1>4, <3>1, <3>2, <3>3, <3>4
  <2>5. i < j \/ i = j \/ i = j + 1 \/ i > j + 1
    BY <1>2
  <2> QED BY <2>1, <2>2, <2>3, <2>4, <2>5
<1>8. ASSUME NEW i \in 1 .. m + 2
      PROVE  /\ up2[node.pointers[i]] = p
             /\ lo[node.pointers[i]] = LowEnd(node, i, lo[p])
             /\ hi[Itself(P)[node.pointers[i]]] = HighEnd(node, i, hi[p])
  BY <1>3, <1>7
<1> QED BY <1>2, <1>8 DEF ChildOrder

(* Other nodes than the one that gets the pointer.                         *)
Extends(P, Q, x, new, lo, hi, up, lo2, hi2, up2) ==
  /\ P \subseteq Q
  /\ \A c \in P : lo2[c] = lo[c] /\ hi2[c] = hi[c]
  /\ \A c \in P : c # x /\ c # new => up2[c] = up[c]

LEMMA LinkedFrame ==
  ASSUME NEW P, NEW x, NEW new, NEW b, Rerouted(P, x, new, b),
         NEW q \in P, NEW node, PointsInto(node, P), NEW lo, NEW hi, NEW up,
         PageOrder(q, node, b, lo, hi, up), up[x] # q, up[new] # q,
         NEW Q, NEW lo2, NEW hi2, NEW up2, Extends(P, Q, x, new, lo, hi, up, lo2, hi2, up2)
  PROVE  PageOrder(q, node, Itself(Q), lo2, hi2, up2)
<1>1. /\ P \subseteq Q /\ lo2[q] = lo[q] /\ hi2[q] = hi[q]
      /\ \A c \in P : lo2[c] = lo[c] /\ hi2[c] = hi[c]
      /\ \A c \in P : c # x /\ c # new => up2[c] = up[c]
      /\ \A c \in P : (c # x => b[c] = c) /\ Itself(Q)[c] = c
  BY DEF Extends, Rerouted, Itself
<1>2. CASE node.is_leaf
  <2>1. LeafOrder(node.entries, lo[q], hi[q]) /\ LinkOrder(node.next_leaf, lo, hi[q])
    BY <1>2 DEF PageOrder
  <2>2. LinkOrder(node.next_leaf, lo2, hi2[q])
    BY <1>1, <1>2, <2>1 DEF LinkOrder, PointsInto
  <2> QED BY <1>1, <1>2, <2>1, <2>2 DEF PageOrder
<1>3. CASE ~node.is_leaf
  <2>1. KeyOrder(node.keys, lo[q], hi[q]) /\ ChildOrder(q, node, b, lo, hi, up)
    BY <1>3 DEF PageOrder
  <2>2. ASSUME NEW i \in DOMAIN node.pointers
        PROVE  /\ up2[node.pointers[i]] = q
               /\ lo2[node.pointers[i]] = LowEnd(node, i, lo2[q])
               /\ hi2[Itself(Q)[node.pointers[i]]] = HighEnd(node, i, hi2[q])
    <3>1. PICK c : c = node.pointers[i] /\ c \in P
      BY <1>3 DEF PointsInto
    <3>2. up[c] = q /\ lo[c] = LowEnd(node, i, lo[q]) /\ hi[b[c]] = HighEnd(node, i, hi[q])
      BY <2>1, <3>1 DEF ChildOrder
    <3> QED BY <1>1, <3>1, <3>2
  <2> QED BY <1>1, <1>3, <2>1, <2>2 DEF PageOrder, ChildOrder
<1> QED BY <1>2, <1>3

LinkAdded(C, D, P, p, x, new, j, key, node) ==
  /\ p \in P /\ IsInner(C[p]) /\ j \in DOMAIN C[p].pointers /\ C[p].pointers[j] = x
  /\ key \in SearchKeys /\ Grown(C[p], node, Place(C[p].keys, key), key, new)
  /\ DOMAIN D = P /\ \A q \in P : D[q] = IF q = p THEN node ELSE C[q]

LEMMA PointerLinked ==
  ASSUME NEW C, NEW P, NEW root, Source(C, P, root), NEW x, NEW new, NEW b,
         Rerouted(P, x, new, b), NEW lo, NEW hi, NEW up, Ordered(C, root, b, lo, hi, up),
         NEW p, NEW j, NEW key, NEW node, NEW D, LinkAdded(C, D, P, p, x, new, j, key, node),
         hi[x] = {key}, lo[new] = {key}, up[new] = 0,
         NEW up2, up2 = [up EXCEPT ![new] = p]
  PROVE  Ordered(D, root, Itself(P), lo, hi, up2)
<1> SUFFICES ASSUME P = DOMAIN C, Pages(P), root \in P, \A q \in P : PointsInto(C[q], P),
                    p \in P, IsInner(C[p]), j \in DOMAIN C[p].pointers, C[p].pointers[j] = x,
                    key \in SearchKeys, Grown(C[p], node, Place(C[p].keys, key), key, new),
                    DOMAIN D = P, \A q \in P : D[q] = IF q = p THEN node ELSE C[q]
             PROVE  Ordered(D, root, Itself(P), lo, hi, up2)
  BY DEF Source, LinkAdded
<1>1. Bounds(P, root, b, lo, hi, up) /\ \A q \in P : PageOrder(q, C[q], b, lo, hi, up)
  BY DEF Ordered
<1>2. /\ lo \in [P -> SUBSET SearchKeys] /\ hi \in [P -> SUBSET SearchKeys]
      /\ up \in [P -> Nat] /\ \A q \in P : Apart(lo[q], hi[q])
      /\ lo[root] = {} /\ hi[b[root]] = {} /\ up[root] = 0 /\ lo[1] = {}
  BY <1>1 DEF Bounds
<1>3. /\ x \in P /\ new \in P /\ b[x] = new /\ \A q \in P : q # x => b[q] = q
      /\ \A q \in P : Itself(P)[q] = q
  BY DEF Rerouted, Itself
<1>4. PICK old : old = C[p]
  OBVIOUS
<1>5. /\ IsInner(old) /\ PointsInto(old, P) /\ KeyOrder(old.keys, lo[p], hi[p])
      /\ ChildOrder(p, old, b, lo, hi, up) /\ j \in DOMAIN old.pointers /\ old.pointers[j] = x
  BY <1>1, <1>4 DEF PageOrder, IsInner
<1>6. up[x] = p /\ lo[x] = LowEnd(old, j, lo[p]) /\ hi[new] = HighEnd(old, j, hi[p])
  BY <1>3, <1>5 DEF ChildOrder
<1>7. Inside(LowEnd(old, j, lo[p]), key, HighEnd(old, j, hi[p]))
  <2>1. Apart(lo[x], {key}) /\ Apart({key}, hi[new])
    BY <1>2, <1>3
  <2> QED BY <1>6, <2>1 DEF Apart, Inside
<1>8. key \in Int /\ lo[p] \subseteq Int /\ hi[p] \subseteq Int
  BY <1>2, TreeAssumption
<1>9. Place(old.keys, key) = j
  BY <1>5, <1>7, <1>8, PlaceOfChild
<1>10. Grown(old, node, j, key, new)
  BY <1>4, <1>9
<1>11. /\ up2 \in [P -> Nat] /\ up2[new] = p /\ \A q \in P : q # new => up2[q] = up[q]
  BY <1>2, <1>3 DEF Pages
<1>12. KeyOrder(node.keys, lo[p], hi[p])
  BY <1>5, <1>7, <1>8, <1>10, GrownKeys
<1>13. ChildOrder(p, node, Itself(P), lo, hi, up2)
  <2>1. Linking(P, p, old, x, new, b, lo, hi, up, j, key, node, up2)
    BY <1>5, <1>10, <1>11 DEF Linking
  <2> QED BY <2>1, GrownChildren
<1>14. PageOrder(p, node, Itself(P), lo, hi, up2)
  BY <1>10, <1>12, <1>13 DEF PageOrder, Grown, IsInner
<1>15. ASSUME NEW q \in P, q # p PROVE PageOrder(q, D[q], Itself(P), lo, hi, up2)
  <2>1. PICK y : y = D[q] /\ y = C[q]
    BY <1>15
  <2>2. PointsInto(y, P) /\ PageOrder(q, y, b, lo, hi, up) /\ up[x] # q /\ up[new] # q
    BY <1>1, <1>6, <1>15, <2>1 DEF Pages
  <2>3. Extends(P, P, x, new, lo, hi, up, lo, hi, up2)
    BY <1>11 DEF Extends
  <2>4. PageOrder(q, y, Itself(P), lo, hi, up2)
    BY <2>2, <2>3, LinkedFrame
  <2> QED BY <2>1, <2>4
<1>16. Bounds(P, root, Itself(P), lo, hi, up2)
  <2>1. root # x /\ p # 0
    BY <1>2, <1>6 DEF Pages
  <2>2. root # new
    BY <1>2, <1>3, <1>6, <2>1
  <2>3. hi[Itself(P)[root]] = {} /\ up2[root] = 0
    BY <1>2, <1>3, <1>11, <2>1, <2>2
  <2> QED BY <1>2, <1>11, <2>3 DEF Bounds
<1> QED BY <1>14, <1>15, <1>16 DEF Ordered

RootAdded(C, D, P, root, new, key, r) ==
  /\ r \notin P /\ r \in Nat \ {0} /\ root # new /\ key \in SearchKeys
  /\ DOMAIN D = P \cup {r} /\ \A q \in P : D[q] = C[q]
  /\ ~D[r].is_leaf /\ D[r].keys = <<key>> /\ D[r].pointers = <<root, new>>

LEMMA RootLinked ==
  ASSUME NEW C, NEW P, NEW root, Source(C, P, root), NEW new, NEW b,
         Rerouted(P, root, new, b), NEW lo, NEW hi, NEW up, Ordered(C, root, b, lo, hi, up),
         NEW key, NEW r, NEW D, RootAdded(C, D, P, root, new, key, r),
         hi[root] = {key}, lo[new] = {key}, up[new] = 0,
         NEW lo2, lo2 = [q \in P \cup {r} |-> IF q = r THEN {} ELSE lo[q]],
         NEW hi2, hi2 = [q \in P \cup {r} |-> IF q = r THEN {} ELSE hi[q]],
         NEW up2, up2 = [q \in P \cup {r} |-> IF q = r THEN 0
                                              ELSE IF q \in {root, new} THEN r ELSE up[q]]
  PROVE  Ordered(D, r, Itself(P \cup {r}), lo2, hi2, up2)
<1> SUFFICES ASSUME P = DOMAIN C, Pages(P), root \in P, \A q \in P : PointsInto(C[q], P),
                    r \notin P, r \in Nat \ {0}, root # new, key \in SearchKeys,
                    DOMAIN D = P \cup {r}, \A q \in P : D[q] = C[q],
                    ~D[r].is_leaf, D[r].keys = <<key>>, D[r].pointers = <<root, new>>
             PROVE  Ordered(D, r, Itself(P \cup {r}), lo2, hi2, up2)
  BY DEF Source, RootAdded
<1>1. Bounds(P, root, b, lo, hi, up) /\ \A q \in P : PageOrder(q, C[q], b, lo, hi, up)
  BY DEF Ordered
<1>2. /\ lo \in [P -> SUBSET SearchKeys] /\ hi \in [P -> SUBSET SearchKeys]
      /\ up \in [P -> Nat] /\ \A q \in P : Apart(lo[q], hi[q])
      /\ lo[root] = {} /\ hi[new] = {} /\ up[root] = 0 /\ lo[1] = {}
  BY <1>1 DEF Bounds, Rerouted
<1>3. root \in P /\ new \in P /\ \A q \in P \cup {r} : Itself(P \cup {r})[q] = q
  BY DEF Rerouted, Itself
<1>4. /\ lo2[r] = {} /\ hi2[r] = {} /\ up2[r] = 0 /\ up2[root] = r /\ up2[new] = r
      /\ \A q \in P : lo2[q] = lo[q] /\ hi2[q] = hi[q]
      /\ \A q \in P : q # root /\ q # new => up2[q] = up[q]
  BY <1>3
<1>5. PageOrder(r, D[r], Itself(P \cup {r}), lo2, hi2, up2)
  <2>1. PICK node : node = D[r] /\ node.keys = <<key>> /\ node.pointers = <<root, new>>
    OBVIOUS
  <2>2. /\ DOMAIN node.keys = {1} /\ DOMAIN node.pointers = {1, 2} /\ Len(node.pointers) = 2
        /\ node.keys[1] = key /\ node.pointers[1] = root /\ node.pointers[2] = new
    <3>1. PICK ks, ps : ks = node.keys /\ ps = node.pointers
      OBVIOUS
    <3>2. ks = <<key>> /\ ps = <<root, new>>
      BY <2>1, <3>1
    <3>3. DOMAIN ks = {1} /\ ks[1] = key
      BY <3>2
    <3>4. DOMAIN ps = {1, 2} /\ Len(ps) = 2 /\ ps[1] = root /\ ps[2] = new
      BY <3>2
    <3> QED BY <3>1, <3>3, <3>4
  <2>3. KeyOrder(node.keys, lo2[r], hi2[r])
    BY <1>4, <2>2 DEF KeyOrder, Inside
  <2>4. ChildOrder(r, node, Itself(P \cup {r}), lo2, hi2, up2)
    <3>1. LowEnd(node, 1, {}) = {} /\ HighEnd(node, 1, {}) = {key}
      BY <2>2 DEF LowEnd, HighEnd
    <3>2. LowEnd(node, 2, {}) = {key} /\ HighEnd(node, 2, {}) = {}
      BY <2>2 DEF LowEnd, HighEnd
    <3>3. /\ up2[root] = r /\ lo2[root] = LowEnd(node, 1, lo2[r])
          /\ hi2[root] = HighEnd(node, 1, hi2[r])
      BY <1>2, <1>3, <1>4, <3>1
    <3>4. /\ up2[new] = r /\ lo2[new] = LowEnd(node, 2, lo2[r])
          /\ hi2[new] = HighEnd(node, 2, hi2[r])
      BY <1>2, <1>3, <1>4, <3>2
    <3>5. Itself(P \cup {r})[root] = root /\ Itself(P \cup {r})[new] = new
      BY <1>3
    <3>6. \A i \in DOMAIN node.pointers :
            (i = 1 /\ node.pointers[i] = root) \/ (i = 2 /\ node.pointers[i] = new)
      BY <2>2
    <3> QED BY <3>3, <3>4, <3>5, <3>6 DEF ChildOrder
  <2> QED BY <2>1, <2>3, <2>4 DEF PageOrder
<1>6. ASSUME NEW q \in P PROVE PageOrder(q, D[q], Itself(P \cup {r}), lo2, hi2, up2)
  <2>1. PICK y : y = D[q] /\ y = C[q]
    OBVIOUS
  <2>2. PointsInto(y, P) /\ PageOrder(q, y, b, lo, hi, up) /\ up[root] # q /\ up[new] # q
    BY <1>1, <1>2, <2>1 DEF Pages
  <2>3. Extends(P, P \cup {r}, root, new, lo, hi, up, lo2, hi2, up2)
    BY <1>4 DEF Extends
  <2>4. PageOrder(q, y, Itself(P \cup {r}), lo2, hi2, up2)
    BY <2>2, <2>3, LinkedFrame
  <2> QED BY <2>1, <2>4
<1>7. Bounds(P \cup {r}, r, Itself(P \cup {r}), lo2, hi2, up2)
  <2>1. lo2 \in [P \cup {r} -> SUBSET SearchKeys] /\ hi2 \in [P \cup {r} -> SUBSET SearchKeys]
    BY <1>2
  <2>2. up2 \in [P \cup {r} -> Nat]
    BY <1>2
  <2>3. lo2[1] = {} /\ \A q \in P \cup {r} : Apart(lo2[q], hi2[q])
    BY <1>2, <1>4 DEF Pages, Apart
  <2> QED BY <1>3, <1>4, <2>1, <2>2, <2>3 DEF Bounds
<1> QED BY <1>5, <1>6, <1>7 DEF Ordered

LEMMA LeafRefilled ==
  ASSUME NEW C, NEW P, P = DOMAIN C, NEW root, NEW b, NEW lo, NEW hi, NEW up,
         Ordered(C, root, b, lo, hi, up), NEW p \in P, C[p].is_leaf,
         NEW leaf, leaf.is_leaf, leaf.next_leaf = C[p].next_leaf,
         LeafOrder(leaf.entries, lo[p], hi[p]),
         NEW D, DOMAIN D = P, \A q \in P : D[q] = IF q = p THEN leaf ELSE C[q]
  PROVE  Ordered(D, root, b, lo, hi, up)
BY DEF Ordered, PageOrder
-----------------------------------------------------------------------------
(***************************************************************************)
(* The way down to a key.                                                  *)
(***************************************************************************)
Covers(l, key, h) == (\A x \in l : x < key) /\ (\A y \in h : key <= y)

(* The nodes of the file, read when no node is held.                       *)
Stored(C) == DOMAIN C = PageIds /\ \A p \in PageIds : C[p] = nodes[p]

LEMMA StoredInner ==
  ASSUME NodesInv, NEW p \in PageIds \ Leaves
  PROVE  IsInner(nodes[p])
<1>1. /\ nodes[p].keys \in Seq(SearchKeys) /\ nodes[p].pointers \in Seq(PageIds)
      /\ Len(nodes[p].pointers) = Len(nodes[p].keys) + 1 /\ PageIds \subseteq Nat
  BY NodeFields
<1>2. nodes[p].pointers \in Seq(Nat)
  BY <1>1, SeqMonotonic
<1> QED BY <1>1, <1>2 DEF IsInner, Leaves

LEMMA StoredPointers ==
  ASSUME NodesInv, NEW p \in PageIds
  PROVE  PointsInto(nodes[p], PageIds)
<1>1. CASE p \in Leaves
  BY <1>1, NodeFields DEF PointsInto, Leaves
<1>2. CASE p \notin Leaves
  <2>1. nodes[p].pointers \in Seq(PageIds)
    BY <1>2, NodeFields
  <2> QED BY <1>2, <2>1 DEF PointsInto, Leaves
<1> QED BY <1>1, <1>2

LEMMA ChildCovers ==
  ASSUME NodesInv, NEW p \in PageIds \ Leaves, NEW key \in SearchKeys,
         NEW lo, NEW hi, NEW up, PageOrder(p, nodes[p], Itself(PageIds), lo, hi, up),
         Covers(lo[p], key, hi[p])
  PROVE  /\ \E j \in DOMAIN nodes[p].pointers : Child(nodes[p], key) = nodes[p].pointers[j]
         /\ Covers(lo[Child(nodes[p], key)], key, hi[Child(nodes[p], key)])
<1>1. PICK node : node = nodes[p]
  OBVIOUS
<1>2. IsInner(node) /\ PointsInto(node, PageIds)
  BY <1>1, StoredInner, StoredPointers
<1>3. KeyOrder(node.keys, lo[p], hi[p]) /\ ChildOrder(p, node, Itself(PageIds), lo, hi, up)
  BY <1>1, <1>2 DEF PageOrder, IsInner
<1>4. PICK m \in Nat :
        /\ Len(node.keys) = m /\ Len(node.pointers) = m + 1
        /\ DOMAIN node.keys = 1 .. m /\ DOMAIN node.pointers = 1 .. m + 1
  BY <1>2, <1>3, InnerKeys
<1>5. PICK j \in DOMAIN node.pointers :
        /\ Child(node, key) = node.pointers[j]
        /\ j > 1 => node.keys[j - 1] < key
        /\ \A i \in DOMAIN node.keys : j <= i => key <= node.keys[i]
  <2>1. node.keys \in Seq(SearchKeys) /\ node.pointers \in Seq(Nat) /\ SearchKeys \subseteq Int
        /\ Nat \subseteq Int
    BY <1>2, TreeAssumption DEF IsInner
  <2>2. node.keys \in Seq(Int) /\ node.pointers \in Seq(Int)
    BY <2>1, SeqMonotonic
  <2>3. key \in Int /\ Len(node.pointers) = Len(node.keys) + 1
    BY <2>1, <1>2 DEF IsInner
  <2> QED BY <2>2, <2>3, ChildOf
<1>6. PICK c : c = node.pointers[j]
  OBVIOUS
<1>7. c \in PageIds
  BY <1>2, <1>6 DEF PointsInto, IsInner
<1>8. lo[c] = LowEnd(node, j, lo[p]) /\ hi[c] = HighEnd(node, j, hi[p])
  BY <1>3, <1>6, <1>7 DEF ChildOrder, Itself
<1>9. \A x \in lo[c] : x < key
  <2>1. CASE j = 1
    BY <1>8, <2>1 DEF LowEnd, Covers
  <2>2. CASE j # 1
    <3>1. j > 1
      BY <1>4, <2>2
    <3> QED BY <1>5, <1>8, <2>2, <3>1 DEF LowEnd
  <2> QED BY <2>1, <2>2
<1>10. \A y \in hi[c] : key <= y
  <2>1. CASE j = m + 1
    BY <1>4, <1>8, <2>1 DEF HighEnd, Covers
  <2>2. CASE j # m + 1
    <3>1. j \in DOMAIN node.keys /\ j <= j
      BY <1>4, <2>2
    <3> QED BY <1>4, <1>5, <1>8, <2>2, <3>1 DEF HighEnd
  <2> QED BY <2>1, <2>2
<1> QED BY <1>1, <1>5, <1>6, <1>9, <1>10 DEF Covers

LEMMA PathCovers ==
  ASSUME NodesInv, NEW level, Levels(level), NEW key \in SearchKeys, NEW C, Stored(C),
         NEW lo, NEW hi, NEW up, Ordered(C, root_page_id, Itself(PageIds), lo, hi, up)
  PROVE  /\ LeafOf(key) \in Leaves
         /\ Covers(lo[LeafOf(key)], key, hi[LeafOf(key)])
         /\ \A i \in 1 .. Len(PathTo(key)) - 1 :
              \E j \in DOMAIN nodes[PathTo(key)[i]].pointers :
                nodes[PathTo(key)[i]].pointers[j] = PathTo(key)[i + 1]
<1>1. PICK to : to = PathTo(key)
  OBVIOUS
<1>2. PICK n \in Nat : n = Len(to)
  BY <1>1, PathFound
<1>3. to \in Seq(PageIds) /\ n = level[root_page_id] + 1 /\ to[1] = root_page_id
  BY <1>1, <1>2, PathFound
<1>4. \A i \in 1 .. n : level[to[i]] = n - i
  BY <1>1, <1>2, PathFound
<1>5. \A i \in 1 .. n - 1 : to[i + 1] = Child(nodes[to[i]], key)
  BY <1>1, <1>2, PathFound
<1>6. n \in 1 .. n /\ 1 \in 1 .. n /\ \A i \in 1 .. n : to[i] \in PageIds
  <2>1. level[root_page_id] \in Nat
    BY DEF Levels
  <2>2. n \in 1 .. n /\ 1 \in 1 .. n
    BY <1>2, <1>3, <2>1
  <2>3. \A i \in 1 .. n : to[i] \in PageIds
    <3>1. to \in Seq(PageIds)
      BY <1>3
    <3>2. \A i \in 1 .. Len(to) : to[i] \in PageIds
      BY ONLY <3>1
    <3> QED BY <1>2, <3>2
  <2> QED BY <2>2, <2>3
<1>7. \A p \in PageIds : PageOrder(p, nodes[p], Itself(PageIds), lo, hi, up)
  BY DEF Ordered, Stored
<1>8. ASSUME NEW i \in 1 .. n - 1
      PROVE  /\ to[i] \in PageIds \ Leaves /\ i \in 1 .. n
  <2>1. i \in 1 .. n /\ n - i # 0
    BY <1>2
  <2>2. level[to[i]] # 0 /\ to[i] \in PageIds
    BY <1>4, <1>6, <2>1
  <2> QED BY <2>1, <2>2 DEF Levels, Leaves
<1>9. PICK good : good = {i \in 1 .. n : Covers(lo[to[i]], key, hi[to[i]])}
  OBVIOUS
<1>10. ASSUME NEW i \in 1 .. n - 1, i \in good PROVE i + 1 \in good
  <2>1. i + 1 \in 1 .. n
    BY <1>2
  <2>2. PICK p \in PageIds \ Leaves : p = to[i]
    BY <1>8
  <2>3. Covers(lo[p], key, hi[p]) /\ PageOrder(p, nodes[p], Itself(PageIds), lo, hi, up)
    BY <1>7, <1>9, <1>10, <2>2
  <2>4. Covers(lo[Child(nodes[p], key)], key, hi[Child(nodes[p], key)])
    BY <2>3, ChildCovers
  <2> QED BY <1>5, <1>9, <2>1, <2>2, <2>4
<1>11. 1 \in good
  <2>1. lo[root_page_id] = {} /\ hi[root_page_id] = {}
    BY DEF Ordered, Bounds, Itself, Stored, Levels
  <2> QED BY <1>3, <1>6, <1>9, <2>1 DEF Covers
<1>12. \A i \in 1 .. n : i \in good
  <2>1. PICK P, rank : P = 1 .. n /\ rank = [i \in 1 .. n |-> i]
    OBVIOUS
  <2>2. rank \in [P -> Nat] /\ \A i \in P : rank[i] = i
    BY <2>1
  <2>3. ASSUME NEW i \in P, \A q \in P : rank[q] < rank[i] => q \in good PROVE i \in good
    <3>1. CASE i = 1
      BY <1>11, <3>1
    <3>2. CASE i # 1
      <4>1. i - 1 \in 1 .. n - 1 /\ i - 1 \in P /\ rank[i - 1] < rank[i] /\ (i - 1) + 1 = i
        BY <1>2, <2>1, <2>2, <3>2
      <4>2. i - 1 \in good
        BY <2>3, <4>1
      <4> QED BY <1>10, <4>1, <4>2
    <3> QED BY <3>1, <3>2
  <2>4. \A i \in P : i \in good
    BY <2>2, <2>3, RankInduction
  <2> QED BY <2>1, <2>4
<1>13. LeafOf(key) = to[n]
  BY <1>1, <1>2 DEF LeafOf, Last
<1>14. LeafOf(key) \in Leaves
  <2>1. level[to[n]] = 0 /\ to[n] \in PageIds
    BY <1>4, <1>6
  <2> QED BY <1>13, <2>1 DEF Levels, Leaves
<1>15. Covers(lo[LeafOf(key)], key, hi[LeafOf(key)])
  BY <1>6, <1>9, <1>12, <1>13
<1>16. ASSUME NEW i \in 1 .. n - 1
       PROVE  \E j \in DOMAIN nodes[to[i]].pointers : nodes[to[i]].pointers[j] = to[i + 1]
  <2>1. PICK p \in PageIds \ Leaves : p = to[i]
    BY <1>8
  <2>2. Covers(lo[p], key, hi[p]) /\ PageOrder(p, nodes[p], Itself(PageIds), lo, hi, up)
    BY <1>7, <1>8, <1>9, <1>12, <2>1
  <2>3. \E j \in DOMAIN nodes[p].pointers : Child(nodes[p], key) = nodes[p].pointers[j]
    BY <2>2, ChildCovers
  <2> QED BY <1>5, <2>1, <2>3
<1> QED BY <1>1, <1>2, <1>14, <1>15, <1>16
-----------------------------------------------------------------------------
(***************************************************************************)
(* The invariant.                                                          *)
(***************************************************************************)
(* A node has been split and nothing points to its right half yet.         *)
Pending == pc \in {"update_parent", "split_root"}
Now == [p \in PageIds |-> Content(p)]
Ends == [p \in PageIds |-> IF Pending /\ p = split.node THEN split.new ELSE p]

PendingOrder(lo, hi, up) ==
  Pending => /\ split.new # split.node /\ up[split.new] = 0
             /\ hi[split.node] = {Separator} /\ lo[split.new] = {Separator}

(* A split goes back up the pointers that the descent has followed.        *)
Climb == CASE pc = "split_leaf" -> Len(path) - 1
           [] pc = "update_parent" -> split.idx
           [] pc = "split_internal" -> split.idx - 1
           [] OTHER -> 0
Follows(i) ==
  \E j \in DOMAIN nodes[path[i]].pointers : nodes[path[i]].pointers[j] = path[i + 1]
PathOrder == \A i \in 1 .. Climb : Follows(i)

Arranged ==
  /\ PathOrder
  /\ \E lo, hi, up : Ordered(Now, root_page_id, Ends, lo, hi, up) /\ PendingOrder(lo, hi, up)
OrderInv == TreeInv /\ FewCopies /\ Arranged

LEMMA Quiet ==
  ASSUME NodesInv, held = NoNode, ~Pending
  PROVE  Stored(Now) /\ Ends = Itself(PageIds)
<1>1. \A p \in PageIds : Content(p) = nodes[p]
  BY ContentOf
<1> QED BY <1>1 DEF Stored, Now, Ends, Itself

LEMMA PagesOfTree ==
  ASSUME NodesInv, NEW level, Levels(level), NEW edge, LeftEdge(edge)
  PROVE  Pages(PageIds) /\ root_page_id \in PageIds /\ DOMAIN Now = PageIds
<1>1. 1 \in Leaves
  BY LeftmostFound
<1>2. PageIds \subseteq Nat /\ Leaves \subseteq PageIds /\ Len(nodes) \in Nat
  BY NodeFields
<1>3. 0 \notin PageIds
  BY <1>2 DEF PageIds
<1> QED BY <1>1, <1>2, <1>3 DEF Pages, Levels, Now

LEMMA InsertOrder ==
  ASSUME OrderInv, NEW key \in SearchKeys, Insert(key)
  PROVE  Arranged'
<1>1. PICK level, edge, chain : Shape(level, edge, chain) /\ CallInv(level)
  BY DEF OrderInv, TreeInv
<1>2. NodesInv /\ Levels(level) /\ LeftEdge(edge) /\ HeldInv(level) /\ PairsInv
  BY <1>1 DEF Shape, CallInv, OrderInv, TreeInv
<1>3. /\ pc = "idle" /\ held = NoNode /\ ~Pending /\ NextRid(key)[2] \in Copies
      /\ root_page_id' = root_page_id
  BY <1>2 DEF Insert, Idle, HeldInv, Pending
<1>4. PICK lo, hi, up : Ordered(Now, root_page_id, Ends, lo, hi, up)
  BY DEF OrderInv, Arranged
<1>5. Stored(Now) /\ Ends = Itself(PageIds)
  BY <1>2, <1>3, Quiet
<1>6. PICK to, p, rid, old, leaf, at :
        /\ to = PathTo(key) /\ p = LeafOf(key) /\ rid = NextRid(key) /\ old = nodes[p]
        /\ leaf = insert(old, key, rid) /\ at = Place(KeysOf(old.entries), key)
  OBVIOUS
<1>7. PICK C : C = Now
  OBVIOUS
<1>8. Stored(C) /\ Ordered(C, root_page_id, Itself(PageIds), lo, hi, up)
  BY <1>4, <1>5, <1>7
<1>9. p \in Leaves /\ p \in PageIds /\ Covers(lo[p], key, hi[p])
  <2>1. LeafOf(key) \in Leaves /\ Covers(lo[LeafOf(key)], key, hi[LeafOf(key)])
    BY <1>2, <1>8, PathCovers
  <2> QED BY <1>6, <2>1 DEF Leaves
<1>10. \A i \in 1 .. Len(to) - 1 :
         \E j \in DOMAIN nodes[to[i]].pointers : nodes[to[i]].pointers[j] = to[i + 1]
  <2>1. \A i \in 1 .. Len(PathTo(key)) - 1 :
          \E j \in DOMAIN nodes[PathTo(key)[i]].pointers :
            nodes[PathTo(key)[i]].pointers[j] = PathTo(key)[i + 1]
    BY <1>2, <1>8, PathCovers
  <2> QED BY <1>6, <2>1
<1>11. rid \in AllRids
  BY <1>2, <1>3, <1>6, NextRidIsNew DEF PairsInv
<1>12. old \in LeafNode /\ old.is_leaf /\ old.entries \in Seq(EntryType)
  <2>1. old \in LeafNode
    BY <1>2, <1>6, <1>9, NodeFields
  <2> QED BY <2>1, LeafKeys
<1>13. /\ leaf \in LeafNode /\ leaf.next_leaf = old.next_leaf
       /\ Len(leaf.entries) = Len(old.entries) + 1
  <2>0. leaf = insert(old, key, rid) /\ at = Place(KeysOf(old.entries), key)
    BY <1>6
  <2>1. leaf \in LeafNode /\ leaf.next_leaf = old.next_leaf
    BY <1>11, <1>12, <2>0, LeafInserted
  <2>2. Len(leaf.entries) = Len(old.entries) + 1
    BY <1>11, <1>12, <2>0, LeafInserted
  <2> QED BY <2>1, <2>2
<1>14. \A j \in 1 .. Len(old.entries) + 1 :
         leaf.entries[j] = IF j < at THEN old.entries[j]
                           ELSE IF j = at THEN <<key, rid>> ELSE old.entries[j - 1]
  BY <1>6, <1>11, <1>12, LeafInserted, SMTT(30)
<1>15. leaf.is_leaf /\ leaf.entries \in Seq(EntryType)
  BY <1>13, LeafKeys
<1>16. LeafOrder(leaf.entries, lo[p], hi[p])
  <2>1. PICK s, t, e, l, h : /\ s = old.entries /\ t = leaf.entries /\ e = <<key, rid>>
                             /\ l = lo[p] /\ h = hi[p]
    OBVIOUS
  <2>2. LeafOrder(s, l, h)
    BY <1>6, <1>8, <1>9, <1>12, <2>1 DEF Ordered, Stored, PageOrder
  <2>3. lo[p] \subseteq SearchKeys
    BY <1>8, <1>9 DEF Ordered, Bounds, Stored
  <2>4. Within(l, key, h)
    BY <1>9, <2>1, <2>3, TreeAssumption DEF Covers, Within
  <2>5. /\ s \in Seq(EntryType) /\ t \in Seq(EntryType) /\ at = Place(KeysOf(s), key)
        /\ e[1] = key /\ Len(t) = Len(s) + 1
    BY <1>6, <1>12, <1>13, <1>15, <2>1
  <2>6. \A j \in 1 .. Len(s) + 1 : t[j] = IF j < at THEN s[j]
                                          ELSE IF j = at THEN e ELSE s[j - 1]
    BY <1>14, <2>1
  <2>7. LeafOrder(t, l, h)
    BY <2>2, <2>4, <2>5, <2>6, InsertedInOrder
  <2> QED BY <2>1, <2>7
<1>17. ASSUME is_overflow(leaf)
       PROVE  /\ pc' = "split_leaf" /\ path' = to /\ held' = [page |-> p, node |-> leaf]
              /\ nodes' = nodes
  BY <1>6, <1>17 DEF Insert, LeafOf
<1>18. ASSUME ~is_overflow(leaf)
       PROVE  nodes' = [nodes EXCEPT ![p] = leaf] /\ pc' = "idle" /\ held' = NoNode
  BY <1>6, <1>18 DEF Insert, LeafOf, Return
<1>19. PICK D : D = Now'
  OBVIOUS
<1>20. /\ PageIds' = PageIds /\ DOMAIN D = PageIds
       /\ \A q \in PageIds : D[q] = IF q = p THEN leaf ELSE nodes[q]
  <2>1. DOMAIN nodes = PageIds /\ Len(nodes) \in Nat /\ 0 \notin PageIds
    BY <1>2, NodeFields DEF PageIds
  <2>2. CASE is_overflow(leaf)
    BY <1>17, <1>19, <2>2 DEF Now, Content, PageIds
  <2>3. CASE ~is_overflow(leaf)
    <3>1. DOMAIN nodes' = DOMAIN nodes /\ \A q \in PageIds : nodes'[q] = IF q = p THEN leaf ELSE nodes[q]
      BY <1>18, <2>1, <2>3
    <3>2. nodes \in Seq(Node) /\ leaf \in Node /\ p \in 1 .. Len(nodes)
      BY <1>2, <1>9, <1>13 DEF NodesInv, Node, PageIds
    <3>3. Len(nodes') = Len(nodes)
      BY <1>18, <2>3, <3>2, Replaced
    <3> QED BY <1>18, <1>19, <2>1, <2>3, <3>1, <3>3 DEF Now, Content, PageIds, NoNode
  <2> QED BY <2>2, <2>3
<1>21. ~Pending' /\ Ends' = Itself(PageIds)
  <2>1. ~Pending'
    BY <1>17, <1>18 DEF Pending
  <2> QED BY <1>20, <2>1 DEF Ends, Itself
<1>22. Ordered(D, root_page_id, Itself(PageIds), lo, hi, up)
  <2>1. PICK P, b, r : P = PageIds /\ b = Itself(PageIds) /\ r = root_page_id
    OBVIOUS
  <2>2. /\ DOMAIN C = P /\ DOMAIN D = P /\ p \in P /\ Ordered(C, r, b, lo, hi, up)
        /\ C[p].is_leaf /\ leaf.next_leaf = C[p].next_leaf
        /\ \A q \in P : D[q] = IF q = p THEN leaf ELSE C[q]
    BY <1>6, <1>8, <1>9, <1>12, <1>13, <1>20, <2>1 DEF Stored
  <2>3. Ordered(D, r, b, lo, hi, up)
    BY <1>15, <1>16, <2>2, LeafRefilled
  <2> QED BY <2>1, <2>3
<1>23. PathOrder'
  <2>1. CASE is_overflow(leaf)
    BY <1>10, <1>17, <2>1 DEF PathOrder, Follows, Climb
  <2>2. CASE ~is_overflow(leaf)
    BY <1>18, <2>2 DEF PathOrder, Climb
  <2> QED BY <2>1, <2>2
<1> QED BY <1>3, <1>19, <1>21, <1>22, <1>23 DEF Arranged, PendingOrder

(* The file after a split: both halves, and little else has changed.       *)
SplitInto(ns, p, new, low, high) ==
  /\ ns[p] = low /\ ns[new] = high
  /\ \A q \in PageIds : q # p => Alike(nodes[q], ns[q])

LEMMA LeafSplitNodes ==
  ASSUME NodesInv, NEW p \in Leaves, NEW new, new = NewPage,
         NEW next \in Leaves \cup {NoLeaf}, NEW low \in LeafNode, NEW high \in LeafNode,
         nodes' = Append([Neighbour(nodes, next, new) EXCEPT ![p] = low], high)
  PROVE  /\ PageIds' = PageIds \cup {new} /\ new \notin PageIds /\ new \in Nat \ {0}
         /\ SplitInto(nodes', p, new, low, high)
<1>1. /\ nodes \in Seq(Node) /\ Len(nodes) \in Nat /\ DOMAIN nodes = PageIds
      /\ Leaves \subseteq PageIds /\ PageIds = 1 .. Len(nodes)
  BY NodeFields DEF NodesInv, PageIds
<1>2. PICK ns : ns = Neighbour(nodes, next, new)
  OBVIOUS
<1>3. new = Len(nodes) + 1 /\ new \in Nat \ {0} /\ new \notin PageIds
  BY <1>1 DEF NewPage
<1>4. /\ ns \in Seq(Node) /\ Len(ns) = Len(nodes)
      /\ \A q \in PageIds : Alike(nodes[q], ns[q])
  <2>1. CASE next = NoLeaf
    <3>1. ns = nodes
      BY <1>2, <2>1 DEF Neighbour, NoLeaf
    <3> QED BY <1>1, <3>1 DEF Alike
  <2>2. CASE next # NoLeaf
    <3>1. next \in Leaves /\ next \in 1 .. Len(nodes) /\ next > 0
      BY <1>1, <2>2
    <3>2. PICK l : l = nodes[next]
      OBVIOUS
    <3>3. l \in LeafNode
      BY <3>1, <3>2, NodeFields
    <3>4. PICK l2 : l2 = [l EXCEPT !.prev_leaf = new]
      OBVIOUS
    <3>5. l2 \in LeafNode /\ l2.entries = l.entries /\ l2.next_leaf = l.next_leaf
          /\ l2.is_leaf /\ l.is_leaf
      <4>1. /\ l = [is_leaf |-> l.is_leaf, entries |-> l.entries, prev_leaf |-> l.prev_leaf,
                    next_leaf |-> l.next_leaf]
            /\ l.is_leaf = TRUE /\ l.entries \in Seq(EntryType) /\ l.next_leaf \in Int
        BY <3>3 DEF LeafNode
      <4>2. l2 = [is_leaf |-> l.is_leaf, entries |-> l.entries, prev_leaf |-> new,
                  next_leaf |-> l.next_leaf]
        BY <3>4, <4>1
      <4>3. /\ l2.entries = l.entries /\ l2.next_leaf = l.next_leaf
            /\ l2.is_leaf = TRUE /\ l2.prev_leaf = new
        BY <4>1, <4>2
      <4>4. new \in Int
        BY <1>3
      <4>5. l2 \in LeafNode
        BY <4>1, <4>2, <4>4 DEF LeafNode
      <4> QED BY <4>1, <4>3, <4>5
    <3>6. ns = [nodes EXCEPT ![next] = l2]
      BY <1>2, <3>1, <3>2, <3>4 DEF Neighbour
    <3>7. l2 \in Node
      BY <3>5 DEF Node
    <3>8. ns \in Seq(Node) /\ Len(ns) = Len(nodes)
      BY <1>1, <3>1, <3>6, <3>7, Replaced
    <3>9. \A q \in PageIds : ns[q] = IF q = next THEN l2 ELSE nodes[q]
      BY <1>1, <3>6
    <3>10. Alike(l, l2)
      BY <3>5 DEF Alike
    <3> QED BY <3>2, <3>8, <3>9, <3>10 DEF Alike
  <2> QED BY <2>1, <2>2
<1>5. PICK ms : ms = [ns EXCEPT ![p] = low]
  OBVIOUS
<1>6. /\ ms \in Seq(Node) /\ Len(ms) = Len(nodes) /\ ms[p] = low
      /\ \A q \in PageIds : q # p => ms[q] = ns[q]
  <2>1. low \in Node /\ p \in 1 .. Len(ns)
    BY <1>1, <1>4 DEF Node
  <2>2. ms \in Seq(Node) /\ Len(ms) = Len(ns)
    BY <1>4, <1>5, <2>1, Replaced
  <2>3. \A q \in 1 .. Len(ns) : ms[q] = IF q = p THEN low ELSE ns[q]
    BY <1>4, <1>5, <2>1, Replaced
  <2> QED BY <1>1, <1>4, <2>1, <2>2, <2>3
<1>7. nodes' = Append(ms, high) /\ high \in Node
  BY <1>2, <1>5 DEF Node
<1>8. /\ Len(nodes') = Len(nodes) + 1 /\ nodes'[new] = high
      /\ \A q \in PageIds : nodes'[q] = ms[q]
  <2>1. ms \in Seq(Node) /\ high \in Node /\ Len(ms) = Len(nodes)
    BY <1>6, <1>7
  <2>2. Len(nodes') = Len(ms) + 1 /\ nodes'[Len(ms) + 1] = high
    BY <1>7, <2>1, AppendProperties
  <2>3. \A q \in 1 .. Len(ms) : nodes'[q] = ms[q]
    BY <1>7, <2>1, AppendProperties
  <2> QED BY <1>1, <1>3, <2>1, <2>2, <2>3
<1>9. PageIds' = PageIds \cup {new}
  BY <1>1, <1>3, <1>8 DEF PageIds
<1>10. p \in PageIds
  BY <1>1
<1>11. SplitInto(nodes', p, new, low, high)
  <2>1. nodes'[p] = low /\ nodes'[new] = high
    BY <1>6, <1>8, <1>10
  <2>2. ASSUME NEW q \in PageIds, q # p PROVE Alike(nodes[q], nodes'[q])
    BY <1>4, <1>6, <1>8, <2>2
  <2> QED BY <2>1, <2>2 DEF SplitInto
<1> QED BY <1>3, <1>9, <1>11

LEMMA SplitLeafOrder ==
  ASSUME OrderInv, _split_leaf
  PROVE  Arranged'
<1>1. PICK level, edge, chain : Shape(level, edge, chain) /\ CallInv(level)
  BY DEF OrderInv, TreeInv
<1>2. /\ NodesInv /\ Levels(level) /\ LeftEdge(edge) /\ IsChain(chain)
      /\ PathInv(level) /\ HeldInv(level) /\ PairsInv
  BY <1>1 DEF Shape, CallInv, OrderInv, TreeInv
<1>3. PICK p, leaf, new, n : p = held.page /\ leaf = held.node /\ new = NewPage /\ n = Half(leaf)
  OBVIOUS
<1>4. /\ pc = "split_leaf" /\ held' = NoNode /\ path' = path /\ root_page_id' = root_page_id
      /\ ~Pending
  BY DEF _split_leaf, Pending
<1>5. PICK m \in Nat \ {0} : m = Len(path)
  BY <1>2, <1>4 DEF PathInv, Splitting
<1>6. /\ path \in Seq(PageIds) /\ \A i \in 1 .. m : path[i] \in PageIds /\ level[path[i]] = m - i
      /\ p = path[m] /\ m \in 1 .. m
  BY <1>2, <1>3, <1>4, <1>5 DEF PathInv, Splitting, HeldInv
<1>7. p \in Leaves /\ p \in PageIds
  <2>1. p \in PageIds /\ level[p] = 0
    BY <1>5, <1>6
  <2> QED BY <1>2, <2>1 DEF Levels, Leaves
<1>8. leaf \in LeafNode /\ Len(leaf.entries) = ORDER + 1 /\ leaf.next_leaf = nodes[p].next_leaf
  BY <1>2, <1>3, <1>4 DEF HeldInv
<1>9. PICK es, next, prev : es = leaf.entries /\ next = leaf.next_leaf /\ prev = leaf.prev_leaf
  OBVIOUS
<1>10. /\ es \in Seq(EntryType) /\ n = (ORDER + 1) \div 2 /\ next \in Int /\ prev \in Int
       /\ Len(es) = ORDER + 1 /\ leaf.is_leaf
  BY <1>3, <1>8, <1>9, LeafKeys DEF Half
<1>11. n \in 1 .. Len(es) - 1 /\ n \in 0 .. Len(es)
  <2>1. n \in 1 .. ORDER - 1 /\ ORDER \in Nat
    BY <1>10, Halves, OrderAssumption
  <2> QED BY <1>10, <2>1
<1>12. PICK k : k = es[n + 1][1]
  OBVIOUS
<1>13. PICK lo, hi, up : Ordered(Now, root_page_id, Ends, lo, hi, up)
  BY DEF OrderInv, Arranged
<1>14. Ends = Itself(PageIds) /\ Pages(PageIds) /\ root_page_id \in PageIds /\ DOMAIN Now = PageIds
  BY <1>2, <1>4, PagesOfTree DEF Ends, Itself
<1>15. Now[p] = leaf /\ \A q \in PageIds : q # p => Now[q] = nodes[q]
  BY <1>3, <1>7 DEF Now, Content
<1>16. /\ LeafOrder(es, lo[p], hi[p]) /\ lo[p] \in SUBSET SearchKeys /\ hi[p] \in SUBSET SearchKeys
  <2>1. PageOrder(p, Now[p], Ends, lo, hi, up)
    BY <1>7, <1>13, <1>14 DEF Ordered
  <2>2. LeafOrder(es, lo[p], hi[p])
    BY <1>9, <1>10, <1>15, <2>1 DEF PageOrder
  <2> QED BY <1>7, <1>13, <1>14, <2>2 DEF Ordered, Bounds
<1>17. n + 1 \in DOMAIN es /\ Inside(lo[p], k, hi[p])
  <2>1. /\ \A i, j \in DOMAIN es : es[i] = es[j] => i = j
        /\ \A i \in DOMAIN es : es[i][2][1] = es[i][1]
    <3>1. PICK cs : cs = EntriesOf
      OBVIOUS
    <3>2. Holding(Leaves, cs, rows) /\ cs[p] = es /\ \A e \in rows : e[2][1] = e[1]
      BY <1>2, <1>3, <1>7, <1>9, <3>1 DEF PairsInv, EntriesOf, Content
    <3>3. \A i \in DOMAIN es : es[i] \in rows
      BY <1>7, <3>2 DEF Holding
    <3>4. \A i, j \in DOMAIN es : es[i] = es[j] => i = j
      BY <1>7, <3>2 DEF Holding
    <3> QED BY <3>2, <3>3, <3>4
  <2>2. PICK l, h : l = lo[p] /\ h = hi[p]
    OBVIOUS
  <2>3. FewCopies /\ l \in SUBSET SearchKeys /\ h \in SUBSET SearchKeys /\ LeafOrder(es, l, h)
    BY <1>16, <2>2 DEF OrderInv
  <2>4. n + 1 \in DOMAIN es /\ Inside(l, es[n + 1][1], h)
    <3>1. MoreThanHalf(n + 1) /\ MoreThanHalf(ORDER + 1 - n)
      BY <1>10, SplitParts, Zenon
    <3>2. n \in 1 .. ORDER - 1 /\ es \in Seq(EntryType) /\ Len(es) = ORDER + 1
      BY <1>10, Halves
    <3> QED BY <2>1, <2>3, <3>1, <3>2, SplitKeyInside
  <2> QED BY <1>12, <2>2, <2>4
<1>18. k \in SearchKeys
  BY <1>10, <1>12, <1>17, EntryKeys
<1>19. PICK lw, hg, low, high :
         /\ lw = UpTo(es, n) /\ hg = From(es, n + 1)
         /\ low = Leaf(lw, prev, new) /\ high = Leaf(hg, p, next)
  OBVIOUS
<1>20. LeafOrder(lw, lo[p], {k}) /\ LeafOrder(hg, {k}, hi[p])
  BY <1>10, <1>11, <1>12, <1>16, <1>19, CutInOrder
<1>21. lw \in Seq(EntryType) /\ hg \in Seq(EntryType) /\ hg[1] = es[n + 1] /\ Len(hg) >= 1
  <2>1. lw \in Seq(EntryType) /\ hg \in Seq(EntryType)
    BY <1>10, <1>11, <1>19, Cut
  <2>2. Len(hg) = Len(es) - n
    BY <1>10, <1>11, <1>19, Cut
  <2>3. \A j \in 1 .. Len(es) - n : hg[j] = es[n + j]
    <3>1. n \in 0 .. Len(es) /\ es \in Seq(EntryType)
      BY <1>10, <1>11
    <3>2. \A j \in 1 .. Len(es) - n : From(es, n + 1)[j] = es[n + j]
      BY <3>1, Cut
    <3> QED BY <1>19, <3>2, Zenon
  <2>4. 1 \in 1 .. Len(es) - n /\ Len(es) - n >= 1
    BY <1>10, <1>11, OrderAssumption
  <2> QED BY <2>1, <2>2, <2>3, <2>4
<1>22. new = NewPage /\ new \in Nat /\ p \in Int
  BY <1>2, <1>3, <1>7, NodeFields DEF NewPage
<1>23. /\ low \in LeafNode /\ low.is_leaf /\ low.entries = lw /\ low.next_leaf = new
       /\ high \in LeafNode /\ high.is_leaf /\ high.entries = hg /\ high.next_leaf = next
  BY <1>10, <1>19, <1>21, <1>22 DEF Leaf, LeafNode
<1>24. /\ nodes' = Append([Neighbour(nodes, next, new) EXCEPT ![p] = low], high)
       /\ IF m - 1 >= 1
          THEN pc' = "update_parent"
               /\ split' = [node |-> p, new |-> new, separator |-> 0, idx |-> m - 1]
          ELSE pc' = "split_root"
               /\ split' = [node |-> p, new |-> new, separator |-> high.entries[1][1], idx |-> 0]
  BY <1>3, <1>5, <1>9, <1>19 DEF _split_leaf
<1>25. next \in Leaves \cup {NoLeaf}
  <2>1. PICK i \in DOMAIN chain : chain[i] = p
    BY <1>2, <1>7 DEF IsChain
  <2>2. PICK c : c = Len(chain)
    OBVIOUS
  <2>3. c \in Nat \ {0} /\ DOMAIN chain = 1 .. c /\ \A j \in 1 .. c : chain[j] \in Leaves
    BY <1>2, <2>2, ChainFields
  <2>4. next = IF i < c THEN chain[i + 1] ELSE NoLeaf
    BY <1>2, <1>8, <1>9, <2>1, <2>2 DEF IsChain
  <2>5. i < c => i + 1 \in 1 .. c
    BY <2>1, <2>3
  <2> QED BY <2>3, <2>4, <2>5
<1>26. PageIds' = PageIds \cup {new} /\ new \notin PageIds /\ new \in Nat \ {0}
  BY <1>2, <1>7, <1>22, <1>23, <1>24, <1>25, LeafSplitNodes
<1>27. nodes'[p] = low /\ nodes'[new] = high
       /\ \A q \in PageIds : q # p => Alike(nodes[q], nodes'[q])
  <2>1. SplitInto(nodes', p, new, low, high)
    BY <1>2, <1>7, <1>22, <1>23, <1>24, <1>25, LeafSplitNodes
  <2> QED BY <2>1 DEF SplitInto
<1>28. \A q \in PageIds : q # p => Alike(nodes[q], nodes'[q])
  BY <1>27
<1>29. PICK P, C, D, r : P = PageIds /\ C = Now /\ D = Now' /\ r = root_page_id
  OBVIOUS
<1>30. DOMAIN D = P \cup {new} /\ \A q \in P \cup {new} : D[q] = nodes'[q]
  <2>1. 0 \notin PageIds'
    BY <1>14, <1>26 DEF Pages
  <2> QED BY <1>4, <1>26, <1>29, <2>1 DEF Now, Content, NoNode
<1>31. PICK b2, lo2, hi2, up2 :
         /\ lo2 = [x \in P \cup {new} |-> IF x = new THEN {k} ELSE lo[x]]
         /\ hi2 = [x \in P \cup {new} |-> IF x = p THEN {k} ELSE IF x = new THEN hi[p] ELSE hi[x]]
         /\ b2 = [x \in P \cup {new} |-> IF x = p THEN new ELSE x]
         /\ up2 = [x \in P \cup {new} |-> IF x = new THEN 0 ELSE up[x]]
  OBVIOUS
<1>32. Widened(P, p, new, k, lo, hi, up, b2, lo2, hi2, up2)
  <2>1. up \in [P -> Nat]
    BY <1>13, <1>14, <1>29 DEF Ordered, Bounds
  <2>2. up2 \in [P \cup {new} -> Nat] /\ up2[new] = 0 /\ \A x \in P : up2[x] = up[x]
    BY <1>26, <1>29, <1>31, <2>1
  <2> QED BY <1>7, <1>26, <1>29, <1>31, <2>2 DEF Widened
<1>33. Ordered(D, r, b2, lo2, hi2, up2)
  <2>1. /\ P = DOMAIN C /\ Pages(P) /\ r \in P /\ new # NoLeaf
        /\ Ordered(C, r, Itself(P), lo, hi, up)
    BY <1>13, <1>14, <1>26, <1>29 DEF NoLeaf
  <2>2. \A q \in P : PointsInto(C[q], P)
    <3>1. PointsInto(leaf, P)
      BY <1>9, <1>10, <1>25, <1>29 DEF PointsInto, Leaves
    <3> QED BY <1>2, <1>15, <1>29, <3>1, StoredPointers
  <2>3. C[p].is_leaf /\ Inside(lo[p], k, hi[p])
    BY <1>10, <1>15, <1>17, <1>29
  <2>4. DOMAIN D = P \cup {new} /\ \A q \in P : q # p => Alike(C[q], D[q])
    BY <1>15, <1>28, <1>29, <1>30
  <2>5. D[p] = low /\ D[new] = high
    BY <1>7, <1>27, <1>29, <1>30
  <2>6. D[p].is_leaf /\ D[p].next_leaf = new /\ LeafOrder(D[p].entries, lo[p], {k})
    BY <1>20, <1>23, <2>5
  <2>7. /\ D[new].is_leaf /\ D[new].next_leaf = C[p].next_leaf
        /\ LeafOrder(D[new].entries, {k}, hi[p])
    BY <1>9, <1>15, <1>20, <1>23, <1>29, <2>5
  <2>8. Source(C, P, r)
    BY <2>1, <2>2 DEF Source
  <2>9. LeafHalves(C, D, P, p, new, k, lo[p], hi[p])
    BY <1>18, <2>1, <2>3, <2>4, <2>6, <2>7 DEF LeafHalves
  <2> QED BY <1>32, <2>1, <2>8, <2>9, LeafCut
<1>34. Pending' /\ split'.node = p /\ split'.new = new
  BY <1>24 DEF Pending
<1>35. Ends' = b2
  BY <1>26, <1>29, <1>31, <1>34 DEF Ends
<1>36. Separator' = k
  <2>1. Keys(nodes'[new])[1] = k
    <3>1. Keys(high)[1] = high.entries[1][1]
      BY <1>21, <1>23, LeafKeys
    <3> QED BY <1>12, <1>21, <1>23, <1>27, <3>1
  <2>2. split'.separator = 0 \/ split'.separator = k
    BY <1>12, <1>21, <1>23, <1>24
  <2> QED BY <1>34, <2>1, <2>2 DEF Separator
<1>37. PendingOrder(lo2, hi2, up2)'
  <2>1. p # new /\ up2[new] = 0 /\ hi2[p] = {k} /\ lo2[new] = {k}
    BY <1>7, <1>26, <1>29, <1>31
  <2> QED BY <1>34, <1>36, <2>1 DEF PendingOrder
<1>38. PathOrder'
  <2>1. ASSUME NEW i \in 1 .. Climb' PROVE Follows(i)'
    <3>1. i \in 1 .. m - 1
      BY <1>5, <1>24, <2>1 DEF Climb
    <3>2. Follows(i)
      BY <1>4, <1>5, <3>1 DEF OrderInv, Arranged, PathOrder, Climb
    <3>3. i \in 1 .. m /\ m - i # 0
      BY <1>5, <3>1
    <3>4. PICK q : q = path[i] /\ q \in PageIds /\ q \notin Leaves
      BY <1>2, <1>6, <3>3 DEF Levels, Leaves
    <3>5. nodes'[q].pointers = nodes[q].pointers
      BY <1>7, <1>28, <3>4 DEF Alike, Leaves
    <3> QED BY <1>4, <3>2, <3>4, <3>5 DEF Follows
  <2> QED BY <2>1 DEF PathOrder
<1> QED BY <1>4, <1>29, <1>33, <1>35, <1>37, <1>38 DEF Arranged

LEMMA PointerGrows ==
  ASSUME NEW old, NEW key, NEW new, NEW P, Grows(old, key, new, P),
         NEW node, node = insert_pointer(old, key, new)
  PROVE  Grown(old, node, Place(old.keys, key), key, new)
<1>1. PICK at : at = Place(old.keys, key)
  OBVIOUS
<1>2. node \in InnerNode /\ node.pointers \in Seq(P)
  BY PointerInserted
<1>3. Len(node.keys) = Len(old.keys) + 1 /\ Len(node.pointers) = Len(node.keys) + 1
  <2>1. Len(node.keys) = Len(old.keys) + 1
    BY PointerInserted
  <2>2. Len(node.pointers) = Len(node.keys) + 1
    BY PointerInserted
  <2> QED BY <2>1, <2>2
<1>4. at \in 1 .. Len(old.keys) + 1
  BY <1>1, PointerInserted
<1>5. ASSUME NEW j \in 1 .. Len(old.keys) + 1
      PROVE  node.keys[j] = IF j < at THEN old.keys[j] ELSE IF j = at THEN key ELSE old.keys[j - 1]
  BY <1>1, PointerInserted
<1>6. ASSUME NEW j \in 1 .. Len(old.pointers) + 1
      PROVE  node.pointers[j] = IF j < at + 1 THEN old.pointers[j]
                                ELSE IF j = at + 1 THEN new ELSE old.pointers[j - 1]
  BY <1>1, PointerInserted
<1>7. IsInner(node)
  <2>1. P \subseteq Nat
    BY DEF Grows
  <2>2. ~node.is_leaf /\ node.keys \in Seq(SearchKeys) /\ node.pointers \in Seq(Nat)
    BY <1>2 DEF InnerNode
  <2> QED BY <1>3, <2>2 DEF IsInner
<1> QED BY <1>1, <1>3, <1>4, <1>5, <1>6, <1>7 DEF Grown

(* The key that separates the two halves of a split is a key.              *)
LEMMA SeparatorIsKey ==
  ASSUME NodesInv, NEW level, Levels(level), PendingInv(level), Pending
  PROVE  Separator \in SearchKeys
<1>1. PICK new : new = split.new /\ new \in PageIds
  BY DEF PendingInv, Pending
<1>2. Len(Keys(nodes[new])) >= 1 /\ split.separator \in SearchKeys \cup {0}
  BY <1>1 DEF PendingInv, Pending
<1>3. Keys(nodes[new]) \in Seq(SearchKeys)
  <2>1. CASE new \in Leaves
    <3>1. nodes[new] \in LeafNode
      BY <2>1, NodeFields
    <3> QED BY <3>1, LeafKeys
  <2>2. CASE new \notin Leaves
    <3>1. ~nodes[new].is_leaf /\ nodes[new].keys \in Seq(SearchKeys)
      BY <1>1, <2>2, NodeFields DEF Leaves
    <3> QED BY <3>1 DEF Keys
  <2> QED BY <2>1, <2>2
<1>4. Keys(nodes[new])[1] \in SearchKeys
  BY <1>2, <1>3
<1> QED BY <1>1, <1>2, <1>4 DEF Separator

LEMMA UpdateParentOrder ==
  ASSUME OrderInv, _update_parent
  PROVE  Arranged'
<1>1. PICK level, edge, chain : Shape(level, edge, chain) /\ CallInv(level)
  BY DEF OrderInv, TreeInv
<1>2. /\ NodesInv /\ Levels(level) /\ LeftEdge(edge) /\ PathInv(level)
      /\ HeldInv(level) /\ PendingInv(level)
  BY <1>1 DEF Shape, CallInv
<1>3. /\ pc = "update_parent" /\ Pending /\ held = NoNode /\ root_page_id' = root_page_id
  BY <1>2 DEF _update_parent, HeldInv, Pending
<1>4. PICK m \in Nat \ {0} : m = Len(path)
  BY <1>2, <1>3 DEF PathInv, Splitting
<1>5. \A j \in 1 .. m : path[j] \in PageIds /\ level[path[j]] = m - j
  BY <1>2, <1>3, <1>4 DEF PathInv, Splitting
<1>6. PICK i, x, new, key, p :
        i = split.idx /\ x = split.node /\ new = split.new /\ key = Separator /\ p = path[i]
  OBVIOUS
<1>7. i \in 1 .. m - 1 /\ x = path[i + 1] /\ new \in PageIds
  <2>1. i \in 0 .. m - 1 /\ i # 0 /\ x = path[i + 1] /\ new \in PageIds
    BY <1>2, <1>3, <1>4, <1>6 DEF PendingInv
  <2> QED BY <1>4, <2>1
<1>8. x \in PageIds /\ p \in PageIds /\ p \notin Leaves
  <2>1. i + 1 \in 1 .. m /\ i \in 1 .. m /\ m - i # 0
    BY <1>4, <1>7
  <2>2. x \in PageIds /\ p \in PageIds /\ level[p] # 0
    BY <1>5, <1>6, <1>7, <2>1
  <2> QED BY <1>2, <2>2 DEF Levels, Leaves
<1>9. key \in SearchKeys
  BY <1>2, <1>3, <1>6, SeparatorIsKey
<1>10. PICK P, C, D, r, b : P = PageIds /\ C = Now /\ D = Now' /\ r = root_page_id /\ b = Ends
  OBVIOUS
<1>11. PICK lo, hi, up : Ordered(C, r, b, lo, hi, up) /\ PendingOrder(lo, hi, up)
  BY <1>10 DEF OrderInv, Arranged
<1>12. hi[x] = {key} /\ lo[new] = {key} /\ up[new] = 0 /\ x # new
  BY <1>3, <1>6, <1>11 DEF PendingOrder
<1>13. /\ DOMAIN C = P /\ Pages(P) /\ r \in P /\ \A q \in P : C[q] = nodes[q]
  <2>1. \A q \in PageIds : Content(q) = nodes[q]
    BY <1>2, <1>3, ContentOf
  <2> QED BY <1>2, <1>10, <2>1, PagesOfTree DEF Now
<1>14. Source(C, P, r)
  BY <1>2, <1>10, <1>13, StoredPointers DEF Source
<1>15. Rerouted(P, x, new, b)
  BY <1>3, <1>6, <1>7, <1>8, <1>10 DEF Rerouted, Ends
<1>16. PICK old, node : old = nodes[p] /\ node = insert_pointer(old, key, new)
  OBVIOUS
<1>17. /\ old \in InnerNode /\ IsInner(old) /\ old.pointers \in Seq(PageIds)
       /\ Len(old.pointers) = Len(old.keys) + 1 /\ PageIds \subseteq Nat
  BY <1>2, <1>8, <1>16, NodeFields, StoredInner
<1>18. Grows(old, key, new, PageIds)
  BY <1>7, <1>9, <1>17 DEF Grows
<1>19. Grown(old, node, Place(old.keys, key), key, new)
  <2>1. node = insert_pointer(old, key, new)
    BY <1>16
  <2> QED BY <1>18, <2>1, PointerGrows
<1>20. PICK j : j \in DOMAIN old.pointers /\ old.pointers[j] = x
  <2>1. i \in 1 .. Climb
    BY <1>3, <1>6, <1>7 DEF Climb
  <2>2. Follows(i)
    BY <2>1 DEF OrderInv, Arranged, PathOrder
  <2> QED BY <1>6, <1>7, <1>16, <2>2 DEF Follows
<1>21. ASSUME is_overflow(node)
       PROVE  /\ pc' = "split_internal" /\ held' = [page |-> p, node |-> node]
              /\ nodes' = nodes /\ path' = path /\ split' = split
  BY <1>6, <1>16, <1>21 DEF _update_parent, Parent
<1>22. ASSUME ~is_overflow(node)
       PROVE  nodes' = [nodes EXCEPT ![p] = node] /\ pc' = "idle" /\ held' = NoNode
  BY <1>6, <1>16, <1>22 DEF _update_parent, Parent, Return
<1>23. /\ PageIds' = PageIds /\ DOMAIN D = P
       /\ \A q \in P : D[q] = IF q = p THEN node ELSE nodes[q]
  <2>1. DOMAIN nodes = PageIds /\ Len(nodes) \in Nat /\ 0 \notin PageIds
    BY <1>2, NodeFields DEF PageIds
  <2>2. CASE is_overflow(node)
    BY <1>10, <1>21, <2>2 DEF Now, Content, PageIds
  <2>3. CASE ~is_overflow(node)
    <3>1. \A q \in PageIds : nodes'[q] = IF q = p THEN node ELSE nodes[q]
      BY <1>22, <2>1, <2>3
    <3>2. Len(nodes') = Len(nodes)
      <4>1. DOMAIN nodes' = 1 .. Len(nodes)
        BY <1>22, <2>1, <2>3 DEF PageIds
      <4>2. node \in Node /\ nodes \in Seq(Node) /\ p \in 1 .. Len(nodes)
        <5>1. node \in InnerNode
          BY <1>16, <1>18, PointerInserted
        <5> QED BY <1>2, <1>8, <5>1 DEF Node, NodesInv, PageIds
      <4> QED BY <1>22, <2>3, <4>2, Replaced
    <3> QED BY <1>10, <1>22, <2>1, <2>3, <3>1, <3>2 DEF Now, Content, PageIds, NoNode
  <2> QED BY <2>2, <2>3
<1>24. ~Pending' /\ Ends' = Itself(P)
  <2>1. ~Pending'
    BY <1>21, <1>22 DEF Pending
  <2> QED BY <1>10, <1>23, <2>1 DEF Ends, Itself
<1>25. PICK up2 : up2 = [up EXCEPT ![new] = p]
  OBVIOUS
<1>26. Ordered(D, r, Itself(P), lo, hi, up2)
  <2>1. /\ p \in P /\ IsInner(C[p]) /\ j \in DOMAIN C[p].pointers /\ C[p].pointers[j] = x
        /\ C[p] = old
    BY <1>8, <1>10, <1>13, <1>16, <1>17, <1>20
  <2>2. \A q \in P : D[q] = IF q = p THEN node ELSE C[q]
    BY <1>13, <1>23
  <2>3. LinkAdded(C, D, P, p, x, new, j, key, node)
    BY <1>9, <1>19, <1>23, <2>1, <2>2 DEF LinkAdded
  <2> QED BY <1>11, <1>12, <1>14, <1>15, <1>25, <2>3, PointerLinked
<1>27. PathOrder'
  <2>1. CASE is_overflow(node)
    <3>1. Climb' = i - 1 /\ Climb = i
      BY <1>3, <1>6, <1>21, <2>1 DEF Climb
    <3>2. ASSUME NEW c \in 1 .. i - 1 PROVE Follows(c)'
      <4>1. c \in 1 .. i
        BY <1>7
      <4>2. Follows(c)
        BY <3>1, <4>1 DEF OrderInv, Arranged, PathOrder
      <4> QED BY <1>21, <2>1, <4>2 DEF Follows
    <3> QED BY <3>1, <3>2 DEF PathOrder
  <2>2. CASE ~is_overflow(node)
    BY <1>22, <2>2 DEF PathOrder, Climb
  <2> QED BY <2>1, <2>2
<1> QED BY <1>3, <1>10, <1>24, <1>26, <1>27 DEF Arranged, PendingOrder

LEMMA InnerSplitNodes ==
  ASSUME NodesInv, NEW p \in PageIds, NEW new, new = NewPage,
         NEW low \in InnerNode, NEW high \in InnerNode,
         nodes' = Append([nodes EXCEPT ![p] = low], high)
  PROVE  /\ PageIds' = PageIds \cup {new} /\ new \notin PageIds /\ new \in Nat \ {0}
         /\ SplitInto(nodes', p, new, low, high)
<1>1. nodes \in Seq(Node) /\ Len(nodes) \in Nat /\ PageIds = 1 .. Len(nodes)
  BY NodeFields DEF NodesInv, PageIds
<1>2. PICK ms : ms = [nodes EXCEPT ![p] = low]
  OBVIOUS
<1>3. low \in Node /\ high \in Node /\ p \in 1 .. Len(nodes)
  BY <1>1 DEF Node
<1>4. ms \in Seq(Node) /\ Len(ms) = Len(nodes)
  BY <1>1, <1>2, <1>3, Replaced
<1>5. \A q \in 1 .. Len(nodes) : ms[q] = IF q = p THEN low ELSE nodes[q]
  BY <1>1, <1>2, <1>3, Replaced
<1>6. nodes' = Append(ms, high) /\ new = Len(ms) + 1
  BY <1>2, <1>4 DEF NewPage
<1>7. Len(nodes') = Len(ms) + 1 /\ nodes'[new] = high
  BY <1>3, <1>4, <1>6, AppendProperties
<1>8. \A q \in 1 .. Len(ms) : nodes'[q] = ms[q]
  BY <1>3, <1>4, <1>6, AppendProperties
<1>9. PageIds' = PageIds \cup {new} /\ new \notin PageIds /\ new \in Nat \ {0}
  BY <1>1, <1>4, <1>6, <1>7 DEF PageIds
<1>10. SplitInto(nodes', p, new, low, high)
  BY <1>1, <1>3, <1>4, <1>5, <1>7, <1>8 DEF SplitInto, Alike
<1> QED BY <1>9, <1>10

LEMMA InnerDivided ==
  ASSUME NEW node \in InnerNode, Len(node.pointers) = Len(node.keys) + 1,
         NEW n \in 1 .. Len(node.keys) - 1, NEW low, NEW high,
         low = Inner(UpTo(node.keys, n), UpTo(node.pointers, n + 1)),
         high = Inner(From(node.keys, n + 2), From(node.pointers, n + 2))
  PROVE  Divided(node, n, low, high) /\ low \in InnerNode /\ high \in InnerNode
<1>1. PICK ks, ps, lk, lp, hk, hp :
        /\ ks = node.keys /\ ps = node.pointers
        /\ lk = UpTo(ks, n) /\ lp = UpTo(ps, n + 1)
        /\ hk = From(ks, n + 2) /\ hp = From(ps, n + 2)
  OBVIOUS
<1>2. ks \in Seq(SearchKeys) /\ ps \in Seq(Nat)
  BY <1>1 DEF InnerNode
<1>3. PICK m \in Nat : m = Len(ks) /\ Len(ps) = m + 1
  BY <1>1, <1>2
<1>4. PICK a \in Nat : a = n + 1 /\ a + 1 = n + 2 /\ a \in 0 .. m /\ a \in 0 .. m + 1 /\ n \in 0 .. m
  BY <1>1, <1>3
<1>5. lk \in Seq(SearchKeys) /\ Len(lk) = n /\ \A j \in 1 .. n : lk[j] = ks[j]
  <2>1. n \in 0 .. Len(ks)
    BY <1>3, <1>4
  <2>2. lk \in Seq(SearchKeys) /\ Len(lk) = n
    BY <1>1, <1>2, <2>1, Cut
  <2>3. \A j \in 1 .. n : lk[j] = ks[j]
    BY <1>1, <1>2, <2>1, Cut
  <2> QED BY <2>2, <2>3
<1>6. lp \in Seq(Nat) /\ Len(lp) = n + 1 /\ \A j \in 1 .. n + 1 : lp[j] = ps[j]
  <2>1. a \in 0 .. Len(ps) /\ lp = UpTo(ps, a)
    BY <1>1, <1>3, <1>4
  <2>2. lp \in Seq(Nat) /\ Len(lp) = a
    BY <1>2, <2>1, Cut
  <2>3. \A j \in 1 .. a : lp[j] = ps[j]
    BY <1>2, <2>1, Cut
  <2> QED BY <1>4, <2>2, <2>3
<1>7. /\ hk \in Seq(SearchKeys) /\ Len(hk) = m - n - 1
      /\ \A j \in 1 .. m - n - 1 : hk[j] = ks[n + 1 + j]
  <2>1. a \in 0 .. Len(ks) /\ hk = From(ks, a + 1)
    BY <1>1, <1>3, <1>4
  <2>2. hk \in Seq(SearchKeys) /\ Len(hk) = Len(ks) - a
    BY <1>2, <2>1, Cut
  <2>3. \A j \in 1 .. Len(ks) - a : hk[j] = ks[a + j]
    BY <1>2, <2>1, Cut
  <2>4. Len(ks) - a = m - n - 1
    BY <1>3, <1>4
  <2> QED BY <1>4, <2>2, <2>3, <2>4
<1>8. /\ hp \in Seq(Nat) /\ Len(hp) = m - n
      /\ \A j \in 1 .. m - n : hp[j] = ps[n + 1 + j]
  <2>1. a \in 0 .. Len(ps) /\ hp = From(ps, a + 1)
    BY <1>1, <1>3, <1>4
  <2>2. hp \in Seq(Nat) /\ Len(hp) = Len(ps) - a
    BY <1>2, <2>1, Cut
  <2>3. \A j \in 1 .. Len(ps) - a : hp[j] = ps[a + j]
    BY <1>2, <2>1, Cut
  <2>4. Len(ps) - a = m - n
    BY <1>3, <1>4
  <2> QED BY <1>4, <2>2, <2>3, <2>4
<1>9. /\ low.keys = lk /\ low.pointers = lp /\ low.is_leaf = FALSE
      /\ high.keys = hk /\ high.pointers = hp /\ high.is_leaf = FALSE
  BY <1>1 DEF Inner
<1>10. low \in InnerNode /\ high \in InnerNode
  BY <1>1, <1>5, <1>6, <1>7, <1>8 DEF Inner, InnerNode
<1>11. IsInner(low) /\ IsInner(high)
  <2>1. Len(lp) = Len(lk) + 1 /\ Len(hp) = Len(hk) + 1
    BY <1>3, <1>4, <1>5, <1>6, <1>7, <1>8
  <2> QED BY <1>5, <1>6, <1>7, <1>8, <1>9, <2>1 DEF IsInner
<1>12. Divided(node, n, low, high)
  <2>1. node.keys = ks /\ node.pointers = ps /\ Len(node.keys) = m
    BY <1>1, <1>3
  <2> QED BY <1>5, <1>6, <1>7, <1>8, <1>9, <1>11, <2>1 DEF Divided
<1> QED BY <1>10, <1>12

LEMMA SplitInternalOrder ==
  ASSUME OrderInv, _split_internal
  PROVE  Arranged'
<1>1. PICK level, edge, chain : Shape(level, edge, chain) /\ CallInv(level)
  BY DEF OrderInv, TreeInv
<1>2. /\ NodesInv /\ Levels(level) /\ LeftEdge(edge) /\ PathInv(level) /\ HeldInv(level)
  BY <1>1 DEF Shape, CallInv
<1>3. PICK p, i, node, new, n : /\ p = held.page /\ i = split.idx /\ node = held.node
                                /\ new = NewPage /\ n = Half(node)
  OBVIOUS
<1>4. /\ pc = "split_internal" /\ held' = NoNode /\ path' = path /\ root_page_id' = root_page_id
      /\ ~Pending
  BY DEF _split_internal, Pending
<1>5. PICK m \in Nat \ {0} : m = Len(path)
  BY <1>2, <1>4 DEF PathInv, Splitting
<1>6. \A j \in 1 .. m : path[j] \in PageIds /\ level[path[j]] = m - j
  BY <1>2, <1>4, <1>5 DEF PathInv, Splitting
<1>7. i \in 1 .. m - 1 /\ p = path[i]
  BY <1>2, <1>3, <1>4, <1>5 DEF HeldInv
<1>8. p \in PageIds /\ level[p] = m - i
  <2>1. i \in 1 .. m
    BY <1>5, <1>7
  <2> QED BY <1>6, <1>7, <2>1
<1>9. /\ node \in InnerNode /\ node.pointers \in Seq(PageIds)
      /\ Len(node.keys) = ORDER + 1 /\ Len(node.pointers) = ORDER + 2
  BY <1>2, <1>3, <1>4 DEF HeldInv
<1>10. /\ node.keys \in Seq(SearchKeys) /\ n = (ORDER + 1) \div 2
       /\ Len(node.pointers) = Len(node.keys) + 1 /\ IsInner(node)
  <2>1. Len(node.pointers) = Len(node.keys) + 1
    BY <1>9, OrderAssumption
  <2> QED BY <1>3, <1>9, <2>1 DEF Half, Keys, InnerNode, IsInner
<1>11. n \in 1 .. ORDER - 1 /\ ORDER \in Nat /\ n \in 1 .. Len(node.keys) - 1
  <2>1. n \in 1 .. ORDER - 1 /\ ORDER \in Nat
    BY <1>10, Halves, OrderAssumption
  <2> QED BY <1>9, <2>1
<1>12. PICK low, high, k :
         /\ low = Inner(UpTo(node.keys, n), UpTo(node.pointers, n + 1))
         /\ high = Inner(From(node.keys, n + 2), From(node.pointers, n + 2))
         /\ k = node.keys[n + 1]
  OBVIOUS
<1>13. /\ Divided(node, n, low, high) /\ low \in InnerNode /\ high \in InnerNode
  BY <1>9, <1>10, <1>11, <1>12, InnerDivided
<1>14. /\ nodes' = Append([nodes EXCEPT ![p] = low], high)
       /\ split' = [node |-> p, new |-> new, separator |-> k, idx |-> i - 1]
       /\ pc' = IF i = 1 THEN "split_root" ELSE "update_parent"
  BY <1>3, <1>12 DEF _split_internal
<1>15. PageIds' = PageIds \cup {new} /\ new \notin PageIds /\ new \in Nat \ {0}
  BY <1>2, <1>3, <1>8, <1>13, <1>14, InnerSplitNodes
<1>16. /\ nodes'[p] = low /\ nodes'[new] = high
       /\ \A q \in PageIds : q # p => Alike(nodes[q], nodes'[q])
  <2>1. SplitInto(nodes', p, new, low, high)
    BY <1>2, <1>3, <1>8, <1>13, <1>14, InnerSplitNodes
  <2> QED BY <2>1 DEF SplitInto
<1>17. PICK lo, hi, up : Ordered(Now, root_page_id, Ends, lo, hi, up)
  BY DEF OrderInv, Arranged
<1>18. Ends = Itself(PageIds) /\ Pages(PageIds) /\ root_page_id \in PageIds /\ DOMAIN Now = PageIds
  BY <1>2, <1>4, PagesOfTree DEF Ends, Itself
<1>19. PICK P, C, D, r, ps : P = PageIds /\ C = Now /\ D = Now' /\ r = root_page_id /\ ps = node.pointers
  OBVIOUS
<1>20. /\ C[p] = node /\ \A q \in P : q # p => C[q] = nodes[q]
  BY <1>3, <1>8, <1>19 DEF Now, Content
<1>21. DOMAIN D = P \cup {new} /\ \A q \in P \cup {new} : D[q] = nodes'[q]
  <2>1. 0 \notin PageIds'
    BY <1>15, <1>18 DEF Pages
  <2> QED BY <1>4, <1>15, <1>19, <2>1 DEF Now, Content, NoNode
<1>22. /\ P = DOMAIN C /\ Pages(P) /\ r \in P /\ p \in P /\ new \notin P
       /\ Ordered(C, r, Itself(P), lo, hi, up)
  BY <1>8, <1>15, <1>17, <1>18, <1>19
<1>23. PointsInto(node, P)
  <2>1. ~node.is_leaf /\ node.pointers \in Seq(P)
    BY <1>9, <1>10, <1>19 DEF IsInner
  <2> QED BY <2>1 DEF PointsInto
<1>24. Source(C, P, r)
  <2>1. \A q \in P : PointsInto(C[q], P)
    BY <1>2, <1>19, <1>20, <1>23, StoredPointers
  <2> QED BY <1>22, <2>1 DEF Source
<1>25. KeyOrder(node.keys, lo[p], hi[p]) /\ ChildOrder(p, node, Itself(P), lo, hi, up)
  <2>1. PageOrder(p, node, Itself(P), lo, hi, up)
    BY <1>20, <1>22 DEF Ordered
  <2> QED BY <1>10, <2>1 DEF PageOrder, IsInner
<1>26. DOMAIN ps = 1 .. ORDER + 2 /\ \A j \in 1 .. ORDER + 2 : ps[j] \in P /\ up[ps[j]] = p
  <2>1. ps \in Seq(P) /\ Len(ps) = ORDER + 2
    BY <1>9, <1>19
  <2>2. DOMAIN ps = 1 .. ORDER + 2
    BY <1>11, <2>1
  <2> QED BY <1>19, <1>25, <2>1, <2>2 DEF ChildOrder
<1>27. PICK b2, lo2, hi2, up2 :
         /\ lo2 = [x \in P \cup {new} |-> IF x = new THEN {k} ELSE lo[x]]
         /\ hi2 = [x \in P \cup {new} |-> IF x = p THEN {k} ELSE IF x = new THEN hi[p] ELSE hi[x]]
         /\ b2 = [x \in P \cup {new} |-> IF x = p THEN new ELSE x]
         /\ up2 = [x \in P \cup {new} |->
                     IF x = new THEN 0
                     ELSE IF \E j \in n + 2 .. ORDER + 2 : ps[j] = x THEN new ELSE up[x]]
  OBVIOUS
<1>28. ASSUME NEW j \in 1 .. n + 1 PROVE up2[ps[j]] = p
  <2>1. j \in 1 .. ORDER + 2
    BY <1>11
  <2>2. ps[j] \in P /\ ps[j] # new /\ up[ps[j]] = p
    BY <1>22, <1>26, <2>1
  <2>3. ASSUME NEW c \in n + 2 .. ORDER + 2 PROVE ps[c] # ps[j]
    <3>1. j \in DOMAIN node.pointers /\ c \in DOMAIN node.pointers /\ j < c
      BY <1>11, <1>19, <1>26, <2>1
    <3>2. node.pointers[j] # node.pointers[c]
      BY <1>10, <1>25, <3>1, PointersDiffer
    <3> QED BY <1>19, <3>2
  <2> QED BY <1>27, <2>2, <2>3
<1>29. ASSUME NEW j \in n + 2 .. ORDER + 2 PROVE up2[ps[j]] = new
  <2>1. j \in 1 .. ORDER + 2
    BY <1>11
  <2>2. ps[j] \in P /\ ps[j] # new
    BY <1>22, <1>26, <2>1
  <2> QED BY <1>27, <2>2
<1>30. Widened(P, p, new, k, lo, hi, up, b2, lo2, hi2, up2)
  <2>1. up \in [P -> Nat]
    BY <1>22 DEF Ordered, Bounds
  <2>2. up2 \in [P \cup {new} -> Nat] /\ up2[new] = 0
    BY <1>15, <1>22, <1>27, <2>1
  <2>3. ASSUME NEW x \in P, up[x] # p PROVE up2[x] = up[x]
    <3>1. ASSUME NEW j \in n + 2 .. ORDER + 2 PROVE ps[j] # x
      <4>1. j \in 1 .. ORDER + 2
        BY <1>11
      <4> QED BY <1>26, <2>3, <4>1
    <3> QED BY <1>22, <1>27, <3>1
  <2> QED BY <1>22, <1>27, <2>2, <2>3 DEF Widened
<1>31. Ordered(D, r, b2, lo2, hi2, up2)
  <2>1. DOMAIN D = P \cup {new} /\ \A q \in P : q # p => Alike(C[q], D[q])
    BY <1>16, <1>19, <1>20, <1>21
  <2>2. D[p] = low /\ D[new] = high
    BY <1>16, <1>21, <1>22
  <2>3. IsInner(C[p]) /\ Divided(C[p], n, D[p], D[new]) /\ k = C[p].keys[n + 1]
    BY <1>10, <1>12, <1>13, <1>20, <2>2
  <2>4. C[p].pointers = ps /\ Len(C[p].pointers) = ORDER + 2
    BY <1>9, <1>19, <1>20
  <2>5. InnerHalves(C, D, P, p, new, n, k, up2)
    BY <1>28, <1>29, <2>1, <2>3, <2>4 DEF InnerHalves
  <2> QED BY <1>22, <1>24, <1>30, <2>5, InnerCut
<1>32. Pending' /\ split'.node = p /\ split'.new = new /\ split'.separator = k
  BY <1>14 DEF Pending
<1>33. Ends' = b2
  BY <1>15, <1>19, <1>27, <1>32 DEF Ends
<1>34. Separator' = k
  <2>1. k \in SearchKeys
    <3>1. n + 1 \in 1 .. Len(node.keys)
      BY <1>9, <1>11
    <3> QED BY <1>10, <1>12, <3>1
  <2>2. k # 0
    BY <2>1 DEF OrderInv, FewCopies
  <2> QED BY <1>32, <2>2 DEF Separator
<1>35. PendingOrder(lo2, hi2, up2)'
  <2>1. p # new /\ up2[new] = 0 /\ hi2[p] = {k} /\ lo2[new] = {k}
    BY <1>22, <1>27
  <2> QED BY <1>32, <1>34, <2>1 DEF PendingOrder
<1>36. PathOrder'
  <2>1. ASSUME NEW c \in 1 .. Climb' PROVE Follows(c)'
    <3>1. c \in 1 .. i - 1
      BY <1>5, <1>7, <1>14, <2>1 DEF Climb
    <3>2. Follows(c)
      BY <1>3, <1>4, <3>1 DEF OrderInv, Arranged, PathOrder, Climb
    <3>3. c \in 1 .. m /\ m - c # m - i /\ m - c # 0
      BY <1>5, <1>7, <3>1
    <3>4. PICK q : q = path[c] /\ q \in PageIds /\ q # p /\ ~nodes[q].is_leaf
      BY <1>2, <1>6, <1>8, <3>3 DEF Levels
    <3>5. nodes'[q].pointers = nodes[q].pointers
      BY <1>16, <3>4 DEF Alike
    <3> QED BY <1>4, <3>2, <3>4, <3>5 DEF Follows
  <2> QED BY <2>1 DEF PathOrder
<1> QED BY <1>4, <1>19, <1>31, <1>33, <1>35, <1>36 DEF Arranged

LEMMA SplitRootOrder ==
  ASSUME OrderInv, _split_root
  PROVE  Arranged'
<1>1. PICK level, edge, chain : Shape(level, edge, chain) /\ CallInv(level)
  BY DEF OrderInv, TreeInv
<1>2. /\ NodesInv /\ Levels(level) /\ LeftEdge(edge) /\ PathInv(level)
      /\ HeldInv(level) /\ PendingInv(level)
  BY <1>1 DEF Shape, CallInv
<1>3. PICK r, x, key, new : /\ r = root_page_id /\ x = split.new /\ key = split.separator
                            /\ new = NewPage
  OBVIOUS
<1>4. /\ pc = "split_root" /\ Pending /\ held = NoNode /\ pc' = "idle" /\ held' = NoNode
      /\ root_page_id' = new
  BY <1>2, <1>3 DEF _split_root, HeldInv, Pending, Return
<1>5. split.node = r /\ x \in PageIds /\ key \in SearchKeys
  <2>1. split.idx = 0 /\ split.node = path[split.idx + 1] /\ path[1] = root_page_id
    BY <1>2, <1>4 DEF PendingInv, PathInv, Splitting
  <2>2. split.node = r
    BY <1>3, <2>1
  <2> QED BY <1>2, <1>3, <1>4, <2>2 DEF PendingInv
<1>6. Separator = key
  <2>1. key # 0
    BY <1>5 DEF OrderInv, FewCopies
  <2> QED BY <1>3, <2>1 DEF Separator
<1>7. PICK P, C, D, b, old, node :
        /\ P = PageIds /\ C = Now /\ D = Now' /\ b = Ends
        /\ old = Inner(<<>>, <<r>>) /\ node = insert_pointer(old, key, x)
  OBVIOUS
<1>8. PICK lo, hi, up : Ordered(C, r, b, lo, hi, up) /\ PendingOrder(lo, hi, up)
  BY <1>3, <1>7 DEF OrderInv, Arranged
<1>9. hi[r] = {key} /\ lo[x] = {key} /\ up[x] = 0 /\ x # r
  BY <1>3, <1>4, <1>5, <1>6, <1>8 DEF PendingOrder
<1>10. /\ DOMAIN C = P /\ Pages(P) /\ r \in P /\ \A q \in P : C[q] = nodes[q]
  <2>1. \A q \in PageIds : Content(q) = nodes[q]
    BY <1>2, <1>4, ContentOf
  <2> QED BY <1>2, <1>3, <1>7, <2>1, PagesOfTree DEF Now
<1>11. Source(C, P, r)
  BY <1>2, <1>7, <1>10, StoredPointers DEF Source
<1>12. Rerouted(P, r, x, b)
  BY <1>3, <1>4, <1>5, <1>7, <1>10 DEF Rerouted, Ends
<1>13. /\ old.keys = <<>> /\ old.pointers = <<r>> /\ Len(old.keys) = 0 /\ Len(old.pointers) = 1
       /\ Grows(old, key, x, P)
  <2>1. P \subseteq Nat /\ r \in P /\ x \in P
    BY <1>2, <1>5, <1>7, <1>10, NodeFields
  <2>2. /\ old \in InnerNode /\ old.keys = <<>> /\ old.pointers = <<r>>
        /\ Len(old.keys) = 0 /\ Len(old.pointers) = 1 /\ old.pointers \in Seq(P)
    BY <1>7, <2>1 DEF Inner, InnerNode
  <2>3. Len(old.pointers) = Len(old.keys) + 1
    BY <2>2
  <2> QED BY <1>5, <2>1, <2>2, <2>3 DEF Grows
<1>14. PICK at : at = Place(old.keys, key)
  OBVIOUS
<1>15. node \in InnerNode /\ Grown(old, node, at, key, x)
  <2>0. node = insert_pointer(old, key, x)
    BY <1>7
  <2>1. node \in InnerNode
    BY <1>13, <2>0, PointerInserted
  <2>2. Grown(old, node, Place(old.keys, key), key, x)
    BY <1>13, <2>0, PointerGrows
  <2> QED BY <1>14, <2>1, <2>2
<1>16. /\ at = 1 /\ Len(node.keys) = 1 /\ node.keys[1] = key /\ node.pointers[1] = r
       /\ node.pointers[2] = x /\ IsInner(node)
  <2>1. at = 1 /\ Len(node.keys) = 1 /\ IsInner(node)
    BY <1>13, <1>15 DEF Grown
  <2>2. node.keys[1] = key
    BY <1>13, <1>15, <2>1 DEF Grown
  <2>3. \A j \in 1 .. 2 : node.pointers[j] = IF j < 2 THEN old.pointers[j]
                                              ELSE IF j = 2 THEN x ELSE old.pointers[j - 1]
    BY <1>13, <1>15, <2>1 DEF Grown
  <2>4. node.pointers[1] = old.pointers[1] /\ node.pointers[2] = x
    BY <2>3
  <2> QED BY <1>13, <2>1, <2>2, <2>4
<1>17. node.keys = <<key>> /\ node.pointers = <<r, x>> /\ ~node.is_leaf
  <2>1. PICK ks, ps : ks = node.keys /\ ps = node.pointers
    OBVIOUS
  <2>2. /\ ks \in Seq(SearchKeys) /\ Len(ks) = 1 /\ ks[1] = key
        /\ ps \in Seq(Nat) /\ Len(ps) = 2 /\ ps[1] = r /\ ps[2] = x /\ ~node.is_leaf
    BY <1>16, <2>1 DEF IsInner
  <2>3. ks = <<key>>
    BY <2>2
  <2>4. ps = <<r, x>>
    BY <2>2
  <2> QED BY <2>1, <2>2, <2>3, <2>4
<1>18. nodes' = Append(nodes, node)
  BY <1>3, <1>5, <1>7 DEF _split_root
<1>19. /\ PageIds' = P \cup {new} /\ new \notin P /\ new \in Nat \ {0}
       /\ nodes'[new] = node /\ \A q \in P : nodes'[q] = nodes[q]
  <2>1. nodes \in Seq(Node) /\ node \in Node /\ Len(nodes) \in Nat /\ P = 1 .. Len(nodes)
    BY <1>2, <1>7, <1>15 DEF NodesInv, Node, PageIds
  <2>2. Len(nodes') = Len(nodes) + 1 /\ nodes'[Len(nodes) + 1] = node
    BY <1>18, <2>1, AppendProperties
  <2>3. \A q \in 1 .. Len(nodes) : nodes'[q] = nodes[q]
    BY <1>18, <2>1, AppendProperties
  <2> QED BY <1>3, <2>1, <2>2, <2>3 DEF NewPage, PageIds
<1>20. DOMAIN D = P \cup {new} /\ \A q \in P \cup {new} : D[q] = nodes'[q]
  <2>1. 0 \notin PageIds'
    BY <1>10, <1>19 DEF Pages
  <2> QED BY <1>4, <1>7, <1>19, <2>1 DEF Now, Content, NoNode
<1>21. RootAdded(C, D, P, r, x, key, new)
  <2>1. \A q \in P : D[q] = C[q]
    BY <1>10, <1>19, <1>20
  <2>2. D[new] = node
    BY <1>19, <1>20
  <2> QED BY <1>5, <1>9, <1>17, <1>19, <1>20, <2>1, <2>2 DEF RootAdded
<1>22. PICK lo2, hi2, up2 :
         /\ lo2 = [q \in P \cup {new} |-> IF q = new THEN {} ELSE lo[q]]
         /\ hi2 = [q \in P \cup {new} |-> IF q = new THEN {} ELSE hi[q]]
         /\ up2 = [q \in P \cup {new} |-> IF q = new THEN 0
                                          ELSE IF q \in {r, x} THEN new ELSE up[q]]
  OBVIOUS
<1>23. Ordered(D, new, Itself(P \cup {new}), lo2, hi2, up2)
  BY <1>8, <1>9, <1>11, <1>12, <1>21, <1>22, RootLinked, SMTT(30)
<1>24. ~Pending' /\ Ends' = Itself(P \cup {new})
  <2>1. ~Pending'
    BY <1>4 DEF Pending
  <2> QED BY <1>19, <2>1 DEF Ends, Itself
<1>25. PathOrder'
  BY <1>4 DEF PathOrder, Climb
<1> QED BY <1>4, <1>7, <1>23, <1>24, <1>25 DEF Arranged, PendingOrder

LEMMA DeleteOrder ==
  ASSUME OrderInv, NEW key \in SearchKeys, NEW rid, Delete(key, rid) \/ DeleteRaises(key, rid)
  PROVE  Arranged'
<1>1. PICK level, edge, chain : Shape(level, edge, chain) /\ CallInv(level)
  BY DEF OrderInv, TreeInv
<1>2. /\ NodesInv /\ Levels(level) /\ LeftEdge(edge) /\ IsChain(chain) /\ HeldInv(level)
  BY <1>1 DEF Shape, CallInv
<1>3. PICK p, old, leaf : /\ p = HolderOf(key, rid) /\ old = nodes[p]
                          /\ leaf = remove_key(old, key, rid)
  OBVIOUS
<1>4. /\ pc = "idle" /\ held = NoNode /\ held' = NoNode /\ pc' \in {"idle", "raised"}
      /\ HolderOf(key, rid) # 0 /\ root_page_id' = root_page_id
      /\ nodes' = [nodes EXCEPT ![p] = leaf]
  BY <1>2, <1>3 DEF Delete, DeleteRaises, Idle, call, HeldInv
<1>5. p \in Leaves /\ Holds(old, key, rid)
  BY <1>2, <1>3, <1>4, HolderFound
<1>6. old \in LeafNode /\ old.is_leaf /\ old.entries \in Seq(EntryType) /\ p \in PageIds
  <2>1. old \in LeafNode /\ p \in PageIds
    BY <1>2, <1>3, <1>5, NodeFields
  <2> QED BY <2>1, LeafKeys
<1>7. leaf \in LeafNode /\ leaf.next_leaf = old.next_leaf
  <2>1. leaf = remove_key(old, key, rid)
    BY <1>3
  <2>2. leaf \in LeafNode
    BY <1>5, <1>6, <2>1, LeafRemoved
  <2>3. leaf.next_leaf = old.next_leaf
    BY <1>5, <1>6, <2>1, LeafRemoved
  <2> QED BY <2>2, <2>3
<1>8. PICK at : Dropped(old.entries, leaf.entries, at, <<key, rid>>)
  BY <1>3, <1>5, <1>6, LeafRemoved
<1>9. leaf.is_leaf /\ leaf.entries \in Seq(EntryType)
  BY <1>7, LeafKeys
<1>10. PICK P, C, D, r : P = PageIds /\ C = Now /\ D = Now' /\ r = root_page_id
  OBVIOUS
<1>11. PICK lo, hi, up : Ordered(C, r, Ends, lo, hi, up)
  BY <1>10 DEF OrderInv, Arranged
<1>12. ~Pending /\ Stored(C) /\ Ends = Itself(P)
  <2>1. ~Pending
    BY <1>4 DEF Pending
  <2> QED BY <1>2, <1>4, <1>10, <2>1, Quiet
<1>13. /\ PageIds' = P /\ DOMAIN D = P /\ \A q \in P : D[q] = IF q = p THEN leaf ELSE C[q]
  <2>1. nodes \in Seq(Node) /\ leaf \in Node /\ p \in 1 .. Len(nodes) /\ 0 \notin P
    BY <1>2, <1>6, <1>7, <1>10, NodeFields DEF NodesInv, Node, PageIds
  <2>2. Len(nodes') = Len(nodes)
    BY <1>4, <2>1, Replaced
  <2>3. \A q \in 1 .. Len(nodes) : nodes'[q] = IF q = p THEN leaf ELSE nodes[q]
    BY <1>4, <2>1, Replaced
  <2> QED BY <1>4, <1>10, <1>12, <2>1, <2>2, <2>3 DEF Now, Content, PageIds, NoNode, Stored
<1>14. LeafOrder(leaf.entries, lo[p], hi[p])
  <2>1. PICK s, t, e, l, h : /\ s = old.entries /\ t = leaf.entries /\ e = <<key, rid>>
                             /\ l = lo[p] /\ h = hi[p]
    OBVIOUS
  <2>2. LeafOrder(s, l, h)
    BY <1>3, <1>6, <1>10, <1>11, <1>12, <2>1 DEF Ordered, Stored, PageOrder
  <2>3. s \in Seq(EntryType) /\ t \in Seq(EntryType) /\ Dropped(s, t, at, e)
    BY <1>6, <1>8, <1>9, <2>1
  <2>4. LeafOrder(t, l, h)
    BY <2>2, <2>3, RemovedInOrder
  <2> QED BY <2>1, <2>4
<1>15. Ordered(D, r, Itself(P), lo, hi, up)
  <2>1. PICK b : b = Itself(P)
    OBVIOUS
  <2>2. /\ DOMAIN C = P /\ p \in P /\ Ordered(C, r, b, lo, hi, up)
        /\ C[p].is_leaf /\ leaf.next_leaf = C[p].next_leaf
    BY <1>3, <1>6, <1>7, <1>10, <1>11, <1>12, <2>1 DEF Stored
  <2>3. Ordered(D, r, b, lo, hi, up)
    BY <1>9, <1>13, <1>14, <2>2, LeafRefilled
  <2> QED BY <2>1, <2>3
<1>16. ~Pending' /\ Ends' = Itself(P)
  <2>1. ~Pending'
    BY <1>4 DEF Pending
  <2> QED BY <1>13, <2>1 DEF Ends, Itself
<1>17. PathOrder'
  BY <1>4 DEF PathOrder, Climb
<1> QED BY <1>4, <1>10, <1>15, <1>16, <1>17 DEF Arranged, PendingOrder

LEMMA OrderInit == Init /\ FewCopies => OrderInv
<1> SUFFICES ASSUME Init, FewCopies PROVE OrderInv
  OBVIOUS
<1>1. TreeInv
  BY TreeInit
<1>2. PICK leaf : leaf = Leaf(<<>>, NoLeaf, NoLeaf)
  OBVIOUS
<1>3. /\ nodes = <<leaf>> /\ root_page_id = 1 /\ pc = "idle" /\ held = NoNode
      /\ leaf.is_leaf /\ leaf.entries = <<>> /\ leaf.next_leaf = NoLeaf
  BY <1>2 DEF Init, Leaf
<1>4. PageIds = {1} /\ nodes[1] = leaf
  BY <1>3 DEF PageIds
<1>5. ~Pending /\ PathOrder
  BY <1>3 DEF Pending, PathOrder, Climb
<1>6. Now = [p \in {1} |-> leaf] /\ Ends = [p \in {1} |-> p]
  BY <1>3, <1>4, <1>5 DEF Now, Content, NoNode, Ends
<1>7. PICK lo, hi, up : lo = [p \in {1} |-> {}] /\ hi = [p \in {1} |-> {}] /\ up = [p \in {1} |-> 0]
  OBVIOUS
<1>8. Bounds({1}, 1, Ends, lo, hi, up)
  BY <1>6, <1>7 DEF Bounds, Apart
<1>9. PageOrder(1, leaf, Ends, lo, hi, up)
  BY <1>3, <1>7 DEF PageOrder, LeafOrder, LinkOrder
<1>10. Ordered(Now, root_page_id, Ends, lo, hi, up)
  BY <1>3, <1>6, <1>8, <1>9 DEF Ordered
<1> QED BY <1>1, <1>5, <1>10 DEF OrderInv, Arranged, PendingOrder

LEMMA ReadsOrder ==
  ASSUME OrderInv, \/ Reads \/ Reopen \/ UNCHANGED vars
                   \/ \E key \in SearchKeys : \E rid : DeleteMisses(key, rid)
  PROVE  Arranged'
<1>1. PICK level : HeaderInv
  BY DEF OrderInv, TreeInv, CallInv
<1>2. UNCHANGED <<nodes, pc, path, held, split>> /\ root_page_id' = root_page_id
  BY <1>1 DEF Reads, Search, RangeScan, DeleteMisses, tree, Reopen, vars, call, HeaderInv
<1>3. PathOrder'
  BY <1>2 DEF OrderInv, Arranged, PathOrder, Climb, Follows
<1>4. Now' = Now /\ Ends' = Ends /\ Pending' = Pending /\ Separator' = Separator
  BY <1>2 DEF Now, Ends, Pending, Separator, PageIds, Content, Keys
<1>5. PICK lo, hi, up : Ordered(Now, root_page_id, Ends, lo, hi, up) /\ PendingOrder(lo, hi, up)
  BY DEF OrderInv, Arranged
<1>6. Ordered(Now, root_page_id, Ends, lo, hi, up)' /\ PendingOrder(lo, hi, up)'
  BY <1>2, <1>4, <1>5 DEF PendingOrder
<1> QED BY <1>3, <1>6 DEF Arranged

LEMMA OrderNext == OrderInv /\ [Next]_vars => OrderInv'
<1> SUFFICES ASSUME OrderInv, [Next]_vars PROVE OrderInv'
  OBVIOUS
<1>1. TreeInv' /\ FewCopies'
  BY TreeNext DEF OrderInv, FewCopies
<1>2. CASE Inserts
  BY <1>1, <1>2, InsertOrder DEF Inserts, OrderInv
<1>3. CASE Splits
  BY <1>1, <1>3, SplitLeafOrder, UpdateParentOrder, SplitInternalOrder, SplitRootOrder
     DEF Splits, OrderInv
<1>4. CASE Deletes
  <2>0. PICK key \in Deletable, n \in Copies :
          \/ Delete(key, <<key, n>>) \/ DeleteRaises(key, <<key, n>>)
          \/ DeleteMisses(key, <<key, n>>)
    BY <1>4 DEF Deletes
  <2>1. PICK rid :
          /\ rid = <<key, n>>
          /\ Delete(key, rid) \/ DeleteRaises(key, rid) \/ DeleteMisses(key, rid)
    BY <2>0
  <2>2. key \in SearchKeys
    BY <2>0, TreeAssumption
  <2>3. Arranged'
    BY <2>1, <2>2, DeleteOrder, ReadsOrder
  <2> QED BY <1>1, <2>3 DEF OrderInv
<1>5. CASE Reads \/ Reopen \/ UNCHANGED vars
  BY <1>1, <1>5, ReadsOrder DEF OrderInv
<1> QED BY <1>2, <1>3, <1>4, <1>5 DEF Next

LEMMA OrderInvariant ==
  ASSUME FewCopies
  PROVE  Spec => []OrderInv
<1>1. Init => OrderInv
  BY OrderInit
<1>2. OrderInv /\ [Next]_vars => OrderInv'
  BY OrderNext
<1> QED BY <1>1, <1>2, PTL DEF Spec
-----------------------------------------------------------------------------
(***************************************************************************)
(* The leaves from left to right.                                          *)
(***************************************************************************)
ChainOrder(chain, lo, hi) ==
  \A i \in 1 .. Len(chain) :
    /\ lo[chain[i]] \subseteq SearchKeys /\ hi[chain[i]] \subseteq SearchKeys
    /\ Apart(lo[chain[i]], hi[chain[i]])
    /\ LeafOrder(nodes[chain[i]].entries, lo[chain[i]], hi[chain[i]])
    /\ i < Len(chain) => hi[chain[i]] # {} /\ lo[chain[i + 1]] = hi[chain[i]]

LEMMA ChainOrdered ==
  ASSUME NodesInv, NEW chain, IsChain(chain), NEW C, Stored(C),
         NEW lo, NEW hi, NEW up, Ordered(C, root_page_id, Itself(PageIds), lo, hi, up)
  PROVE  ChainOrder(chain, lo, hi)
<1> SUFFICES ASSUME NEW i \in 1 .. Len(chain)
             PROVE  /\ lo[chain[i]] \subseteq SearchKeys /\ hi[chain[i]] \subseteq SearchKeys
                    /\ Apart(lo[chain[i]], hi[chain[i]])
                    /\ LeafOrder(nodes[chain[i]].entries, lo[chain[i]], hi[chain[i]])
                    /\ i < Len(chain) => hi[chain[i]] # {} /\ lo[chain[i + 1]] = hi[chain[i]]
  BY DEF ChainOrder
<1>1. PICK p : p = chain[i]
  OBVIOUS
<1>2. p \in Leaves /\ p \in PageIds /\ nodes[p].is_leaf
  BY <1>1, ChainFields DEF Leaves
<1>3. /\ Bounds(PageIds, root_page_id, Itself(PageIds), lo, hi, up)
      /\ PageOrder(p, nodes[p], Itself(PageIds), lo, hi, up)
  BY <1>2 DEF Ordered, Stored
<1>4. LeafOrder(nodes[p].entries, lo[p], hi[p]) /\ LinkOrder(nodes[p].next_leaf, lo, hi[p])
  BY <1>2, <1>3 DEF PageOrder
<1>5. ASSUME i < Len(chain) PROVE hi[p] # {} /\ lo[chain[i + 1]] = hi[p]
  <2>1. i + 1 \in 1 .. Len(chain) /\ nodes[p].next_leaf = chain[i + 1]
    BY <1>1, <1>5, ChainFields
  <2>2. chain[i + 1] \in Leaves /\ chain[i + 1] \in Nat
    BY <2>1, ChainFields, NodeFields
  <2>3. nodes[p].next_leaf # NoLeaf
    BY <2>1, <2>2 DEF NoLeaf
  <2> QED BY <1>4, <2>1, <2>3 DEF LinkOrder
<1> QED BY <1>1, <1>2, <1>3, <1>4, <1>5 DEF Bounds

(* What is not above a leaf is not above any leaf behind it.               *)
LEMMA LaterLeaves ==
  ASSUME NEW chain, Len(chain) \in Nat, NEW lo, NEW hi, ChainOrder(chain, lo, hi),
         NEW j \in 1 .. Len(chain), NEW a \in Int, \A y \in hi[chain[j]] : a <= y
  PROVE  \A i \in 1 .. Len(chain) :
           j < i => lo[chain[i]] # {} /\ \A x \in lo[chain[i]] : a <= x
<1>1. PICK n \in Nat : n = Len(chain)
  OBVIOUS
<1>2. PICK P, rank, good :
        /\ P = j + 1 .. n /\ rank = [i \in P |-> i]
        /\ good = {i \in P : lo[chain[i]] # {} /\ \A x \in lo[chain[i]] : a <= x}
  OBVIOUS
<1>3. rank \in [P -> Nat] /\ \A i \in P : rank[i] = i
  BY <1>1, <1>2
<1>4. ASSUME NEW i \in P, \A q \in P : rank[q] < rank[i] => q \in good PROVE i \in good
  <2>1. /\ i - 1 \in 1 .. n /\ i - 1 < Len(chain) /\ (i - 1) + 1 = i
        /\ i - 1 = j \/ (i - 1 \in P /\ i - 1 < i)
    BY <1>1, <1>2
  <2>2. hi[chain[i - 1]] # {} /\ lo[chain[i]] = hi[chain[i - 1]]
    BY <1>1, <2>1 DEF ChainOrder
  <2>3. \A y \in hi[chain[i - 1]] : a <= y
    <3>1. CASE i - 1 = j
      BY <3>1
    <3>2. CASE i - 1 # j
      <4>1. i - 1 \in good
        BY <1>3, <1>4, <2>1, <3>2
      <4>2. PICK x \in lo[chain[i - 1]] : a <= x
        BY <1>2, <4>1
      <4>3. /\ lo[chain[i - 1]] \subseteq Int /\ hi[chain[i - 1]] \subseteq Int
            /\ \A y \in hi[chain[i - 1]] : x < y
        BY <1>1, <2>1, TreeAssumption DEF ChainOrder, Apart
      <4> QED BY <4>2, <4>3
    <3> QED BY <3>1, <3>2
  <2> QED BY <1>2, <2>2, <2>3
<1>5. \A i \in P : i \in good
  BY <1>3, <1>4, RankInduction
<1> QED BY <1>1, <1>2, <1>5

LEMMA EntriesRise ==
  ASSUME NodesInv, NEW chain, IsChain(chain), NEW lo, NEW hi, ChainOrder(chain, lo, hi),
         NEW i \in 1 .. Len(chain), NEW j \in 1 .. Len(chain), j < i,
         NEW a \in DOMAIN nodes[chain[i]].entries, NEW c \in DOMAIN nodes[chain[j]].entries
  PROVE  nodes[chain[j]].entries[c][1] <= nodes[chain[i]].entries[a][1]
<1>1. PICK p, q : p = chain[i] /\ q = chain[j]
  OBVIOUS
<1>2. PICK x, y : x = nodes[q].entries[c][1] /\ y = nodes[p].entries[a][1]
  OBVIOUS
<1>3. x \in Int /\ y \in Int
  <2>1. p \in Leaves /\ q \in Leaves
    BY <1>1, ChainFields
  <2>2. nodes[p].entries \in Seq(EntryType) /\ nodes[q].entries \in Seq(EntryType)
    BY <2>1, NodeFields
  <2> QED BY <1>1, <1>2, <2>2, EntryKeys
<1>4. \A z \in hi[q] : x <= z
  BY <1>1, <1>2 DEF ChainOrder, LeafOrder, Within
<1>5. lo[p] # {} /\ \A z \in lo[p] : x <= z
  <2>1. Len(chain) \in Nat /\ \A z \in hi[chain[j]] : x <= z
    BY <1>1, <1>4, ChainFields
  <2>2. \A k \in 1 .. Len(chain) : j < k => lo[chain[k]] # {} /\ \A z \in lo[chain[k]] : x <= z
    BY <1>3, <2>1, LaterLeaves
  <2> QED BY <1>1, <2>2
<1>6. \A z \in lo[p] : z <= y /\ z \in Int
  BY <1>1, <1>2, TreeAssumption DEF ChainOrder, LeafOrder, Within
<1> QED BY <1>1, <1>2, <1>3, <1>5, <1>6
-----------------------------------------------------------------------------
(***************************************************************************)
(* What a leaf yields to a lookup.                                         *)
(***************************************************************************)
(* t is what a loop over the first n entries of s has picked: their places *)
(* in s rise, and none is left out.                                        *)
Places(f, s, keys, n, t) ==
  /\ f \in [1 .. Len(t) -> 1 .. n]
  /\ \A i, j \in 1 .. Len(t) : i < j => f[i] < f[j]
  /\ \A i \in 1 .. Len(t) : t[i] = s[f[i]] /\ s[f[i]][1] \in keys
  /\ \A j \in 1 .. n : s[j][1] \in keys => \E i \in 1 .. Len(t) : f[i] = j
Picks(s, keys, n, t) == t \in Seq(EntryType) /\ \E f : Places(f, s, keys, n, t)

LEMMA PickedNext ==
  ASSUME NEW s \in Seq(EntryType), NEW keys, NEW n \in Nat, n + 1 <= Len(s),
         NEW t, Picks(s, keys, n, t),
         NEW u, u = IF s[n + 1][1] \in keys THEN Append(t, s[n + 1]) ELSE t
  PROVE  Picks(s, keys, n + 1, u)
<1>1. t \in Seq(EntryType)
  BY DEF Picks
<1>2. PICK m \in Nat : m = Len(t)
  BY <1>1
<1>3. PICK f \in [1 .. m -> 1 .. n] :
        /\ \A i, j \in 1 .. m : i < j => f[i] < f[j]
        /\ \A i \in 1 .. m : t[i] = s[f[i]] /\ s[f[i]][1] \in keys
        /\ \A j \in 1 .. n : s[j][1] \in keys => \E i \in 1 .. m : f[i] = j
  BY <1>2 DEF Picks, Places
<1>4. s[n + 1] \in EntryType /\ \A i \in 1 .. m : f[i] \in 1 .. n
  <2>1. n + 1 \in 1 .. Len(s)
    OBVIOUS
  <2> QED BY <1>3, <2>1
<1>5. CASE s[n + 1][1] \notin keys
  <2>1. f \in [1 .. m -> 1 .. n + 1]
    BY <1>3
  <2>2. \A j \in 1 .. n + 1 : s[j][1] \in keys => \E i \in 1 .. m : f[i] = j
    <3>1. \A j \in 1 .. n + 1 : j = n + 1 \/ j \in 1 .. n
      OBVIOUS
    <3> QED BY <1>3, <1>5, <3>1
  <2>3. u = t /\ Len(u) = m
    BY <1>2, <1>5
  <2>4. Places(f, s, keys, n + 1, u)
    BY <1>3, <2>1, <2>2, <2>3 DEF Places
  <2> QED BY <1>1, <2>3, <2>4 DEF Picks
<1>6. CASE s[n + 1][1] \in keys
  <2>1. u = Append(t, s[n + 1])
    BY <1>6
  <2>2. u \in Seq(EntryType) /\ Len(u) = m + 1 /\ u[m + 1] = s[n + 1]
    BY <1>1, <1>2, <1>4, <2>1, AppendProperties
  <2>3. \A i \in 1 .. m : u[i] = t[i]
    BY <1>1, <1>2, <1>4, <2>1, AppendProperties
  <2>4. PICK g : g = [i \in 1 .. m + 1 |-> IF i = m + 1 THEN n + 1 ELSE f[i]]
    OBVIOUS
  <2>5. \A i \in 1 .. m + 1 : i = m + 1 \/ i \in 1 .. m
    BY <1>2
  <2>6. g[m + 1] = n + 1 /\ \A i \in 1 .. m : g[i] = f[i] /\ i \in 1 .. m + 1
    <3>1. m + 1 \in 1 .. m + 1 /\ \A i \in 1 .. m : i # m + 1 /\ i \in 1 .. m + 1
      BY <1>2
    <3> QED BY <2>4, <3>1
  <2>7. g \in [1 .. m + 1 -> 1 .. n + 1]
    BY <1>4, <2>4, <2>5
  <2>8. ASSUME NEW i \in 1 .. m + 1, NEW j \in 1 .. m + 1, i < j PROVE g[i] < g[j]
    <3>1. i \in 1 .. m
      BY <1>2, <2>8
    <3>2. CASE j = m + 1
      BY <1>4, <2>6, <3>1, <3>2
    <3>3. CASE j \in 1 .. m
      BY <1>3, <2>6, <2>8, <3>1, <3>3
    <3> QED BY <2>5, <3>2, <3>3
  <2>9. ASSUME NEW i \in 1 .. m + 1 PROVE u[i] = s[g[i]] /\ s[g[i]][1] \in keys
    BY <1>3, <1>6, <2>2, <2>3, <2>5, <2>6
  <2>10. ASSUME NEW j \in 1 .. n + 1, s[j][1] \in keys PROVE \E i \in 1 .. m + 1 : g[i] = j
    <3>1. CASE j = n + 1
      <4>1. m + 1 \in 1 .. m + 1
        BY <1>2
      <4> QED BY <2>6, <3>1, <4>1
    <3>2. CASE j # n + 1
      <4>1. j \in 1 .. n
        BY <3>2
      <4>2. PICK i \in 1 .. m : f[i] = j
        BY <1>3, <2>10, <4>1
      <4> QED BY <2>6, <4>2
    <3> QED BY <3>1, <3>2
  <2>11. Places(g, s, keys, n + 1, u)
    BY <2>2, <2>7, <2>8, <2>9, <2>10 DEF Places
  <2> QED BY <2>2, <2>11 DEF Picks
<1> QED BY <1>5, <1>6

LEMMA PickedKeys ==
  ASSUME NEW s \in Seq(EntryType), NEW keys
  PROVE  Picks(s, keys, Len(s), Picked(s, keys))
<1>1. PICK c \in Nat : c = Len(s)
  OBVIOUS
<1> DEFINE P == 0 .. c
           V == Seq(EntryType)
           rank == [n \in P |-> n]
           next == [n \in P |-> n - 1]
           base == [n \in P |-> <<>>]
           step == [x \in P \X V |-> IF s[x[1]][1] \in keys THEN Append(x[2], s[x[1]]) ELSE x[2]]
           IsUpto(f) == f = [n \in 0 .. Len(s) |->
                               IF n = 0 THEN <<>>
                               ELSE IF s[n][1] \in keys THEN Append(f[n - 1], s[n])
                               ELSE f[n - 1]]
<1>2. \E f : IsUpto(f)
  <2>1. Descends(P, rank, c + 1, {0}, next)
    BY DEF Descends
  <2>2. Yields(P, V, {0}, base, step)
    <3>1. \A n \in P \ {0} : s[n] \in EntryType /\ \A v \in V : Append(v, s[n]) \in V
      BY <1>1, AppendProperties
    <3>2. \A n \in P \ {0} : \A v \in V : step[<<n, v>>] \in V
      BY <3>1
    <3>3. \A n \in {0} : base[n] \in V
      OBVIOUS
    <3> HIDE DEF base, step, V, P
    <3> QED BY <3>2, <3>3 DEF Yields
  <2>3. \A n \in P \ {0} : next[n] \in P /\ next[n] = n - 1
    OBVIOUS
  <2> HIDE DEF base, step, V, next, rank
  <2>4. PICK f \in [P -> V] :
          \A n \in P : f[n] = IF n \in {0} THEN base[n] ELSE step[<<n, f[next[n]]>>]
    <3> HIDE DEF P, IsUpto
    <3> QED BY <2>1, <2>2, Recursion
  <2>5. \A n \in P : n = 0 => f[n] = <<>>
    BY <2>4 DEF base
  <2>6. ASSUME NEW n \in P, n # 0
        PROVE  f[n] = IF s[n][1] \in keys THEN Append(f[n - 1], s[n]) ELSE f[n - 1]
    <3>1. f[n] = step[<<n, f[n - 1]>>] /\ f[n - 1] \in V
      BY <2>3, <2>4, <2>6
    <3>2. PICK v \in V : v = f[n - 1]
      BY <3>1
    <3>3. step[<<n, v>>] = IF s[n][1] \in keys THEN Append(v, s[n]) ELSE v
      BY DEF step
    <3> QED BY <3>1, <3>2, <3>3
  <2>7. \A n \in P : f[n] = IF n = 0 THEN <<>>
                            ELSE IF s[n][1] \in keys THEN Append(f[n - 1], s[n])
                            ELSE f[n - 1]
    BY <2>5, <2>6
  <2> QED BY <1>1, <2>4, <2>7
<1>3. PICK upto : IsUpto(upto) /\ Picked(s, keys) = upto[Len(s)]
  <2>1. IsUpto(CHOOSE f : IsUpto(f))
    BY <1>2
  <2>2. Picked(s, keys) = (CHOOSE f : IsUpto(f))[Len(s)]
    BY DEF Picked
  <2> QED BY <2>1, <2>2
<1>8. \A n \in P : upto[n] = IF n = 0 THEN <<>>
                             ELSE IF s[n][1] \in keys THEN Append(upto[n - 1], s[n])
                             ELSE upto[n - 1]
  BY <1>1, <1>3
<1>4. /\ upto[0] = <<>>
      /\ \A n \in P : n # 0 => upto[n] = IF s[n][1] \in keys THEN Append(upto[n - 1], s[n])
                                         ELSE upto[n - 1]
  <2>1. 0 \in P
    OBVIOUS
  <2> HIDE DEF P
  <2> QED BY <1>8, <2>1
<1> HIDE DEF IsUpto
<1> DEFINE good == {n \in P : Picks(s, keys, n, upto[n])}
<1>5. ASSUME NEW n \in P, \A q \in P : rank[q] < rank[n] => q \in good PROVE n \in good
  <2>1. CASE n = 0
    <3>1. PICK t, f : t = <<>> /\ f = [i \in {} |-> 0]
      OBVIOUS
    <3>2. t \in Seq(EntryType) /\ Len(t) = 0
      BY <3>1
    <3>3. 1 .. 0 = {} /\ f \in [{} -> {}]
      BY <3>1
    <3>4. Places(f, s, keys, 0, t)
      BY <3>2, <3>3 DEF Places
    <3> QED BY <1>4, <2>1, <3>1, <3>2, <3>4 DEF Picks
  <2>2. CASE n # 0
    <3>1. PICK k \in Nat : k = n - 1 /\ n = k + 1 /\ k \in P /\ rank[k] < rank[n] /\ k + 1 <= Len(s)
      BY <1>1, <2>2, SMTT(30)
    <3>2. Picks(s, keys, k, upto[k])
      BY <1>5, <3>1
    <3>3. upto[n] = IF s[k + 1][1] \in keys THEN Append(upto[k], s[k + 1]) ELSE upto[k]
      BY <1>4, <2>2, <3>1
    <3>4. Picks(s, keys, k + 1, upto[n])
      BY <3>1, <3>2, <3>3, PickedNext
    <3> QED BY <3>1, <3>4
  <2> QED BY <2>1, <2>2
<1>6. \A n \in P : n \in good
  <2>1. rank \in [P -> Nat]
    OBVIOUS
  <2> HIDE DEF P, rank, good
  <2> QED BY <1>5, <2>1, RankInduction
<1>7. c \in P
  OBVIOUS
<1> QED BY <1>1, <1>3, <1>6, <1>7

(* t lists the pairs of S in the order of their keys, each of them once.   *)
Rising(t) == \A i, j \in 1 .. Len(t) : i < j => t[i][1] <= t[j][1]
Lists(t, S) ==
  /\ t \in Seq(EntryType) /\ Rising(t)
  /\ \A i \in 1 .. Len(t) : t[i] \in S
  /\ \A e \in S : \E i \in 1 .. Len(t) : t[i] = e
  /\ \A i, j \in 1 .. Len(t) : t[i] = t[j] => i = j
Between(S, from, to) == {e \in S : from <= e[1] /\ e[1] <= to}

LEMMA PartListed ==
  ASSUME NEW leaf, leaf.entries \in Seq(EntryType), Rising(leaf.entries),
         \A i, j \in 1 .. Len(leaf.entries) : leaf.entries[i] = leaf.entries[j] => i = j,
         NEW from \in Int, NEW to \in Int
  PROVE  Lists(InRange(leaf, from, to), Between(ToSet(leaf.entries), from, to))
<1>1. PICK s, at, ks, r, t, S :
        /\ s = leaf.entries /\ ks = KeysOf(s) /\ at = Place(ks, to) /\ r = Reach(leaf, to)
        /\ t = InRange(leaf, from, to) /\ S = Between(ToSet(s), from, to)
  OBVIOUS
<1>2. PICK n \in Nat : n = Len(s)
  BY <1>1, EntryKeys
<1>3. \A i \in 1 .. n : s[i] \in EntryType /\ s[i][1] \in Int
  <2>1. s \in Seq(EntryType)
    BY <1>1
  <2> QED BY <1>2, <2>1, EntryKeys
<1>4. /\ \A i \in 1 .. n : \A j \in 1 .. n : i < j => s[i][1] <= s[j][1]
      /\ \A i \in 1 .. n : \A j \in 1 .. n : s[i] = s[j] => i = j
  BY <1>1, <1>2 DEF Rising
<1>5. /\ at \in 1 .. n + 1
      /\ at <= n => to < s[at][1]
  <2>1. Len(ks) = n /\ \A i \in 1 .. n : ks[i] = s[i][1]
    BY <1>1, <1>2 DEF KeysOf
  <2>2. ks \in Seq(Int)
    <3>1. ks = [i \in 1 .. n |-> s[i][1]]
      BY <1>1, <1>2 DEF KeysOf
    <3> QED BY <1>2, <1>3, <3>1, IsASeq
  <2>3. at \in 1 .. Len(ks) + 1
    BY <1>1, <2>2, PlaceOf
  <2>4. at <= Len(ks) => to < ks[at]
    BY <1>1, <2>2, PlaceOf
  <2>5. at <= n => at \in 1 .. n
    BY <2>1, <2>3
  <2> QED BY <2>1, <2>3, <2>4, <2>5
<1>19. at \in 1 .. n + 1
  BY <1>5
<1>6. PICK c \in Nat : c = at - 1 /\ c \in 0 .. n
  <2>1. at - 1 \in Nat /\ at - 1 \in 0 .. n
    BY <1>2, <1>19
  <2> QED BY <2>1
<1>7. r \in Seq(EntryType) /\ Len(r) = c /\ \A i \in 1 .. c : r[i] = s[i]
  <2>1. r = UpTo(s, c)
    BY <1>1, <1>6 DEF Reach, UpTo
  <2>2. s \in Seq(EntryType) /\ c \in 0 .. Len(s)
    BY <1>1, <1>2, <1>6
  <2>3. r \in Seq(EntryType) /\ Len(r) = c
    BY <2>1, <2>2, Cut
  <2>4. \A i \in 1 .. c : r[i] = s[i]
    BY <2>1, <2>2, Cut
  <2> QED BY <2>3, <2>4
<1>8. \A i \in 1 .. n : s[i][1] <= to => i \in 1 .. c
  <2> SUFFICES ASSUME NEW i \in 1 .. n, s[i][1] <= to, at <= i PROVE FALSE
    BY <1>2, <1>6, <1>19
  <2>0. at \in 1 .. n /\ at <= n
    BY <1>2, <1>19
  <2>1. at \in 1 .. n /\ to < s[at][1]
    BY <1>5, <2>0
  <2>2. s[at][1] <= s[i][1]
    BY <1>2, <1>3, <1>4, <2>1
  <2> QED BY <1>3, <2>1, <2>2
<1>9. PICK keys : keys = from .. to
  OBVIOUS
<1>10. Picks(r, keys, c, t)
  <2>1. t = Picked(r, keys)
    BY <1>1, <1>9 DEF InRange
  <2> QED BY <1>7, <2>1, PickedKeys
<1>11. PICK f : Places(f, r, keys, c, t)
  BY <1>10 DEF Picks
<1>12. PICK m \in Nat : m = Len(t) /\ t \in Seq(EntryType)
  BY <1>10 DEF Picks
<1>13. /\ \A i \in 1 .. m : f[i] \in 1 .. c /\ f[i] \in 1 .. n /\ t[i] = s[f[i]]
                            /\ s[f[i]][1] \in from .. to
       /\ \A i \in 1 .. m : \A j \in 1 .. m : i < j => f[i] < f[j]
  <2>1. \A i \in 1 .. m : f[i] \in 1 .. c
    BY <1>11, <1>12 DEF Places
  <2>2. \A i \in 1 .. m : t[i] = r[f[i]] /\ r[f[i]][1] \in from .. to
    BY <1>9, <1>11, <1>12 DEF Places
  <2>3. \A i \in 1 .. m : \A j \in 1 .. m : i < j => f[i] < f[j]
    BY <1>11, <1>12 DEF Places
  <2>4. \A i \in 1 .. c : i \in 1 .. n
    BY <1>2, <1>6
  <2> QED BY <1>7, <2>1, <2>2, <2>3, <2>4
<1>14. ASSUME NEW i \in 1 .. m PROVE t[i] \in S
  <2>1. f[i] \in DOMAIN s /\ t[i] = s[f[i]]
    <3>1. DOMAIN s = 1 .. n
      BY <1>1, <1>2, EntryKeys
    <3> QED BY <1>13, <3>1
  <2>2. t[i] \in ToSet(s)
    BY <2>1 DEF ToSet
  <2>3. from <= t[i][1] /\ t[i][1] <= to
    BY <1>13
  <2> QED BY <1>1, <2>2, <2>3 DEF Between
<1>15. ASSUME NEW e \in S PROVE \E i \in 1 .. m : t[i] = e
  <2>1. PICK j \in DOMAIN s : s[j] = e
    BY <1>1 DEF Between, ToSet
  <2>2. j \in 1 .. n /\ from <= s[j][1] /\ s[j][1] <= to
    BY <1>1, <1>2, <2>1, EntryKeys DEF Between
  <2>3. j \in 1 .. c /\ s[j][1] \in from .. to
    BY <1>3, <1>8, <2>2
  <2>4. r[j][1] \in keys
    BY <1>7, <1>9, <2>3
  <2>5. PICK i \in 1 .. m : f[i] = j
    BY <1>11, <1>12, <2>3, <2>4 DEF Places
  <2> QED BY <1>13, <2>1, <2>5
<1>16. ASSUME NEW i \in 1 .. m, NEW j \in 1 .. m, t[i] = t[j] PROVE i = j
  <2>1. f[i] = f[j] /\ f[i] \in 1 .. n /\ f[j] \in 1 .. n
    BY <1>4, <1>13, <1>16
  <2>2. ~(i < j) /\ ~(j < i)
    BY <1>13, <2>1
  <2> QED BY <2>2
<1>17. ASSUME NEW i \in 1 .. m, NEW j \in 1 .. m, i < j PROVE t[i][1] <= t[j][1]
  <2>1. f[i] < f[j] /\ f[i] \in 1 .. n /\ f[j] \in 1 .. n
    BY <1>13, <1>17
  <2> QED BY <1>4, <1>13, <2>1, SMTT(30)
<1>18. Lists(t, S)
  BY <1>12, <1>14, <1>15, <1>16, <1>17 DEF Lists, Rising
<1> QED BY <1>1, <1>18

LEMMA ListsJoined ==
  ASSUME NEW S, NEW T, NEW U, \A e : e \in U <=> e \in S \/ e \in T,
         \A e \in S : \A f \in T : e # f /\ e[1] <= f[1],
         NEW a, NEW b, Lists(a, S), Lists(b, T)
  PROVE  Lists(a \o b, U)
<1>1. a \in Seq(EntryType) /\ b \in Seq(EntryType)
  BY DEF Lists
<1>20. PICK m \in Nat : m = Len(a)
  BY <1>1
<1>21. PICK n \in Nat : n = Len(b)
  BY <1>1
<1>22. PICK u : u = a \o b
  OBVIOUS
<1>2. m \in Nat /\ n \in Nat /\ m = Len(a) /\ n = Len(b) /\ u = a \o b
  BY <1>20, <1>21, <1>22
<1>3. u \in Seq(EntryType) /\ Len(u) = m + n
  BY <1>1, <1>2, ConcatProperties
<1>4. \A i \in 1 .. m + n : u[i] = IF i <= m THEN a[i] ELSE b[i - m]
  BY <1>1, <1>2, ConcatProperties
<1>5. \A i \in 1 .. m + n : IF i <= m THEN i \in 1 .. m ELSE i - m \in 1 .. n
  BY <1>2
<1>6. /\ \A i \in 1 .. m : a[i] \in S
      /\ \A i \in 1 .. n : b[i] \in T
  BY <1>2 DEF Lists
<1>7. /\ \A i \in 1 .. m : u[i] = a[i] /\ i \in 1 .. m + n
      /\ \A i \in 1 .. n : u[m + i] = b[i] /\ m + i \in 1 .. m + n
  <2>1. \A i \in 1 .. m : i \in 1 .. m + n /\ i <= m
    BY <1>2
  <2>2. \A i \in 1 .. n : m + i \in 1 .. m + n /\ ~(m + i <= m) /\ (m + i) - m = i
    BY <1>2
  <2>3. \A i \in 1 .. n : u[m + i] = b[i]
    <3> TAKE i \in 1 .. n
    <3>1. u[m + i] = b[(m + i) - m]
      BY <1>4, <2>2
    <3> QED BY <2>2, <3>1
  <2> QED BY <1>4, <2>1, <2>2, <2>3
<1>8. ASSUME NEW i \in 1 .. m + n PROVE u[i] \in U
  BY <1>4, <1>5, <1>6
<1>9. ASSUME NEW e \in U PROVE \E i \in 1 .. m + n : u[i] = e
  <2>1. CASE e \in S
    <3>1. PICK i \in 1 .. m : a[i] = e
      BY <1>2, <2>1 DEF Lists
    <3> QED BY <1>7, <3>1
  <2>2. CASE e \in T
    <3>1. PICK i \in 1 .. n : b[i] = e
      BY <1>2, <2>2 DEF Lists
    <3> QED BY <1>7, <3>1
  <2> QED BY <2>1, <2>2
<1>10. /\ \A i \in 1 .. m : \A j \in 1 .. m : a[i] = a[j] => i = j
       /\ \A i \in 1 .. n : \A j \in 1 .. n : b[i] = b[j] => i = j
       /\ \A i \in 1 .. m : \A j \in 1 .. m : i < j => a[i][1] <= a[j][1]
       /\ \A i \in 1 .. n : \A j \in 1 .. n : i < j => b[i][1] <= b[j][1]
  BY <1>2 DEF Lists, Rising
<1>11. ASSUME NEW i \in 1 .. m + n, NEW j \in 1 .. m + n, i < j
       PROVE  u[i] # u[j] /\ u[i][1] <= u[j][1]
  <2>1. CASE j <= m
    <3>1. i \in 1 .. m /\ j \in 1 .. m
      BY <1>2, <1>11, <2>1
    <3> QED BY <1>7, <1>10, <1>11, <3>1
  <2>2. CASE i <= m /\ ~(j <= m)
    <3>1. a[i] \in S /\ b[j - m] \in T /\ u[i] = a[i] /\ u[j] = b[j - m]
      BY <1>4, <1>5, <1>6, <2>2
    <3> QED BY <3>1
  <2>3. CASE ~(i <= m)
    <3>1. i - m \in 1 .. n /\ j - m \in 1 .. n /\ i - m < j - m /\ i - m # j - m /\ ~(j <= m)
      BY <1>2, <1>5, <1>11, <2>3
    <3>2. u[i] = b[i - m] /\ u[j] = b[j - m]
      BY <1>4, <2>3, <3>1
    <3> QED BY <1>10, <3>1, <3>2
  <2> QED BY <2>1, <2>2, <2>3
<1>12. ASSUME NEW i \in 1 .. m + n, NEW j \in 1 .. m + n, u[i] = u[j] PROVE i = j
  <2>1. ~(i < j) /\ ~(j < i)
    BY <1>11, <1>12
  <2> QED BY <2>1
<1>13. Rising(u)
  BY <1>3, <1>11 DEF Rising
<1> QED BY <1>2, <1>3, <1>8, <1>9, <1>12, <1>13 DEF Lists

LEMMA IdleOrder ==
  ASSUME OrderInv, Idle
  PROVE  \E level, edge, chain, lo, hi, up :
           /\ Shape(level, edge, chain) /\ ChainOrder(chain, lo, hi) /\ Stored(Now)
           /\ Ordered(Now, root_page_id, Itself(PageIds), lo, hi, up)
<1>1. PICK level, edge, chain : Shape(level, edge, chain) /\ CallInv(level)
  BY DEF OrderInv, TreeInv
<1>2. NodesInv /\ IsChain(chain) /\ held = NoNode /\ ~Pending
  BY <1>1 DEF Shape, CallInv, HeldInv, Idle, Pending
<1>3. PICK lo, hi, up : Ordered(Now, root_page_id, Ends, lo, hi, up)
  BY DEF OrderInv, Arranged
<1>4. Stored(Now) /\ Ends = Itself(PageIds)
  BY <1>2, Quiet
<1>5. Ordered(Now, root_page_id, Itself(PageIds), lo, hi, up)
  BY <1>3, <1>4
<1>6. ChainOrder(chain, lo, hi)
  <2>1. PICK C : C = Now
    OBVIOUS
  <2>2. Stored(C) /\ Ordered(C, root_page_id, Itself(PageIds), lo, hi, up)
    BY <1>4, <1>5, <2>1
  <2> QED BY <1>2, <2>2, ChainOrdered
<1> QED BY <1>1, <1>4, <1>5, <1>6
-----------------------------------------------------------------------------
(***************************************************************************)
(* A walk along the chain: es has the entries of n leaves in the order of  *)
(* their links, and Rest those from the i-th leaf on.                      *)
(***************************************************************************)
Sorted(es, n) ==
  /\ n \in Nat /\ es \in [1 .. n -> Seq(EntryType)]
  /\ \A i \in 1 .. n : Rising(es[i])
  /\ \A i, j \in 1 .. n : \A a \in DOMAIN es[i] : \A c \in DOMAIN es[j] :
       /\ i < j => es[i][a][1] <= es[j][c][1]
       /\ es[i][a] = es[j][c] => i = j /\ a = c
Rest(es, n, i) ==
  {e \in EntryType : \E j \in i .. n : \E a \in DOMAIN es[j] : es[j][a] = e}

LEMMA SortedLeaf ==
  ASSUME NEW n, NEW es, Sorted(es, n), NEW i \in 1 .. n, NEW leaf, leaf.entries = es[i],
         NEW from \in Int, NEW to \in Int
  PROVE  /\ es[i] \in Seq(EntryType)
         /\ Lists(InRange(leaf, from, to), Between(ToSet(es[i]), from, to))
<1>1. es[i] \in Seq(EntryType) /\ Rising(es[i])
  BY DEF Sorted
<1>2. PICK s : s = es[i]
  OBVIOUS
<1>3. s \in Seq(EntryType) /\ Rising(s)
  BY <1>1, <1>2
<1>4. \A a, c \in 1 .. Len(s) : s[a] = s[c] => a = c
  <2>1. DOMAIN s = 1 .. Len(s)
    BY <1>3, EntryKeys
  <2> QED BY <1>2, <2>1 DEF Sorted
<1>5. Lists(InRange(leaf, from, to), Between(ToSet(s), from, to))
  BY <1>2, <1>3, <1>4, PartListed
<1> QED BY <1>1, <1>2, <1>5

LEMMA LastListed ==
  ASSUME NEW n, NEW es, Sorted(es, n), NEW i \in 1 .. n, NEW leaf, leaf.entries = es[i],
         NEW from \in Int, NEW to \in Int,
         i = n \/ \E a \in DOMAIN es[i] : to < es[i][a][1]
  PROVE  Lists(InRange(leaf, from, to), Between(Rest(es, n, i), from, to))
<1>1. /\ es[i] \in Seq(EntryType)
      /\ Lists(InRange(leaf, from, to), Between(ToSet(es[i]), from, to))
  BY SortedLeaf
<1>2. n \in Nat /\ i \in i .. n /\ \A j \in i .. n : j \in 1 .. n
  BY DEF Sorted
<1>3. ASSUME NEW e \in Between(ToSet(es[i]), from, to)
      PROVE  e \in Between(Rest(es, n, i), from, to)
  <2>1. PICK a \in DOMAIN es[i] : es[i][a] = e
    BY DEF Between, ToSet
  <2>2. e \in EntryType
    BY <1>1, <2>1, EntryKeys
  <2> QED BY <1>2, <2>1, <2>2 DEF Between, Rest
<1>4. ASSUME NEW e \in Between(Rest(es, n, i), from, to)
      PROVE  e \in Between(ToSet(es[i]), from, to)
  <2>1. PICK j \in i .. n : \E a \in DOMAIN es[j] : es[j][a] = e
    BY DEF Between, Rest
  <2>2. PICK a \in DOMAIN es[j] : es[j][a] = e
    BY <2>1
  <2>3. CASE j = i
    BY <2>2, <2>3 DEF Between, ToSet
  <2>4. CASE j # i
    <3>1. j \in 1 .. n /\ i < j /\ i # n
      BY <1>2, <2>4
    <3>2. PICK c \in DOMAIN es[i] : to < es[i][c][1]
      BY <3>1
    <3>3. es[i][c][1] <= e[1]
      BY <2>2, <3>1, <3>2 DEF Sorted
    <3>4. es[i][c][1] \in Int /\ e[1] \in Int
      <4>1. es[j] \in Seq(EntryType)
        BY <3>1 DEF Sorted
      <4> QED BY <1>1, <2>2, <3>2, <4>1, EntryKeys
    <3>5. e[1] <= to
      BY DEF Between
    <3> QED BY <3>2, <3>3, <3>4, <3>5
  <2> QED BY <2>3, <2>4
<1>5. Between(Rest(es, n, i), from, to) = Between(ToSet(es[i]), from, to)
  BY <1>3, <1>4
<1> QED BY <1>1, <1>5

LEMMA NextListed ==
  ASSUME NEW n, NEW es, Sorted(es, n), NEW i \in 1 .. n, i + 1 \in 1 .. n,
         NEW leaf, leaf.entries = es[i], NEW from \in Int, NEW to \in Int,
         NEW t, Lists(t, Between(Rest(es, n, i + 1), from, to))
  PROVE  Lists(InRange(leaf, from, to) \o t, Between(Rest(es, n, i), from, to))
<1>1. /\ es[i] \in Seq(EntryType)
      /\ Lists(InRange(leaf, from, to), Between(ToSet(es[i]), from, to))
  BY SortedLeaf
<1>2. n \in Nat /\ i \in i .. n /\ \A j \in i + 1 .. n : j \in i .. n /\ j \in 1 .. n /\ i < j
  BY DEF Sorted
<1>3. PICK S, T, U, s : /\ S = Between(ToSet(es[i]), from, to) /\ s = InRange(leaf, from, to)
                        /\ T = Between(Rest(es, n, i + 1), from, to)
                        /\ U = Between(Rest(es, n, i), from, to)
  OBVIOUS
<1>4. ASSUME NEW e \in S PROVE e \in U
  <2>1. PICK a \in DOMAIN es[i] : es[i][a] = e
    BY <1>3 DEF Between, ToSet
  <2>2. e \in EntryType
    BY <1>1, <2>1, EntryKeys
  <2> QED BY <1>2, <1>3, <2>1, <2>2 DEF Between, Rest
<1>5. ASSUME NEW e \in T PROVE e \in U
  BY <1>2, <1>3 DEF Between, Rest
<1>6. ASSUME NEW e \in U PROVE e \in S \/ e \in T
  <2>1. PICK j \in i .. n : \E a \in DOMAIN es[j] : es[j][a] = e
    BY <1>3 DEF Between, Rest
  <2>2. CASE j = i
    BY <1>3, <2>1, <2>2 DEF Between, Rest, ToSet
  <2>3. CASE j # i
    <3>1. j \in i + 1 .. n
      BY <1>2, <2>3
    <3> QED BY <1>3, <2>1, <3>1 DEF Between, Rest
  <2> QED BY <2>2, <2>3
<1>7. ASSUME NEW e \in S, NEW f \in T PROVE e # f /\ e[1] <= f[1]
  <2>1. PICK a \in DOMAIN es[i] : es[i][a] = e
    BY <1>3 DEF Between, ToSet
  <2>2. PICK j \in i + 1 .. n : \E c \in DOMAIN es[j] : es[j][c] = f
    BY <1>3 DEF Between, Rest
  <2>3. PICK c \in DOMAIN es[j] : es[j][c] = f
    BY <2>2
  <2>4. j \in 1 .. n /\ i < j /\ i # j
    BY <1>2
  <2> QED BY <2>1, <2>3, <2>4 DEF Sorted
<1>8. Lists(s, S) /\ Lists(t, T)
  BY <1>1, <1>3
<1>9. \A e : e \in U <=> e \in S \/ e \in T
  BY <1>4, <1>5, <1>6
<1>10. Lists(s \o t, U)
  BY <1>7, <1>8, <1>9, ListsJoined
<1> QED BY <1>3, <1>10

EntriesAlong(chain) == [i \in 1 .. Len(chain) |-> nodes[chain[i]].entries]

LEMMA ChainSorted ==
  ASSUME NodesInv, held = NoNode, PairsInv, NEW chain, IsChain(chain),
         NEW lo, NEW hi, ChainOrder(chain, lo, hi)
  PROVE  /\ Sorted(EntriesAlong(chain), Len(chain))
         /\ Rest(EntriesAlong(chain), Len(chain), 1) = rows
         /\ rows \subseteq EntryType
<1>1. PICK n \in Nat \ {0} : n = Len(chain) /\ DOMAIN chain = 1 .. n
  BY ChainFields
<1>2. PICK es : es = EntriesAlong(chain)
  OBVIOUS
<1>3. \A i \in 1 .. n : chain[i] \in Leaves /\ es[i] = nodes[chain[i]].entries
  BY <1>1, <1>2, ChainFields DEF EntriesAlong
<1>4. \A i \in 1 .. n : es[i] \in Seq(EntryType)
  BY <1>3, NodeFields
<1>5. PICK cs : cs = EntriesOf
  OBVIOUS
<1>6. \A i \in 1 .. n : cs[chain[i]] = es[i]
  <2>1. \A p \in Leaves : cs[p] = nodes[p].entries
    BY <1>5, ContentOf, NodeFields DEF EntriesOf
  <2> QED BY <1>3, <2>1
<1>7. Holding(Leaves, cs, rows)
  BY <1>5 DEF PairsInv
<1>8. ASSUME NEW i \in 1 .. n PROVE Rising(es[i])
  <2>1. DOMAIN es[i] = 1 .. Len(es[i])
    BY <1>4, EntryKeys
  <2>2. LeafOrder(es[i], lo[chain[i]], hi[chain[i]])
    BY <1>1, <1>3 DEF ChainOrder
  <2> QED BY <2>1, <2>2 DEF LeafOrder, Rising
<1>9. ASSUME NEW i \in 1 .. n, NEW j \in 1 .. n, i < j,
             NEW a \in DOMAIN es[i], NEW c \in DOMAIN es[j]
      PROVE  es[i][a][1] <= es[j][c][1]
  <2>1. a \in DOMAIN nodes[chain[i]].entries /\ c \in DOMAIN nodes[chain[j]].entries
    BY <1>3
  <2>2. nodes[chain[i]].entries[a][1] <= nodes[chain[j]].entries[c][1]
    BY <1>1, <1>9, <2>1, EntriesRise
  <2> QED BY <1>3, <2>2
<1>10. ASSUME NEW i \in 1 .. n, NEW j \in 1 .. n,
              NEW a \in DOMAIN es[i], NEW c \in DOMAIN es[j], es[i][a] = es[j][c]
       PROVE  i = j /\ a = c
  <2>1. chain[i] \in Leaves /\ chain[j] \in Leaves /\ cs[chain[i]] = es[i] /\ cs[chain[j]] = es[j]
    BY <1>3, <1>6
  <2>2. chain[i] = chain[j] /\ a = c
    BY <1>7, <1>10, <2>1 DEF Holding
  <2> QED BY <1>1, <2>2 DEF IsChain
<1>11. Sorted(es, n)
  <2>1. es \in [1 .. n -> Seq(EntryType)]
    BY <1>1, <1>2, <1>4 DEF EntriesAlong
  <2> QED BY <1>1, <1>8, <1>9, <1>10, <2>1 DEF Sorted
<1>12. ASSUME NEW e \in rows PROVE e \in Rest(es, n, 1) /\ e \in EntryType
  <2>1. PICK p \in Leaves : \E a \in DOMAIN cs[p] : cs[p][a] = e
    BY <1>7 DEF Holding
  <2>2. PICK i \in 1 .. n : chain[i] = p
    BY <1>1 DEF IsChain
  <2>3. PICK a \in DOMAIN es[i] : es[i][a] = e
    BY <1>6, <2>1, <2>2
  <2>4. e \in EntryType
    BY <1>4, <2>3, EntryKeys
  <2> QED BY <2>3, <2>4 DEF Rest
<1>13. ASSUME NEW e \in Rest(es, n, 1) PROVE e \in rows
  <2>1. PICK i \in 1 .. n : \E a \in DOMAIN es[i] : es[i][a] = e
    BY DEF Rest
  <2> QED BY <1>3, <1>6, <1>7, <2>1 DEF Holding
<1> QED BY <1>1, <1>2, <1>11, <1>12, <1>13

(* The entries of the leaves before the one a key leads to have smaller    *)
(* keys.                                                                   *)
LEMMA StartsAt ==
  ASSUME NodesInv, NEW level, Levels(level), NEW chain, IsChain(chain), NEW C, Stored(C),
         NEW lo, NEW hi, NEW up, Ordered(C, root_page_id, Itself(PageIds), lo, hi, up),
         ChainOrder(chain, lo, hi), NEW key \in SearchKeys
  PROVE  \E c \in 1 .. Len(chain) :
           /\ chain[c] = LeafOf(key)
           /\ \A j \in 1 .. c - 1 : \A a \in DOMAIN nodes[chain[j]].entries :
                nodes[chain[j]].entries[a][1] < key
<1>1. PICK p : p = LeafOf(key)
  OBVIOUS
<1>2. p \in Leaves /\ Covers(lo[p], key, hi[p])
  BY <1>1, PathCovers
<1>3. PICK n \in Nat \ {0} : n = Len(chain) /\ DOMAIN chain = 1 .. n
  BY ChainFields
<1>4. PICK c \in 1 .. n : chain[c] = p
  BY <1>2, <1>3 DEF IsChain
<1>5. ASSUME NEW j \in 1 .. c - 1, NEW a \in DOMAIN nodes[chain[j]].entries
      PROVE  nodes[chain[j]].entries[a][1] < key
  <2>1. j \in 1 .. n /\ j < c
    BY <1>3, <1>4
  <2>2. PICK x : x = nodes[chain[j]].entries[a][1]
    OBVIOUS
  <2>3. x \in Int
    <3>1. nodes[chain[j]].entries \in Seq(EntryType)
      BY <1>3, <2>1, ChainFields, NodeFields
    <3> QED BY <2>2, <3>1, EntryKeys
  <2>4. \A y \in hi[chain[j]] : x <= y
    BY <1>3, <2>1, <2>2 DEF ChainOrder, LeafOrder, Within
  <2>5. \A i \in 1 .. Len(chain) : j < i => lo[chain[i]] # {} /\ \A z \in lo[chain[i]] : x <= z
    BY <1>3, <2>1, <2>3, <2>4, LaterLeaves
  <2>6. lo[p] # {} /\ \A z \in lo[p] : x <= z
    BY <1>3, <1>4, <2>1, <2>5
  <2>7. \A z \in lo[p] : z < key /\ z \in Int
    BY <1>2, <1>3, <1>4, TreeAssumption DEF Covers, ChainOrder
  <2>8. key \in Int
    BY TreeAssumption
  <2> QED BY <2>2, <2>3, <2>6, <2>7, <2>8
<1> QED BY <1>1, <1>3, <1>4, <1>5

LEMMA ListedRids ==
  ASSUME NEW S, NEW t, Lists(t, S), \A e \in S : e[2][1] = e[1], NEW R,
         \A r : r \in R <=> \E e \in S : r = e[2]
  PROVE  Exactly(RidsOf(t), R) /\ InKeyOrder(RidsOf(t))
<1>1. PICK m \in Nat : m = Len(t)
  BY DEF Lists
<1>2. PICK rids : rids = RidsOf(t)
  OBVIOUS
<1>3. rids = [i \in 1 .. m |-> t[i][2]]
  BY <1>1, <1>2 DEF RidsOf
<1>4. \A i \in 1 .. m : t[i] \in S /\ t[i] \in EntryType /\ rids[i] = t[i][2]
  <2>1. t \in Seq(EntryType)
    BY DEF Lists
  <2>2. \A i \in 1 .. m : t[i] \in EntryType
    BY <1>1, <2>1
  <2> QED BY <1>1, <1>3, <2>2 DEF Lists
<1>5. \A e \in EntryType : e = <<e[1], e[2]>> /\ e[1] \in Int
  <2>1. \A e \in EntryType : e = <<e[1], e[2]>> /\ e[1] \in SearchKeys
    BY DEF EntryType
  <2> QED BY <2>1, TreeAssumption
<1>6. ASSUME NEW i \in 1 .. m, NEW j \in 1 .. m, rids[i] = rids[j] PROVE i = j
  <2>1. t[i][2] = t[j][2] /\ t[i][1] = t[j][1]
    BY <1>4, <1>6
  <2>2. t[i] = t[j]
    BY <1>4, <1>5, <2>1
  <2> QED BY <1>1, <2>2 DEF Lists
<1>7. \A i \in 1 .. m : rids[i] \in R
  BY <1>4
<1>8. ASSUME NEW r \in R PROVE \E i \in 1 .. m : rids[i] = r
  <2>1. PICK e \in S : r = e[2]
    OBVIOUS
  <2>2. PICK i \in 1 .. m : t[i] = e
    BY <1>1 DEF Lists
  <2> QED BY <1>4, <2>1, <2>2
<1>9. Len(rids) = m /\ DOMAIN rids = 1 .. m
  BY <1>3
<1>10. ToSet(rids) = R
  BY <1>7, <1>8, <1>9 DEF ToSet
<1>11. Cardinality(R) = m
  <2>1. PICK I : I = 1 .. m
    OBVIOUS
  <2>2. rids \in Bijection(I, R)
    <3>1. rids \in [I -> R]
      BY <1>3, <1>7, <2>1
    <3> QED BY <1>6, <1>8, <2>1, <3>1 DEF Bijection, Injection, Surjection, IsInjective
  <2>3. IsFiniteSet(I) /\ Cardinality(I) = m
    <3>0. 1 \in Int /\ m \in Int
      OBVIOUS
    <3>1. IsFiniteSet(1 .. m)
      BY <3>0, FS_Interval
    <3>2. Cardinality(1 .. m) = IF 1 > m THEN 0 ELSE m - 1 + 1
      BY <3>0, FS_Interval
    <3>3. (IF 1 > m THEN 0 ELSE m - 1 + 1) = m
      OBVIOUS
    <3> QED BY <2>1, <3>1, <3>2, <3>3
  <2>4. ExistsBijection(I, R)
    BY <2>2 DEF ExistsBijection
  <2> QED BY <2>3, <2>4, FS_Bijection
<1>12. InKeyOrder(rids)
  <2> SUFFICES ASSUME NEW i \in 1 .. m - 1 PROVE rids[i][1] <= rids[i + 1][1]
    BY <1>9 DEF InKeyOrder
  <2>1. i \in 1 .. m /\ i + 1 \in 1 .. m /\ i < i + 1
    OBVIOUS
  <2>2. t[i][1] <= t[i + 1][1]
    BY <1>1, <2>1 DEF Lists, Rising
  <2> QED BY <1>4, <2>1, <2>2
<1> QED BY <1>2, <1>9, <1>10, <1>11, <1>12 DEF Exactly

(* A walk from leaf to leaf until one of stop, that collects the entries   *)
(* in a range.                                                             *)
Halts(stop, to) ==
  /\ stop \in SUBSET Leaves
  /\ \A p \in Leaves : nodes[p].next_leaf <= 0 => p \in stop
  /\ \A p \in stop : \/ nodes[p].next_leaf <= 0
                     \/ \E a \in DOMAIN nodes[p].entries : to < nodes[p].entries[a][1]
IsWalk(f, stop, from, to) ==
  f = [p \in Leaves |->
         IF p \in stop THEN InRange(nodes[p], from, to)
         ELSE InRange(nodes[p], from, to) \o f[nodes[p].next_leaf]]

LEMMA PartIsASeq ==
  ASSUME NEW leaf, leaf.entries \in Seq(EntryType), NEW from \in Int, NEW to \in Int
  PROVE  InRange(leaf, from, to) \in Seq(EntryType)
<1>1. PICK s, r, keys, ks : /\ s = leaf.entries /\ r = Reach(leaf, to) /\ keys = from .. to
                            /\ ks = KeysOf(s)
  OBVIOUS
<1>2. PICK n \in Nat : n = Len(s)
  BY <1>1
<1>3. ks \in Seq(Int) /\ Len(ks) = n
  <2>1. ks = [i \in 1 .. n |-> s[i][1]]
    BY <1>1, <1>2 DEF KeysOf
  <2>2. \A i \in 1 .. n : s[i][1] \in Int
    BY <1>1, <1>2, EntryKeys
  <2> QED BY <1>2, <2>1, <2>2, IsASeq
<1>4. PICK c \in 0 .. n : r = UpTo(s, c)
  <2>1. Place(ks, to) \in 1 .. n + 1
    BY <1>3, PlaceOf
  <2>2. PICK at \in 1 .. n + 1 : at = Place(ks, to)
    BY <2>1
  <2>3. at - 1 \in 0 .. n
    BY <1>2, <2>2
  <2>4. r = UpTo(s, at - 1)
    BY <1>1, <2>2 DEF Reach, UpTo
  <2> QED BY <2>3, <2>4
<1>5. r \in Seq(EntryType)
  BY <1>1, <1>2, <1>4, Cut
<1>6. Picks(r, keys, Len(r), Picked(r, keys))
  BY <1>5, PickedKeys
<1> QED BY <1>1, <1>6 DEF InRange, Picks

LEMMA WalkExists ==
  ASSUME NodesInv, NEW chain, IsChain(chain), NEW from \in Int, NEW to \in Int,
         NEW stop, Halts(stop, to)
  PROVE  \E f : /\ IsWalk(f, stop, from, to) /\ f \in [Leaves -> Seq(EntryType)]
<1> DEFINE V == Seq(EntryType)
           next == [p \in Leaves |-> nodes[p].next_leaf]
           base == [p \in Leaves |-> InRange(nodes[p], from, to)]
           step == [x \in Leaves \X V |-> InRange(nodes[x[1]], from, to) \o x[2]]
<1>1. \A p \in Leaves : InRange(nodes[p], from, to) \in V
  BY NodeFields, PartIsASeq
<1>2. PICK rank : Descends(Leaves, rank, Len(chain) + 1, stop, next)
  BY ChainDescends DEF Halts
<1>3. Yields(Leaves, V, stop, base, step)
  <2>1. \A p \in Leaves : \A v \in V : step[<<p, v>>] \in V
    BY <1>1, ConcatProperties
  <2>2. stop \subseteq Leaves
    BY DEF Halts
  <2>3. \A p \in stop : base[p] \in V
    BY <1>1, <2>2
  <2> QED BY <2>1, <2>2, <2>3 DEF Yields
<1>4. \A p \in Leaves \ stop : next[p] \in Leaves /\ next[p] = nodes[p].next_leaf
  BY <1>2 DEF Descends
<1>5. \A p \in Leaves : base[p] = InRange(nodes[p], from, to)
  OBVIOUS
<1>6. \A p \in Leaves : \A v \in V : step[<<p, v>>] = InRange(nodes[p], from, to) \o v
  OBVIOUS
<1> HIDE DEF base, step, next, V
<1>7. PICK f \in [Leaves -> V] :
        \A p \in Leaves : f[p] = IF p \in stop THEN base[p] ELSE step[<<p, f[next[p]]>>]
  BY <1>2, <1>3, Recursion
<1>8. \A p \in Leaves : f[p] = IF p \in stop THEN InRange(nodes[p], from, to)
                               ELSE InRange(nodes[p], from, to) \o f[nodes[p].next_leaf]
  BY <1>4, <1>5, <1>6, <1>7, ZenonT(30)
<1>9. IsWalk(f, stop, from, to)
  BY <1>7, <1>8 DEF IsWalk
<1> QED BY <1>7, <1>9 DEF V

LEMMA WalkListed ==
  ASSUME NodesInv, NEW chain, IsChain(chain), NEW es, es = EntriesAlong(chain),
         Sorted(es, Len(chain)), NEW from \in Int, NEW to \in Int,
         NEW stop, Halts(stop, to), NEW f, IsWalk(f, stop, from, to)
  PROVE  \A i \in 1 .. Len(chain) :
           Lists(f[chain[i]], Between(Rest(es, Len(chain), i), from, to))
<1>1. PICK n \in Nat : n = Len(chain)
  BY ChainFields
<1>2. \A i \in 1 .. n : chain[i] \in Leaves /\ nodes[chain[i]].entries = es[i]
  BY <1>1, ChainFields DEF EntriesAlong
<1>3. \A p \in Leaves : f[p] = IF p \in stop THEN InRange(nodes[p], from, to)
                               ELSE InRange(nodes[p], from, to) \o f[nodes[p].next_leaf]
  BY DEF IsWalk
<1>4. Sorted(es, n)
  BY <1>1
<1>5. PICK P, rank, good :
        /\ P = 1 .. n /\ rank = [i \in P |-> n - i]
        /\ good = {i \in P : Lists(f[chain[i]], Between(Rest(es, n, i), from, to))}
  OBVIOUS
<1>6. rank \in [P -> Nat] /\ \A i \in P : rank[i] = n - i
  BY <1>5
<1>7. ASSUME NEW i \in P, \A q \in P : rank[q] < rank[i] => q \in good PROVE i \in good
  <2>1. i \in 1 .. n /\ chain[i] \in Leaves
    BY <1>2, <1>5
  <2>2. PICK p, leaf : p = chain[i] /\ leaf = nodes[p]
    OBVIOUS
  <2>3. leaf.entries = es[i]
    BY <1>2, <2>1, <2>2
  <2>4. CASE p \in stop
    <3>1. f[p] = InRange(leaf, from, to)
      BY <1>3, <2>1, <2>2, <2>4
    <3>2. i = n \/ \E a \in DOMAIN es[i] : to < es[i][a][1]
      <4>1. \/ nodes[p].next_leaf <= 0
            \/ \E a \in DOMAIN nodes[p].entries : to < nodes[p].entries[a][1]
        BY <2>4 DEF Halts
      <4>2. nodes[p].next_leaf <= 0 => i = n
        BY <1>1, <2>1, <2>2, ChainFields
      <4> QED BY <2>2, <2>3, <4>1, <4>2
    <3>3. Lists(InRange(leaf, from, to), Between(Rest(es, n, i), from, to))
      BY <1>4, <2>1, <2>3, <3>2, LastListed
    <3> QED BY <1>5, <2>2, <3>1, <3>3
  <2>5. CASE p \notin stop
    <3>1. ~(nodes[p].next_leaf <= 0)
      BY <2>1, <2>2, <2>5 DEF Halts
    <3>2. i # n
      BY <1>1, <2>1, <2>2, <3>1, ChainFields
    <3>3. i + 1 \in 1 .. n /\ i < n
      BY <1>1, <2>1, <3>2
    <3>4. nodes[p].next_leaf = chain[i + 1]
      BY <1>1, <2>1, <2>2, <3>3, ChainFields
    <3>5. rank[i + 1] < rank[i] /\ i + 1 \in P
      BY <1>1, <1>5, <1>6, <2>1, <3>3
    <3>6. PICK t : t = f[chain[i + 1]]
      OBVIOUS
    <3>7. Lists(t, Between(Rest(es, n, i + 1), from, to))
      BY <1>5, <1>7, <3>5, <3>6
    <3>8. f[p] = InRange(leaf, from, to) \o t
      BY <1>3, <2>1, <2>2, <2>5, <3>4, <3>6
    <3>9. Lists(InRange(leaf, from, to) \o t, Between(Rest(es, n, i), from, to))
      BY <1>4, <2>1, <2>3, <3>3, <3>7, NextListed
    <3> QED BY <1>5, <2>2, <3>8, <3>9
  <2> QED BY <2>4, <2>5
<1>8. \A i \in P : i \in good
  BY <1>6, <1>7, RankInduction
<1> QED BY <1>1, <1>5, <1>8

LEMMA RestSkips ==
  ASSUME NEW n, NEW es, Sorted(es, n), NEW c \in 1 .. n, NEW from \in Int, NEW to \in Int,
         \A j \in 1 .. c - 1 : \A a \in DOMAIN es[j] : es[j][a][1] < from
  PROVE  Between(Rest(es, n, c), from, to) = Between(Rest(es, n, 1), from, to)
<1>1. n \in Nat /\ \A j \in c .. n : j \in 1 .. n
  BY DEF Sorted
<1>2. ASSUME NEW e \in Between(Rest(es, n, c), from, to)
      PROVE  e \in Between(Rest(es, n, 1), from, to)
  BY <1>1 DEF Between, Rest
<1>3. ASSUME NEW e \in Between(Rest(es, n, 1), from, to)
      PROVE  e \in Between(Rest(es, n, c), from, to)
  <2>1. /\ e \in EntryType /\ from <= e[1] /\ e[1] <= to
        /\ \E j \in 1 .. n : \E a \in DOMAIN es[j] : es[j][a] = e
    BY DEF Between, Rest
  <2>2. PICK j \in 1 .. n : \E a \in DOMAIN es[j] : es[j][a] = e
    BY <2>1
  <2>3. CASE j \in c .. n
    BY <2>1, <2>2, <2>3 DEF Between, Rest
  <2>4. CASE j \notin c .. n
    <3>1. j \in 1 .. c - 1
      BY <1>1, <2>4
    <3>2. e[1] < from
      BY <2>2, <3>1
    <3>3. e[1] \in Int
      <4>1. e[1] \in SearchKeys
        BY <2>1 DEF EntryType
      <4> QED BY <4>1, TreeAssumption
    <3> QED BY <2>1, <3>2, <3>3
  <2> QED BY <2>3, <2>4
<1> QED BY <1>2, <1>3

InChain(level, edge, chain, es) ==
  /\ Shape(level, edge, chain)
  /\ es = EntriesAlong(chain) /\ Sorted(es, Len(chain)) /\ Rest(es, Len(chain), 1) = rows
  /\ rows \subseteq EntryType /\ \A e \in rows : e[2][1] = e[1]
  /\ \A key \in SearchKeys :
       \E c \in 1 .. Len(chain) :
         /\ chain[c] = LeafOf(key)
         /\ \A j \in 1 .. c - 1 : \A a \in DOMAIN es[j] : es[j][a][1] < key

LEMMA IdleChain ==
  ASSUME OrderInv, Idle
  PROVE  \E level, edge, chain, es : InChain(level, edge, chain, es)
<1>1. PICK level, edge, chain, lo, hi, up :
        /\ Shape(level, edge, chain) /\ ChainOrder(chain, lo, hi) /\ Stored(Now)
        /\ Ordered(Now, root_page_id, Itself(PageIds), lo, hi, up)
  BY IdleOrder
<1>2. NodesInv /\ Levels(level) /\ IsChain(chain)
  BY <1>1 DEF Shape
<1>3. PairsInv /\ held = NoNode
  <2>1. PICK l : CallInv(l)
    BY DEF OrderInv, TreeInv
  <2>2. PairsInv
    BY DEF OrderInv, TreeInv
  <2> QED BY <2>1, <2>2 DEF CallInv, HeldInv, Idle
<1>4. PICK es : es = EntriesAlong(chain)
  OBVIOUS
<1>5. Sorted(es, Len(chain)) /\ Rest(es, Len(chain), 1) = rows /\ rows \subseteq EntryType
  BY <1>1, <1>2, <1>3, <1>4, ChainSorted
<1>6. ASSUME NEW key \in SearchKeys
      PROVE  \E c \in 1 .. Len(chain) :
               /\ chain[c] = LeafOf(key)
               /\ \A j \in 1 .. c - 1 : \A a \in DOMAIN es[j] : es[j][a][1] < key
  <2>1. PICK C : C = Now
    OBVIOUS
  <2>2. Stored(C) /\ Ordered(C, root_page_id, Itself(PageIds), lo, hi, up)
    BY <1>1, <2>1
  <2>3. PICK c \in 1 .. Len(chain) :
          /\ chain[c] = LeafOf(key)
          /\ \A j \in 1 .. c - 1 : \A a \in DOMAIN nodes[chain[j]].entries :
               nodes[chain[j]].entries[a][1] < key
    BY <1>1, <1>2, <2>2, StartsAt
  <2>4. \A j \in 1 .. c - 1 : es[j] = nodes[chain[j]].entries
    <3>1. Len(chain) \in Nat
      BY <1>2, ChainFields
    <3>2. \A j \in 1 .. c - 1 : j \in 1 .. Len(chain)
      BY <3>1
    <3> QED BY <1>4, <3>2 DEF EntriesAlong
  <2> QED BY <2>3, <2>4
<1>7. InChain(level, edge, chain, es)
  BY <1>1, <1>3, <1>4, <1>5, <1>6 DEF InChain, PairsInv
<1> QED BY <1>7

LEMMA RidsJoined ==
  ASSUME NEW a \in Seq(EntryType), NEW b \in Seq(EntryType)
  PROVE  RidsOf(a \o b) = RidsOf(a) \o RidsOf(b)
<1>1. PICK m \in Nat : m = Len(a)
  OBVIOUS
<1>2. PICK n \in Nat : n = Len(b)
  OBVIOUS
<1>3. PICK u, x, y, w : u = a \o b /\ x = RidsOf(a) /\ y = RidsOf(b) /\ w = RidsOf(u)
  OBVIOUS
<1>4. /\ u \in Seq(EntryType) /\ Len(u) = m + n
      /\ \A i \in 1 .. m + n : u[i] = IF i <= m THEN a[i] ELSE b[i - m]
  BY <1>1, <1>2, <1>3, ConcatProperties
<1>5. x = [i \in 1 .. m |-> a[i][2]] /\ y = [i \in 1 .. n |-> b[i][2]]
      /\ w = [i \in 1 .. m + n |-> u[i][2]]
  BY <1>1, <1>2, <1>3, <1>4 DEF RidsOf
<1>6. x \in Seq(AllRids) /\ Len(x) = m /\ y \in Seq(AllRids) /\ Len(y) = n
  <2>1. \A e \in EntryType : e[2] \in AllRids
    BY DEF EntryType
  <2>2. \A i \in 1 .. m : a[i] \in EntryType
    BY <1>1
  <2>3. \A i \in 1 .. n : b[i] \in EntryType
    BY <1>2
  <2>4. \A i \in 1 .. m : a[i][2] \in AllRids
    BY <2>1, <2>2
  <2>5. \A i \in 1 .. n : b[i][2] \in AllRids
    BY <2>1, <2>3
  <2>6. x \in Seq(AllRids)
    BY <1>5, <2>4, IsASeq
  <2>7. y \in Seq(AllRids)
    BY <1>5, <2>5, IsASeq
  <2> QED BY <1>5, <2>6, <2>7
<1>7. PICK v : v = x \o y
  OBVIOUS
<1>8. /\ v \in Seq(AllRids) /\ Len(v) = m + n
      /\ \A i \in 1 .. m + n : v[i] = IF i <= m THEN x[i] ELSE y[i - m]
  BY <1>6, <1>7, ConcatProperties
<1>9. ASSUME NEW i \in 1 .. m + n PROVE v[i] = w[i]
  <2>1. CASE i <= m
    <3>1. i \in 1 .. m
      BY <1>1, <2>1
    <3> QED BY <1>4, <1>5, <1>8, <2>1, <3>1
  <2>2. CASE ~(i <= m)
    <3>1. i - m \in 1 .. n
      BY <1>1, <1>2, <2>2
    <3> QED BY <1>4, <1>5, <1>8, <2>2, <3>1
  <2> QED BY <2>1, <2>2
<1>10. v = [i \in 1 .. m + n |-> v[i]]
  BY <1>8
<1>11. v = w
  BY <1>5, <1>9, <1>10
<1> QED BY <1>3, <1>7, <1>11

(* search collects the entries with its key.                               *)
LEMMA SearchFound ==
  ASSUME NEW level, NEW edge, NEW chain, NEW es, InChain(level, edge, chain, es),
         NEW key \in SearchKeys
  PROVE  \E t : search(key) = RidsOf(t) /\ Lists(t, Between(rows, key, key))
<1>1. /\ NodesInv /\ IsChain(chain) /\ es = EntriesAlong(chain) /\ Sorted(es, Len(chain))
      /\ Rest(es, Len(chain), 1) = rows
  BY DEF InChain, Shape
<1>2. key \in Int
  BY TreeAssumption
<1>3. PICK stop : stop = {p \in Leaves : Stops(nodes[p], key)}
  OBVIOUS
<1>4. Halts(stop, key)
  <2>1. ASSUME NEW p \in stop
        PROVE  \/ nodes[p].next_leaf <= 0
               \/ \E a \in DOMAIN nodes[p].entries : key < nodes[p].entries[a][1]
    <3>1. p \in Leaves /\ Stops(nodes[p], key)
      BY <1>3
    <3>2. CASE Passed(nodes[p], key)
      <4>1. PICK s \in Seq(EntryType) : s = nodes[p].entries
        BY <1>1, <3>1, NodeFields
      <4>2. s # <<>> /\ s[Len(s)][1] > key
        BY <3>2, <4>1 DEF Passed, Last
      <4>3. Len(s) \in DOMAIN s
        BY <4>2, EmptySeq
      <4>4. s[Len(s)][1] \in Int
        BY <4>3, EntryKeys
      <4>5. key < s[Len(s)][1]
        BY <1>2, <4>2, <4>4
      <4> QED BY <4>1, <4>3, <4>5
    <3> QED BY <3>1, <3>2 DEF Stops
  <2> QED BY <1>3, <2>1 DEF Halts, Stops
<1>5. PICK f \in [Leaves -> Seq(EntryType)] : IsWalk(f, stop, key, key)
  BY <1>1, <1>2, <1>4, WalkExists
<1>6. \A i \in 1 .. Len(chain) : Lists(f[chain[i]], Between(Rest(es, Len(chain), i), key, key))
  BY <1>1, <1>2, <1>4, <1>5, WalkListed
<1>7. \A p \in Leaves : f[p] = IF p \in stop THEN InRange(nodes[p], key, key)
                               ELSE InRange(nodes[p], key, key) \o f[nodes[p].next_leaf]
  BY <1>5 DEF IsWalk
<1>8. \A p \in Leaves : lookup(nodes[p], key) = RidsOf(InRange(nodes[p], key, key))
  <2>1. {key} = key .. key
    BY <1>2
  <2> QED BY <2>1 DEF lookup, InRange
<1> DEFINE next == [p \in Leaves |-> nodes[p].next_leaf]
           IsAlong(g) == g = [p \in Leaves |->
                                IF Stops(nodes[p], key) THEN lookup(nodes[p], key)
                                ELSE lookup(nodes[p], key) \o g[nodes[p].next_leaf]]
<1>9. PICK rank : Descends(Leaves, rank, Len(chain) + 1, stop, next)
  BY <1>1, <1>4, ChainDescends DEF Halts
<1>10. \A p \in Leaves \ stop : /\ next[p] \in Leaves /\ rank[next[p]] < rank[p]
                                /\ next[p] = nodes[p].next_leaf
  BY <1>9 DEF Descends
<1>11. ASSUME NEW p \in Leaves
       PROVE  RidsOf(f[p]) = IF Stops(nodes[p], key) THEN lookup(nodes[p], key)
                             ELSE lookup(nodes[p], key) \o RidsOf(f[nodes[p].next_leaf])
  <2>1. CASE Stops(nodes[p], key)
    BY <1>3, <1>7, <1>8, <2>1
  <2>2. CASE ~Stops(nodes[p], key)
    <3>1. p \notin stop /\ nodes[p].next_leaf \in Leaves
      BY <1>3, <1>10, <2>2
    <3>2. PICK a, b : a = InRange(nodes[p], key, key) /\ b = f[nodes[p].next_leaf]
      OBVIOUS
    <3>3. a \in Seq(EntryType) /\ b \in Seq(EntryType) /\ f[p] = a \o b
      BY <1>1, <1>2, <1>5, <1>7, <3>1, <3>2, NodeFields, PartIsASeq
    <3>4. RidsOf(f[p]) = RidsOf(a) \o RidsOf(b)
      BY <3>3, RidsJoined
    <3> QED BY <1>8, <2>2, <3>2, <3>4
  <2> QED BY <2>1, <2>2
<1>12. \E g : IsAlong(g)
  <2>1. PICK g : g = [p \in Leaves |-> RidsOf(f[p])]
    OBVIOUS
  <2>2. \A p \in Leaves : g[p] = RidsOf(f[p])
    BY <2>1
  <2>3. ASSUME NEW p \in Leaves
        PROVE  g[p] = IF Stops(nodes[p], key) THEN lookup(nodes[p], key)
                      ELSE lookup(nodes[p], key) \o g[nodes[p].next_leaf]
    <3>1. CASE Stops(nodes[p], key)
      BY <1>11, <2>2, <3>1
    <3>2. CASE ~Stops(nodes[p], key)
      <4>1. nodes[p].next_leaf \in Leaves
        BY <1>3, <1>10, <3>2
      <4> QED BY <1>11, <2>2, <3>2, <4>1
    <3> QED BY <3>1, <3>2
  <2> QED BY <2>1, <2>3
<1>13. PICK along : IsAlong(along) /\ search(key) = along[LeafOf(key)]
  <2>1. IsAlong(CHOOSE g : IsAlong(g))
    BY <1>12
  <2>2. search(key) = (CHOOSE g : IsAlong(g))[LeafOf(key)]
    BY DEF search
  <2> QED BY <2>1, <2>2
<1>14. \A p \in Leaves : along[p] = IF Stops(nodes[p], key) THEN lookup(nodes[p], key)
                                    ELSE lookup(nodes[p], key) \o along[nodes[p].next_leaf]
  BY <1>13
<1> HIDE DEF IsAlong, next
<1> DEFINE good == {p \in Leaves : along[p] = RidsOf(f[p])}
<1>15. ASSUME NEW p \in Leaves, \A q \in Leaves : rank[q] < rank[p] => q \in good
       PROVE  p \in good
  <2>1. CASE Stops(nodes[p], key)
    BY <1>11, <1>14, <2>1
  <2>2. CASE ~Stops(nodes[p], key)
    <3>1. PICK q \in Leaves : q = nodes[p].next_leaf /\ rank[q] < rank[p]
      BY <1>3, <1>10, <2>2
    <3>2. along[q] = RidsOf(f[q])
      BY <1>15, <3>1
    <3> QED BY <1>11, <1>14, <2>2, <3>1, <3>2
  <2> QED BY <2>1, <2>2
<1>16. \A p \in Leaves : p \in good
  <2>1. rank \in [Leaves -> Nat]
    BY <1>9 DEF Descends
  <2> HIDE DEF good
  <2> QED BY <1>15, <2>1, RankInduction
<1>17. PICK c \in 1 .. Len(chain) :
         /\ chain[c] = LeafOf(key)
         /\ \A j \in 1 .. c - 1 : \A a \in DOMAIN es[j] : es[j][a][1] < key
  BY DEF InChain
<1>18. chain[c] \in Leaves
  BY <1>1, ChainFields
<1>19. search(key) = RidsOf(f[chain[c]])
  BY <1>13, <1>16, <1>17, <1>18
<1>20. Between(Rest(es, Len(chain), c), key, key) = Between(rows, key, key)
  <2>1. PICK n : n = Len(chain)
    OBVIOUS
  <2>2. Between(Rest(es, n, c), key, key) = Between(Rest(es, n, 1), key, key)
    BY <1>1, <1>2, <1>17, <2>1, RestSkips
  <2> QED BY <1>1, <2>1, <2>2
<1> QED BY <1>6, <1>19, <1>20

LEMMA ScanFound ==
  ASSUME NEW level, NEW edge, NEW chain, NEW es, InChain(level, edge, chain, es),
         NEW c \in 1 .. Len(chain), NEW from \in Int, NEW to \in Int,
         \A j \in 1 .. c - 1 : \A a \in DOMAIN es[j] : es[j][a][1] < from
  PROVE  \E t : ScanFrom(chain[c], from, to) = RidsOf(t) /\ Lists(t, Between(rows, from, to))
<1>1. /\ NodesInv /\ IsChain(chain) /\ es = EntriesAlong(chain) /\ Sorted(es, Len(chain))
      /\ Rest(es, Len(chain), 1) = rows
  BY DEF InChain, Shape
<1>3. PICK stop : stop = {p \in Leaves : Beyond(nodes[p], from, to) \/ nodes[p].next_leaf <= 0}
  OBVIOUS
<1>4. Halts(stop, to)
  BY <1>3 DEF Halts, Beyond
<1>5. \E f : IsWalk(f, stop, from, to)
  BY <1>1, <1>4, WalkExists
<1> DEFINE IsAlong(f) ==
             f = [p \in Leaves |->
                    IF Beyond(nodes[p], from, to) \/ nodes[p].next_leaf <= 0
                    THEN InRange(nodes[p], from, to)
                    ELSE InRange(nodes[p], from, to) \o f[nodes[p].next_leaf]]
<1>6. \A f : IsAlong(f) <=> IsWalk(f, stop, from, to)
  BY <1>3 DEF IsWalk
<1>7. PICK f : IsAlong(f) /\ ScanFrom(chain[c], from, to) = RidsOf(f[chain[c]])
  <2>1. IsAlong(CHOOSE f : IsAlong(f))
    BY <1>5, <1>6
  <2>2. ScanFrom(chain[c], from, to) = RidsOf((CHOOSE f : IsAlong(f))[chain[c]])
    BY DEF ScanFrom
  <2> QED BY <2>1, <2>2
<1>8. \A i \in 1 .. Len(chain) : Lists(f[chain[i]], Between(Rest(es, Len(chain), i), from, to))
  BY <1>1, <1>4, <1>6, <1>7, WalkListed
<1>9. Between(Rest(es, Len(chain), c), from, to) = Between(rows, from, to)
  <2>1. PICK n : n = Len(chain)
    OBVIOUS
  <2>2. Between(Rest(es, n, c), from, to) = Between(Rest(es, n, 1), from, to)
    BY <1>1, <2>1, RestSkips
  <2> QED BY <1>1, <2>1, <2>2
<1> QED BY <1>7, <1>8, <1>9

LEMMA FiniteEnds ==
  ASSUME NEW S \in SUBSET Int, IsFiniteSet(S), S # {}
  PROVE  /\ Min(S) \in S /\ \A y \in S : Min(S) <= y
         /\ Max(S) \in S /\ \A y \in S : y <= Max(S)
<1>1. PICK n \in Nat : ExistsBijection(1 .. n, S)
  BY FS_CardinalityType
<1>2. PICK f \in [1 .. n -> S] : \A y \in S : \E i \in 1 .. n : f[i] = y
  BY <1>1 DEF ExistsBijection, Bijection, Surjection
<1>3. PICK P, rank, good :
        /\ P = 1 .. n /\ rank = [k \in P |-> k]
        /\ good = {k \in P : \E a, b \in S : \A i \in 1 .. k : a <= f[i] /\ f[i] <= b}
  OBVIOUS
<1>4. rank \in [P -> Nat] /\ \A k \in P : rank[k] = k
  BY <1>3
<1>5. ASSUME NEW k \in P, \A q \in P : rank[q] < rank[k] => q \in good PROVE k \in good
  <2>1. k \in 1 .. n /\ f[k] \in S /\ f[k] \in Int
    BY <1>2, <1>3
  <2>2. CASE k = 1
    <3>1. \A i \in 1 .. k : i = k
      BY <2>2
    <3>2. \A i \in 1 .. k : f[k] <= f[i] /\ f[i] <= f[k]
      BY <2>1, <3>1
    <3> QED BY <1>3, <2>1, <3>2
  <2>3. CASE k # 1
    <3>1. k - 1 \in P /\ rank[k - 1] < rank[k] /\ \A i \in 1 .. k : i = k \/ i \in 1 .. k - 1
      BY <1>3, <1>4, <2>1, <2>3
    <3>2. PICK a, b \in S : \A i \in 1 .. k - 1 : a <= f[i] /\ f[i] <= b
      BY <1>3, <1>5, <3>1
    <3>3. \A i \in 1 .. k : f[i] \in Int
      <4>1. \A i \in 1 .. k : i \in 1 .. n
        BY <2>1
      <4> QED BY <1>2, <4>1
    <3>4. PICK x \in S : x <= a /\ x <= f[k]
      <4>1. CASE a <= f[k]
        BY <4>1
      <4>2. CASE ~(a <= f[k])
        BY <2>1, <4>2
      <4> QED BY <4>1, <4>2
    <3>5. PICK y \in S : b <= y /\ f[k] <= y
      <4>1. CASE f[k] <= b
        BY <4>1
      <4>2. CASE ~(f[k] <= b)
        BY <2>1, <4>2
      <4> QED BY <4>1, <4>2
    <3>6. \A i \in 1 .. k : x <= f[i] /\ f[i] <= y
      BY <3>1, <3>2, <3>3, <3>4, <3>5
    <3> QED BY <1>3, <3>6
  <2> QED BY <2>2, <2>3
<1>6. \A k \in P : k \in good
  BY <1>4, <1>5, RankInduction
<1>7. n \in P
  <2>1. PICK y \in S : y \in S
    OBVIOUS
  <2>2. PICK i \in 1 .. n : f[i] = y
    BY <1>2
  <2> QED BY <1>3, <2>2
<1>8. PICK a, b \in S : \A i \in 1 .. n : a <= f[i] /\ f[i] <= b
  BY <1>3, <1>6, <1>7
<1>9. \A y \in S : a <= y /\ y <= b
  BY <1>2, <1>8
<1>10. Min(S) \in S /\ \A y \in S : Min(S) <= y
  BY <1>9 DEF Min
<1>11. \A y \in S : b >= y
  BY <1>9
<1>12. Max(S) \in S /\ \A y \in S : Max(S) >= y
  BY <1>11 DEF Max
<1>13. \A y \in S : y <= Max(S)
  BY <1>12
<1> QED BY <1>10, <1>12, <1>13
-----------------------------------------------------------------------------
(***************************************************************************)
(* The theorems.                                                           *)
(***************************************************************************)
(* While no call is in progress the leaves form one doubly linked list,    *)
(* each of them once, and their keys rise along it: splits link the new    *)
(* leaf where its keys belong, and deletes disturb neither.                *)
THEOREM LeavesStayChained ==
  ASSUME FewCopies
  PROVE  Spec => []LeavesAreChained
<1>1. OrderInv => LeavesAreChained
  <2> SUFFICES ASSUME OrderInv, Idle PROVE LeavesAreChained
    BY DEF LeavesAreChained
  <2>1. PICK level, edge, chain, lo, hi, up :
          Shape(level, edge, chain) /\ ChainOrder(chain, lo, hi)
    BY IdleOrder
  <2>2. /\ NodesInv /\ IsChain(chain) /\ Chain = chain
    BY <2>1, ChainFound DEF Shape
  <2>3. PICK n \in Nat \ {0} : n = Len(chain) /\ DOMAIN chain = 1 .. n
    BY <2>2, ChainFields
  <2>4. ToSet(chain) = Leaves
    BY <2>2, <2>3, ChainFields DEF ToSet, IsChain
  <2>5. Len(chain) = Cardinality(Leaves)
    <3>1. PICK S, f : S = 1 .. n /\ f = [i \in 1 .. n |-> chain[i]]
      OBVIOUS
    <3>2. f \in Bijection(S, Leaves)
      <4>1. f \in [S -> Leaves]
        BY <2>2, <2>3, <3>1, ChainFields
      <4>2. \A i, j \in S : f[i] = f[j] => i = j
        BY <2>2, <2>3, <3>1 DEF IsChain
      <4>3. \A p \in Leaves : \E i \in S : f[i] = p
        BY <2>2, <2>3, <3>1 DEF IsChain
      <4> QED BY <4>1, <4>2, <4>3 DEF Bijection, Injection, Surjection, IsInjective
    <3>3. IsFiniteSet(S) /\ Cardinality(S) = n
      <4>1. IsFiniteSet(1 .. n)
        BY FS_Interval
      <4>2. Cardinality(1 .. n) = IF 1 > n THEN 0 ELSE n - 1 + 1
        BY FS_Interval
      <4>3. (IF 1 > n THEN 0 ELSE n - 1 + 1) = n
        BY <2>3
      <4> QED BY <3>1, <4>1, <4>2, <4>3
    <3>4. ExistsBijection(S, Leaves)
      BY <3>2 DEF ExistsBijection
    <3> QED BY <2>3, <3>3, <3>4, FS_Bijection
  <2>6. ASSUME NEW i \in 1 .. n
        PROVE  nodes[chain[i]].prev_leaf = IF i = 1 THEN NoLeaf ELSE chain[i - 1]
    BY <2>2, <2>3, <2>6 DEF IsChain
  <2>7. ASSUME NEW i \in 1 .. n, NEW j \in 1 .. i,
               NEW e \in ToSet(nodes[chain[i]].entries),
               NEW f \in ToSet(nodes[chain[j]].entries), j < i
        PROVE  f[1] <= e[1]
    <3>1. PICK a \in DOMAIN nodes[chain[i]].entries : e = nodes[chain[i]].entries[a]
      BY DEF ToSet
    <3>2. PICK c \in DOMAIN nodes[chain[j]].entries : f = nodes[chain[j]].entries[c]
      BY DEF ToSet
    <3>3. j \in 1 .. Len(chain) /\ i \in 1 .. Len(chain)
      BY <2>3
    <3> QED BY <2>1, <2>2, <2>7, <3>1, <3>2, <3>3, EntriesRise
  <2> QED BY <2>2, <2>3, <2>4, <2>5, <2>6, <2>7 DEF LeavesAreChained
<1> QED BY <1>1, OrderInvariant, PTL

(* While no call is in progress, search returns each row with its key once *)
(* and no other: duplicates spread over several leaves by splits are all   *)
(* reached from the leaf where the descent ends.                           *)
THEOREM SearchStaysExact ==
  ASSUME FewCopies
  PROVE  Spec => []SearchIsExact
<1>1. OrderInv => SearchIsExact
  <2> SUFFICES ASSUME OrderInv, Idle, NEW key \in SearchKeys
               PROVE  Exactly(search(key), RowsOf(key))
    BY DEF SearchIsExact
  <2>1. PICK level, edge, chain, es : InChain(level, edge, chain, es)
    BY IdleChain
  <2>2. PICK t : search(key) = RidsOf(t) /\ Lists(t, Between(rows, key, key))
    BY <2>1, SearchFound
  <2>3. PICK S, R : S = Between(rows, key, key) /\ R = RowsOf(key)
    OBVIOUS
  <2>4. \A e \in S : e[2][1] = e[1]
    BY <2>1, <2>3 DEF InChain, Between
  <2>5. \A e \in rows : e \in S <=> e[1] = key
    <3>1. \A e \in rows : e[1] \in SearchKeys
      BY <2>1 DEF InChain, EntryType
    <3>2. key \in Int /\ \A e \in rows : e[1] \in Int
      BY <3>1, TreeAssumption
    <3> QED BY <2>3, <3>2 DEF Between
  <2>6. S \subseteq rows
    BY <2>3 DEF Between
  <2>7. \A r : r \in R <=> \E e \in S : r = e[2]
    BY <2>3, <2>5, <2>6 DEF RowsOf
  <2>8. Lists(t, S)
    BY <2>2, <2>3
  <2>9. Exactly(RidsOf(t), R)
    BY <2>4, <2>7, <2>8, ListedRids
  <2> QED BY <2>2, <2>3, <2>9
<1> QED BY <1>1, OrderInvariant, PTL

(* While no call is in progress, range_scan returns each row whose key is  *)
(* in the range once and in the order of the keys, whichever leaf its      *)
(* lower bound leads to, and an unbounded scan does so with all rows.      *)
THEOREM RangeStaysExact ==
  ASSUME FewCopies, IsFiniteSet(SearchKeys), SearchKeys # {}
  PROVE  Spec => []RangeIsExact
<1>1. OrderInv => RangeIsExact
  <2> SUFFICES ASSUME OrderInv, Idle PROVE RangeIsExact
    BY DEF RangeIsExact
  <2>1. PICK level, edge, chain, es : InChain(level, edge, chain, es)
    BY IdleChain
  <2>2. /\ NodesInv /\ Levels(level) /\ LeftEdge(edge) /\ IsChain(chain)
        /\ \A e \in rows : e[1] \in SearchKeys /\ e[2][1] = e[1]
        /\ SearchKeys \subseteq Int
    BY <2>1, TreeAssumption DEF InChain, Shape, EntryType
  <2>3. ASSUME NEW first, NEW from \in SearchKeys, NEW to \in SearchKeys,
               \E c \in 1 .. Len(chain) :
                 /\ chain[c] = first
                 /\ \A j \in 1 .. c - 1 : \A a \in DOMAIN es[j] : es[j][a][1] < from
        PROVE  /\ Exactly(ScanFrom(first, from, to), RowsBetween(from, to))
               /\ InKeyOrder(ScanFrom(first, from, to))
    <3>1. PICK c \in 1 .. Len(chain) :
            /\ chain[c] = first
            /\ \A j \in 1 .. c - 1 : \A a \in DOMAIN es[j] : es[j][a][1] < from
      BY <2>3
    <3>2. from \in Int /\ to \in Int
      BY <2>2
    <3>3. PICK t : /\ ScanFrom(chain[c], from, to) = RidsOf(t)
                   /\ Lists(t, Between(rows, from, to))
      BY <2>1, <3>1, <3>2, ScanFound
    <3>4. PICK S, R : S = Between(rows, from, to) /\ R = RowsBetween(from, to)
      OBVIOUS
    <3>5. Lists(t, S) /\ \A e \in S : e[2][1] = e[1]
      BY <2>2, <3>3, <3>4 DEF Between
    <3>6. \A r : r \in R <=> \E e \in S : r = e[2]
      BY <2>2, <3>4 DEF RowsBetween, RowsOf, Between
    <3>7. Exactly(RidsOf(t), R) /\ InKeyOrder(RidsOf(t))
      BY <3>5, <3>6, ListedRids
    <3> QED BY <3>1, <3>3, <3>4, <3>7
  <2>4. ASSUME NEW lo \in SearchKeys, NEW hi \in SearchKeys
        PROVE  /\ Exactly(range_scan(lo, hi), RowsBetween(lo, hi))
               /\ InKeyOrder(range_scan(lo, hi))
    <3>1. \E c \in 1 .. Len(chain) :
            /\ chain[c] = LeafOf(lo)
            /\ \A j \in 1 .. c - 1 : \A a \in DOMAIN es[j] : es[j][a][1] < lo
      BY <2>1 DEF InChain
    <3> QED BY <2>3, <3>1 DEF range_scan
  <2>5. PICK from, to : from = Min(SearchKeys) /\ to = Max(SearchKeys)
    OBVIOUS
  <2>6. from \in SearchKeys /\ to \in SearchKeys /\ \A k \in SearchKeys : from <= k /\ k <= to
    BY <2>2, <2>5, FiniteEnds
  <2>7. RowsBetween(from, to) = UNION {RowsOf(key) : key \in SearchKeys}
    <3>1. {k \in SearchKeys : from <= k /\ k <= to} = SearchKeys
      BY <2>6
    <3> QED BY <3>1 DEF RowsBetween
  <2>8. /\ Exactly(full_scan, UNION {RowsOf(key) : key \in SearchKeys})
        /\ InKeyOrder(full_scan)
    <3>1. Leftmost = 1
      BY <2>2, LeftmostFound
    <3>2. 1 \in 1 .. Len(chain) /\ chain[1] = 1
      BY <2>2, ChainFields DEF IsChain
    <3>3. \A j \in 1 .. 1 - 1 : FALSE
      OBVIOUS
    <3>4. \E c \in 1 .. Len(chain) :
            /\ chain[c] = 1
            /\ \A j \in 1 .. c - 1 : \A a \in DOMAIN es[j] : es[j][a][1] < from
      BY <3>2, <3>3
    <3>5. /\ Exactly(ScanFrom(1, from, to), RowsBetween(from, to))
          /\ InKeyOrder(ScanFrom(1, from, to))
      BY <2>3, <2>6, <3>4
    <3>6. full_scan = ScanFrom(1, from, to)
      BY <2>5, <3>1 DEF full_scan
    <3> QED BY <2>7, <3>5, <3>6
  <2> QED BY <2>4, <2>8 DEF RangeIsExact
<1> QED BY <1>1, OrderInvariant, PTL
=============================================================================
