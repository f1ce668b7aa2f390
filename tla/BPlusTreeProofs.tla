--------------------------- MODULE BPlusTreeProofs --------------------------
(***************************************************************************)
(* Theorems about BPlusTree for every ORDER, every set of keys and every   *)
(* bound: the type of the tree and the size of its nodes, its balance, the *)
(* pins, and that it implements Index.                                     *)
(***************************************************************************)
EXTENDS BPlusTree, SequenceTheorems, FiniteSetTheorems, WellFoundedInduction, TLAPS

(***************************************************************************)
(* Operators on sequences and sets of numbers.                             *)
(***************************************************************************)
LEMMA Inserting ==
  ASSUME NEW T, NEW s \in Seq(T), NEW e \in T, NEW i \in 1 .. Len(s) + 1
  PROVE  /\ InsertAt(s, i, e) \in Seq(T)
         /\ Len(InsertAt(s, i, e)) = Len(s) + 1
         /\ \A j \in 1 .. Len(s) + 1 :
              InsertAt(s, i, e)[j] =
                IF j < i THEN s[j] ELSE IF j = i THEN e ELSE s[j - 1]
<1> DEFINE a == SubSeq(s, 1, i - 1)
           b == SubSeq(s, i, Len(s))
<1>0. i \in Nat /\ Len(s) \in Nat /\ 1 <= i /\ i <= Len(s) + 1
  OBVIOUS
<1>1. a \in Seq(T) /\ Len(a) = i - 1 /\ \A j \in 1 .. i - 1 : a[j] = s[j]
  BY <1>0, SubSeqProperties
<1>2. b \in Seq(T) /\ Len(b) = Len(s) - i + 1
      /\ \A j \in 1 .. Len(s) - i + 1 : b[j] = s[i + j - 1]
  BY <1>0, SubSeqProperties
<1>3. <<e>> \in Seq(T) /\ Len(<<e>>) = 1 /\ <<e>>[1] = e
  OBVIOUS
<1>4. a \o <<e>> \in Seq(T) /\ Len(a \o <<e>>) = i
      /\ \A j \in 1 .. i : (a \o <<e>>)[j] = IF j < i THEN s[j] ELSE e
  BY <1>0, <1>1, <1>3, ConcatProperties
<1>5. (a \o <<e>>) \o b \in Seq(T) /\ Len((a \o <<e>>) \o b) = Len(s) + 1
      /\ \A j \in 1 .. Len(s) + 1 :
           ((a \o <<e>>) \o b)[j] =
             IF j <= i THEN (a \o <<e>>)[j] ELSE b[j - i]
  <2> HIDE DEF a, b
  <2> DEFINE c == a \o <<e>>
  <2>1. c \in Seq(T) /\ Len(c) = i
    BY <1>4
  <2> HIDE DEF c
  <2>2. c \o b \in Seq(T) /\ Len(c \o b) = Len(s) + 1
    BY <1>0, <1>2, <2>1, ConcatProperties
  <2>3. \A j \in 1 .. Len(s) + 1 : (c \o b)[j] = IF j <= i THEN c[j] ELSE b[j - i]
    BY <1>0, <1>2, <2>1, ConcatProperties
  <2> QED BY <2>2, <2>3 DEF c
<1>6. InsertAt(s, i, e) = (a \o <<e>>) \o b
  BY DEF InsertAt
<1> HIDE DEF a, b
<1> QED BY <1>0, <1>2, <1>4, <1>5, <1>6, SMTT(30)

LEMMA Removing ==
  ASSUME NEW T, NEW s \in Seq(T), NEW i \in 1 .. Len(s)
  PROVE  /\ RemoveAt(s, i) \in Seq(T)
         /\ Len(RemoveAt(s, i)) = Len(s) - 1
         /\ \A j \in 1 .. Len(s) - 1 :
              RemoveAt(s, i)[j] = IF j < i THEN s[j] ELSE s[j + 1]
<1> DEFINE a == SubSeq(s, 1, i - 1)
           b == SubSeq(s, i + 1, Len(s))
<1>0. i \in Nat /\ Len(s) \in Nat /\ 1 <= i /\ i <= Len(s)
  OBVIOUS
<1>1. a \in Seq(T) /\ Len(a) = i - 1 /\ \A j \in 1 .. i - 1 : a[j] = s[j]
  BY <1>0, SubSeqProperties
<1>2. b \in Seq(T) /\ Len(b) = Len(s) - i
      /\ \A j \in 1 .. Len(s) - i : b[j] = s[i + j]
  <2>1. CASE i = Len(s)
    BY <1>0, <2>1, SubSeqEmpty, EmptySeq
  <2>2. CASE i < Len(s)
    BY <1>0, <2>2, SubSeqProperties
  <2> QED BY <1>0, <2>1, <2>2
<1> HIDE DEF a, b
<1>5. a \o b \in Seq(T) /\ Len(a \o b) = Len(s) - 1
  <2>1. a \in Seq(T) /\ b \in Seq(T)
    BY <1>1, <1>2
  <2>2. a \o b \in Seq(T) /\ Len(a \o b) = Len(a) + Len(b)
    BY <2>1, ConcatProperties
  <2> QED BY <1>0, <1>1, <1>2, <2>2
<1>7. \A j \in 1 .. Len(s) - 1 :
        (a \o b)[j] = IF j <= i - 1 THEN a[j] ELSE b[j - (i - 1)]
  BY <1>0, <1>1, <1>2, ConcatProperties
<1>6. RemoveAt(s, i) = a \o b
  BY DEF RemoveAt, a, b
<1>8. \A j \in 1 .. Len(s) - 1 : (a \o b)[j] = IF j < i THEN s[j] ELSE s[j + 1]
  <2> TAKE j \in 1 .. Len(s) - 1
  <2>1. CASE j < i
    BY <1>0, <1>1, <1>7, <2>1
  <2>2. CASE ~(j < i)
    <3>1. j - (i - 1) \in 1 .. Len(s) - i
      BY <1>0, <2>2
    <3>2. b[j - (i - 1)] = s[i + (j - (i - 1))]
      BY <1>2, <3>1
    <3>5. ~(j <= i - 1)
      BY <1>0, <2>2
    <3>3. (a \o b)[j] = b[j - (i - 1)]
      BY <1>7, <3>5
    <3>4. i + (j - (i - 1)) = j + 1
      BY <1>0
    <3> QED BY <2>2, <3>2, <3>3, <3>4
  <2> QED BY <2>1, <2>2
<1> QED BY <1>5, <1>6, <1>8

LEMMA Smallest ==
  ASSUME NEW T \in SUBSET Nat, T # {}
  PROVE  \E m \in T : \A n \in T : m <= n
<1> DEFINE Less == {p \in Nat \X Nat : p[1] < p[2]}
<1>1. \A m, n \in Nat : <<m, n>> \in Less <=> m < n
  OBVIOUS
<1>2. IsWellFoundedOn(Less, Nat)
  BY NatLessThanWellFounded DEF OpToRel
<1> HIDE DEF Less
<1>3. PICK m \in T : \A n \in T : <<n, m>> \notin Less
  BY <1>2, WFMin
<1>4. \A n \in T : m <= n
  <2> TAKE n \in T
  <2>1. ~(n < m)
    BY <1>1, <1>3
  <2> QED BY <2>1
<1> QED BY <1>4

LEMMA RankInduction ==
  ASSUME NEW P, NEW rank \in [P -> Nat], NEW good,
         \A p \in P : (\A q \in P : rank[q] < rank[p] => q \in good) => p \in good
  PROVE  \A p \in P : p \in good
<1> DEFINE T == {n \in Nat : \E p \in P : rank[p] = n /\ p \notin good}
<1> SUFFICES ASSUME NEW p0 \in P, p0 \notin good PROVE FALSE
  OBVIOUS
<1>1. rank[p0] \in T
  OBVIOUS
<1>2. PICK m \in T : \A n \in T : m <= n
  BY <1>1, Smallest
<1>3. PICK p \in P : rank[p] = m /\ p \notin good
  OBVIOUS
<1>4. \A q \in P : rank[q] < m => q \in good
  BY <1>2, <1>3
<1> QED BY <1>3, <1>4

(* A function defined by recursion towards smaller ranks exists: the pages *)
(* of P go on to next[p] until they reach one of ends.                     *)
Descends(P, rank, bound, ends, next) ==
  /\ bound \in Nat /\ rank \in [P -> Nat] /\ \A p \in P : rank[p] < bound
  /\ ends \subseteq P
  /\ \A p \in P \ ends : next[p] \in P /\ rank[next[p]] < rank[p]
Yields(P, V, ends, base, step) ==
  /\ \A p \in ends : base[p] \in V
  /\ \A p \in P \ ends : \A v \in V : step[<<p, v>>] \in V

LEMMA Recursion ==
  ASSUME NEW P, NEW V, NEW bound, NEW rank, NEW ends, NEW next, NEW base, NEW step,
         Descends(P, rank, bound, ends, next), Yields(P, V, ends, base, step)
  PROVE  \E f \in [P -> V] :
           \A p \in P : f[p] = IF p \in ends THEN base[p] ELSE step[<<p, f[next[p]]>>]
<1> USE DEF Descends, Yields
<1> DEFINE Upto(n) == {p \in P : rank[p] < n}
           Solves(f, n) ==
             \A p \in Upto(n) :
               f[p] = IF p \in ends THEN base[p] ELSE step[<<p, f[next[p]]>>]
           Unsolved == {n \in Nat : ~ \E f \in [Upto(n) -> V] : Solves(f, n)}
<1>1. Unsolved = {}
  <2> SUFFICES ASSUME Unsolved # {} PROVE FALSE
    OBVIOUS
  <2>1. PICK m \in Unsolved : \A n \in Unsolved : m <= n
    BY Smallest
  <2>2. m # 0
    <3>1. Upto(0) = {}
      OBVIOUS
    <3>2. [p \in {} |-> p] \in [Upto(0) -> V] /\ Solves([p \in {} |-> p], 0)
      BY <3>1
    <3> QED BY <3>2, ZenonT(30)
  <2>3. m - 1 \in Nat /\ m - 1 \notin Unsolved
    <3> HIDE DEF Solves, Upto
    <3>1. m \in Nat
      OBVIOUS
    <3> HIDE DEF Unsolved
    <3>2. ~(m <= m - 1)
      BY <3>1
    <3> QED BY <2>1, <2>2, <3>1, <3>2
  <2>4. PICK f \in [Upto(m - 1) -> V] : Solves(f, m - 1)
    BY <2>3
  <2> DEFINE g == [p \in Upto(m) |->
                     IF p \in Upto(m - 1) THEN f[p]
                     ELSE IF p \in ends THEN base[p] ELSE step[<<p, f[next[p]]>>]]
  <2>5. \A p \in Upto(m) \ ends : next[p] \in Upto(m - 1)
    BY <2>3
  <2>6. \A p \in Upto(m - 1) : p \in Upto(m)
    BY <2>3
  <2>7. \A p \in Upto(m - 1) : g[p] = f[p]
    BY <2>6
  <2>8. g \in [Upto(m) -> V]
    <3> SUFFICES ASSUME NEW p \in Upto(m) PROVE g[p] \in V
      OBVIOUS
    <3>1. CASE p \in Upto(m - 1)
      BY <2>7, <3>1
    <3>2. CASE p \notin Upto(m - 1) /\ p \in ends
      BY <3>2
    <3>3. CASE p \notin Upto(m - 1) /\ p \notin ends
      BY <2>5, <3>3
    <3> QED BY <3>1, <3>2, <3>3
  <2>9. Solves(g, m)
    <3> SUFFICES ASSUME NEW p \in Upto(m)
                 PROVE  g[p] = IF p \in ends THEN base[p] ELSE step[<<p, g[next[p]]>>]
      OBVIOUS
    <3>1. CASE p \in ends
      BY <2>4, <2>7, <3>1
    <3>2. CASE p \notin ends
      <4>1. g[next[p]] = f[next[p]]
        BY <2>5, <2>7, <3>2
      <4>2. g[p] = step[<<p, f[next[p]]>>]
        BY <2>4, <2>7, <3>2
      <4> QED BY <3>2, <4>1, <4>2
    <3> QED BY <3>1, <3>2
  <2> QED BY <2>1, <2>8, <2>9
<1>2. Upto(bound) = P
  OBVIOUS
<1>3. bound \notin Unsolved
  BY <1>1
<1> QED BY <1>2, <1>3

LEMMA LeastOf ==
  ASSUME NEW S \in SUBSET Nat, S # {}
  PROVE  Min(S) \in S /\ \A y \in S : Min(S) <= y
BY Smallest DEF Min

LEMMA GreatestOf ==
  ASSUME NEW n \in Nat, NEW S \in SUBSET (0 .. n), S # {}
  PROVE  Max(S) \in S /\ \A y \in S : Max(S) >= y
<1> DEFINE T == {n - y : y \in S}
<1>1. T \in SUBSET Nat /\ T # {}
  <2>1. \A y \in S : n - y \in Nat
    OBVIOUS
  <2> QED BY <2>1
<1>2. PICK m \in T : \A x \in T : m <= x
  BY <1>1, Smallest
<1>3. PICK x \in S : m = n - x
  OBVIOUS
<1>4. \A y \in S : x >= y
  <2> TAKE y \in S
  <2>1. m <= n - y
    BY <1>2
  <2> QED BY <1>3, <2>1
<1> QED BY <1>3, <1>4 DEF Max

(***************************************************************************)
(* Nodes.                                                                  *)
(***************************************************************************)
LeafNode == [is_leaf : {TRUE}, entries : Seq(EntryType), prev_leaf : Int, next_leaf : Int]
InnerNode == [is_leaf : {FALSE}, keys : Seq(SearchKeys), pointers : Seq(Nat)]
Node == LeafNode \cup InnerNode

(* Where a new key goes, and where a lookup goes down.                     *)
LEMMA PlaceOf ==
  ASSUME NEW keys \in Seq(Int), NEW key \in Int
  PROVE  /\ Place(keys, key) \in 1 .. Len(keys) + 1
         /\ \A i \in 1 .. Len(keys) : i < Place(keys, key) => keys[i] <= key
         /\ Place(keys, key) <= Len(keys) => key < keys[Place(keys, key)]
<1> DEFINE S == {i \in 1 .. Len(keys) : key < keys[i]} \cup {Len(keys) + 1}
<1>1. S \in SUBSET Nat /\ S # {}
  OBVIOUS
<1>2. Place(keys, key) \in S /\ \A y \in S : Place(keys, key) <= y
  BY <1>1, LeastOf DEF Place
<1>3. \A i \in 1 .. Len(keys) : keys[i] \in Int
  OBVIOUS
<1> QED BY <1>2, <1>3

LEMMA ChildOf ==
  ASSUME NEW node, node.keys \in Seq(Int), node.pointers \in Seq(Int),
         Len(node.pointers) = Len(node.keys) + 1, NEW key \in Int
  PROVE  \E j \in DOMAIN node.pointers :
           /\ Child(node, key) = node.pointers[j]
           /\ j > 1 => node.keys[j - 1] < key
           /\ \A i \in DOMAIN node.keys : j <= i => key <= node.keys[i]
<1> DEFINE S == {i \in DOMAIN node.keys : key > node.keys[i]} \cup {0}
           j == 1 + Max(S)
<1>1. Len(node.keys) \in Nat /\ DOMAIN node.keys = 1 .. Len(node.keys)
      /\ DOMAIN node.pointers = 1 .. Len(node.pointers)
      /\ \A i \in DOMAIN node.keys : node.keys[i] \in Int
  OBVIOUS
<1>2. S \in SUBSET (0 .. Len(node.keys)) /\ S # {}
  BY <1>1
<1>3. Max(S) \in S /\ \A y \in S : Max(S) >= y
  BY <1>1, <1>2, GreatestOf
<1>4. Max(S) \in 0 .. Len(node.keys)
  BY <1>2, <1>3
<1>5. Child(node, key) = node.pointers[j]
  BY DEF Child
<1>6. j \in DOMAIN node.pointers /\ j - 1 = Max(S)
  BY <1>1, <1>4
<1>9. PICK m : m = Max(S)
  OBVIOUS
<1>10. m \in 0 .. Len(node.keys) /\ j = 1 + m
  BY <1>4, <1>9
<1>7. j > 1 => node.keys[j - 1] < key
  <2> SUFFICES ASSUME j > 1 PROVE node.keys[j - 1] < key
    OBVIOUS
  <2>1. m # 0 /\ j - 1 = m
    BY <1>10, SMTT(30)
  <2>2. m \in S
    BY <1>3, <1>9
  <2>3. m \in DOMAIN node.keys /\ key > node.keys[m]
    BY <2>1, <2>2
  <2> HIDE DEF j, S
  <2> QED BY <1>1, <2>1, <2>3
<1>8. \A i \in DOMAIN node.keys : j <= i => key <= node.keys[i]
  <2> SUFFICES ASSUME NEW i \in DOMAIN node.keys, j <= i, ~(key <= node.keys[i])
               PROVE  FALSE
    OBVIOUS
  <2>1. i \in S
    BY <1>1, SMTT(60)
  <2>2. m >= i
    BY <1>3, <1>9, <2>1
  <2> HIDE DEF S
  <2> QED BY <1>1, <1>10, <2>2
<1> QED BY <1>5, <1>6, <1>7, <1>8
-----------------------------------------------------------------------------
(***************************************************************************)
(* The inductive invariant.  The nodes are nodes of pages in the file, no  *)
(* larger than a page can take.                                            *)
(***************************************************************************)
NodesInv ==
  /\ nodes \in Seq(Node)
  /\ \A p \in PageIds : IsNode(nodes[p]) /\ Len(Keys(nodes[p])) <= ORDER

(* A page is one level above all its children, and leaves are on level 0.  *)
Levels(level) ==
  /\ root_page_id \in PageIds
  /\ level \in [PageIds -> Nat]
  /\ \A p \in PageIds : level[p] <= level[root_page_id]
  /\ \A p \in PageIds : nodes[p].is_leaf <=> level[p] = 0
  /\ \A p \in PageIds \ Leaves : \A i \in DOMAIN nodes[p].pointers :
       level[nodes[p].pointers[i]] + 1 = level[p]

(* The pages on the way from the root to the leftmost leaf, which is page  *)
(* 1 for ever: the new page of a split is on the right.                    *)
LeftEdge(edge) ==
  /\ edge \subseteq PageIds /\ root_page_id \in edge
  /\ \A p \in edge : nodes[p].is_leaf => p = 1
  /\ \A p \in edge : ~nodes[p].is_leaf => nodes[p].pointers[1] \in edge

(* The leaves, each of them once, in the order of their links.             *)
IsChain(chain) ==
  /\ chain \in Seq(Leaves) /\ chain # <<>> /\ chain[1] = 1
  /\ \A i, j \in DOMAIN chain : chain[i] = chain[j] => i = j
  /\ \A p \in Leaves : \E i \in DOMAIN chain : chain[i] = p
  /\ \A i \in DOMAIN chain :
       /\ nodes[chain[i]].next_leaf = IF i < Len(chain) THEN chain[i + 1] ELSE NoLeaf
       /\ nodes[chain[i]].prev_leaf = IF i > 1 THEN chain[i - 1] ELSE NoLeaf

LEMMA NodeFields ==
  ASSUME NodesInv
  PROVE  /\ Len(nodes) \in Nat /\ DOMAIN nodes = PageIds
         /\ Leaves \subseteq PageIds /\ PageIds \subseteq Nat
         /\ \A p \in Leaves :
              /\ nodes[p] \in LeafNode
              /\ nodes[p].entries \in Seq(EntryType)
              /\ nodes[p].prev_leaf \in PageIds \cup {NoLeaf}
              /\ nodes[p].next_leaf \in PageIds \cup {NoLeaf}
         /\ \A p \in PageIds \ Leaves :
              /\ nodes[p] \in InnerNode
              /\ nodes[p].keys \in Seq(SearchKeys)
              /\ nodes[p].pointers \in Seq(PageIds)
              /\ Len(nodes[p].pointers) = Len(nodes[p].keys) + 1
<1>1. Len(nodes) \in Nat /\ DOMAIN nodes = PageIds
      /\ \A p \in PageIds : nodes[p] \in Node
  BY DEF NodesInv, PageIds
<1>2. Leaves \subseteq PageIds /\ PageIds \subseteq Nat
  BY DEF Leaves, PageIds
<1>3. ASSUME NEW p \in Leaves
      PROVE  /\ nodes[p] \in LeafNode
             /\ nodes[p].entries \in Seq(EntryType)
             /\ nodes[p].prev_leaf \in PageIds \cup {NoLeaf}
             /\ nodes[p].next_leaf \in PageIds \cup {NoLeaf}
  <2>1. nodes[p].is_leaf /\ IsNode(nodes[p]) /\ nodes[p] \in Node
    BY <1>1, <1>2 DEF Leaves, NodesInv
  <2>2. nodes[p] \in LeafNode
    BY <2>1 DEF Node, InnerNode, LeafNode
  <2> QED BY <2>1, <2>2 DEF IsNode
<1>4. ASSUME NEW p \in PageIds \ Leaves
      PROVE  /\ nodes[p] \in InnerNode
             /\ nodes[p].keys \in Seq(SearchKeys)
             /\ nodes[p].pointers \in Seq(PageIds)
             /\ Len(nodes[p].pointers) = Len(nodes[p].keys) + 1
  <2>1. ~nodes[p].is_leaf /\ IsNode(nodes[p]) /\ nodes[p] \in Node
    BY <1>1, <1>2 DEF Leaves, NodesInv
  <2>2. nodes[p] \in InnerNode
    BY <2>1 DEF Node, InnerNode, LeafNode
  <2> QED BY <2>1, <2>2 DEF IsNode
<1> QED BY <1>1, <1>2, <1>3, <1>4

(* _find_leaf ends, in a leaf, after one page of every level.              *)
LEMMA PathFound ==
  ASSUME NodesInv, NEW level, Levels(level), NEW key \in SearchKeys
  PROVE  /\ PathTo(key) \in Seq(PageIds)
         /\ Len(PathTo(key)) = level[root_page_id] + 1
         /\ PathTo(key)[1] = root_page_id
         /\ \A i \in 1 .. Len(PathTo(key)) : level[PathTo(key)[i]] = Len(PathTo(key)) - i
         /\ \A i \in 1 .. Len(PathTo(key)) - 1 :
              PathTo(key)[i + 1] = Child(nodes[PathTo(key)[i]], key)
<1> DEFINE V == Seq(PageIds)
           next == [p \in PageIds |-> Child(nodes[p], key)]
           base == [p \in PageIds |-> <<p>>]
           step == [x \in PageIds \X V |-> <<x[1]>> \o x[2]]
           IsDown(f) == f = [p \in PageIds |->
                               IF nodes[p].is_leaf THEN <<p>>
                               ELSE <<p>> \o f[Child(nodes[p], key)]]
<1>0. key \in Int /\ SearchKeys \subseteq Int
  BY TreeAssumption
<1>1. \A p \in PageIds \ Leaves :
        Child(nodes[p], key) \in PageIds /\ level[Child(nodes[p], key)] + 1 = level[p]
  <2> SUFFICES ASSUME NEW p \in PageIds \ Leaves
               PROVE  /\ Child(nodes[p], key) \in PageIds
                      /\ level[Child(nodes[p], key)] + 1 = level[p]
    OBVIOUS
  <2>1. /\ nodes[p].keys \in Seq(Int) /\ nodes[p].pointers \in Seq(Int)
        /\ Len(nodes[p].pointers) = Len(nodes[p].keys) + 1
        /\ nodes[p].pointers \in Seq(PageIds)
    <3>1. /\ nodes[p].keys \in Seq(SearchKeys) /\ nodes[p].pointers \in Seq(PageIds)
          /\ Len(nodes[p].pointers) = Len(nodes[p].keys) + 1
          /\ PageIds \subseteq Int
      BY NodeFields
    <3> QED BY <1>0, <3>1, SeqMonotonic
  <2>2. PICK j \in DOMAIN nodes[p].pointers : Child(nodes[p], key) = nodes[p].pointers[j]
    BY <1>0, <2>1, ChildOf
  <2> QED BY <2>1, <2>2 DEF Levels
<1>2. \E f : IsDown(f)
  <2>1. PICK f \in [PageIds -> V] :
          \A p \in PageIds : f[p] = IF p \in Leaves THEN base[p] ELSE step[<<p, f[next[p]]>>]
    <3>1. level[root_page_id] + 1 \in Nat /\ level \in [PageIds -> Nat]
          /\ \A p \in PageIds : level[p] < level[root_page_id] + 1
      BY DEF Levels
    <3>2. Leaves \in SUBSET PageIds
      BY DEF Leaves
    <3>3. \A p \in PageIds \ Leaves : next[p] \in PageIds /\ level[next[p]] < level[p]
      BY <1>1, <3>1
    <3>4. \A p \in Leaves : base[p] \in V
      BY <3>2
    <3>5. \A p \in PageIds \ Leaves : \A v \in V : step[<<p, v>>] \in V
      BY ConcatProperties
    <3>6. Descends(PageIds, level, level[root_page_id] + 1, Leaves, next)
      BY <3>1, <3>2, <3>3 DEF Descends
    <3>7. Yields(PageIds, V, Leaves, base, step)
      BY <3>4, <3>5 DEF Yields
    <3> HIDE DEF next, base, step, V
    <3> QED BY <3>6, <3>7, Recursion
  <2>2. \A p \in PageIds \ Leaves : f[next[p]] \in V /\ next[p] = Child(nodes[p], key)
    BY <1>1, <2>1
  <2>3. \A p \in PageIds : f[p] = IF nodes[p].is_leaf THEN <<p>>
                                  ELSE <<p>> \o f[Child(nodes[p], key)]
    BY <2>1, <2>2 DEF Leaves
  <2> QED BY <2>1, <2>3
<1>3. PICK down : IsDown(down) /\ PathTo(key) = down[root_page_id]
  <2>1. IsDown(CHOOSE f : IsDown(f))
    BY <1>2
  <2>2. PathTo(key) = (CHOOSE f : IsDown(f))[root_page_id]
    BY DEF PathTo
  <2> QED BY <2>1, <2>2
<1> DEFINE Leads(s, p) ==
             /\ s \in V /\ Len(s) = level[p] + 1 /\ s[1] = p
             /\ \A i \in 1 .. Len(s) : level[s[i]] = Len(s) - i
             /\ \A i \in 1 .. Len(s) - 1 : s[i + 1] = Child(nodes[s[i]], key)
           good == {p \in PageIds : Leads(down[p], p)}
<1>4. \A p \in PageIds : (\A q \in PageIds : level[q] < level[p] => q \in good) => p \in good
  <2> SUFFICES ASSUME NEW p \in PageIds, \A q \in PageIds : level[q] < level[p] => q \in good
               PROVE  Leads(down[p], p)
    OBVIOUS
  <2>1. CASE nodes[p].is_leaf
    <3>1. down[p] = <<p>> /\ level[p] = 0
      BY <1>3, <2>1 DEF Levels
    <3> QED BY <3>1
  <2>2. CASE ~nodes[p].is_leaf
    <3>1. PICK q : q = Child(nodes[p], key)
      OBVIOUS
    <3>2. q \in PageIds /\ level[q] + 1 = level[p] /\ level[p] \in Nat /\ level[q] \in Nat
      BY <1>1, <2>2, <3>1 DEF Leaves, Levels
    <3>3. PICK t : t = down[q]
      OBVIOUS
    <3>4. Leads(t, q)
      BY <3>2, <3>3
    <3>5. down[p] = <<p>> \o t
      <4>1. down[p] = <<p>> \o down[Child(nodes[p], key)]
        <5> DEFINE body(r) == IF nodes[r].is_leaf THEN <<r>>
                              ELSE <<r>> \o down[Child(nodes[r], key)]
        <5>1. down = [r \in PageIds |-> body(r)]
          BY <1>3
        <5> HIDE DEF body
        <5>2. down[p] = body(p)
          BY <5>1
        <5> QED BY <2>2, <5>2 DEF body
      <4> QED BY <3>1, <3>3, <4>1
    <3> HIDE DEF IsDown
    <3>6. /\ down[p] \in V /\ Len(down[p]) = level[p] + 1 /\ down[p][1] = p
          /\ \A i \in 1 .. Len(t) : down[p][i + 1] = t[i]
      BY <3>2, <3>4, <3>5, ConcatProperties
    <3>9. PICK n \in Nat : n = Len(t)
      BY <3>2, <3>4
    <3>10. n >= 1 /\ level[p] = n /\ Len(down[p]) = n + 1
      BY <3>2, <3>4, <3>6, <3>9
    <3>11. ASSUME NEW i \in 1 .. n + 1, i # 1
           PROVE  i - 1 \in 1 .. n /\ down[p][i] = t[i - 1]
      <4>1. i - 1 \in 1 .. n /\ (i - 1) + 1 = i
        BY <3>9, <3>11
      <4>2. down[p][(i - 1) + 1] = t[i - 1]
        BY <3>6, <3>9, <4>1
      <4> QED BY <4>1, <4>2
    <3>7. ASSUME NEW i \in 1 .. Len(down[p])
          PROVE  level[down[p][i]] = Len(down[p]) - i
      <4>1. CASE i = 1
        <5>1. Len(down[p]) - i = n
          BY <3>9, <3>10, <4>1
        <5> QED BY <3>6, <3>10, <4>1, <5>1
      <4>2. CASE i # 1
        <5>1. i - 1 \in 1 .. n /\ down[p][i] = t[i - 1]
          BY <3>10, <3>11, <4>2
        <5>2. level[t[i - 1]] = n - (i - 1)
          BY <3>4, <3>9, <5>1
        <5>3. n - (i - 1) = Len(down[p]) - i
          BY <3>9, <3>10
        <5> QED BY <5>1, <5>2, <5>3
      <4> QED BY <4>1, <4>2
    <3>8. ASSUME NEW i \in 1 .. Len(down[p]) - 1
          PROVE  down[p][i + 1] = Child(nodes[down[p][i]], key)
      <4>0. i \in 1 .. n
        BY <3>9, <3>10
      <4>3. i + 1 \in 1 .. n + 1 /\ i + 1 # 1 /\ (i + 1) - 1 = i
        BY <3>9, <4>0
      <4>4. down[p][i + 1] = t[i]
        BY <3>11, <4>3
      <4>1. CASE i = 1
        <5>1. down[p][i] = p /\ t[i] = q
          BY <3>4, <3>6, <4>1
        <5> QED BY <3>1, <4>4, <5>1
      <4>2. CASE i # 1
        <5>1. i - 1 \in 1 .. n - 1 /\ i \in 1 .. n + 1 /\ (i - 1) + 1 = i
          BY <3>9, <4>0, <4>2
        <5>2. down[p][i] = t[i - 1]
          BY <3>11, <4>2, <5>1
        <5>3. t[(i - 1) + 1] = Child(nodes[t[i - 1]], key)
          BY <3>4, <3>9, <5>1
        <5> QED BY <4>4, <5>1, <5>2, <5>3
      <4> QED BY <4>1, <4>2
    <3> QED BY <3>6, <3>7, <3>8
  <2> QED BY <2>1, <2>2
<1>5. root_page_id \in good
  <2>1. level \in [PageIds -> Nat] /\ root_page_id \in PageIds
    BY DEF Levels
  <2> HIDE DEF good
  <2> QED BY <1>4, <2>1, RankInduction
<1>6. Leads(PathTo(key), root_page_id)
  BY <1>3, <1>5
<1> QED BY <1>6

LEMMA Behind ==
  ASSUME NEW S, NEW p \in S, NEW s \in Seq(S), s # <<>>
  PROVE  /\ <<p>> \o s \in Seq(S) /\ <<p>> \o s # <<>>
         /\ (<<p>> \o s)[1] = p /\ Last(<<p>> \o s) = Last(s)
<1>1. PICK m \in Nat \ {0} : m = Len(s)
  BY EmptySeq
<1>2. <<p>> \in Seq(S) /\ Len(<<p>>) = 1 /\ <<p>>[1] = p
  OBVIOUS
<1>8. PICK t : t = <<p>> \o s
  OBVIOUS
<1>3. /\ t \in Seq(S) /\ Len(t) = 1 + m
      /\ \A i \in 1 .. 1 + m : t[i] = IF i <= 1 THEN <<p>>[i] ELSE s[i - 1]
  <2>1. t \in Seq(S) /\ Len(t) = 1 + m
    BY <1>1, <1>2, <1>8, ConcatProperties
  <2>2. \A i \in 1 .. 1 + m : t[i] = IF i <= 1 THEN <<p>>[i] ELSE s[i - 1]
    BY <1>1, <1>2, <1>8, ConcatProperties
  <2> QED BY <2>1, <2>2
<1>4. 1 \in 1 .. 1 + m /\ 1 + m \in 1 .. 1 + m /\ ~(1 + m <= 1) /\ (1 + m) - 1 = m
  OBVIOUS
<1>5. t[1] = p /\ t[1 + m] = s[m]
  BY <1>2, <1>3, <1>4
<1>6. t # <<>>
  BY <1>3
<1> QED BY <1>1, <1>3, <1>5, <1>6, <1>8 DEF Last

LEMMA LeftmostFound ==
  ASSUME NodesInv, NEW level, Levels(level), NEW edge, LeftEdge(edge)
  PROVE  /\ LeftmostPath \in Seq(PageIds) /\ LeftmostPath # <<>>
         /\ Leftmost = 1 /\ 1 \in Leaves
<1> DEFINE V == Seq(PageIds)
           next == [p \in PageIds |-> IF p \in Leaves THEN p ELSE nodes[p].pointers[1]]
           base == [p \in PageIds |-> <<p>>]
           step == [x \in PageIds \X V |-> <<x[1]>> \o x[2]]
           IsDown(f) == f = [p \in PageIds |->
                               IF nodes[p].is_leaf THEN <<p>>
                               ELSE <<p>> \o f[nodes[p].pointers[1]]]
<1>1. \A p \in PageIds \ Leaves :
        nodes[p].pointers[1] \in PageIds /\ level[nodes[p].pointers[1]] + 1 = level[p]
  <2> SUFFICES ASSUME NEW p \in PageIds \ Leaves
               PROVE  nodes[p].pointers[1] \in PageIds
                      /\ level[nodes[p].pointers[1]] + 1 = level[p]
    OBVIOUS
  <2>1. nodes[p].keys \in Seq(SearchKeys) /\ nodes[p].pointers \in Seq(PageIds)
        /\ Len(nodes[p].pointers) = Len(nodes[p].keys) + 1
    BY NodeFields
  <2>2. 1 \in DOMAIN nodes[p].pointers
    BY <2>1
  <2> QED BY <2>1, <2>2 DEF Levels
<1>2. \E f : IsDown(f)
  <2>1. Descends(PageIds, level, level[root_page_id] + 1, Leaves, next)
    BY <1>1 DEF Descends, Levels, Leaves
  <2>2. Yields(PageIds, V, Leaves, base, step)
    <3>1. \A p \in PageIds : \A v \in V : step[<<p, v>>] \in V
      BY ConcatProperties
    <3>2. \A p \in Leaves : base[p] \in V
      BY DEF Leaves
    <3> QED BY <3>1, <3>2 DEF Yields
  <2>3. \A p \in PageIds \ Leaves : next[p] \in PageIds
    BY <1>1
  <2> HIDE DEF base, step, V
  <2>4. PICK f \in [PageIds -> V] :
          \A p \in PageIds : f[p] = IF p \in Leaves THEN base[p] ELSE step[<<p, f[next[p]]>>]
    <3> HIDE DEF next
    <3> QED BY <2>1, <2>2, Recursion
  <2>5. \A p \in PageIds : f[p] = IF nodes[p].is_leaf THEN <<p>>
                                  ELSE <<p>> \o f[nodes[p].pointers[1]]
    BY <1>1, <2>3, <2>4 DEF base, step, next, Leaves
  <2> QED BY <2>4, <2>5
<1>3. PICK down : IsDown(down) /\ LeftmostPath = down[root_page_id]
  <2>1. IsDown(CHOOSE f : IsDown(f))
    BY <1>2
  <2>2. LeftmostPath = (CHOOSE f : IsDown(f))[root_page_id]
    BY DEF LeftmostPath
  <2> QED BY <2>1, <2>2
<1>4. \A p \in PageIds : down[p] = IF nodes[p].is_leaf THEN <<p>>
                                   ELSE <<p>> \o down[nodes[p].pointers[1]]
  BY <1>3
<1> HIDE DEF IsDown
<1> DEFINE Leads(s, p) ==
             s \in V /\ s # <<>> /\ (p \in edge => Last(s) = 1 /\ 1 \in Leaves)
           good == {p \in PageIds : Leads(down[p], p)}
<1>5. \A p \in PageIds : (\A q \in PageIds : level[q] < level[p] => q \in good) => p \in good
  <2> SUFFICES ASSUME NEW p \in PageIds, \A q \in PageIds : level[q] < level[p] => q \in good
               PROVE  Leads(down[p], p)
    OBVIOUS
  <2>1. CASE nodes[p].is_leaf
    <3>1. down[p] = <<p>>
      BY <1>4, <2>1
    <3> QED BY <2>1, <3>1 DEF LeftEdge, Leaves, Last
  <2>2. CASE ~nodes[p].is_leaf
    <3>1. PICK q : q = nodes[p].pointers[1]
      OBVIOUS
    <3>2. q \in PageIds /\ level[q] + 1 = level[p] /\ level[q] \in Nat /\ level[p] \in Nat
      BY <1>1, <2>2, <3>1 DEF Leaves, Levels
    <3>3. p \in edge => q \in edge
      BY <2>2, <3>1 DEF LeftEdge
    <3>4. PICK s : s = down[q]
      OBVIOUS
    <3>5. Leads(s, q)
      BY <3>2, <3>4
    <3>6. down[p] = <<p>> \o s
      BY <1>4, <2>2, <3>1, <3>4
    <3>7. PICK t : t = <<p>> \o s
      OBVIOUS
    <3>8. t \in V /\ t # <<>> /\ Last(t) = Last(s)
      <4>1. p \in PageIds /\ s \in Seq(PageIds) /\ s # <<>>
        BY <3>5
      <4>2. PICK S : S = PageIds
        OBVIOUS
      <4>3. p \in S /\ s \in Seq(S) /\ s # <<>>
        BY <4>1, <4>2
      <4>4. t \in Seq(S) /\ t # <<>> /\ t[1] = p /\ Last(t) = Last(s)
        BY <3>7, <4>3, Behind
      <4> QED BY <4>2, <4>4
    <3> QED BY <3>3, <3>5, <3>6, <3>7, <3>8
  <2> QED BY <2>1, <2>2
<1>6. root_page_id \in good
  <2>1. level \in [PageIds -> Nat] /\ root_page_id \in PageIds
    BY DEF Levels
  <2> HIDE DEF good
  <2> QED BY <1>5, <2>1, RankInduction
<1>7. root_page_id \in edge
  BY DEF LeftEdge
<1> QED BY <1>3, <1>6, <1>7 DEF Leftmost

LEMMA ChainFields ==
  ASSUME NodesInv, NEW chain, IsChain(chain)
  PROVE  /\ Len(chain) \in Nat \ {0} /\ DOMAIN chain = 1 .. Len(chain)
         /\ \A i \in 1 .. Len(chain) :
              /\ chain[i] \in Leaves
              /\ nodes[chain[i]].next_leaf <= 0 <=> i = Len(chain)
              /\ i < Len(chain) => nodes[chain[i]].next_leaf = chain[i + 1]
<1>1. Len(chain) \in Nat \ {0} /\ DOMAIN chain = 1 .. Len(chain)
      /\ \A i \in 1 .. Len(chain) : chain[i] \in Leaves
  BY EmptySeq DEF IsChain
<1>2. \A p \in Leaves : p \in Nat /\ p > 0
  BY DEF Leaves, PageIds
<1>3. ASSUME NEW i \in 1 .. Len(chain)
      PROVE  /\ nodes[chain[i]].next_leaf <= 0 <=> i = Len(chain)
             /\ i < Len(chain) => nodes[chain[i]].next_leaf = chain[i + 1]
  <2>1. CASE i = Len(chain)
    BY <1>1, <2>1 DEF IsChain, NoLeaf
  <2>2. CASE i # Len(chain)
    <3> PICK n \in Nat : n = Len(chain)
      BY <1>1
    <3>1. i < Len(chain) /\ i + 1 \in 1 .. Len(chain)
      BY <2>2
    <3>2. nodes[chain[i]].next_leaf = chain[i + 1]
      BY <1>1, <3>1 DEF IsChain
    <3>3. chain[i + 1] \in Nat /\ chain[i + 1] > 0
      BY <1>1, <1>2, <3>1
    <3> QED BY <2>2, <3>2, <3>3
  <2> QED BY <2>1, <2>2
<1> QED BY <1>1, <1>3

(* A walk along the leaves ends wherever it starts.                        *)
LEMMA ChainDescends ==
  ASSUME NodesInv, NEW chain, IsChain(chain), NEW ends \in SUBSET Leaves,
         \A p \in Leaves : nodes[p].next_leaf <= 0 => p \in ends
  PROVE  \E rank : Descends(Leaves, rank, Len(chain) + 1, ends,
                            [p \in Leaves |-> nodes[p].next_leaf])
<1> DEFINE pos == [p \in Leaves |-> CHOOSE i \in DOMAIN chain : chain[i] = p]
           rank == [p \in Leaves |-> Len(chain) - pos[p]]
           next == [p \in Leaves |-> nodes[p].next_leaf]
<1>1. Len(chain) \in Nat \ {0} /\ DOMAIN chain = 1 .. Len(chain)
  BY ChainFields
<1>2. \A p \in Leaves : pos[p] \in 1 .. Len(chain) /\ chain[pos[p]] = p
  BY <1>1 DEF IsChain
<1>3. \A p \in Leaves : rank[p] \in Nat /\ rank[p] < Len(chain) + 1
  BY <1>1, <1>2
<1>4. ASSUME NEW p \in Leaves \ ends
      PROVE  next[p] \in Leaves /\ rank[next[p]] < rank[p]
  <2>1. PICK i \in 1 .. Len(chain) : i = pos[p] /\ chain[i] = p
    BY <1>2
  <2>2. i < Len(chain) /\ nodes[p].next_leaf = chain[i + 1] /\ i + 1 \in 1 .. Len(chain)
    <3>1. ~(nodes[p].next_leaf <= 0)
      BY <1>4
    <3> QED BY <1>1, <2>1, <3>1, ChainFields
  <2>3. chain[i + 1] \in Leaves
    BY <2>2, ChainFields
  <2>4. pos[chain[i + 1]] = i + 1
    <3>1. chain[pos[chain[i + 1]]] = chain[i + 1] /\ pos[chain[i + 1]] \in 1 .. Len(chain)
      BY <1>2, <2>3
    <3>2. i + 1 \in DOMAIN chain /\ pos[chain[i + 1]] \in DOMAIN chain
      BY <1>1, <2>2, <3>1
    <3>3. PICK j \in DOMAIN chain : j = pos[chain[i + 1]]
      BY <3>2
    <3>4. chain[j] = chain[i + 1]
      BY <3>1, <3>3
    <3> HIDE DEF pos
    <3>5. j = i + 1
      BY <3>2, <3>4 DEF IsChain
    <3> QED BY <3>3, <3>5
  <2>5. next[p] = chain[i + 1]
    BY <2>2
  <2>6. rank[p] = Len(chain) - i /\ rank[chain[i + 1]] = Len(chain) - (i + 1)
    BY <2>1, <2>3, <2>4
  <2> HIDE DEF rank, next, pos
  <2> QED BY <1>1, <2>1, <2>3, <2>5, <2>6
<1>5. rank \in [Leaves -> Nat]
  BY <1>3
<1> HIDE DEF rank, pos
<1>6. Len(chain) + 1 \in Nat
  BY <1>1
<1>7. Descends(Leaves, rank, Len(chain) + 1, ends, next)
  BY <1>3, <1>4, <1>5, <1>6 DEF Descends
<1> QED BY <1>7

LEMMA ChainFound ==
  ASSUME NodesInv, NEW level, Levels(level), NEW edge, LeftEdge(edge),
         NEW chain, IsChain(chain)
  PROVE  Chain = chain
<1> DEFINE V == Seq(Leaves)
           next == [p \in Leaves |-> nodes[p].next_leaf]
           ends == {p \in Leaves : nodes[p].next_leaf <= 0}
           base == [p \in Leaves |-> <<p>>]
           step == [x \in Leaves \X V |-> <<x[1]>> \o x[2]]
           IsAlong(f) == f = [p \in Leaves |->
                                IF nodes[p].next_leaf <= 0 THEN <<p>>
                                ELSE <<p>> \o f[nodes[p].next_leaf]]
<1>1. \E f : IsAlong(f)
  <2>1. PICK rank : Descends(Leaves, rank, Len(chain) + 1, ends, next)
    BY ChainDescends
  <2>2. Yields(Leaves, V, ends, base, step)
    <3>1. \A p \in Leaves : \A v \in V : step[<<p, v>>] \in V
      BY ConcatProperties
    <3>2. \A p \in ends : base[p] \in V
      OBVIOUS
    <3> QED BY <3>1, <3>2 DEF Yields
  <2>3. \A p \in Leaves \ ends : next[p] \in Leaves
    BY <2>1 DEF Descends
  <2> HIDE DEF base, step, V
  <2>4. PICK f \in [Leaves -> V] :
          \A p \in Leaves : f[p] = IF p \in ends THEN base[p] ELSE step[<<p, f[next[p]]>>]
    BY <2>1, <2>2, Recursion
  <2>5. \A p \in Leaves : f[p] = IF nodes[p].next_leaf <= 0 THEN <<p>>
                                 ELSE <<p>> \o f[nodes[p].next_leaf]
    BY <2>3, <2>4 DEF base, step
  <2> QED BY <2>4, <2>5
<1>2. PICK along : IsAlong(along) /\ Chain = along[Leftmost]
  <2>1. IsAlong(CHOOSE f : IsAlong(f))
    BY <1>1
  <2>2. Chain = (CHOOSE f : IsAlong(f))[Leftmost]
    BY DEF Chain
  <2> QED BY <2>1, <2>2
<1>3. \A p \in Leaves : along[p] = IF nodes[p].next_leaf <= 0 THEN <<p>>
                                   ELSE <<p>> \o along[nodes[p].next_leaf]
  BY <1>2
<1> HIDE DEF IsAlong
<1>4. PICK n \in Nat \ {0} : n = Len(chain)
  BY ChainFields
<1>10. ASSUME NEW i \in 1 .. n
       PROVE  SubSeq(chain, i, n) = <<chain[i]>> \o SubSeq(chain, i + 1, n)
  <2>1. chain \in Seq(Leaves) /\ i \in 1 .. Len(chain) /\ n \in i .. Len(chain)
    BY <1>4 DEF IsChain
  <2> QED BY <2>1, SubSeqRecursiveFirst
<1> DEFINE P == 1 .. n
           rank == [i \in P |-> n - i]
           good == {i \in P : along[chain[i]] = SubSeq(chain, i, n)}
<1>5. ASSUME NEW i \in P, \A j \in P : rank[j] < rank[i] => j \in good
      PROVE  i \in good
  <2>1. chain[i] \in Leaves
    BY <1>4, ChainFields
  <2>2. CASE i = n
    <3>1. along[chain[i]] = <<chain[i]>>
      BY <1>3, <1>4, <2>1, <2>2, ChainFields
    <3>2. SubSeq(chain, n, n) = <<chain[n]>>
      <4>1. SubSeq(chain, n + 1, n) = <<>>
        BY <1>4, SubSeqEmpty
      <4>2. n \in 1 .. n
        BY <1>4
      <4>3. SubSeq(chain, n, n) = <<chain[n]>> \o SubSeq(chain, n + 1, n)
        BY <1>10, <4>2
      <4>4. <<chain[n]>> \in Seq(Leaves)
        BY <1>4, ChainFields
      <4> QED BY <4>1, <4>3, <4>4, ConcatEmptySeq
    <3> QED BY <2>2, <3>1, <3>2
  <2>3. CASE i # n
    <3>1. i + 1 \in P /\ i < n /\ i <= n
      BY <2>3
    <3>2. i + 1 \in good
      BY <1>5, <3>1
    <3>5. PICK p \in Leaves : p = chain[i]
      BY <2>1
    <3>6. ~(nodes[p].next_leaf <= 0) /\ nodes[p].next_leaf = chain[i + 1]
      BY <1>4, <2>3, <3>1, <3>5, ChainFields
    <3>3. along[p] = <<p>> \o along[chain[i + 1]]
      BY <1>3, <3>6
    <3> QED BY <1>10, <3>2, <3>3, <3>5
  <2> QED BY <2>2, <2>3
<1>6. rank \in [P -> Nat]
  OBVIOUS
<1>7. \A i \in P : i \in good
  <2> HIDE DEF P, rank, good
  <2> QED BY <1>5, <1>6, RankInduction
<1>8. along[chain[1]] = SubSeq(chain, 1, n)
  BY <1>7
<1>9. SubSeq(chain, 1, n) = chain
  <2>1. chain \in Seq(Leaves)
    BY DEF IsChain
  <2> QED BY <1>4, <2>1, SubSeqFull
<1> QED BY <1>2, <1>8, <1>9, LeftmostFound DEF IsChain

(***************************************************************************)
(* The pins.                                                               *)
(***************************************************************************)
PinsOn(pins, p) == IF p \in DOMAIN pins THEN pins[p] ELSE 0

LEMMA NothingPinned == IsABag(EmptyBag) /\ DOMAIN EmptyBag = {}
BY DEF IsABag, EmptyBag, SetToBag

LEMMA Fetched ==
  ASSUME NEW pins, IsABag(pins), NEW p
  PROVE  /\ IsABag(fetch_page(pins, p))
         /\ PinsOn(fetch_page(pins, p), p) = PinsOn(pins, p) + 1
         /\ \A q : q # p => PinsOn(fetch_page(pins, p), q) = PinsOn(pins, q)
<1>1. \A e \in DOMAIN pins : pins[e] \in Nat /\ pins[e] > 0
  BY DEF IsABag
<1>2. fetch_page(pins, p) = [e \in DOMAIN pins \cup {p} |->
                               (IF e \in DOMAIN pins THEN pins[e] ELSE 0)
                               + (IF e \in {p} THEN 1 ELSE 0)]
  BY DEF fetch_page, SetToBag, (+)
<1> QED BY <1>1, <1>2 DEF IsABag, PinsOn

LEMMA PagesOf ==
  ASSUME NEW pins, NEW p
  PROVE  DOMAIN fetch_page(pins, p) = DOMAIN pins \cup {p}
BY DEF fetch_page, SetToBag, (+)

LEMMA Unpinned ==
  ASSUME NEW pins, IsABag(pins), NEW p
  PROVE  /\ IsABag(unpin_page(pins, p))
         /\ PinsOn(unpin_page(pins, p), p)
              = IF PinsOn(pins, p) = 0 THEN 0 ELSE PinsOn(pins, p) - 1
         /\ \A q : q # p => PinsOn(unpin_page(pins, p), q) = PinsOn(pins, q)
<1>1. \A e \in DOMAIN pins : pins[e] \in Nat /\ pins[e] > 0
  BY DEF IsABag
<1> DEFINE left == [e \in DOMAIN pins |-> IF e \in {p} THEN pins[e] - 1 ELSE pins[e]]
<1>2. unpin_page(pins, p) = [e \in {d \in DOMAIN left : left[d] > 0} |-> left[e]]
  BY DEF unpin_page, SetToBag, (-)
<1> QED BY <1>1, <1>2 DEF IsABag, PinsOn

LEMMA SamePins ==
  ASSUME NEW a, NEW b, IsABag(a), IsABag(b), \A p : PinsOn(a, p) = PinsOn(b, p)
  PROVE  a = b
<1>1. /\ a = [e \in DOMAIN a |-> a[e]] /\ \A e \in DOMAIN a : a[e] \in Nat /\ a[e] > 0
      /\ b = [e \in DOMAIN b |-> b[e]] /\ \A e \in DOMAIN b : b[e] \in Nat /\ b[e] > 0
  BY DEF IsABag
<1>2. \A e : e \in DOMAIN a <=> e \in DOMAIN b
  <2> TAKE e
  <2>1. PinsOn(a, e) = PinsOn(b, e)
    OBVIOUS
  <2> QED BY <1>1, <2>1 DEF PinsOn
<1>3. DOMAIN a = DOMAIN b
  BY <1>2
<1>4. \A e \in DOMAIN a : a[e] = b[e]
  <2> TAKE e \in DOMAIN a
  <2>1. PinsOn(a, e) = PinsOn(b, e)
    OBVIOUS
  <2> QED BY <1>3, <2>1 DEF PinsOn
<1> QED BY <1>1, <1>3, <1>4

LEMMA PinCounts == \A pins, p : IsABag(pins) => PinsOn(pins, p) \in Nat
BY DEF IsABag, PinsOn

(* To unpin a page undoes a fetch of it, also behind another fetch.        *)
LEMMA PinnedOnce ==
  ASSUME NEW pins, IsABag(pins), NEW p
  PROVE  /\ IsABag(fetch_page(pins, p)) /\ DOMAIN fetch_page(pins, p) = DOMAIN pins \cup {p}
         /\ unpin_page(fetch_page(pins, p), p) = pins
<1>1. PICK once : once = fetch_page(pins, p)
  OBVIOUS
<1>2. /\ IsABag(once) /\ PinsOn(once, p) = PinsOn(pins, p) + 1
      /\ \A q : q # p => PinsOn(once, q) = PinsOn(pins, q)
  BY <1>1, Fetched
<1>3. PICK left : left = unpin_page(once, p)
  OBVIOUS
<1>4. /\ IsABag(left)
      /\ PinsOn(left, p) = IF PinsOn(once, p) = 0 THEN 0 ELSE PinsOn(once, p) - 1
      /\ \A q : q # p => PinsOn(left, q) = PinsOn(once, q)
  BY <1>2, <1>3, Unpinned
<1>5. \A q : PinsOn(left, q) = PinsOn(pins, q)
  BY <1>2, <1>4, PinCounts
<1> QED BY <1>1, <1>2, <1>3, <1>4, <1>5, SamePins, PagesOf

LEMMA PinnedApart ==
  ASSUME NEW pins, IsABag(pins), NEW p, NEW q
  PROVE  unpin_page(fetch_page(fetch_page(pins, p), q), p) = fetch_page(pins, q)
<1>1. PICK once, only : once = fetch_page(pins, p) /\ only = fetch_page(pins, q)
  OBVIOUS
<1>2. /\ IsABag(once) /\ PinsOn(once, p) = PinsOn(pins, p) + 1
      /\ \A r : r # p => PinsOn(once, r) = PinsOn(pins, r)
  BY <1>1, Fetched
<1>3. /\ IsABag(only) /\ PinsOn(only, q) = PinsOn(pins, q) + 1
      /\ \A r : r # q => PinsOn(only, r) = PinsOn(pins, r)
  BY <1>1, Fetched
<1>4. PICK twice : twice = fetch_page(once, q)
  OBVIOUS
<1>5. /\ IsABag(twice) /\ PinsOn(twice, q) = PinsOn(once, q) + 1
      /\ \A r : r # q => PinsOn(twice, r) = PinsOn(once, r)
  BY <1>2, <1>4, Fetched
<1>6. PICK left : left = unpin_page(twice, p)
  OBVIOUS
<1>7. /\ IsABag(left)
      /\ PinsOn(left, p) = IF PinsOn(twice, p) = 0 THEN 0 ELSE PinsOn(twice, p) - 1
      /\ \A r : r # p => PinsOn(left, r) = PinsOn(twice, r)
  BY <1>5, <1>6, Unpinned
<1>8. \A r : PinsOn(left, r) = PinsOn(only, r)
  <2>1. PinsOn(pins, p) \in Nat /\ PinsOn(pins, q) \in Nat
    BY PinCounts
  <2> QED BY <1>2, <1>3, <1>5, <1>7, <2>1
<1>9. left = only
  BY <1>3, <1>7, <1>8, SamePins
<1> QED BY <1>1, <1>4, <1>6, <1>9

LEMMA UsedNothing == \A p : Used(EmptyBag, p) = EmptyBag
BY NothingPinned, PinnedOnce DEF Used

(* A split unpins the two nodes it made of one, in either order.           *)
LEMMA PartedReturns ==
  ASSUME NEW next, NEW pins, pins = fetch_page(EmptyBag, held.page)
  PROVE  /\ Parted(fetch_page(pins, NewPage)) = EmptyBag
         /\ Parted(Told(fetch_page(pins, NewPage), next)) = EmptyBag
<1>1. PICK both : both = fetch_page(pins, NewPage)
  OBVIOUS
<1>2. IsABag(pins) /\ IsABag(both)
  BY <1>1, NothingPinned, PinnedOnce
<1>3. Told(both, next) = both
  BY <1>2, PinnedOnce DEF Told, Used
<1>4. unpin_page(both, held.page) = fetch_page(EmptyBag, NewPage)
  BY <1>1, NothingPinned, PinnedApart
<1>5. Parted(both) = EmptyBag
  BY <1>4, NothingPinned, PinnedOnce DEF Parted
<1> QED BY <1>1, <1>3, <1>5

(* A walk ends with its last page pinned and no other.                     *)
LEMMA WalkedIs ==
  ASSUME NEW pins, IsABag(pins), NEW S, NEW pages \in Seq(S), pages # <<>>
  PROVE  Walked(pins, pages) = fetch_page(pins, Last(pages))
<1> DEFINE n == Len(pages)
           P == 1 .. n
           IsAt(f) == f = [i \in P |->
                             IF i = 1 THEN fetch_page(pins, pages[1])
                             ELSE fetch_page(unpin_page(f[i - 1], pages[i - 1]), pages[i])]
           g == [i \in P |-> fetch_page(pins, pages[i])]
<1>1. n \in Nat \ {0}
  BY EmptySeq
<1>2. \A p : unpin_page(fetch_page(pins, p), p) = pins
  BY PinnedOnce
<1>3. IsAt(g)
  <2>1. ASSUME NEW i \in P
        PROVE  g[i] = IF i = 1 THEN fetch_page(pins, pages[1])
                      ELSE fetch_page(unpin_page(g[i - 1], pages[i - 1]), pages[i])
    <3>1. CASE i = 1
      BY <3>1
    <3>2. CASE i # 1
      <4>1. i - 1 \in P
        BY <1>1, <3>2
      <4>2. unpin_page(g[i - 1], pages[i - 1]) = pins
        BY <1>2, <4>1
      <4> QED BY <3>2, <4>2
    <3> QED BY <3>1, <3>2
  <2> QED BY <2>1
<1>4. PICK at : IsAt(at) /\ Walked(pins, pages) = at[n]
  <2>1. IsAt(CHOOSE f : IsAt(f))
    BY <1>3
  <2>2. Walked(pins, pages) = (CHOOSE f : IsAt(f))[n]
    BY DEF Walked
  <2> QED BY <2>1, <2>2
<1>5. \A i \in P : at[i] = IF i = 1 THEN fetch_page(pins, pages[1])
                           ELSE fetch_page(unpin_page(at[i - 1], pages[i - 1]), pages[i])
  BY <1>4
<1> HIDE DEF IsAt
<1> DEFINE good == {i \in P : at[i] = fetch_page(pins, pages[i])}
           rank == [i \in P |-> i]
<1>6. ASSUME NEW i \in P, \A j \in P : rank[j] < rank[i] => j \in good
      PROVE  i \in good
  <2>1. CASE i = 1
    BY <1>5, <2>1
  <2>2. CASE i # 1
    <3>1. i - 1 \in P /\ i - 1 < i
      BY <1>1, <2>2
    <3>2. PICK j \in P : j = i - 1
      BY <3>1
    <3>3. at[j] = fetch_page(pins, pages[j])
      BY <1>6, <3>1, <3>2
    <3>4. unpin_page(at[j], pages[j]) = pins
      BY <1>2, <3>3
    <3> QED BY <1>5, <2>2, <3>2, <3>4
  <2> QED BY <2>1, <2>2
<1>7. rank \in [P -> Nat]
  BY <1>1
<1>8. \A i \in P : i \in good
  <2> HIDE DEF P, rank, good
  <2> QED BY <1>6, <1>7, RankInduction
<1>9. n \in P
  BY <1>1
<1> QED BY <1>4, <1>8, <1>9 DEF Last

LEMMA Continued ==
  ASSUME NEW S, NEW a \in Seq(S), a # <<>>, NEW b \in Seq(S), b # <<>>, b[1] = Last(a)
  PROVE  a \o Tail(b) \in Seq(S) /\ a \o Tail(b) # <<>> /\ Last(a \o Tail(b)) = Last(b)
<1>1. PICK t : t = Tail(b)
  OBVIOUS
<1>2. /\ t \in Seq(S) /\ Len(t) = Len(b) - 1 /\ \A i \in 1 .. Len(t) : t[i] = b[i + 1]
      /\ Len(a) \in Nat \ {0} /\ Len(b) \in Nat \ {0}
  BY <1>1, EmptySeq, HeadTailProperties
<1>3. PICK c : c = a \o t
  OBVIOUS
<1>4. /\ c \in Seq(S) /\ Len(c) = Len(a) + Len(t)
      /\ \A i \in 1 .. Len(a) + Len(t) : c[i] = IF i <= Len(a) THEN a[i] ELSE t[i - Len(a)]
  BY <1>2, <1>3, ConcatProperties
<1>5. c # <<>>
  BY <1>2, <1>4
<1>6. c[Len(c)] = b[Len(b)]
  <2>1. CASE Len(b) = 1
    <3>1. Len(c) = Len(a) /\ Len(a) \in 1 .. Len(a) + Len(t) /\ Len(a) <= Len(a)
      BY <1>2, <1>4, <2>1
    <3>2. c[Len(a)] = a[Len(a)]
      BY <1>4, <3>1
    <3> QED BY <2>1, <3>1, <3>2 DEF Last
  <2>2. CASE Len(b) # 1
    <3>1. PICK m \in Nat, k \in Nat \ {0} : m = Len(a) /\ k = Len(t)
      BY <1>2, <2>2
    <3>2. Len(c) = m + k /\ m + k \in 1 .. m + k /\ ~(m + k <= m) /\ (m + k) - m = k
          /\ k \in 1 .. k /\ k + 1 = Len(b)
      BY <1>2, <1>4, <3>1
    <3>3. c[m + k] = t[k]
      BY <1>4, <3>1, <3>2
    <3>4. t[k] = b[k + 1]
      BY <1>2, <3>1, <3>2
    <3> QED BY <3>2, <3>3, <3>4
  <2> QED BY <2>1, <2>2
<1> QED BY <1>1, <1>3, <1>4, <1>5, <1>6 DEF Last

(* The leaves a loop over the chain fetches: from the first to one of ends. *)
LEMMA LeavesFound ==
  ASSUME NodesInv, NEW chain, IsChain(chain), NEW ends \in SUBSET Leaves,
         \A p \in Leaves : nodes[p].next_leaf <= 0 => p \in ends, NEW first \in Leaves
  PROVE  /\ LeavesTo(ends, first) \in Seq(Leaves) /\ LeavesTo(ends, first) # <<>>
         /\ LeavesTo(ends, first)[1] = first /\ Last(LeavesTo(ends, first)) \in ends
<1> DEFINE V == Seq(Leaves)
           next == [p \in Leaves |-> nodes[p].next_leaf]
           base == [p \in Leaves |-> <<p>>]
           step == [x \in Leaves \X V |-> <<x[1]>> \o x[2]]
           IsAlong(f) == f = [p \in Leaves |->
                                IF p \in ends THEN <<p>> ELSE <<p>> \o f[nodes[p].next_leaf]]
<1>1. PICK rank : Descends(Leaves, rank, Len(chain) + 1, ends, next)
  BY ChainDescends
<1>2. \A p \in Leaves \ ends : next[p] \in Leaves /\ rank[next[p]] < rank[p]
  BY <1>1 DEF Descends
<1>3. \E f : IsAlong(f) /\ f \in [Leaves -> V]
  <2>1. \A p \in Leaves : \A v \in V : step[<<p, v>>] \in V
    BY ConcatProperties
  <2>2. Yields(Leaves, V, ends, base, step)
    BY <2>1 DEF Yields
  <2> HIDE DEF base, step, V
  <2>4. PICK f \in [Leaves -> V] :
          \A p \in Leaves : f[p] = IF p \in ends THEN base[p] ELSE step[<<p, f[next[p]]>>]
    BY <1>1, <2>2, Recursion
  <2>5. \A p \in Leaves : f[p] = IF p \in ends THEN <<p>> ELSE <<p>> \o f[nodes[p].next_leaf]
    BY <1>2, <2>4 DEF base, step
  <2> QED BY <2>4, <2>5
<1>4. PICK along : IsAlong(along) /\ LeavesTo(ends, first) = along[first]
  <2>1. IsAlong(CHOOSE f : IsAlong(f))
    BY <1>3
  <2>2. LeavesTo(ends, first) = (CHOOSE f : IsAlong(f))[first]
    BY DEF LeavesTo
  <2> QED BY <2>1, <2>2
<1>5. \A p \in Leaves : along[p] = IF p \in ends THEN <<p>>
                                   ELSE <<p>> \o along[nodes[p].next_leaf]
  BY <1>4
<1> HIDE DEF IsAlong
<1> DEFINE Fine(s, p) == s \in V /\ s # <<>> /\ s[1] = p /\ Last(s) \in ends
           good == {p \in Leaves : Fine(along[p], p)}
<1>6. ASSUME NEW p \in Leaves, \A q \in Leaves : rank[q] < rank[p] => q \in good
      PROVE  Fine(along[p], p)
  <2>1. CASE p \in ends
    <3>1. along[p] = <<p>>
      BY <1>5, <2>1
    <3> QED BY <2>1, <3>1 DEF Last
  <2>2. CASE p \notin ends
    <3>1. PICK q : q = next[p]
      OBVIOUS
    <3>2. q \in Leaves /\ rank[q] < rank[p] /\ q = nodes[p].next_leaf
      BY <1>2, <2>2, <3>1
    <3>3. PICK s : s = along[q]
      OBVIOUS
    <3>4. Fine(s, q)
      BY <1>6, <3>2, <3>3
    <3>5. along[p] = <<p>> \o s
      BY <1>5, <2>2, <3>2, <3>3
    <3>6. PICK t : t = <<p>> \o s
      OBVIOUS
    <3>7. t \in V /\ t # <<>> /\ t[1] = p /\ Last(t) = Last(s)
      <4>1. p \in Leaves /\ s \in Seq(Leaves) /\ s # <<>>
        BY <3>4
      <4>2. PICK S : S = Leaves
        OBVIOUS
      <4>3. p \in S /\ s \in Seq(S) /\ s # <<>>
        BY <4>1, <4>2
      <4>4. t \in Seq(S) /\ t # <<>> /\ t[1] = p /\ Last(t) = Last(s)
        BY <3>6, <4>3, Behind
      <4> QED BY <4>2, <4>4
    <3> QED BY <3>4, <3>5, <3>6, <3>7
  <2> QED BY <2>1, <2>2
<1>7. \A p \in Leaves : p \in good
  <2>1. rank \in [Leaves -> Nat]
    BY <1>1 DEF Descends
  <2>2. \A p \in Leaves : (\A q \in Leaves : rank[q] < rank[p] => q \in good) => p \in good
    BY <1>6
  <2> HIDE DEF good
  <2> QED BY <2>1, <2>2, RankInduction
<1> QED BY <1>4, <1>7

(* Down a path and along the chain: the leaf where the loop ends is pinned. *)
LEMMA WalkEnds ==
  ASSUME NodesInv, NEW chain, IsChain(chain), NEW ends \in SUBSET Leaves,
         \A p \in Leaves : nodes[p].next_leaf <= 0 => p \in ends,
         NEW to \in Seq(PageIds), to # <<>>, Last(to) \in Leaves, pinned = EmptyBag,
         NEW leaves, leaves = LeavesTo(ends, Last(to))
  PROVE  /\ Walked(pinned, to \o Tail(leaves)) = fetch_page(EmptyBag, Last(leaves))
         /\ unpin_page(Walked(pinned, to \o Tail(leaves)), Last(leaves)) = EmptyBag
         /\ Last(leaves) \in ends
<1>1. leaves \in Seq(Leaves) /\ leaves # <<>> /\ leaves[1] = Last(to) /\ Last(leaves) \in ends
  BY LeavesFound
<1>2. leaves \in Seq(PageIds)
  BY <1>1 DEF Leaves
<1>3. PICK all : all = to \o Tail(leaves)
  OBVIOUS
<1>4. all \in Seq(PageIds) /\ all # <<>> /\ Last(all) = Last(leaves)
  BY <1>1, <1>2, <1>3, Continued
<1>5. Walked(pinned, all) = fetch_page(EmptyBag, Last(all))
  BY <1>4, NothingPinned, WalkedIs
<1>6. unpin_page(fetch_page(EmptyBag, Last(all)), Last(all)) = EmptyBag
  BY NothingPinned, PinnedOnce
<1> QED BY <1>1, <1>3, <1>4, <1>5, <1>6

LEMMA LeafFound ==
  ASSUME NodesInv, NEW level, Levels(level), NEW key \in SearchKeys
  PROVE  PathTo(key) \in Seq(PageIds) /\ PathTo(key) # <<>> /\ LeafOf(key) \in Leaves
<1>1. /\ PathTo(key) \in Seq(PageIds) /\ Len(PathTo(key)) = level[root_page_id] + 1
      /\ \A i \in 1 .. Len(PathTo(key)) : level[PathTo(key)[i]] = Len(PathTo(key)) - i
  BY PathFound
<1>2. level[root_page_id] \in Nat
  BY DEF Levels
<1>3. LeafOf(key) \in PageIds /\ level[LeafOf(key)] = 0
  BY <1>1, <1>2 DEF LeafOf, Last
<1> QED BY <1>1, <1>2, <1>3 DEF Levels, Leaves

(* delete() looks at leaves only, and gives up or finds the pair in one;   *)
(* only that leaf, or the one it gives up at, is pinned then.              *)
LEMMA TriedEnds ==
  ASSUME NodesInv, NEW level, Levels(level), NEW chain, IsChain(chain),
         NEW key \in SearchKeys, NEW rid
  PROVE  /\ Last(Tried(key, rid)) \in Leaves
         /\ pinned = EmptyBag =>
              PinsOfDelete(key, rid) = fetch_page(EmptyBag, Last(Tried(key, rid)))
<1> DEFINE ends == {p \in Leaves : Holds(nodes[p], key, rid) \/ Stops(nodes[p], key)}
<1>1. PathTo(key) \in Seq(PageIds) /\ PathTo(key) # <<>> /\ LeafOf(key) \in Leaves
  BY LeafFound
<1>2. \A p \in Leaves : nodes[p].next_leaf <= 0 => p \in ends
  BY DEF Stops
<1>3. ends \in SUBSET Leaves /\ Tried(key, rid) = LeavesTo(ends, LeafOf(key))
  BY DEF Tried
<1> HIDE DEF ends
<1>4. Last(LeavesTo(ends, LeafOf(key))) \in ends
  BY <1>1, <1>2, <1>3, LeavesFound
<1>5. ASSUME pinned = EmptyBag
      PROVE  PinsOfDelete(key, rid) = fetch_page(EmptyBag, Last(Tried(key, rid)))
  <2>1. Tried(key, rid) = LeavesTo(ends, Last(PathTo(key))) /\ Last(PathTo(key)) \in Leaves
    BY <1>1, <1>3 DEF LeafOf
  <2>2. Walked(pinned, PathTo(key) \o Tail(Tried(key, rid)))
        = fetch_page(EmptyBag, Last(Tried(key, rid)))
    BY <1>1, <1>2, <1>3, <1>5, <2>1, WalkEnds
  <2> QED BY <2>2 DEF PinsOfDelete
<1> QED BY <1>3, <1>4, <1>5

LEMMA HolderFound ==
  ASSUME NodesInv, NEW level, Levels(level), NEW chain, IsChain(chain),
         NEW key \in SearchKeys, NEW rid, HolderOf(key, rid) # 0
  PROVE  /\ HolderOf(key, rid) \in Leaves
         /\ Holds(nodes[HolderOf(key, rid)], key, rid)
         /\ HolderOf(key, rid) = Last(Tried(key, rid))
<1>1. Last(Tried(key, rid)) \in Leaves
  BY TriedEnds
<1>2. HolderOf(key, rid) = Last(Tried(key, rid)) /\ Holds(nodes[Last(Tried(key, rid))], key, rid)
  BY DEF HolderOf
<1> QED BY <1>1, <1>2

LEMMA DepthFound ==
  ASSUME NodesInv, NEW level, Levels(level)
  PROVE  Depth = {level[root_page_id]}
<1> DEFINE IsDepth(f) == f = [p \in PageIds |->
                                IF nodes[p].is_leaf THEN {0}
                                ELSE {1 + d : d \in UNION {f[c] : c \in Children(p)}}]
           one == [p \in PageIds |-> {level[p]}]
<1>1. ASSUME NEW p \in PageIds, ~nodes[p].is_leaf
      PROVE  /\ level[p] \in Nat /\ Children(p) # {}
             /\ \A c \in Children(p) : c \in PageIds /\ level[c] + 1 = level[p]
                                       /\ level[c] \in Nat
  <2>1. p \in PageIds \ Leaves
    BY <1>1 DEF Leaves
  <2>2. nodes[p].keys \in Seq(SearchKeys) /\ nodes[p].pointers \in Seq(PageIds)
        /\ Len(nodes[p].pointers) = Len(nodes[p].keys) + 1
    BY <2>1, NodeFields
  <2>3. 1 \in DOMAIN nodes[p].pointers
    BY <2>2
  <2>4. \A i \in DOMAIN nodes[p].pointers : nodes[p].pointers[i] \in PageIds
    BY <2>2
  <2>5. \A i \in DOMAIN nodes[p].pointers : level[nodes[p].pointers[i]] + 1 = level[p]
    BY <2>1 DEF Levels
  <2>6. level \in [PageIds -> Nat]
    BY DEF Levels
  <2>7. Children(p) = {nodes[p].pointers[i] : i \in DOMAIN nodes[p].pointers}
    BY DEF Children, ToSet
  <2> QED BY <2>3, <2>4, <2>5, <2>6, <2>7
<1>2. IsDepth(one)
  <2>1. ASSUME NEW p \in PageIds, ~nodes[p].is_leaf
        PROVE  {level[p]} = {1 + d : d \in UNION {one[c] : c \in Children(p)}}
    <3>1. \A c \in Children(p) : one[c] = {level[c]} /\ 1 + level[c] = level[p]
      BY <1>1, <2>1
    <3>2. PICK c \in Children(p) : TRUE
      BY <1>1, <2>1
    <3> HIDE DEF one
    <3>3. \A d : d \in UNION {one[b] : b \in Children(p)} => 1 + d = level[p]
      BY <3>1
    <3>4. level[c] \in UNION {one[b] : b \in Children(p)}
      BY <3>1, <3>2
    <3> QED BY <3>1, <3>3, <3>4
  <2>2. \A p \in PageIds : nodes[p].is_leaf => {level[p]} = {0}
    BY DEF Levels
  <2> QED BY <2>1, <2>2
<1>3. PICK depth : IsDepth(depth) /\ Depth = depth[root_page_id]
  <2>1. IsDepth(CHOOSE f : IsDepth(f))
    BY <1>2
  <2>2. Depth = (CHOOSE f : IsDepth(f))[root_page_id]
    BY DEF Depth
  <2> QED BY <2>1, <2>2
<1>4. \A p \in PageIds :
        depth[p] = IF nodes[p].is_leaf THEN {0}
                   ELSE {1 + d : d \in UNION {depth[c] : c \in Children(p)}}
  BY <1>3
<1> HIDE DEF IsDepth, one
<1> DEFINE good == {p \in PageIds : depth[p] = {level[p]}}
<1>5. ASSUME NEW p \in PageIds, \A q \in PageIds : level[q] < level[p] => q \in good
      PROVE  p \in good
  <2>1. CASE nodes[p].is_leaf
    BY <1>4, <2>1 DEF Levels
  <2>2. CASE ~nodes[p].is_leaf
    <3>1. \A c \in Children(p) : depth[c] = {level[c]} /\ 1 + level[c] = level[p]
      BY <1>1, <1>5, <2>2
    <3>2. PICK c \in Children(p) : TRUE
      BY <1>1, <2>2
    <3>3. \A d : d \in UNION {depth[b] : b \in Children(p)} => 1 + d = level[p]
      BY <3>1
    <3>4. level[c] \in UNION {depth[b] : b \in Children(p)}
      BY <3>1, <3>2
    <3>5. {1 + d : d \in UNION {depth[b] : b \in Children(p)}} = {level[p]}
      BY <3>1, <3>3, <3>4
    <3> QED BY <1>4, <2>2, <3>5
  <2> QED BY <2>1, <2>2
<1>6. root_page_id \in good
  <2>1. level \in [PageIds -> Nat] /\ root_page_id \in PageIds
    BY DEF Levels
  <2> HIDE DEF good
  <2> QED BY <1>5, <2>1, RankInduction
<1> QED BY <1>3, <1>6
-----------------------------------------------------------------------------
Splitting == pc \in {"split_leaf", "update_parent", "split_internal", "split_root"}

(* A split works its way up the path that was found, level by level.       *)
PathInv(level) ==
  /\ path \in Seq(PageIds)
  /\ Splitting =>
       /\ Len(path) >= 1 /\ path[1] = root_page_id
       /\ \A i \in 1 .. Len(path) : level[path[i]] = Len(path) - i

(* The node held is the page's own with one key too many.                  *)
HeldInv(level) ==
  /\ pc = "split_leaf" =>
       /\ held.page = path[Len(path)]
       /\ held.node \in LeafNode
       /\ Len(held.node.entries) = ORDER + 1
       /\ held.node.prev_leaf = nodes[held.page].prev_leaf
       /\ held.node.next_leaf = nodes[held.page].next_leaf
  /\ pc = "split_internal" =>
       /\ split.idx \in 1 .. Len(path) - 1
       /\ held.page = path[split.idx]
       /\ held.node \in InnerNode
       /\ held.node.pointers \in Seq(PageIds)
       /\ Len(held.node.keys) = ORDER + 1
       /\ Len(held.node.pointers) = ORDER + 2
       /\ held.node.pointers[1] = nodes[held.page].pointers[1]
       /\ \A i \in DOMAIN held.node.pointers :
            level[held.node.pointers[i]] + 1 = level[held.page]
  /\ pc \notin {"split_leaf", "split_internal"} => held = NoNode

(* The new page waits for its parent on the level of the page it was split *)
(* from, which has one, or for a new root.                                 *)
PendingInv(level) ==
  pc \in {"update_parent", "split_root"} =>
    /\ split.idx \in 0 .. Len(path) - 1
    /\ split.node = path[split.idx + 1]
    /\ split.new \in PageIds /\ level[split.new] = level[split.node]
    /\ Len(Keys(nodes[split.new])) >= 1
    /\ split.separator \in SearchKeys \cup {0}
    /\ pc = "update_parent" => split.idx # 0
    /\ pc = "split_root" => split.idx = 0 /\ split.separator \in SearchKeys

HeaderInv ==
  /\ pc \in {"idle", "split_leaf", "update_parent", "split_internal", "split_root", "raised"}
  /\ metadata.root_page_id = root_page_id
  /\ metadata.num_keys \in Nat
  /\ num_keys \in Nat \/ (pc = "raised" /\ num_keys = -1)

(* Between two steps the node that is held is pinned, once, and no other.  *)
PinsInv ==
  /\ IsABag(pinned) /\ DOMAIN pinned \subseteq 0 .. Len(nodes)
  /\ pc \in {"split_leaf", "split_internal"} => pinned = fetch_page(EmptyBag, held.page)
  /\ pc \in {"idle", "update_parent", "split_root"} => pinned = EmptyBag

(* The leaves hold the pairs the callers asked for, each of them once.     *)
Holding(L, held_by, rs) ==
  /\ held_by \in [L -> Seq(EntryType)]
  /\ \A p \in L : \A i \in DOMAIN held_by[p] : held_by[p][i] \in rs
  /\ \A e \in rs : \E p \in L : \E i \in DOMAIN held_by[p] : held_by[p][i] = e
  /\ \A p, q \in L : \A i \in DOMAIN held_by[p] : \A j \in DOMAIN held_by[q] :
       held_by[p][i] = held_by[q][j] => p = q /\ i = j
EntriesOf == [p \in Leaves |-> Content(p).entries]
PairsInv ==
  /\ IsFiniteSet(rows) /\ \A e \in rows : e[2][1] = e[1]
  /\ Holding(Leaves, EntriesOf, rows)

Shape(level, edge, chain) ==
  NodesInv /\ Levels(level) /\ LeftEdge(edge) /\ IsChain(chain)
CallInv(level) ==
  PathInv(level) /\ HeldInv(level) /\ PendingInv(level) /\ HeaderInv /\ PinsInv
TreeInv ==
  /\ PairsInv
  /\ \E level, edge, chain : Shape(level, edge, chain) /\ CallInv(level)
-----------------------------------------------------------------------------
(***************************************************************************)
(* The operations on a node.                                               *)
(***************************************************************************)
LEMMA LeafKeys ==
  ASSUME NEW leaf \in LeafNode
  PROVE  /\ leaf.is_leaf /\ leaf.entries \in Seq(EntryType)
         /\ leaf.prev_leaf \in Int /\ leaf.next_leaf \in Int
         /\ KeysOf(leaf.entries) \in Seq(SearchKeys) /\ KeysOf(leaf.entries) \in Seq(Int)
         /\ Len(KeysOf(leaf.entries)) = Len(leaf.entries)
         /\ Keys(leaf) = KeysOf(leaf.entries)
         /\ \A i \in 1 .. Len(leaf.entries) :
              KeysOf(leaf.entries)[i] = leaf.entries[i][1]
<1>1. leaf.is_leaf /\ leaf.entries \in Seq(EntryType)
      /\ leaf.prev_leaf \in Int /\ leaf.next_leaf \in Int
  BY DEF LeafNode
<1>2. \A i \in 1 .. Len(leaf.entries) : leaf.entries[i][1] \in SearchKeys
  <2>1. \A i \in 1 .. Len(leaf.entries) : leaf.entries[i] \in EntryType
    BY <1>1
  <2> QED BY <2>1 DEF EntryType
<1>3. KeysOf(leaf.entries) = [i \in 1 .. Len(leaf.entries) |-> leaf.entries[i][1]]
  BY DEF KeysOf
<1>4. KeysOf(leaf.entries) \in Seq(SearchKeys)
      /\ Len(KeysOf(leaf.entries)) = Len(leaf.entries)
  BY <1>1, <1>2, <1>3, IsASeq
<1>5. KeysOf(leaf.entries) \in Seq(Int)
  BY <1>4, TreeAssumption, SeqMonotonic
<1> QED BY <1>1, <1>3, <1>4, <1>5 DEF Keys

LEMMA LeafInserted ==
  ASSUME NEW leaf \in LeafNode, NEW key \in SearchKeys, NEW rid \in AllRids
  PROVE  LET new == insert(leaf, key, rid)
             at == Place(KeysOf(leaf.entries), key)
         IN  /\ new \in LeafNode /\ new.entries = InsertAt(leaf.entries, at, <<key, rid>>)
             /\ new.prev_leaf = leaf.prev_leaf /\ new.next_leaf = leaf.next_leaf
             /\ at \in 1 .. Len(leaf.entries) + 1
             /\ Len(new.entries) = Len(leaf.entries) + 1
             /\ \A j \in 1 .. Len(leaf.entries) + 1 :
                  new.entries[j] = IF j < at THEN leaf.entries[j]
                                   ELSE IF j = at THEN <<key, rid>>
                                   ELSE leaf.entries[j - 1]
<1> DEFINE at == Place(KeysOf(leaf.entries), key)
           es == InsertAt(leaf.entries, at, <<key, rid>>)
<1>1. leaf.entries \in Seq(EntryType) /\ <<key, rid>> \in EntryType
  BY LeafKeys DEF EntryType
<1>2. at \in 1 .. Len(leaf.entries) + 1
  BY LeafKeys, PlaceOf, TreeAssumption
<1> HIDE DEF at
<1>3. /\ es \in Seq(EntryType) /\ Len(es) = Len(leaf.entries) + 1
      /\ \A j \in 1 .. Len(leaf.entries) + 1 :
           es[j] = IF j < at THEN leaf.entries[j]
                   ELSE IF j = at THEN <<key, rid>> ELSE leaf.entries[j - 1]
  <2>1. PICK s, e, i : s = leaf.entries /\ e = <<key, rid>> /\ i = at
    OBVIOUS
  <2>2. s \in Seq(EntryType) /\ e \in EntryType /\ i \in 1 .. Len(s) + 1
    BY <1>1, <1>2, <2>1
  <2>3. InsertAt(s, i, e) \in Seq(EntryType) /\ Len(InsertAt(s, i, e)) = Len(s) + 1
    BY <2>2, Inserting
  <2>4. ASSUME NEW j \in 1 .. Len(s) + 1
        PROVE  InsertAt(s, i, e)[j] = IF j < i THEN s[j] ELSE IF j = i THEN e ELSE s[j - 1]
    BY <2>2, Inserting
  <2> QED BY <2>1, <2>3, <2>4
<1>4. insert(leaf, key, rid) = [leaf EXCEPT !.entries = es]
  BY DEF insert, at
<1> HIDE DEF es
<1>5. insert(leaf, key, rid) \in LeafNode
  BY <1>3, <1>4 DEF LeafNode
<1>6. /\ insert(leaf, key, rid).entries = es
      /\ insert(leaf, key, rid).prev_leaf = leaf.prev_leaf
      /\ insert(leaf, key, rid).next_leaf = leaf.next_leaf
  BY <1>4 DEF LeafNode
<1>7. es = InsertAt(leaf.entries, at, <<key, rid>>)
  BY DEF es
<1> QED BY <1>2, <1>3, <1>5, <1>6, <1>7 DEF at

Dropped(s, t, at, e) ==
  /\ at \in 1 .. Len(s) /\ s[at] = e /\ Len(t) = Len(s) - 1
  /\ \A j \in 1 .. Len(s) - 1 : t[j] = IF j < at THEN s[j] ELSE s[j + 1]

LEMMA LeafRemoved ==
  ASSUME NEW leaf \in LeafNode, NEW key \in SearchKeys, NEW rid,
         Holds(leaf, key, rid)
  PROVE  LET new == remove_key(leaf, key, rid)
         IN  /\ new \in LeafNode
             /\ new.prev_leaf = leaf.prev_leaf /\ new.next_leaf = leaf.next_leaf
             /\ \E at : Dropped(leaf.entries, new.entries, at, <<key, rid>>)
<1> DEFINE s == leaf.entries
           at == SelectInSeq(s, LAMBDA v : v = <<key, rid>>)
           I == {i \in 1 .. Len(s) : s[i] = <<key, rid>>}
<1>1. s \in Seq(EntryType) /\ Len(s) \in Nat
  BY LeafKeys
<1>2. PICK i \in 1 .. Len(s) : s[i] = <<key, rid>>
  <2> DEFINE r == Reach(leaf, key)
             n == Place(KeysOf(leaf.entries), key) - 1
  <2>1. PICK i \in 1 .. Len(r) : r[i] = <<key, rid>>
    BY DEF Holds, Contains
  <2>2. n \in 0 .. Len(s)
    <3>1. PICK ks : ks = KeysOf(s)
      OBVIOUS
    <3>2. ks \in Seq(Int) /\ Len(ks) = Len(s) /\ key \in Int
      BY <3>1, LeafKeys, TreeAssumption
    <3>3. Place(ks, key) \in 1 .. Len(ks) + 1
      BY <3>2, PlaceOf
    <3> QED BY <1>1, <3>1, <3>2, <3>3
  <2>3. r = SubSeq(s, 1, n)
    BY DEF Reach
  <2> HIDE DEF n, r
  <2>4. Len(r) = n /\ \A j \in 1 .. n : r[j] = s[j]
    BY <1>1, <2>2, <2>3, SubSeqProperties
  <2> QED BY <1>1, <2>1, <2>2, <2>4
<1>3. I \in SUBSET Nat /\ I # {}
  BY <1>1, <1>2
<1>4. at \in I
  BY <1>3, LeastOf DEF SelectInSeq, Min
<1> HIDE DEF at, I
<1>5. at \in 1 .. Len(s) /\ s[at] = <<key, rid>>
  BY <1>4 DEF I
<1> DEFINE es == RemoveAt(s, at)
<1>6. remove_key(leaf, key, rid) = [leaf EXCEPT !.entries = es]
  BY <1>2 DEF remove_key, RemoveFirst, at
<1>7. /\ es \in Seq(EntryType) /\ Len(es) = Len(s) - 1
      /\ \A j \in 1 .. Len(s) - 1 : es[j] = IF j < at THEN s[j] ELSE s[j + 1]
  BY <1>1, <1>5, Removing
<1>9. Dropped(s, es, at, <<key, rid>>)
  BY <1>5, <1>7 DEF Dropped
<1> HIDE DEF es
<1>8. remove_key(leaf, key, rid) \in LeafNode
      /\ remove_key(leaf, key, rid).entries = es
      /\ remove_key(leaf, key, rid).prev_leaf = leaf.prev_leaf
      /\ remove_key(leaf, key, rid).next_leaf = leaf.next_leaf
  BY <1>6, <1>7 DEF LeafNode
<1> QED BY <1>8, <1>9

Grows(node, key, pointer, P) ==
  /\ node \in InnerNode /\ node.pointers \in Seq(P) /\ P \subseteq Nat
  /\ Len(node.pointers) = Len(node.keys) + 1
  /\ key \in SearchKeys /\ pointer \in P

LEMMA PointerInserted ==
  ASSUME NEW node, NEW key, NEW pointer, NEW P, Grows(node, key, pointer, P)
  PROVE  LET new == insert_pointer(node, key, pointer)
             at == Place(node.keys, key)
         IN  /\ new \in InnerNode /\ new.pointers \in Seq(P)
             /\ at \in 1 .. Len(node.keys) + 1
             /\ Len(new.keys) = Len(node.keys) + 1
             /\ Len(new.pointers) = Len(new.keys) + 1
             /\ \A j \in 1 .. Len(node.keys) + 1 :
                  new.keys[j] = IF j < at THEN node.keys[j]
                                ELSE IF j = at THEN key ELSE node.keys[j - 1]
             /\ \A j \in 1 .. Len(node.pointers) + 1 :
                  new.pointers[j] = IF j < at + 1 THEN node.pointers[j]
                                    ELSE IF j = at + 1 THEN pointer
                                    ELSE node.pointers[j - 1]
<1> USE DEF Grows
<1> DEFINE at == Place(node.keys, key)
           ks == InsertAt(node.keys, at, key)
           ps == InsertAt(node.pointers, at + 1, pointer)
<1>1. node.keys \in Seq(SearchKeys) /\ node.pointers \in Seq(Nat) /\ SearchKeys \subseteq Int
  BY TreeAssumption DEF InnerNode
<1>2. at \in 1 .. Len(node.keys) + 1
  <2>1. node.keys \in Seq(Int)
    BY <1>1, SeqMonotonic
  <2> QED BY <1>1, <2>1, PlaceOf
<1> HIDE DEF at
<1>3. /\ ks \in Seq(SearchKeys) /\ Len(ks) = Len(node.keys) + 1
      /\ \A j \in 1 .. Len(node.keys) + 1 :
           ks[j] = IF j < at THEN node.keys[j] ELSE IF j = at THEN key ELSE node.keys[j - 1]
  <2>1. PICK s, i, e : s = node.keys /\ i = at /\ e = key
    OBVIOUS
  <2>2. s \in Seq(SearchKeys) /\ i \in 1 .. Len(s) + 1 /\ e \in SearchKeys
    BY <1>1, <1>2, <2>1
  <2> HIDE DEF Grows
  <2>3. InsertAt(s, i, e) \in Seq(SearchKeys) /\ Len(InsertAt(s, i, e)) = Len(s) + 1
    BY <2>2, Inserting
  <2>4. ASSUME NEW j \in 1 .. Len(s) + 1
        PROVE  InsertAt(s, i, e)[j] = IF j < i THEN s[j] ELSE IF j = i THEN e ELSE s[j - 1]
    BY ONLY <2>2, <2>4, Inserting, SMTT(30)
  <2> QED BY <2>1, <2>3, <2>4
<1>4. /\ ps \in Seq(P) /\ Len(ps) = Len(node.pointers) + 1
      /\ \A j \in 1 .. Len(node.pointers) + 1 :
           ps[j] = IF j < at + 1 THEN node.pointers[j]
                   ELSE IF j = at + 1 THEN pointer ELSE node.pointers[j - 1]
  <2>1. PICK s, i : s = node.pointers /\ i = at + 1
    OBVIOUS
  <2>2. s \in Seq(P) /\ i \in 1 .. Len(s) + 1
    <3>1. Len(node.keys) \in Nat
      BY <1>1
    <3> QED BY <1>2, <2>1, <3>1
  <2>3. InsertAt(s, i, pointer) \in Seq(P) /\ Len(InsertAt(s, i, pointer)) = Len(s) + 1
    BY <2>2, Inserting
  <2>4. ASSUME NEW j \in 1 .. Len(s) + 1
        PROVE  InsertAt(s, i, pointer)[j] =
                 IF j < i THEN s[j] ELSE IF j = i THEN pointer ELSE s[j - 1]
    BY <2>2, Inserting
  <2> QED BY <2>1, <2>3, <2>4
<1>5. insert_pointer(node, key, pointer) = [node EXCEPT !.keys = ks, !.pointers = ps]
  BY DEF insert_pointer, at
<1> HIDE DEF ks, ps
<1>6. ps \in Seq(Nat)
  BY <1>4, SeqMonotonic
<1>7. insert_pointer(node, key, pointer) \in InnerNode
      /\ insert_pointer(node, key, pointer).keys = ks
      /\ insert_pointer(node, key, pointer).pointers = ps
  BY <1>3, <1>5, <1>6 DEF InnerNode
<1>8. Len(ps) = Len(ks) + 1
  BY <1>1, <1>3, <1>4
<1> QED BY <1>2, <1>3, <1>4, <1>7, <1>8 DEF at

\* The pointers of a node with a key more, one at a time (b_tree_page.py, insert_pointer):
\* those up to the place stay, the new one comes, the others move up by one.
LEMMA PointerPlaced ==
  ASSUME NEW node, NEW key, NEW pointer, NEW P, Grows(node, key, pointer, P),
         NEW j \in 1 .. Len(node.pointers) + 1
  PROVE  insert_pointer(node, key, pointer).pointers[j] =
           IF j < Place(node.keys, key) + 1 THEN node.pointers[j]
           ELSE IF j = Place(node.keys, key) + 1 THEN pointer ELSE node.pointers[j - 1]
<1>1. \A i \in 1 .. Len(node.pointers) + 1 :
        insert_pointer(node, key, pointer).pointers[i] =
          IF i < Place(node.keys, key) + 1 THEN node.pointers[i]
          ELSE IF i = Place(node.keys, key) + 1 THEN pointer ELSE node.pointers[i - 1]
  BY PointerInserted
<1> QED BY <1>1

LEMMA Cut ==
  ASSUME NEW T, NEW s \in Seq(T), NEW n \in 0 .. Len(s)
  PROVE  /\ UpTo(s, n) \in Seq(T) /\ Len(UpTo(s, n)) = n
         /\ \A j \in 1 .. n : UpTo(s, n)[j] = s[j]
         /\ From(s, n + 1) \in Seq(T) /\ Len(From(s, n + 1)) = Len(s) - n
         /\ \A j \in 1 .. Len(s) - n : From(s, n + 1)[j] = s[n + j]
<1>1. Len(s) \in Nat /\ n \in Nat /\ n <= Len(s)
  OBVIOUS
<1>2. /\ UpTo(s, n) \in Seq(T) /\ Len(UpTo(s, n)) = n
      /\ \A j \in 1 .. n : UpTo(s, n)[j] = s[j]
  BY <1>1, SubSeqProperties DEF UpTo
<1>3. /\ From(s, n + 1) \in Seq(T) /\ Len(From(s, n + 1)) = Len(s) - n
      /\ \A j \in 1 .. Len(s) - n : From(s, n + 1)[j] = s[n + j]
  <2>1. CASE n = Len(s)
    BY <1>1, <2>1, SubSeqEmpty, EmptySeq DEF From
  <2>2. CASE n < Len(s)
    <3>1. \A i \in n + 1 .. Len(s) : s[i] \in T
      BY <1>1
    <3>2. /\ From(s, n + 1) \in Seq(T)
          /\ Len(From(s, n + 1)) = Len(s) - (n + 1) + 1
          /\ \A j \in 1 .. Len(s) - (n + 1) + 1 : From(s, n + 1)[j] = s[(n + 1) + j - 1]
      BY <1>1, <2>2, <3>1, SubSeqProperties DEF From
    <3>3. Len(s) - (n + 1) + 1 = Len(s) - n /\ \A j \in Nat : (n + 1) + j - 1 = n + j
      BY <1>1
    <3>4. ASSUME NEW j \in 1 .. Len(s) - n
          PROVE  From(s, n + 1)[j] = s[n + j]
      <4>1. From(s, n + 1)[j] = s[(n + 1) + j - 1]
        BY <3>2, <3>3
      <4>2. (n + 1) + j - 1 = n + j
        BY <1>1
      <4> QED BY <4>1, <4>2
    <3> QED BY <3>2, <3>3, <3>4
  <2> QED BY <1>1, <2>1, <2>2
<1> QED BY <1>2, <1>3

(* Both halves of a node with one key too many fit their pages, and the    *)
(* right one has a key.                                                    *)
LEMMA Halves ==
  /\ (ORDER + 1) \div 2 \in 1 .. ORDER - 1
  /\ ORDER + 1 - (ORDER + 1) \div 2 \in 1 .. ORDER
  /\ ORDER - (ORDER + 1) \div 2 \in 1 .. ORDER
BY OrderAssumption
-----------------------------------------------------------------------------
(***************************************************************************)
(* What each change of the file does to the shape of the tree.             *)
(***************************************************************************)
LEMMA LeafIsNode ==
  ASSUME NEW leaf \in LeafNode,
         leaf.prev_leaf \in PageIds \cup {NoLeaf}, leaf.next_leaf \in PageIds \cup {NoLeaf}
  PROVE  leaf \in Node /\ IsNode(leaf) /\ Len(Keys(leaf)) = Len(leaf.entries)
BY LeafKeys DEF IsNode, Node

LEMMA InnerIsNode ==
  ASSUME NEW node \in InnerNode, node.pointers \in Seq(PageIds),
         Len(node.pointers) = Len(node.keys) + 1
  PROVE  node \in Node /\ IsNode(node) /\ Len(Keys(node)) = Len(node.keys)
         /\ ~node.is_leaf /\ node.keys \in Seq(SearchKeys)
BY DEF IsNode, Node, InnerNode, Keys

LEMMA NodeKept ==
  ASSUME NEW node, IsNode(node), Len(nodes) \in Nat, Len(nodes') \in Nat,
         Len(nodes) <= Len(nodes')
  PROVE  IsNode(node)' /\ PageIds \subseteq PageIds'
<1>1. PageIds \subseteq PageIds'
  BY DEF PageIds
<1>2. CASE node.is_leaf
  BY <1>1, <1>2 DEF IsNode
<1>3. CASE ~node.is_leaf
  <2>1. node.pointers \in Seq(PageIds')
    BY <1>1, <1>3, SeqMonotonic DEF IsNode
  <2>2. node.keys \in Seq(SearchKeys) /\ Len(node.pointers) = Len(node.keys) + 1
    BY <1>3 DEF IsNode
  <2>3. IsNode(node)' <=> /\ node.keys \in Seq(SearchKeys)
                          /\ node.pointers \in Seq(PageIds')
                          /\ Len(node.pointers) = Len(node.keys) + 1
    BY <1>3 DEF IsNode
  <2> QED BY <1>1, <2>1, <2>2, <2>3
<1> QED BY <1>1, <1>2, <1>3

LEMMA Replaced ==
  ASSUME NEW T, NEW s \in Seq(T), NEW i \in 1 .. Len(s), NEW e \in T,
         NEW r, r = [s EXCEPT ![i] = e]
  PROVE  /\ r \in Seq(T) /\ Len(r) = Len(s)
         /\ \A j \in 1 .. Len(s) : r[j] = IF j = i THEN e ELSE s[j]
BY ExceptSeq

(* The entries of a leaf change and its links do not.                      *)
LEMMA LeafChanged ==
  ASSUME NEW level, NEW edge, NEW chain, Shape(level, edge, chain),
         NEW p \in Leaves, NEW leaf \in LeafNode,
         leaf.prev_leaf = nodes[p].prev_leaf, leaf.next_leaf = nodes[p].next_leaf,
         Len(leaf.entries) <= ORDER,
         nodes' = [nodes EXCEPT ![p] = leaf], root_page_id' = root_page_id
  PROVE  /\ Shape(level, edge, chain)'
         /\ Leaves' = Leaves /\ PageIds' = PageIds /\ Len(nodes') = Len(nodes)
         /\ \A q \in PageIds : nodes'[q] = IF q = p THEN leaf ELSE nodes[q]
<1> USE DEF Shape
<1>1. nodes \in Seq(Node) /\ p \in PageIds /\ nodes[p].is_leaf /\ leaf.is_leaf
      /\ DOMAIN nodes = PageIds /\ Len(nodes) \in Nat
  BY NodeFields DEF NodesInv, Leaves, LeafNode
<1>2. Len(nodes') = Len(nodes) /\ \A q \in PageIds : nodes'[q] = IF q = p THEN leaf ELSE nodes[q]
  BY <1>1
<1>3. PageIds' = PageIds
  BY <1>2 DEF PageIds
<1>4. Leaves' = Leaves
  BY <1>1, <1>2, <1>3 DEF Leaves
<1>5. leaf.prev_leaf \in PageIds \cup {NoLeaf} /\ leaf.next_leaf \in PageIds \cup {NoLeaf}
  BY NodeFields
<1>6. leaf \in Node /\ IsNode(leaf) /\ Len(Keys(leaf)) <= ORDER
  BY <1>5, LeafIsNode
<1>7. NodesInv'
  <2>1. nodes' \in Seq(Node)
    BY <1>1, <1>6, ExceptSeq
  <2>2. ASSUME NEW q \in PageIds PROVE IsNode(nodes[q])' /\ Len(Keys(nodes'[q])) <= ORDER
    <3>1. PICK node : node = nodes'[q]
      OBVIOUS
    <3>2. IsNode(node) /\ Len(Keys(node)) <= ORDER
      BY <1>2, <1>6, <3>1 DEF NodesInv
    <3>3. IsNode(node)'
      BY <1>1, <1>2, <3>2, NodeKept
    <3> QED BY <3>1, <3>2, <3>3
  <2> QED BY <1>3, <2>1, <2>2 DEF NodesInv
<1>8. \A q \in PageIds : ~nodes[q].is_leaf => nodes'[q] = nodes[q]
  BY <1>1, <1>2
<1>9. \A q \in PageIds : nodes'[q].is_leaf <=> nodes[q].is_leaf
  BY <1>1, <1>2
<1>10. Levels(level)'
  BY <1>3, <1>4, <1>8, <1>9 DEF Levels, Leaves
<1>11. LeftEdge(edge)'
  BY <1>3, <1>8, <1>9 DEF LeftEdge
<1>12. IsChain(chain)'
  <2>1. \A q \in Leaves : nodes'[q].prev_leaf = nodes[q].prev_leaf
                          /\ nodes'[q].next_leaf = nodes[q].next_leaf
    BY <1>2 DEF Leaves
  <2>2. \A i \in DOMAIN chain : chain[i] \in Leaves
    BY DEF IsChain
  <2> QED BY <1>4, <2>1, <2>2 DEF IsChain
<1> QED BY <1>2, <1>3, <1>4, <1>7, <1>10, <1>11, <1>12

(* An inner node gets pointers to pages one level below it.                *)
LEMMA InnerChanged ==
  ASSUME NEW level, NEW edge, NEW chain, Shape(level, edge, chain),
         NEW p \in PageIds \ Leaves, NEW node \in InnerNode,
         node.pointers \in Seq(PageIds), Len(node.pointers) = Len(node.keys) + 1,
         Len(node.keys) <= ORDER, node.pointers[1] = nodes[p].pointers[1],
         \A i \in DOMAIN node.pointers : level[node.pointers[i]] + 1 = level[p],
         nodes' = [nodes EXCEPT ![p] = node], root_page_id' = root_page_id
  PROVE  /\ Shape(level, edge, chain)'
         /\ Leaves' = Leaves /\ PageIds' = PageIds /\ Len(nodes') = Len(nodes)
         /\ \A q \in PageIds : nodes'[q] = IF q = p THEN node ELSE nodes[q]
<1> USE DEF Shape
<1>1. nodes \in Seq(Node) /\ p \in PageIds /\ ~nodes[p].is_leaf
      /\ DOMAIN nodes = PageIds /\ Len(nodes) \in Nat
  BY NodeFields DEF NodesInv, Leaves
<1>2. Len(nodes') = Len(nodes) /\ \A q \in PageIds : nodes'[q] = IF q = p THEN node ELSE nodes[q]
  BY <1>1
<1>3. PageIds' = PageIds
  BY <1>2 DEF PageIds
<1>4. node \in Node /\ IsNode(node) /\ Len(Keys(node)) <= ORDER /\ ~node.is_leaf
  BY InnerIsNode
<1>5. \A q \in PageIds : nodes'[q].is_leaf <=> nodes[q].is_leaf
  BY <1>1, <1>2, <1>4
<1>6. Leaves' = Leaves
  BY <1>3, <1>5 DEF Leaves
<1>7. NodesInv'
  <2>1. nodes' \in Seq(Node)
    BY <1>1, <1>4, ExceptSeq
  <2>2. ASSUME NEW q \in PageIds PROVE IsNode(nodes[q])' /\ Len(Keys(nodes'[q])) <= ORDER
    <3>1. PICK n : n = nodes'[q]
      OBVIOUS
    <3>2. IsNode(n) /\ Len(Keys(n)) <= ORDER
      BY <1>2, <1>4, <3>1 DEF NodesInv
    <3>3. IsNode(n)'
      BY <1>1, <1>2, <3>2, NodeKept
    <3> QED BY <3>1, <3>2, <3>3
  <2> QED BY <1>3, <2>1, <2>2 DEF NodesInv
<1>8. \A q \in PageIds \ {p} : nodes'[q] = nodes[q]
  BY <1>2
<1>9. nodes'[p] = node
  BY <1>2
<1>10. Levels(level)'
  BY <1>3, <1>5, <1>6, <1>8, <1>9 DEF Levels
<1>11. LeftEdge(edge)'
  BY <1>1, <1>3, <1>5, <1>8, <1>9 DEF LeftEdge
<1>12. IsChain(chain)'
  <2>1. \A i \in DOMAIN chain : chain[i] \in Leaves
    BY DEF IsChain
  <2>2. \A q \in Leaves : nodes'[q] = nodes[q]
    BY <1>8 DEF Leaves
  <2> QED BY <1>6, <2>1, <2>2 DEF IsChain
<1> QED BY <1>2, <1>3, <1>6, <1>7, <1>10, <1>11, <1>12

(* A page is added at the end of the file.                                 *)
LEMMA PageAdded ==
  ASSUME NodesInv, NEW ns \in Seq(Node), Len(ns) = Len(nodes),
         NEW node \in Node, nodes' = Append(ns, node),
         \A q \in PageIds : IsNode(ns[q])' /\ Len(Keys(ns[q])) <= ORDER,
         IsNode(node)', Len(Keys(node)) <= ORDER
  PROVE  /\ NodesInv' /\ Len(nodes') = Len(nodes) + 1
         /\ PageIds' = PageIds \cup {NewPage} /\ NewPage \notin PageIds /\ NewPage \in Nat
         /\ nodes'[NewPage] = node /\ \A q \in PageIds : nodes'[q] = ns[q]
<1>1. Len(nodes) \in Nat
  BY NodeFields
<1>2. Len(nodes') = Len(nodes) + 1 /\ nodes' \in Seq(Node)
  BY <1>1, AppendProperties
<1>3. PageIds' = PageIds \cup {NewPage} /\ NewPage \notin PageIds /\ NewPage \in Nat
  BY <1>1, <1>2 DEF PageIds, NewPage
<1>4. nodes'[NewPage] = node /\ \A q \in PageIds : nodes'[q] = ns[q]
  BY <1>1, AppendProperties DEF NewPage, PageIds
<1>5. \A q \in PageIds' : IsNode(nodes[q])' /\ Len(Keys(nodes'[q])) <= ORDER
  <2>1. ASSUME NEW q \in PageIds PROVE IsNode(nodes[q])' /\ Len(Keys(nodes'[q])) <= ORDER
    <3>1. PICK n : n = ns[q]
      OBVIOUS
    <3>2. IsNode(n)' /\ Len(Keys(n)) <= ORDER
      BY <3>1
    <3> QED BY <1>4, <3>1, <3>2
  <2>2. PICK r : r = NewPage
    OBVIOUS
  <2>3. nodes'[r] = node
    BY <1>4, <2>2
  <2>4. IsNode(nodes[r])' /\ Len(Keys(nodes'[r])) <= ORDER
    BY <2>3
  <2> QED BY <1>3, <2>1, <2>2, <2>4
<1> QED BY <1>2, <1>3, <1>4, <1>5 DEF NodesInv

(* A leaf is split: its new right half comes next in the chain.            *)
Halved(old, ns, p, new, low, high) ==
  /\ \A q \in Leaves : q # p => ns[q].entries = old[q].entries
  /\ ns[p] = low /\ ns[new] = high

LEMMA LeafSplit ==
  ASSUME NEW level, NEW edge, NEW chain, Shape(level, edge, chain),
         NEW k \in DOMAIN chain, NEW new, new = NewPage,
         NEW low \in LeafNode, NEW high \in LeafNode,
         low.prev_leaf = nodes[chain[k]].prev_leaf, low.next_leaf = new,
         high.prev_leaf = chain[k], high.next_leaf = nodes[chain[k]].next_leaf,
         Len(low.entries) <= ORDER, Len(high.entries) <= ORDER,
         nodes' = Append([Neighbour(nodes, high.next_leaf, new) EXCEPT ![chain[k]] = low], high),
         root_page_id' = root_page_id,
         NEW level2, level2 = [p \in PageIds' |-> IF p = new THEN 0 ELSE level[p]],
         NEW chain2, chain2 = InsertAt(chain, k + 1, new)
  PROVE  /\ Shape(level2, edge, chain2)'
         /\ PageIds' = PageIds \cup {new} /\ new \notin PageIds
         /\ Leaves' = Leaves \cup {new} /\ Len(nodes') = Len(nodes) + 1
         /\ Halved(nodes, nodes', chain[k], new, low, high)
<1> USE DEF Shape
<1> DEFINE next == high.next_leaf
           n == Len(chain)
           ns == [Neighbour(nodes, next, new) EXCEPT ![chain[k]] = low]
<1>1. PICK p \in Leaves : p = chain[k]
  BY DEF IsChain
<1>2. /\ nodes \in Seq(Node) /\ DOMAIN nodes = PageIds /\ Len(nodes) \in Nat
      /\ p \in PageIds /\ nodes[p] \in LeafNode /\ new \in Nat /\ new > 0 /\ new \notin PageIds
      /\ n \in Nat \ {0} /\ DOMAIN chain = 1 .. n /\ k \in 1 .. n
  BY <1>1, NodeFields, ChainFields DEF NodesInv, NewPage, PageIds
<1>3. /\ next > 0 <=> k < n
      /\ k < n => next = chain[k + 1] /\ next \in Leaves /\ next # p /\ nodes[next] \in LeafNode
  <2>1. next <= 0 <=> k = n
    BY <1>1, <1>2, ChainFields
  <2>2. next \in Int
    BY DEF LeafNode
  <2>3. ASSUME k < n
        PROVE  next = chain[k + 1] /\ next \in Leaves /\ next # p /\ nodes[next] \in LeafNode
    <3>1. k + 1 \in 1 .. n /\ k + 1 # k
      BY <1>2, <2>3
    <3>2. next = chain[k + 1] /\ chain[k + 1] \in Leaves
      BY <1>1, <1>2, <2>3, <3>1, ChainFields
    <3>3. chain[k + 1] # chain[k]
      BY <1>2, <3>1 DEF IsChain
    <3> QED BY <1>1, <3>2, <3>3, NodeFields
  <2> QED BY <1>2, <2>1, <2>2, <2>3
<1> DEFINE told == [nodes[next] EXCEPT !.prev_leaf = new]
<1>4. next > 0 => /\ told \in LeafNode /\ told.entries = nodes[next].entries
                  /\ told.prev_leaf = new /\ told.next_leaf = nodes[next].next_leaf
  BY <1>2, <1>3 DEF LeafNode
<1>5. /\ ns \in Seq(Node) /\ Len(ns) = Len(nodes)
      /\ \A q \in PageIds : ns[q] = IF q = p THEN low
                                    ELSE IF next > 0 /\ q = next THEN told ELSE nodes[q]
  <2>1. low \in Node
    BY DEF Node
  <2>2. CASE next > 0
    <3>1. Neighbour(nodes, next, new) = [nodes EXCEPT ![next] = told]
      BY <2>2 DEF Neighbour
    <3>2. told \in Node /\ next \in DOMAIN nodes
      BY <1>2, <1>3, <1>4, <2>2, NodeFields DEF Node
    <3> HIDE DEF told, next
    <3>3. PICK ms : ms = [nodes EXCEPT ![next] = told]
      OBVIOUS
    <3>4. ms \in Seq(Node) /\ Len(ms) = Len(nodes)
          /\ \A q \in PageIds : ms[q] = IF q = next THEN told ELSE nodes[q]
      BY <1>2, <3>2, <3>3, Replaced DEF PageIds
    <3>5. ns = [ms EXCEPT ![p] = low]
      BY <1>1, <3>1, <3>3
    <3> HIDE DEF ns
    <3>6. ns \in Seq(Node) /\ Len(ns) = Len(nodes)
          /\ \A q \in PageIds : ns[q] = IF q = p THEN low ELSE ms[q]
      BY <1>2, <2>1, <3>4, <3>5, Replaced DEF PageIds
    <3> QED BY <2>2, <3>4, <3>6
  <2>3. CASE ~(next > 0)
    <3>1. Neighbour(nodes, next, new) = nodes
      BY <2>3 DEF Neighbour
    <3>2. ns = [nodes EXCEPT ![p] = low]
      BY <1>1, <3>1
    <3> HIDE DEF ns, next
    <3>3. ns \in Seq(Node) /\ Len(ns) = Len(nodes)
          /\ \A q \in PageIds : ns[q] = IF q = p THEN low ELSE nodes[q]
      BY <1>2, <2>1, <3>2, Replaced DEF PageIds
    <3> QED BY <2>3, <3>3
  <2> QED BY <2>2, <2>3
<1>12. PICK ms : ms = ns
  OBVIOUS
<1>13. /\ ms \in Seq(Node) /\ Len(ms) = Len(nodes)
       /\ \A q \in PageIds : ms[q] = IF q = p THEN low
                                     ELSE IF next > 0 /\ q = next THEN told ELSE nodes[q]
  BY <1>5, <1>12
<1>6. nodes' = Append(ms, high)
  BY <1>12
<1> HIDE DEF ns
<1>7. Len(nodes') = Len(nodes) + 1 /\ PageIds' = PageIds \cup {new} /\ PageIds \subseteq PageIds'
  BY <1>2, <1>6, <1>13, AppendProperties DEF PageIds, NewPage
<1>8. high \in Node /\ IsNode(high)' /\ Len(Keys(high)) <= ORDER
  <2>1. high.prev_leaf \in PageIds' /\ high.next_leaf \in PageIds' \cup {NoLeaf}
    BY <1>1, <1>2, <1>7, NodeFields
  <2> QED BY <2>1, LeafKeys DEF IsNode, Node
<1>9. \A q \in PageIds : IsNode(ms[q])' /\ Len(Keys(ms[q])) <= ORDER
  <2> SUFFICES ASSUME NEW q \in PageIds PROVE IsNode(ms[q])' /\ Len(Keys(ms[q])) <= ORDER
    OBVIOUS
  <2>1. CASE q = p
    <3>1. low.prev_leaf \in PageIds' \cup {NoLeaf} /\ low.next_leaf \in PageIds'
      BY <1>1, <1>7, NodeFields
    <3>2. IsNode(low)' /\ Len(Keys(low)) <= ORDER
      BY <3>1, LeafKeys DEF IsNode
    <3>3. PICK r : r = ms[q]
      OBVIOUS
    <3>4. r = low
      BY <1>13, <2>1, <3>3
    <3> QED BY <3>2, <3>3, <3>4
  <2>2. CASE q # p /\ next > 0 /\ q = next
    <3>1. told.prev_leaf \in PageIds' /\ told.next_leaf \in PageIds' \cup {NoLeaf}
      BY <1>3, <1>4, <1>7, <2>2, NodeFields
    <3>2. Len(told.entries) <= ORDER
      BY <1>2, <1>3, <1>4, <2>2, LeafKeys DEF NodesInv
    <3>3. PICK r : r = ms[q]
      OBVIOUS
    <3>4. r = told /\ r \in LeafNode
      BY <1>4, <1>13, <2>2, <3>3
    <3> HIDE DEF told
    <3>5. IsNode(r)' /\ Len(Keys(r)) <= ORDER
      BY <3>1, <3>2, <3>4, LeafKeys DEF IsNode
    <3> QED BY <3>3, <3>5
  <2>3. CASE q # p /\ ~(next > 0 /\ q = next)
    <3>1. PICK r : r = nodes[q]
      OBVIOUS
    <3>2. IsNode(r) /\ Len(Keys(r)) <= ORDER
      BY <3>1 DEF NodesInv
    <3>3. IsNode(r)'
      BY <1>2, <1>7, <3>2, NodeKept, SMTT(30)
    <3>4. PICK t : t = ms[q]
      OBVIOUS
    <3>5. t = r
      BY <1>13, <2>3, <3>1, <3>4
    <3> QED BY <3>2, <3>3, <3>4, <3>5
  <2> QED BY <2>1, <2>2, <2>3
<1>10. /\ NodesInv' /\ nodes'[new] = high /\ \A q \in PageIds : nodes'[q] = ms[q]
  BY <1>6, <1>8, <1>9, <1>13, PageAdded, ZenonT(30)
<1>11. /\ nodes'[p] = low
       /\ \A q \in PageIds \ Leaves : nodes'[q] = nodes[q]
       /\ \A q \in PageIds : nodes'[q].is_leaf <=> nodes[q].is_leaf
       /\ \A q \in Leaves : q # p => nodes'[q].entries = nodes[q].entries
                                     /\ nodes'[q].next_leaf = nodes[q].next_leaf
       /\ \A q \in Leaves : q # p /\ ~(next > 0 /\ q = next) =>
                                     nodes'[q].prev_leaf = nodes[q].prev_leaf
       /\ next > 0 => nodes'[next].prev_leaf = new
  <2>1. nodes'[p] = low /\ low.is_leaf /\ nodes[p].is_leaf
    BY <1>2, <1>10, <1>13 DEF LeafNode
  <2>2. \A q \in PageIds : q # p /\ ~(next > 0 /\ q = next) => nodes'[q] = nodes[q]
    BY <1>10, <1>13
  <2>3. next > 0 => nodes'[next] = told /\ next # p /\ nodes[next].is_leaf /\ told.is_leaf
                    /\ next \in Leaves
    BY <1>3, <1>4, <1>10, <1>13, NodeFields DEF LeafNode
  <2>4. \A q \in PageIds \ Leaves : q # p /\ ~(next > 0 /\ q = next)
    BY <1>1, <2>3
  <2> HIDE DEF told, next
  <2>5. \A q \in PageIds \ Leaves : nodes'[q] = nodes[q]
    BY <2>2, <2>4
  <2>6. \A q \in PageIds : nodes'[q].is_leaf <=> nodes[q].is_leaf
    BY <2>1, <2>2, <2>3, ZenonT(30)
  <2>7. ASSUME NEW q \in Leaves, q # p
        PROVE  /\ nodes'[q].entries = nodes[q].entries
               /\ nodes'[q].next_leaf = nodes[q].next_leaf
               /\ ~(next > 0 /\ q = next) => nodes'[q].prev_leaf = nodes[q].prev_leaf
    <3>1. q \in PageIds
      BY DEF Leaves
    <3> QED BY <1>4, <2>2, <2>3, <2>7, <3>1
  <2> QED BY <1>4, <2>1, <2>3, <2>5, <2>6, <2>7
<1> HIDE DEF told
<1>14. Leaves' = Leaves \cup {new}
  <2>1. high.is_leaf
    BY DEF LeafNode
  <2>2. nodes'[new].is_leaf
    BY <1>10, <2>1
  <2>3. \A q \in PageIds : q \in Leaves <=> nodes'[q].is_leaf
    BY <1>11 DEF Leaves
  <2>4. Leaves \subseteq PageIds /\ new \notin PageIds
    BY <1>2 DEF Leaves
  <2>5. \A q : q \in Leaves' <=> q \in PageIds' /\ nodes'[q].is_leaf
    BY DEF Leaves
  <2> QED BY <1>7, <2>2, <2>3, <2>4, <2>5
<1>15. Levels(level2)'
  <2>1. level2[new] = 0 /\ \A q \in PageIds : level2[q] = level[q]
    BY <1>2, <1>7
  <2>2. level2 \in [PageIds' -> Nat]
    BY <1>7, <2>1 DEF Levels
  <2>3. root_page_id' \in PageIds' /\ \A q \in PageIds' : level2[q] <= level2[root_page_id']
    BY <1>7, <2>1 DEF Levels
  <2>4. \A q \in PageIds' : nodes'[q].is_leaf <=> level2[q] = 0
    <3>1. nodes'[new].is_leaf
      BY <1>10 DEF LeafNode
    <3> QED BY <1>7, <1>11, <2>1, <3>1 DEF Levels
  <2>5. \A q \in PageIds' \ Leaves' : q \in PageIds \ Leaves /\ nodes'[q] = nodes[q]
    BY <1>7, <1>11, <1>14
  <2>6. ASSUME NEW q \in PageIds \ Leaves, NEW i \in DOMAIN nodes[q].pointers
        PROVE  level2[nodes[q].pointers[i]] + 1 = level2[q]
    <3>1. nodes[q].pointers[i] \in PageIds
      BY NodeFields
    <3>2. level[nodes[q].pointers[i]] + 1 = level[q]
      BY DEF Levels
    <3> QED BY <2>1, <3>1, <3>2
  <2>7. \A q \in PageIds' \ Leaves' : \A i \in DOMAIN nodes'[q].pointers :
          level2[nodes'[q].pointers[i]] + 1 = level2[q]
    <3> SUFFICES ASSUME NEW q \in PageIds' \ Leaves', NEW i \in DOMAIN nodes'[q].pointers
                 PROVE  level2[nodes'[q].pointers[i]] + 1 = level2[q]
      OBVIOUS
    <3>1. q \in PageIds \ Leaves /\ nodes'[q] = nodes[q]
      BY <2>5
    <3>2. i \in DOMAIN nodes[q].pointers
      BY <3>1
    <3>3. level2[nodes[q].pointers[i]] + 1 = level2[q]
      BY <2>6, <3>1, <3>2
    <3> QED BY <3>1, <3>3
  <2> QED BY <2>2, <2>3, <2>4, <2>7 DEF Levels
<1>16. LeftEdge(edge)'
  BY <1>7, <1>11, ZenonT(30) DEF LeftEdge, Leaves
<1>17. IsChain(chain2)'
  <2>1. /\ chain2 \in Seq(Leaves') /\ Len(chain2) = n + 1
        /\ \A j \in 1 .. n + 1 : chain2[j] = IF j < k + 1 THEN chain[j]
                                            ELSE IF j = k + 1 THEN new ELSE chain[j - 1]
    <3>1. chain \in Seq(Leaves') /\ new \in Leaves' /\ k + 1 \in 1 .. Len(chain) + 1
      <4>1. Leaves \subseteq Leaves' /\ chain \in Seq(Leaves)
        BY <1>14 DEF IsChain
      <4> QED BY <1>2, <1>14, <4>1, SeqMonotonic
    <3>2. PICK L, i : L = Leaves' /\ i = k + 1
      OBVIOUS
    <3>3. chain \in Seq(L) /\ new \in L /\ i \in 1 .. Len(chain) + 1
      BY <3>1, <3>2
    <3>4. InsertAt(chain, i, new) \in Seq(L) /\ Len(InsertAt(chain, i, new)) = Len(chain) + 1
      BY <3>3, Inserting
    <3>5. ASSUME NEW j \in 1 .. Len(chain) + 1
          PROVE  InsertAt(chain, i, new)[j] = IF j < i THEN chain[j]
                                              ELSE IF j = i THEN new ELSE chain[j - 1]
      BY <3>3, Inserting, SMTT(30)
    <3> QED BY <3>2, <3>4, <3>5
  <2>2. DOMAIN chain2 = 1 .. n + 1 /\ chain2 # <<>>
    BY <1>2, <2>1, EmptySeq
  <2>3. \A j \in 1 .. n : chain[j] \in Leaves /\ chain[j] # new
    BY <1>2, ChainFields DEF Leaves
  <2>4. chain2[1] = 1
    <3>1. 1 \in 1 .. n + 1 /\ 1 < k + 1
      BY <1>2
    <3>2. chain2[1] = chain[1]
      BY <2>1, <3>1
    <3> QED BY <3>2 DEF IsChain
  <2>9. \A j \in 1 .. k : j \in 1 .. n + 1 /\ j \in 1 .. n /\ chain2[j] = chain[j]
    BY <1>2, <2>1
  <2>10. k + 1 \in 1 .. n + 1 /\ chain2[k + 1] = new
    BY <1>2, <2>1
  <2>11. \A j \in k + 2 .. n + 1 : j - 1 \in k + 1 .. n /\ j - 1 \in 1 .. n
                                  /\ chain2[j] = chain[j - 1]
    <3> SUFFICES ASSUME NEW j \in k + 2 .. n + 1
                 PROVE  j - 1 \in k + 1 .. n /\ j - 1 \in 1 .. n /\ chain2[j] = chain[j - 1]
      OBVIOUS
    <3>1. j \in 1 .. n + 1 /\ ~(j < k + 1) /\ j # k + 1 /\ j - 1 \in k + 1 .. n /\ j - 1 \in 1 .. n
      BY <1>2
    <3> QED BY <2>1, <3>1
  <2>12. \A i, j \in 1 .. n : chain[i] = chain[j] => i = j
    BY <1>2 DEF IsChain
  <2>13. 1 .. n + 1 = (1 .. k) \cup {k + 1} \cup (k + 2 .. n + 1)
    BY <1>2
  <2>5. \A i, j \in 1 .. n + 1 : chain2[i] = chain2[j] => i = j
    <3>1. \A i \in 1 .. k, j \in 1 .. k : chain2[i] = chain2[j] => i = j
      BY <2>9, <2>12
    <3>2. \A i \in 1 .. k, j \in k + 2 .. n + 1 : chain2[i] # chain2[j]
      <4> SUFFICES ASSUME NEW i \in 1 .. k, NEW j \in k + 2 .. n + 1, chain2[i] = chain2[j]
                   PROVE  FALSE
        OBVIOUS
      <4>1. chain[i] = chain[j - 1] /\ i \in 1 .. n /\ j - 1 \in 1 .. n
        BY <2>9, <2>11
      <4>2. i = j - 1
        BY <2>12, <4>1
      <4> QED BY <1>2, <4>2
    <3>3. \A i \in k + 2 .. n + 1, j \in k + 2 .. n + 1 : chain2[i] = chain2[j] => i = j
      <4> SUFFICES ASSUME NEW i \in k + 2 .. n + 1, NEW j \in k + 2 .. n + 1,
                          chain2[i] = chain2[j]
                   PROVE  i = j
        OBVIOUS
      <4>1. chain[i - 1] = chain[j - 1] /\ i - 1 \in 1 .. n /\ j - 1 \in 1 .. n
        BY <2>11
      <4>2. i - 1 = j - 1
        BY <2>12, <4>1
      <4> QED BY <1>2, <4>2
    <3>4. \A i \in (1 .. k) \cup (k + 2 .. n + 1) : chain2[i] # new
      BY <2>3, <2>9, <2>11
    <3> QED BY <2>10, <2>13, <3>1, <3>2, <3>3, <3>4
  <2>6. \A q \in Leaves' : \E i \in 1 .. n + 1 : chain2[i] = q
    <3>1. ASSUME NEW q \in Leaves PROVE \E i \in 1 .. n + 1 : chain2[i] = q
      <4>1. PICK i \in 1 .. n : chain[i] = q
        BY <1>2 DEF IsChain
      <4>2. CASE i <= k
        <5>1. i \in 1 .. k
          BY <4>2
        <5> QED BY <2>9, <4>1, <5>1
      <4>3. CASE ~(i <= k)
        <5>1. i + 1 \in k + 2 .. n + 1 /\ i + 1 \in 1 .. n + 1 /\ (i + 1) - 1 = i
          BY <1>2, <4>3
        <5>2. chain2[i + 1] = chain[(i + 1) - 1]
          BY <2>11, <5>1
        <5> QED BY <4>1, <5>1, <5>2
      <4> QED BY <4>2, <4>3
    <3> QED BY <1>14, <2>10, <3>1
  <2>14. \A i \in 1 .. n :
           /\ nodes[chain[i]].next_leaf = IF i < n THEN chain[i + 1] ELSE NoLeaf
           /\ nodes[chain[i]].prev_leaf = IF i > 1 THEN chain[i - 1] ELSE NoLeaf
    BY <1>2 DEF IsChain
  <2>15. \A i \in 1 .. n : i # k => chain[i] # p
    BY <1>1, <1>2, <2>12
  <2>16. chain2[k] = p /\ k \in 1 .. k
    BY <1>1, <1>2, <2>9
  <2>7. ASSUME NEW i \in 1 .. n + 1
        PROVE  nodes'[chain2[i]].next_leaf = IF i < n + 1 THEN chain2[i + 1] ELSE NoLeaf
    <3>1. CASE i \in 1 .. k /\ i # k
      <4>1. i + 1 \in 1 .. k /\ i \in 1 .. n /\ i < n /\ i < n + 1
        BY <1>2, <3>1
      <4>2. chain2[i] = chain[i] /\ chain2[i + 1] = chain[i + 1]
        BY <2>9, <3>1, <4>1
      <4>3. nodes'[chain[i]].next_leaf = nodes[chain[i]].next_leaf
        BY <1>11, <2>3, <2>15, <3>1, <4>1
      <4> QED BY <2>14, <4>1, <4>2, <4>3
    <3>2. CASE i = k
      <4>2. nodes'[p].next_leaf = new
        BY <1>11
      <4>3. i < n + 1
        BY <1>2, <3>2
      <4>1. nodes'[p].next_leaf = new /\ i < n + 1
        BY <4>2, <4>3
      <4> QED BY <2>10, <2>16, <3>2, <4>1
    <3>3. CASE i = k + 1
      <4>1. nodes'[new].next_leaf = next
        BY <1>10
      <4>2. CASE k < n
        <5>1. k + 2 \in k + 2 .. n + 1 /\ (k + 2) - 1 = k + 1 /\ i < n + 1 /\ i + 1 = k + 2
          BY <1>2, <3>3, <4>2, SMTT(30)
        <5>2. chain2[k + 2] = chain[(k + 2) - 1]
          BY <2>11, <5>1
        <5> QED BY <1>3, <2>10, <3>3, <4>1, <4>2, <5>1, <5>2
      <4>3. CASE ~(k < n)
        <5>1. nodes[p].next_leaf = NoLeaf /\ ~(i < n + 1)
          BY <1>1, <1>2, <2>14, <3>3, <4>3
        <5> QED BY <1>1, <2>10, <3>3, <4>1, <5>1
      <4> QED BY <4>2, <4>3
    <3>4. CASE i \in k + 2 .. n + 1
      <4>1. i - 1 \in 1 .. n /\ i - 1 # k /\ chain2[i] = chain[i - 1] /\ (i - 1) + 1 = i
        <5>1. i - 1 \in 1 .. n /\ chain2[i] = chain[i - 1]
          BY <2>11, <3>4
        <5> QED BY <1>2, <3>4, <5>1
      <4>2. nodes'[chain[i - 1]].next_leaf = nodes[chain[i - 1]].next_leaf
        BY <1>11, <2>3, <2>15, <4>1
      <4>3. nodes[chain[i - 1]].next_leaf = IF i - 1 < n THEN chain[i] ELSE NoLeaf
        BY <2>14, <4>1
      <4>4. CASE i - 1 < n
        <5>1. i + 1 \in k + 2 .. n + 1 /\ (i + 1) - 1 = i /\ i < n + 1
          BY <1>2, <3>4, <4>4, SMTT(30)
        <5>2. chain2[i + 1] = chain[(i + 1) - 1]
          BY <2>11, <5>1
        <5> QED BY <4>1, <4>2, <4>3, <4>4, <5>1, <5>2
      <4>5. CASE ~(i - 1 < n)
        <5>1. ~(i < n + 1)
          BY <1>2, <4>5
        <5> QED BY <4>1, <4>2, <4>3, <4>5, <5>1
      <4> QED BY <4>4, <4>5
    <3> QED BY <2>13, <3>1, <3>2, <3>3, <3>4
  <2>8. ASSUME NEW i \in 1 .. n + 1
        PROVE  nodes'[chain2[i]].prev_leaf = IF i > 1 THEN chain2[i - 1] ELSE NoLeaf
    <3>1. CASE i \in 1 .. k /\ i # k
      <4>1. i \in 1 .. n /\ i < k
        BY <1>2, <3>1
      <4>2. ~(next > 0 /\ chain[i] = next)
        <5>1. CASE k < n
          <6>1. k + 1 \in 1 .. n /\ k + 1 # i
            BY <1>2, <4>1, <5>1
          <6> QED BY <1>3, <2>12, <4>1, <5>1, <6>1
        <5>2. CASE ~(k < n)
          BY <1>3, <5>2
        <5> QED BY <5>1, <5>2
      <4>6. chain[i] \in Leaves /\ chain[i] # p
        BY <2>3, <2>15, <4>1
      <4>3. nodes'[chain[i]].prev_leaf = nodes[chain[i]].prev_leaf
        BY <1>11, <4>2, <4>6
      <4>4. CASE i > 1
        <5>1. i - 1 \in 1 .. k
          BY <1>2, <3>1, <4>4
        <5> QED BY <2>9, <2>14, <3>1, <4>1, <4>3, <4>4, <5>1
      <4>5. CASE ~(i > 1)
        BY <2>9, <2>14, <3>1, <4>1, <4>3, <4>5
      <4> QED BY <4>4, <4>5
    <3>2. CASE i = k
      <4>1. nodes'[p].prev_leaf = nodes[p].prev_leaf
        BY <1>1, <1>11
      <4>2. nodes[p].prev_leaf = IF k > 1 THEN chain[k - 1] ELSE NoLeaf
        BY <1>1, <1>2, <2>14
      <4>3. k > 1 => k - 1 \in 1 .. k
        BY <1>2
      <4> QED BY <2>9, <2>16, <3>2, <4>1, <4>2, <4>3
    <3>3. CASE i = k + 1
      <4>1. nodes'[new].prev_leaf = chain[k]
        BY <1>10
      <4>2. i > 1 /\ i - 1 = k
        BY <1>2, <3>3
      <4> QED BY <1>1, <2>10, <2>16, <3>3, <4>1, <4>2
    <3>4. CASE i = k + 2
      <4>1. k + 2 \in k + 2 .. n + 1 /\ k < n /\ (k + 2) - 1 = k + 1 /\ i > 1 /\ i - 1 = k + 1
        BY <1>2, <3>4
      <4>2. chain2[k + 2] = chain[(k + 2) - 1]
        BY <2>11, <4>1
      <4>3. nodes'[chain[k + 1]].prev_leaf = new
        BY <1>3, <1>11, <4>1
      <4> QED BY <2>10, <3>4, <4>1, <4>2, <4>3
    <3>5. CASE i \in k + 3 .. n + 1
      <4>1. i \in k + 2 .. n + 1 /\ i - 1 \in k + 2 .. n + 1 /\ i - 1 # k /\ i - 1 # k + 1
            /\ k + 1 \in 1 .. n /\ k < n /\ i > 1 /\ i - 1 > 1 /\ (i - 1) - 1 = i - 2
        <5>1. i \in Nat /\ k + 3 <= i /\ i <= n + 1 /\ k \in Nat /\ k >= 1 /\ n \in Nat
          BY <1>2, <3>5
        <5> QED BY <5>1, SMTT(30)
      <4>2. /\ i - 1 \in 1 .. n /\ chain2[i] = chain[i - 1]
            /\ chain2[i - 1] = chain[i - 2]
        BY <2>11, <4>1
      <4>3. chain[i - 1] # next
        BY <1>3, <2>12, <4>1, <4>2
      <4>4. nodes'[chain[i - 1]].prev_leaf = nodes[chain[i - 1]].prev_leaf
        BY <1>11, <2>3, <2>15, <4>1, <4>2, <4>3
      <4>5. nodes[chain[i - 1]].prev_leaf = chain[(i - 1) - 1]
        BY <2>14, <4>1, <4>2
      <4> QED BY <4>1, <4>2, <4>4, <4>5
    <3>6. i \in 1 .. k \/ i = k + 1 \/ i = k + 2 \/ i \in k + 3 .. n + 1
      BY <1>2, SMTT(60)
    <3> QED BY <3>1, <3>2, <3>3, <3>4, <3>5, <3>6
  <2>17. \A i \in DOMAIN chain2 :
           /\ nodes'[chain2[i]].next_leaf = IF i < Len(chain2) THEN chain2[i + 1] ELSE NoLeaf
           /\ nodes'[chain2[i]].prev_leaf = IF i > 1 THEN chain2[i - 1] ELSE NoLeaf
    BY <2>1, <2>2, <2>7, <2>8
  <2> QED BY <2>1, <2>2, <2>4, <2>5, <2>6, <2>17 DEF IsChain
<1>18. Halved(nodes, nodes', p, new, low, high)
  BY <1>10, <1>11 DEF Halved
<1>19. Halved(nodes, nodes', chain[k], new, low, high)
  BY <1>1, <1>18
<1>20. Shape(level2, edge, chain2)'
  BY <1>7, <1>10, <1>11, <1>15, <1>16, <1>17
<1> HIDE DEF Shape
<1> QED BY <1>2, <1>7, <1>14, <1>19, <1>20

(* An inner node that fits its page, and nodes with the same leaves.       *)
InnerFits(node) ==
  /\ node \in InnerNode /\ node.pointers \in Seq(PageIds)
  /\ Len(node.pointers) = Len(node.keys) + 1 /\ Len(node.keys) <= ORDER
LeavesKept(ms) ==
  /\ ms \in Seq(Node) /\ Len(ms) = Len(nodes)
  /\ \A q \in PageIds : IsNode(ms[q]) /\ Len(Keys(ms[q])) <= ORDER
                        /\ (ms[q].is_leaf <=> nodes[q].is_leaf)
  /\ \A q \in Leaves : ms[q] = nodes[q]

(* An inner node is added at the end of the file, others may have changed. *)
LEMMA InnerAdded ==
  ASSUME NodesInv, NEW chain, IsChain(chain), NEW new, new = NewPage,
         NEW ms, LeavesKept(ms), NEW node, InnerFits(node), nodes' = Append(ms, node)
  PROVE  /\ NodesInv' /\ IsChain(chain)'
         /\ PageIds' = PageIds \cup {new} /\ new \notin PageIds /\ new \in Nat
         /\ Leaves' = Leaves /\ Len(nodes') = Len(nodes) + 1
         /\ nodes'[new] = node /\ \A q \in PageIds : nodes'[q] = ms[q]
<1> USE DEF InnerFits, LeavesKept
<1>1. Len(nodes) \in Nat /\ Len(nodes') = Len(nodes) + 1
      /\ node \in Node /\ IsNode(node) /\ Len(Keys(node)) <= ORDER /\ ~node.is_leaf
  <2>1. Len(nodes) \in Nat
    BY NodeFields
  <2>2. node \in Node /\ IsNode(node) /\ Len(Keys(node)) <= ORDER /\ ~node.is_leaf
    BY InnerIsNode
  <2> QED BY <2>1, <2>2, AppendProperties
<1>2. IsNode(node)' /\ \A q \in PageIds : IsNode(ms[q])' /\ Len(Keys(ms[q])) <= ORDER
  <2>1. IsNode(node)'
    BY <1>1, NodeKept
  <2>2. ASSUME NEW q \in PageIds PROVE IsNode(ms[q])' /\ Len(Keys(ms[q])) <= ORDER
    <3>1. IsNode(ms[q])
      OBVIOUS
    <3> QED BY <1>1, <3>1, NodeKept
  <2> QED BY <2>1, <2>2
<1>3. /\ NodesInv' /\ PageIds' = PageIds \cup {NewPage} /\ NewPage \notin PageIds
      /\ NewPage \in Nat
      /\ nodes'[NewPage] = node /\ \A q \in PageIds : nodes'[q] = ms[q]
  BY <1>1, <1>2, PageAdded
<1>4. Leaves' = Leaves
  <2>1. \A q : q \in Leaves' <=> q \in PageIds' /\ nodes'[q].is_leaf
    BY DEF Leaves
  <2>2. \A q : q \in Leaves <=> q \in PageIds /\ nodes[q].is_leaf
    BY DEF Leaves
  <2>3. \A q \in PageIds : nodes'[q].is_leaf <=> nodes[q].is_leaf
    BY <1>3
  <2>4. ~nodes'[NewPage].is_leaf
    BY <1>1, <1>3
  <2> QED BY <1>3, <2>1, <2>2, <2>3, <2>4
<1>5. IsChain(chain)'
  <2>1. \A i \in DOMAIN chain : chain[i] \in Leaves
    BY DEF IsChain
  <2>2. \A q \in Leaves : nodes'[q] = nodes[q]
    BY <1>3 DEF Leaves
  <2>3. \A i \in DOMAIN chain : nodes'[chain[i]] = nodes[chain[i]]
    BY <2>1, <2>2
  <2> QED BY <1>4, <2>3, ZenonT(60) DEF IsChain
<1> QED BY <1>1, <1>3, <1>4, <1>5

(* An inner node is split: its new right half is on the same level.        *)
LEMMA InnerSplit ==
  ASSUME NEW level, NEW edge, NEW chain, Shape(level, edge, chain),
         NEW p \in PageIds \ Leaves, NEW new, new = NewPage,
         NEW low, InnerFits(low), low.pointers[1] = nodes[p].pointers[1],
         \A i \in DOMAIN low.pointers : level[low.pointers[i]] + 1 = level[p],
         NEW high, InnerFits(high),
         \A i \in DOMAIN high.pointers : level[high.pointers[i]] + 1 = level[p],
         nodes' = Append([nodes EXCEPT ![p] = low], high),
         root_page_id' = root_page_id,
         NEW level2, level2 = [q \in PageIds' |-> IF q = new THEN level[p] ELSE level[q]]
  PROVE  /\ Shape(level2, edge, chain)'
         /\ PageIds' = PageIds \cup {new} /\ new \notin PageIds
         /\ Leaves' = Leaves /\ Len(nodes') = Len(nodes) + 1
         /\ \A q \in PageIds : q # p => nodes'[q] = nodes[q]
         /\ nodes'[p] = low /\ nodes'[new] = high
<1> USE DEF Shape, InnerFits
<1>1. /\ nodes \in Seq(Node) /\ p \in PageIds /\ ~nodes[p].is_leaf /\ Len(nodes) \in Nat
      /\ level[p] \in Nat /\ level[p] # 0
  BY NodeFields DEF NodesInv, Leaves, Levels
<1>2. low \in Node /\ IsNode(low) /\ Len(Keys(low)) <= ORDER /\ ~low.is_leaf
  BY InnerIsNode
<1>3. PICK ms : ms = [nodes EXCEPT ![p] = low]
  OBVIOUS
<1>4. /\ ms \in Seq(Node) /\ Len(ms) = Len(nodes)
      /\ \A q \in PageIds : ms[q] = IF q = p THEN low ELSE nodes[q]
  BY <1>1, <1>2, <1>3, Replaced DEF PageIds
<1>5. \A q \in PageIds : IsNode(ms[q]) /\ Len(Keys(ms[q])) <= ORDER
                         /\ (ms[q].is_leaf <=> nodes[q].is_leaf)
  BY <1>1, <1>2, <1>4 DEF NodesInv
<1>6. \A q \in Leaves : ms[q] = nodes[q]
  BY <1>4 DEF Leaves
<1>7. /\ NodesInv' /\ IsChain(chain)'
      /\ PageIds' = PageIds \cup {new} /\ new \notin PageIds
      /\ Leaves' = Leaves /\ Len(nodes') = Len(nodes) + 1
      /\ nodes'[new] = high /\ \A q \in PageIds : nodes'[q] = ms[q]
  <2>1. nodes' = Append(ms, high)
    BY <1>3
  <2>2. NodesInv /\ IsChain(chain)
    OBVIOUS
  <2>3. LeavesKept(ms)
    BY <1>4, <1>5, <1>6 DEF LeavesKept
  <2>4. InnerFits(high)
    OBVIOUS
  <2> HIDE DEF InnerFits, Shape
  <2>5. NodesInv' /\ IsChain(chain)'
    BY <2>1, <2>2, <2>3, <2>4, InnerAdded
  <2>6. PageIds' = PageIds \cup {new} /\ new \notin PageIds
    BY <2>1, <2>2, <2>3, <2>4, InnerAdded
  <2>7. Leaves' = Leaves /\ Len(nodes') = Len(nodes) + 1
    BY <2>1, <2>2, <2>3, <2>4, InnerAdded
  <2>8. nodes'[new] = high
    BY <2>1, <2>2, <2>3, <2>4, InnerAdded, ZenonT(60)
  <2>9. \A q \in PageIds : nodes'[q] = ms[q]
    BY <2>1, <2>2, <2>3, <2>4, InnerAdded
  <2> QED BY <2>5, <2>6, <2>7, <2>8, <2>9
<1>8. nodes'[p] = low /\ \A q \in PageIds : q # p => nodes'[q] = nodes[q]
  BY <1>1, <1>4, <1>7
<1>9. Levels(level2)'
  <2>1. level2[new] = level[p] /\ \A q \in PageIds : level2[q] = level[q]
    BY <1>7
  <2>2. level2 \in [PageIds' -> Nat]
    BY <1>1, <1>7, <2>1 DEF Levels
  <2>3. root_page_id' \in PageIds' /\ \A q \in PageIds' : level2[q] <= level2[root_page_id']
    BY <1>1, <1>7, <2>1 DEF Levels
  <2>4. \A q \in PageIds' : nodes'[q].is_leaf <=> level2[q] = 0
    <3>1. ~nodes'[new].is_leaf
      BY <1>7, InnerIsNode
    <3>2. \A q \in PageIds : nodes'[q].is_leaf <=> nodes[q].is_leaf
      BY <1>5, <1>7
    <3> QED BY <1>1, <1>7, <2>1, <3>1, <3>2 DEF Levels
  <2>5. ASSUME NEW q \in PageIds' \ Leaves', NEW i \in DOMAIN nodes'[q].pointers
        PROVE  level2[nodes'[q].pointers[i]] + 1 = level2[q]
    <3>1. CASE q = new
      <4>1. nodes'[q] = high /\ level2[q] = level[p]
        BY <1>7, <2>1, <3>1
      <4>2. i \in DOMAIN high.pointers
        BY <4>1
      <4>3. high.pointers[i] \in PageIds /\ level[high.pointers[i]] + 1 = level[p]
        BY <4>2
      <4> QED BY <2>1, <4>1, <4>3
    <3>2. CASE q = p
      <4>1. nodes'[q] = low /\ level2[q] = level[p]
        BY <1>1, <1>8, <2>1, <3>2
      <4>2. i \in DOMAIN low.pointers
        BY <4>1
      <4>3. low.pointers[i] \in PageIds /\ level[low.pointers[i]] + 1 = level[p]
        BY <4>2
      <4> QED BY <2>1, <4>1, <4>3
    <3>3. CASE q # new /\ q # p
      <4>1. q \in PageIds \ Leaves /\ nodes'[q] = nodes[q]
        BY <1>7, <1>8, <3>3
      <4>2. i \in DOMAIN nodes[q].pointers
        BY <4>1
      <4>3. nodes[q].pointers[i] \in PageIds
        BY <4>1, <4>2, NodeFields, SMTT(30)
      <4>4. level[nodes[q].pointers[i]] + 1 = level[q]
        BY <4>1, <4>2 DEF Levels
      <4> QED BY <2>1, <4>1, <4>3, <4>4
    <3> QED BY <3>1, <3>2, <3>3
  <2> QED BY <2>2, <2>3, <2>4, <2>5 DEF Levels
<1>10. LeftEdge(edge)'
  <2>1. edge \subseteq PageIds
    BY DEF LeftEdge
  <2>2. \A q \in edge : nodes'[q].is_leaf <=> nodes[q].is_leaf
    BY <1>5, <1>7, <2>1
  <2>3. \A q \in edge : nodes'[q].pointers[1] = nodes[q].pointers[1]
    BY <1>8, <2>1
  <2> QED BY <1>7, <2>1, <2>2, <2>3 DEF LeftEdge
<1> QED BY <1>7, <1>8, <1>9, <1>10

(* A new root over the old one and its right half: the tree gets a level.  *)
LEMMA RootSplit ==
  ASSUME NEW level, NEW edge, NEW chain, Shape(level, edge, chain),
         NEW new, new = NewPage,
         NEW node, InnerFits(node), node.pointers[1] = root_page_id,
         \A i \in DOMAIN node.pointers : level[node.pointers[i]] = level[root_page_id],
         nodes' = Append(nodes, node), root_page_id' = new,
         NEW level2,
         level2 = [q \in PageIds' |-> IF q = new THEN level[root_page_id] + 1 ELSE level[q]],
         NEW edge2, edge2 = edge \cup {new}
  PROVE  /\ Shape(level2, edge2, chain)'
         /\ PageIds' = PageIds \cup {new} /\ new \notin PageIds
         /\ Leaves' = Leaves /\ Len(nodes') = Len(nodes) + 1
         /\ \A q \in PageIds : nodes'[q] = nodes[q]
<1> USE DEF Shape, InnerFits
<1>1. /\ nodes \in Seq(Node) /\ Len(nodes) \in Nat
      /\ root_page_id \in PageIds /\ level[root_page_id] \in Nat
  BY NodeFields DEF NodesInv, Levels
<1>2. PICK ms : ms = nodes
  OBVIOUS
<1>3. LeavesKept(ms)
  BY <1>1, <1>2 DEF LeavesKept, NodesInv
<1>4. /\ NodesInv' /\ IsChain(chain)'
      /\ PageIds' = PageIds \cup {new} /\ new \notin PageIds
      /\ Leaves' = Leaves /\ Len(nodes') = Len(nodes) + 1
      /\ nodes'[new] = node /\ \A q \in PageIds : nodes'[q] = ms[q]
  <2>1. nodes' = Append(ms, node)
    BY <1>2
  <2>2. NodesInv /\ IsChain(chain)
    OBVIOUS
  <2>4. InnerFits(node)
    OBVIOUS
  <2> HIDE DEF InnerFits, Shape
  <2>5. NodesInv' /\ IsChain(chain)'
    BY <1>3, <2>1, <2>2, <2>4, InnerAdded
  <2>6. PageIds' = PageIds \cup {new} /\ new \notin PageIds
    BY <1>3, <2>1, <2>2, <2>4, InnerAdded
  <2>7. Leaves' = Leaves /\ Len(nodes') = Len(nodes) + 1
    BY <1>3, <2>1, <2>2, <2>4, InnerAdded
  <2>8. nodes'[new] = node
    <3>1. nodes \in Seq(Node) /\ node \in Node
      BY <1>1, <2>4, InnerIsNode DEF InnerFits
    <3> QED BY <3>1, AppendProperties DEF NewPage
  <2>9. \A q \in PageIds : nodes'[q] = ms[q]
    BY <1>3, <2>1, <2>2, <2>4, InnerAdded
  <2> QED BY <2>5, <2>6, <2>7, <2>8, <2>9
<1>5. \A q \in PageIds : nodes'[q] = nodes[q]
  BY <1>2, <1>4
<1>6. Levels(level2)'
  <2>1. level2[new] = level[root_page_id] + 1 /\ \A q \in PageIds : level2[q] = level[q]
    BY <1>4
  <2>2. level2 \in [PageIds' -> Nat]
    BY <1>1, <1>4, <2>1 DEF Levels
  <2>3. root_page_id' \in PageIds' /\ \A q \in PageIds' : level2[q] <= level2[root_page_id']
    <3>1. \A q \in PageIds : level[q] \in Nat /\ level[q] <= level[root_page_id]
      BY DEF Levels
    <3>2. level2[root_page_id'] = level[root_page_id] + 1
      BY <2>1
    <3>3. ASSUME NEW q \in PageIds' PROVE level2[q] <= level[root_page_id] + 1
      <4>1. CASE q = new
        BY <1>1, <2>1, <4>1
      <4>2. CASE q \in PageIds
        BY <1>1, <2>1, <3>1, <4>2
      <4> QED BY <1>4, <4>1, <4>2
    <3> QED BY <1>4, <3>2, <3>3
  <2>4. \A q \in PageIds' : nodes'[q].is_leaf <=> level2[q] = 0
    <3>1. ~nodes'[new].is_leaf
      BY <1>4, InnerIsNode
    <3>2. level2[new] # 0
      BY <1>1, <2>1
    <3>3. \A q \in PageIds : nodes'[q].is_leaf <=> level2[q] = 0
      BY <1>5, <2>1 DEF Levels
    <3> QED BY <1>4, <3>1, <3>2, <3>3
  <2>5. ASSUME NEW q \in PageIds' \ Leaves', NEW i \in DOMAIN nodes'[q].pointers
        PROVE  level2[nodes'[q].pointers[i]] + 1 = level2[q]
    <3>1. CASE q = new
      <4>1. nodes'[q] = node
        BY <1>4, <3>1
      <4>2. i \in DOMAIN node.pointers
        BY <4>1
      <4>3. node.pointers[i] \in PageIds /\ level[node.pointers[i]] = level[root_page_id]
        BY <4>2
      <4> QED BY <2>1, <3>1, <4>1, <4>3
    <3>2. CASE q # new
      <4>1. q \in PageIds \ Leaves /\ nodes'[q] = nodes[q]
        BY <1>4, <1>5, <3>2
      <4>2. i \in DOMAIN nodes[q].pointers
        BY <4>1
      <4>3. nodes[q].pointers[i] \in PageIds
        BY <4>1, <4>2, NodeFields
      <4>4. level[nodes[q].pointers[i]] + 1 = level[q]
        BY <4>1, <4>2 DEF Levels
      <4> QED BY <2>1, <4>1, <4>3, <4>4
    <3> QED BY <3>1, <3>2
  <2> QED BY <2>2, <2>3, <2>4, <2>5 DEF Levels
<1>7. LeftEdge(edge2)'
  <2>1. edge \subseteq PageIds /\ root_page_id \in edge
    BY DEF LeftEdge
  <2>2. ~nodes'[new].is_leaf /\ nodes'[new].pointers[1] = root_page_id
    BY <1>4, InnerIsNode
  <2>3. \A q \in edge : nodes'[q] = nodes[q]
    BY <1>5, <2>1
  <2> QED BY <1>4, <2>1, <2>2, <2>3, ZenonT(60) DEF LeftEdge
<1> QED BY <1>4, <1>5, <1>6, <1>7
-----------------------------------------------------------------------------
(* What an insert, a delete and the split of a leaf do to the pairs.       *)
LEMMA PairInserted ==
  ASSUME NEW L, NEW cs, NEW rs, Holding(L, cs, rs), NEW p \in L,
         NEW e \in EntryType, e \notin rs, NEW at \in 1 .. Len(cs[p]) + 1,
         NEW t \in Seq(EntryType), Len(t) = Len(cs[p]) + 1,
         \A j \in 1 .. Len(cs[p]) + 1 :
           t[j] = IF j < at THEN cs[p][j] ELSE IF j = at THEN e ELSE cs[p][j - 1]
  PROVE  Holding(L, [cs EXCEPT ![p] = t], rs \cup {e})
<1>1. PICK s : s = cs[p]
  OBVIOUS
<1>2. PICK n \in Nat : n = Len(s) /\ s \in Seq(EntryType) /\ cs \in [L -> Seq(EntryType)]
  BY <1>1 DEF Holding
<1>3. PICK ds : ds = [cs EXCEPT ![p] = t]
  OBVIOUS
<1>4. /\ ds \in [L -> Seq(EntryType)] /\ ds[p] = t
      /\ \A q \in L : q # p => ds[q] = cs[q]
      /\ DOMAIN s = 1 .. n /\ DOMAIN t = 1 .. n + 1
  BY <1>1, <1>2, <1>3
<1>5. \A q \in L : \A i \in DOMAIN cs[q] : cs[q][i] \in rs
  BY DEF Holding
<1>6. \A i \in 1 .. n : s[i] \in rs
  BY <1>1, <1>4, <1>5
<1>7. at \in 1 .. n + 1 /\ t[at] = e
  BY <1>1, <1>2
<1>8. \A j \in 1 .. at - 1 : j \in 1 .. n /\ j \in 1 .. n + 1 /\ t[j] = s[j]
  BY <1>1, <1>2
<1>9. ASSUME NEW j \in at + 1 .. n + 1
      PROVE  j - 1 \in at .. n /\ j - 1 \in 1 .. n /\ j \in 1 .. n + 1 /\ t[j] = s[j - 1]
  <2>1. j - 1 \in at .. n /\ j - 1 \in 1 .. n /\ j \in 1 .. n + 1 /\ ~(j < at) /\ j # at
    BY <1>7
  <2> QED BY <1>1, <1>2, <2>1
<1>10. 1 .. n + 1 = (1 .. at - 1) \cup {at} \cup (at + 1 .. n + 1)
  BY <1>7
<1>11. \A j \in 1 .. n + 1 : j # at => t[j] \in rs
  BY <1>6, <1>8, <1>9, <1>10
<1>12. \A q \in L : \A i \in DOMAIN ds[q] : ds[q][i] \in rs \cup {e}
  BY <1>4, <1>5, <1>7, <1>11
<1>13. \A d \in rs \cup {e} : \E q \in L : \E i \in DOMAIN ds[q] : ds[q][i] = d
  <2>1. \E q \in L : \E i \in DOMAIN ds[q] : ds[q][i] = e
    BY <1>4, <1>7
  <2>2. ASSUME NEW d \in rs PROVE \E q \in L : \E i \in DOMAIN ds[q] : ds[q][i] = d
    <3>4. PICK q \in L : \E i \in DOMAIN cs[q] : cs[q][i] = d
      BY DEF Holding
    <3>1. PICK i \in DOMAIN cs[q] : cs[q][i] = d
      BY <3>4
    <3>2. CASE q # p
      BY <1>4, <3>1, <3>2
    <3>3. CASE q = p
      <4>1. i \in 1 .. n /\ s[i] = d
        BY <1>1, <1>4, <3>1, <3>3
      <4>2. CASE i < at
        <5>1. i \in 1 .. at - 1
          BY <1>7, <4>1, <4>2
        <5> QED BY <1>4, <1>8, <4>1, <5>1
      <4>3. CASE ~(i < at)
        <5>1. i + 1 \in at + 1 .. n + 1 /\ (i + 1) - 1 = i
          BY <1>7, <4>1, <4>3
        <5>2. i + 1 \in 1 .. n + 1 /\ t[i + 1] = s[(i + 1) - 1]
          BY <1>9, <5>1
        <5>3. i + 1 \in DOMAIN ds[p] /\ ds[p][i + 1] = d
          BY <1>4, <4>1, <5>1, <5>2
        <5> QED BY <5>3
      <4> QED BY <4>2, <4>3
    <3> QED BY <3>2, <3>3
  <2> QED BY <2>1, <2>2
<1>14. \A q, r \in L : \A i \in DOMAIN cs[q] : \A j \in DOMAIN cs[r] :
         cs[q][i] = cs[r][j] => q = r /\ i = j
  BY DEF Holding
<1>15. \A i, j \in 1 .. n : s[i] = s[j] => i = j
  BY <1>1, <1>4, <1>14
<1>16. \A i, j \in 1 .. n + 1 : t[i] = t[j] => i = j
  <2>1. \A i, j \in 1 .. at - 1 : t[i] = t[j] => i = j
    BY <1>8, <1>15
  <2>2. ASSUME NEW i \in 1 .. at - 1, NEW j \in at + 1 .. n + 1 PROVE t[i] # t[j]
    <3>1. i \in 1 .. n /\ j - 1 \in 1 .. n /\ i # j - 1
      BY <1>7, <1>8, <1>9
    <3> QED BY <1>8, <1>9, <1>15, <3>1
  <2>3. ASSUME NEW i \in at + 1 .. n + 1, NEW j \in at + 1 .. n + 1, t[i] = t[j] PROVE i = j
    <3>1. i - 1 = j - 1
      BY <1>9, <1>15, <2>3, SMTT(60)
    <3> QED BY <1>7, <3>1
  <2>4. \A i \in (1 .. at - 1) \cup (at + 1 .. n + 1) : t[i] # t[at]
    <3>1. \A i \in (1 .. at - 1) \cup (at + 1 .. n + 1) : i \in 1 .. n + 1 /\ i # at
      BY <1>7
    <3> QED BY <1>7, <1>11, <3>1
  <2> QED BY <1>10, <2>1, <2>2, <2>3, <2>4
<1>17. ASSUME NEW q \in L, q # p, NEW i \in DOMAIN cs[q], NEW j \in 1 .. n + 1
       PROVE  ds[q][i] # t[j]
  <2>1. ds[q][i] = cs[q][i] /\ cs[q][i] \in rs
    BY <1>4, <1>5, <1>17
  <2>2. CASE j = at
    BY <1>7, <2>1, <2>2
  <2>3. CASE j # at
    <3>1. PICK k \in 1 .. n : t[j] = s[k]
      BY <1>8, <1>9, <1>10, <2>3
    <3> QED BY <1>1, <1>4, <1>14, <1>17, <2>1, <3>1
  <2> QED BY <2>2, <2>3
<1>18. \A q, r \in L : \A i \in DOMAIN ds[q] : \A j \in DOMAIN ds[r] :
         ds[q][i] = ds[r][j] => q = r /\ i = j
  <2> SUFFICES ASSUME NEW q \in L, NEW r \in L, NEW i \in DOMAIN ds[q], NEW j \in DOMAIN ds[r],
                      ds[q][i] = ds[r][j]
               PROVE  q = r /\ i = j
    OBVIOUS
  <2>1. CASE q = p /\ r = p
    BY <1>4, <1>16, <2>1
  <2>2. CASE q # p /\ r # p
    BY <1>4, <1>14, <2>2
  <2>3. CASE q # p /\ r = p
    <3>1. i \in DOMAIN cs[q] /\ j \in 1 .. n + 1
      BY <1>4, <2>3
    <3> QED BY <1>4, <1>17, <2>3, <3>1
  <2>4. CASE q = p /\ r # p
    <3>1. j \in DOMAIN cs[r] /\ i \in 1 .. n + 1
      BY <1>4, <2>4
    <3> QED BY <1>4, <1>17, <2>4, <3>1
  <2> QED BY <2>1, <2>2, <2>3, <2>4
<1>19. ds \in [L -> Seq(EntryType)]
  BY <1>4
<1>20. Holding(L, ds, rs \cup {e})
  BY <1>12, <1>13, <1>18, <1>19 DEF Holding
<1> QED BY <1>3, <1>20

LEMMA PairRemoved ==
  ASSUME NEW L, NEW cs, NEW rs, Holding(L, cs, rs), NEW p \in L,
         NEW at \in 1 .. Len(cs[p]), NEW e, cs[p][at] = e,
         NEW t \in Seq(EntryType), Len(t) = Len(cs[p]) - 1,
         \A j \in 1 .. Len(cs[p]) - 1 : t[j] = IF j < at THEN cs[p][j] ELSE cs[p][j + 1]
  PROVE  Holding(L, [cs EXCEPT ![p] = t], rs \ {e}) /\ e \in rs
<1>1. PICK s : s = cs[p]
  OBVIOUS
<1>2. PICK n \in Nat : n = Len(s) /\ s \in Seq(EntryType) /\ cs \in [L -> Seq(EntryType)]
  BY <1>1 DEF Holding
<1>3. PICK ds : ds = [cs EXCEPT ![p] = t]
  OBVIOUS
<1>4. /\ ds \in [L -> Seq(EntryType)] /\ ds[p] = t
      /\ \A q \in L : q # p => ds[q] = cs[q]
      /\ DOMAIN s = 1 .. n /\ DOMAIN t = 1 .. n - 1
  BY <1>1, <1>2, <1>3
<1>5. \A q \in L : \A i \in DOMAIN cs[q] : cs[q][i] \in rs
  BY DEF Holding
<1>6. \A q, r \in L : \A i \in DOMAIN cs[q] : \A j \in DOMAIN cs[r] :
        cs[q][i] = cs[r][j] => q = r /\ i = j
  BY DEF Holding
<1>7. at \in 1 .. n /\ s[at] = e
  BY <1>1, <1>2
<1>8. \A j \in 1 .. at - 1 : j \in 1 .. n /\ j \in 1 .. n - 1 /\ t[j] = s[j]
  BY <1>1, <1>2
<1>9. ASSUME NEW j \in at .. n - 1
      PROVE  j + 1 \in at + 1 .. n /\ j + 1 \in 1 .. n /\ j \in 1 .. n - 1 /\ t[j] = s[j + 1]
  <2>1. j + 1 \in at + 1 .. n /\ j + 1 \in 1 .. n /\ j \in 1 .. n - 1 /\ ~(j < at)
    BY <1>7
  <2> QED BY <1>1, <1>2, <2>1
<1>10. 1 .. n - 1 = (1 .. at - 1) \cup (at .. n - 1)
  BY <1>7
<1>11. \A i, j \in 1 .. n : s[i] = s[j] => i = j
  BY <1>1, <1>4, <1>6
<1>12. ASSUME NEW j \in 1 .. n - 1
       PROVE  \E k \in 1 .. n : k # at /\ t[j] = s[k]
  <2>1. CASE j \in 1 .. at - 1
    <3>1. j # at
      BY <1>7, <2>1
    <3> QED BY <1>8, <2>1, <3>1
  <2>2. CASE j \in at .. n - 1
    <3>1. j + 1 # at
      BY <1>7, <2>2
    <3> QED BY <1>9, <2>2, <3>1
  <2> QED BY <1>10, <2>1, <2>2
<1>13. \A j \in 1 .. n - 1 : t[j] \in rs \ {e}
  <2>1. \A k \in 1 .. n : s[k] \in rs
    BY <1>1, <1>4, <1>5
  <2> QED BY <1>7, <1>11, <1>12, <2>1
<1>14. ASSUME NEW q \in L, q # p, NEW i \in DOMAIN cs[q]
       PROVE  cs[q][i] \in rs \ {e} /\ \A k \in 1 .. n : cs[q][i] # s[k]
  <2>1. \A k \in 1 .. n : cs[q][i] # s[k]
    BY <1>1, <1>4, <1>6, <1>14
  <2> QED BY <1>5, <1>7, <2>1
<1>15. \A q \in L : \A i \in DOMAIN ds[q] : ds[q][i] \in rs \ {e}
  BY <1>4, <1>13, <1>14
<1>16. ASSUME NEW d \in rs \ {e} PROVE \E q \in L : \E i \in DOMAIN ds[q] : ds[q][i] = d
  <2>1. PICK q \in L : \E i \in DOMAIN cs[q] : cs[q][i] = d
    BY DEF Holding
  <2>2. PICK i \in DOMAIN cs[q] : cs[q][i] = d
    BY <2>1
  <2>3. CASE q # p
    BY <1>4, <2>2, <2>3
  <2>4. CASE q = p
    <3>1. i \in 1 .. n /\ s[i] = d /\ i # at
      BY <1>1, <1>4, <1>7, <2>2, <2>4
    <3>2. CASE i < at
      <4>1. i \in 1 .. at - 1
        BY <1>7, <3>1, <3>2
      <4>2. i \in DOMAIN ds[p] /\ ds[p][i] = d
        BY <1>4, <1>8, <3>1, <4>1
      <4> QED BY <4>2
    <3>3. CASE ~(i < at)
      <4>1. i - 1 \in at .. n - 1 /\ (i - 1) + 1 = i
        BY <1>7, <3>1, <3>3
      <4>2. i - 1 \in 1 .. n - 1 /\ t[i - 1] = s[(i - 1) + 1]
        BY <1>9, <4>1
      <4>3. i - 1 \in DOMAIN ds[p] /\ ds[p][i - 1] = d
        BY <1>4, <3>1, <4>1, <4>2
      <4> QED BY <4>3
    <3> QED BY <3>2, <3>3
  <2> QED BY <2>3, <2>4
<1>17. \A i, j \in 1 .. n - 1 : t[i] = t[j] => i = j
  <2>1. \A i, j \in 1 .. at - 1 : t[i] = t[j] => i = j
    BY <1>8, <1>11
  <2>2. ASSUME NEW i \in 1 .. at - 1, NEW j \in at .. n - 1 PROVE t[i] # t[j]
    <3>1. i \in 1 .. n /\ j + 1 \in 1 .. n /\ i # j + 1
      BY <1>7, <1>8, <1>9
    <3> QED BY <1>8, <1>9, <1>11, <3>1
  <2>3. ASSUME NEW i \in at .. n - 1, NEW j \in at .. n - 1, t[i] = t[j] PROVE i = j
    <3>1. i + 1 = j + 1
      BY <1>9, <1>11, <2>3
    <3> QED BY <1>7, <3>1
  <2> QED BY <1>10, <2>1, <2>2, <2>3
<1>18. \A q, r \in L : \A i \in DOMAIN ds[q] : \A j \in DOMAIN ds[r] :
         ds[q][i] = ds[r][j] => q = r /\ i = j
  <2> SUFFICES ASSUME NEW q \in L, NEW r \in L, NEW i \in DOMAIN ds[q], NEW j \in DOMAIN ds[r],
                      ds[q][i] = ds[r][j]
               PROVE  q = r /\ i = j
    OBVIOUS
  <2>1. CASE q = p /\ r = p
    BY <1>4, <1>17, <2>1
  <2>2. CASE q # p /\ r # p
    <3>1. ds[q] = cs[q] /\ ds[r] = cs[r]
      BY <1>4, <2>2
    <3> QED BY <1>6, <3>1
  <2>3. CASE q # p /\ r = p
    <3>1. i \in DOMAIN cs[q] /\ j \in 1 .. n - 1
      BY <1>4, <2>3
    <3> QED BY <1>4, <1>12, <1>14, <2>3, <3>1
  <2>4. CASE q = p /\ r # p
    <3>1. j \in DOMAIN cs[r] /\ i \in 1 .. n - 1
      BY <1>4, <2>4
    <3> QED BY <1>4, <1>12, <1>14, <2>4, <3>1
  <2> QED BY <2>1, <2>2, <2>3, <2>4
<1>19. ds \in [L -> Seq(EntryType)]
  BY <1>4
<1>20. Holding(L, ds, rs \ {e})
  BY <1>15, <1>16, <1>18, <1>19 DEF Holding
<1>21. e \in rs
  BY <1>1, <1>4, <1>5, <1>7
<1> QED BY <1>3, <1>20, <1>21

LEMMA PairsCut ==
  ASSUME NEW L, NEW cs, NEW rs, Holding(L, cs, rs), NEW p \in L, NEW new, new \notin L,
         NEW m \in 0 .. Len(cs[p]),
         NEW low \in Seq(EntryType), Len(low) = m, \A j \in 1 .. m : low[j] = cs[p][j],
         NEW high \in Seq(EntryType), Len(high) = Len(cs[p]) - m,
         \A j \in 1 .. Len(cs[p]) - m : high[j] = cs[p][m + j],
         NEW ds, ds \in [L \cup {new} -> Seq(EntryType)],
         ds[p] = low, ds[new] = high, \A q \in L : q # p => ds[q] = cs[q]
  PROVE  Holding(L \cup {new}, ds, rs)
<1>1. PICK s : s = cs[p]
  OBVIOUS
<1>2. PICK n \in Nat : n = Len(s) /\ s \in Seq(EntryType) /\ cs \in [L -> Seq(EntryType)]
  BY <1>1 DEF Holding
<1>3. m \in 0 .. n /\ DOMAIN s = 1 .. n /\ DOMAIN low = 1 .. m /\ DOMAIN high = 1 .. n - m
  BY <1>1, <1>2
<1>4. \A q \in L : \A i \in DOMAIN cs[q] : cs[q][i] \in rs
  BY DEF Holding
<1>5. \A q, r \in L : \A i \in DOMAIN cs[q] : \A j \in DOMAIN cs[r] :
        cs[q][i] = cs[r][j] => q = r /\ i = j
  BY DEF Holding
<1>6. \A j \in 1 .. m : j \in 1 .. n /\ low[j] = s[j]
  BY <1>1, <1>3
<1>7. \A j \in 1 .. n - m : m + j \in m + 1 .. n /\ m + j \in 1 .. n /\ high[j] = s[m + j]
  BY <1>1, <1>2, <1>3
<1>8. \A k \in 1 .. n : s[k] \in rs
  BY <1>1, <1>3, <1>4
<1>9. \A i, j \in 1 .. n : s[i] = s[j] => i = j
  BY <1>1, <1>3, <1>5, SMTT(30)
<1> DEFINE M == L \cup {new}
<1>10. \A q \in M : \A i \in DOMAIN ds[q] : ds[q][i] \in rs
  BY <1>3, <1>4, <1>6, <1>7, <1>8, SMTT(30)
<1>11. ASSUME NEW d \in rs PROVE \E q \in M : \E i \in DOMAIN ds[q] : ds[q][i] = d
  <2>1. PICK q \in L : \E i \in DOMAIN cs[q] : cs[q][i] = d
    BY DEF Holding
  <2>2. PICK i \in DOMAIN cs[q] : cs[q][i] = d
    BY <2>1
  <2>3. CASE q # p
    BY <2>2, <2>3
  <2>4. CASE q = p
    <3>1. i \in 1 .. n /\ s[i] = d
      BY <1>1, <1>3, <2>2, <2>4
    <3>2. CASE i <= m
      <4>1. i \in 1 .. m
        BY <1>3, <3>1, <3>2
      <4>2. i \in DOMAIN ds[p] /\ ds[p][i] = d
        BY <1>3, <1>6, <3>1, <4>1
      <4> QED BY <4>2
    <3>3. CASE ~(i <= m)
      <4>1. i - m \in 1 .. n - m /\ m + (i - m) = i
        BY <1>3, <3>1, <3>3
      <4>2. high[i - m] = s[m + (i - m)]
        BY <1>7, <4>1
      <4>3. i - m \in DOMAIN ds[new] /\ ds[new][i - m] = d
        BY <1>3, <3>1, <4>1, <4>2
      <4> QED BY <4>3
    <3> QED BY <3>2, <3>3
  <2> QED BY <2>3, <2>4
<1>12. ASSUME NEW q \in L, q # p, NEW i \in DOMAIN ds[q], NEW k \in 1 .. n
       PROVE  ds[q][i] # s[k]
  BY <1>1, <1>3, <1>5, <1>12, SMTT(30)
<1>13. ASSUME NEW q \in {p, new}, NEW i \in DOMAIN ds[q]
       PROVE  \E k \in 1 .. n : ds[q][i] = s[k] /\ (q = new <=> k > m)
                                /\ i = (IF q = new THEN k - m ELSE k)
  <2>1. CASE q = p
    <3>1. i \in 1 .. m /\ q # new
      BY <1>3, <2>1
    <3>2. i \in 1 .. n /\ ds[q][i] = s[i] /\ ~(i > m)
      BY <1>3, <1>6, <2>1, <3>1
    <3> QED BY <3>1, <3>2
  <2>2. CASE q = new
    <3>1. i \in 1 .. n - m
      BY <1>3, <2>2
    <3>2. m + i \in 1 .. n /\ ds[q][i] = s[m + i] /\ m + i > m /\ i = (m + i) - m
      BY <1>3, <1>7, <2>2, <3>1
    <3> QED BY <2>2, <3>2
  <2> QED BY <2>1, <2>2
<1>14. \A q, r \in M : \A i \in DOMAIN ds[q] : \A j \in DOMAIN ds[r] :
         ds[q][i] = ds[r][j] => q = r /\ i = j
  <2> SUFFICES ASSUME NEW q \in M, NEW r \in M, NEW i \in DOMAIN ds[q], NEW j \in DOMAIN ds[r],
                      ds[q][i] = ds[r][j]
               PROVE  q = r /\ i = j
    OBVIOUS
  <2>1. CASE q \in {p, new} /\ r \in {p, new}
    <3>1. PICK k \in 1 .. n : ds[q][i] = s[k] /\ (q = new <=> k > m)
                              /\ i = (IF q = new THEN k - m ELSE k)
      BY <1>13, <2>1
    <3>2. PICK l \in 1 .. n : ds[r][j] = s[l] /\ (r = new <=> l > m)
                              /\ j = (IF r = new THEN l - m ELSE l)
      BY <1>13, <2>1
    <3>4. s[k] = s[l]
      BY <3>1, <3>2
    <3>3. k = l
      BY <1>9, <3>4
    <3> QED BY <2>1, <3>1, <3>2, <3>3
  <2>2. CASE q \notin {p, new} /\ r \notin {p, new}
    <3>1. q \in L /\ r \in L /\ ds[q] = cs[q] /\ ds[r] = cs[r]
      BY <2>2
    <3> QED BY <1>5, <3>1
  <2>3. CASE q \notin {p, new} /\ r \in {p, new}
    <3>1. q \in L /\ q # p
      BY <2>3
    <3>2. PICK l \in 1 .. n : ds[r][j] = s[l]
      BY <1>13, <2>3, ZenonT(30)
    <3>3. ds[q][i] # s[l]
      BY <1>12, <3>1
    <3> QED BY <3>2, <3>3
  <2>4. CASE q \in {p, new} /\ r \notin {p, new}
    <3>1. r \in L /\ r # p
      BY <2>4
    <3>2. PICK k \in 1 .. n : ds[q][i] = s[k]
      BY <1>13, <2>4, ZenonT(30)
    <3>3. ds[r][j] # s[k]
      BY <1>12, <3>1
    <3> QED BY <3>2, <3>3
  <2> QED BY <2>1, <2>2, <2>3, <2>4
<1> QED BY <1>10, <1>11, <1>14 DEF Holding
-----------------------------------------------------------------------------
(* A new row gets a number that no row with its key has.                   *)
LEMMA FiniteBounded ==
  ASSUME NEW S \in SUBSET Nat, IsFiniteSet(S)
  PROVE  \E n \in Nat : \A y \in S : y <= n
<1>1. PICK c \in Nat : ExistsBijection(1 .. c, S)
  BY FS_CardinalityType
<1>2. PICK f \in [1 .. c -> S] : \A y \in S : \E i \in 1 .. c : f[i] = y
  BY <1>1 DEF ExistsBijection, Bijection, Surjection
<1> DEFINE P == 0 .. c
           rank == [k \in P |-> k]
           good == {k \in P : \E n \in Nat : \A i \in 1 .. k : f[i] <= n}
<1>3. rank \in [P -> Nat]
  OBVIOUS
<1>4. \A p \in P : (\A q \in P : rank[q] < rank[p] => q \in good) => p \in good
  <2> SUFFICES ASSUME NEW p \in P, \A q \in P : q < p => q \in good
               PROVE  \E n \in Nat : \A i \in 1 .. p : f[i] <= n
    OBVIOUS
  <2>1. CASE p = 0
    BY <2>1
  <2>2. CASE p # 0
    <3>1. p - 1 \in P /\ p - 1 < p /\ p \in 1 .. c
      BY <2>2
    <3>2. PICK n \in Nat : \A i \in 1 .. p - 1 : f[i] <= n
      BY <3>1
    <3>3. f[p] \in Nat
      BY <1>2, <3>1
    <3>4. PICK b \in Nat : b >= n /\ b >= f[p]
      <4>1. CASE n >= f[p]
        BY <4>1
      <4>2. CASE ~(n >= f[p])
        BY <3>3, <4>2
      <4> QED BY <4>1, <4>2
    <3>5. ASSUME NEW i \in 1 .. p PROVE f[i] <= b
      <4>4. i \in 1 .. c
        BY <3>1
      <4>1. f[i] \in Nat
        BY <1>2, <4>4
      <4>2. CASE i = p
        BY <3>4, <4>2
      <4>3. CASE i # p
        <5>1. i \in 1 .. p - 1
          BY <3>1, <4>3
        <5>2. f[i] <= n
          BY <3>2, <5>1
        <5> QED BY <3>4, <4>1, <5>2
      <4> QED BY <4>2, <4>3
    <3> QED BY <3>5
  <2> QED BY <2>1, <2>2
<1>5. c \in good
  <2> HIDE DEF P, rank, good
  <2>1. \A p \in P : p \in good
    BY <1>3, <1>4, RankInduction
  <2> QED BY <2>1 DEF P
<1> QED BY <1>2, <1>5

LEMMA NextRidIsNew ==
  ASSUME IsFiniteSet(rows), NEW key \in SearchKeys, NextRid(key)[2] \in Copies
  PROVE  /\ NextRid(key) \in AllRids /\ NextRid(key)[1] = key
         /\ <<key, NextRid(key)>> \in EntryType
         /\ <<key, NextRid(key)>> \notin rows
<1> DEFINE S == {n \in Copies : <<key, <<key, n>>>> \in rows}
           g == [n \in S |-> <<key, <<key, n>>>>]
<1>1. S \in SUBSET Nat
  BY TreeAssumption
<1>2. IsFiniteSet(S)
  <2>1. g \in [S -> rows] /\ \A m, n \in S : g[m] = g[n] => m = n
    OBVIOUS
  <2>2. g \in Injection(S, rows)
    BY <2>1 DEF Injection, IsInjective
  <2> HIDE DEF S, g
  <2> QED BY <2>2, FS_Injection
<1>3. PICK b \in Nat : \A y \in S : y <= b
  BY <1>1, <1>2, FiniteBounded
<1>4. PICK T : T = S \cup {0}
  OBVIOUS
<1>5. T \in SUBSET (0 .. b) /\ T # {}
  <2> HIDE DEF S
  <2>1. \A y \in S : y \in 0 .. b
    BY <1>1, <1>3
  <2>2. 0 \in 0 .. b
    OBVIOUS
  <2> QED BY <1>4, <2>1, <2>2
<1>6. Max(T) \in T /\ \A y \in T : Max(T) >= y
  BY <1>5, GreatestOf
<1>11. 0 .. b \subseteq Nat
  BY <1>3
<1>7. PICK m \in Nat : m = Max(T) /\ \A y \in T : m >= y
  <2>1. Max(T) \in Nat
    BY <1>5, <1>6, <1>11
  <2> QED BY <1>6, <2>1
<1>8. NextRid(key) = <<key, 1 + m>>
  BY <1>4, <1>7 DEF NextRid
<1>9. NextRid(key) \in AllRids /\ NextRid(key)[1] = key /\ 1 + m \in Copies
  BY <1>8 DEF AllRids
<1>10. <<key, NextRid(key)>> \notin rows
  <2> SUFFICES ASSUME <<key, NextRid(key)>> \in rows PROVE FALSE
    OBVIOUS
  <2>1. 1 + m \in T
    BY <1>4, <1>8, <1>9
  <2>2. m >= 1 + m
    BY <1>7, <2>1
  <2> QED BY <1>7, <2>2
<1> QED BY <1>9, <1>10 DEF EntryType
-----------------------------------------------------------------------------
(***************************************************************************)
(* The steps.                                                              *)
(***************************************************************************)
LEMMA ShapeKept ==
  ASSUME NEW level, NEW edge, NEW chain, Shape(level, edge, chain),
         nodes' = nodes, root_page_id' = root_page_id
  PROVE  /\ Shape(level, edge, chain)' /\ PageIds' = PageIds /\ Leaves' = Leaves
         /\ Len(nodes') = Len(nodes)
<1>1. PageIds' = PageIds /\ Leaves' = Leaves
  BY DEF PageIds, Leaves
<1>2. \A q \in PageIds : IsNode(nodes[q])'
  BY <1>1 DEF Shape, NodesInv, IsNode
<1> QED BY <1>1, <1>2 DEF Shape, NodesInv, Levels, LeftEdge, IsChain

(* Between operations the pages themselves hold the pairs.                 *)
LEMMA ContentOf ==
  ASSUME NodesInv, held = NoNode
  PROVE  \A p \in PageIds : Content(p) = nodes[p]
<1>1. 0 \notin PageIds
  BY NodeFields DEF PageIds
<1> QED BY <1>1 DEF Content, NoNode

LEMMA ReturnedOk ==
  ASSUME NEW level, Return, HeaderInv', pinned' = EmptyBag
  PROVE  CallInv(level)'
<1>1. pc' = "idle" /\ path' = <<>> /\ held' = NoNode
  BY DEF Return
<1>2. PathInv(level)'
  BY <1>1 DEF PathInv, Splitting
<1>3. HeldInv(level)' /\ PendingInv(level)'
  BY <1>1 DEF HeldInv, PendingInv
<1>4. PinsInv'
  BY <1>1, NothingPinned DEF PinsInv
<1> QED BY <1>2, <1>3, <1>4 DEF CallInv

LEMMA InsertStep ==
  ASSUME PairsInv, NEW level, NEW edge, NEW chain, Shape(level, edge, chain), CallInv(level),
         NEW key \in SearchKeys, Insert(key)
  PROVE  TreeInv'
<1>1. NodesInv /\ Levels(level) /\ HeldInv(level) /\ PinsInv /\ HeaderInv
  BY DEF Shape, CallInv
<1>2. /\ pc = "idle" /\ held = NoNode /\ pinned = EmptyBag /\ NextRid(key)[2] \in Copies
      /\ num_keys' = num_keys + 1 /\ rows' = rows \cup {<<key, NextRid(key)>>}
      /\ UNCHANGED <<metadata, root_page_id>>
  BY <1>1 DEF Insert, Idle, HeldInv, PinsInv
<1>3. PICK to : to = PathTo(key)
  OBVIOUS
<1>4. PICK n \in Nat : n = Len(to)
  BY <1>1, <1>3, PathFound
<1>5. PICK p : p = to[n]
  OBVIOUS
<1>6. /\ to \in Seq(PageIds) /\ n = level[root_page_id] + 1 /\ to[1] = root_page_id
      /\ \A i \in 1 .. n : level[to[i]] = n - i
  <2>1. to \in Seq(PageIds) /\ n = level[root_page_id] + 1
    BY <1>1, <1>3, <1>4, PathFound
  <2>2. to[1] = root_page_id
    BY <1>1, <1>3, <1>4, PathFound
  <2>3. \A i \in 1 .. n : level[to[i]] = n - i
    BY <1>1, <1>3, <1>4, PathFound
  <2> QED BY <2>1, <2>2, <2>3
<1>7. n \in 1 .. n /\ p \in Leaves /\ p \in PageIds /\ Last(PathTo(key)) = p
  <2>1. level[root_page_id] \in Nat
    BY <1>1 DEF Levels
  <2>2. n \in 1 .. n
    BY <1>6, <2>1
  <2>3. p \in PageIds /\ level[p] = 0
    BY <1>5, <1>6, <1>4, <2>2
  <2> QED BY <1>1, <1>3, <1>4, <1>5, <2>2, <2>3 DEF Levels, Leaves, Last
<1>8. PICK rid : rid = NextRid(key)
  OBVIOUS
<1>9. rid \in AllRids /\ rid[1] = key /\ <<key, rid>> \in EntryType /\ <<key, rid>> \notin rows
  BY <1>2, <1>8, NextRidIsNew DEF PairsInv
<1>10. PICK old : old = nodes[p]
  OBVIOUS
<1>11. old \in LeafNode /\ Len(old.entries) <= ORDER /\ Len(old.entries) \in Nat
  <2>1. old \in LeafNode
    BY <1>1, <1>7, <1>10, NodeFields
  <2>2. Len(Keys(old)) <= ORDER
    BY <1>1, <1>7, <1>10 DEF NodesInv
  <2> QED BY <2>1, <2>2, LeafKeys
<1>12. PICK leaf, at : leaf = insert(old, key, rid) /\ at = Place(KeysOf(old.entries), key)
  OBVIOUS
<1>13. /\ leaf \in LeafNode /\ leaf.prev_leaf = old.prev_leaf /\ leaf.next_leaf = old.next_leaf
       /\ at \in 1 .. Len(old.entries) + 1 /\ Len(leaf.entries) = Len(old.entries) + 1
       /\ \A j \in 1 .. Len(old.entries) + 1 :
            leaf.entries[j] = IF j < at THEN old.entries[j]
                              ELSE IF j = at THEN <<key, rid>> ELSE old.entries[j - 1]
  <2>1. /\ leaf \in LeafNode /\ leaf.prev_leaf = old.prev_leaf
        /\ leaf.next_leaf = old.next_leaf
        /\ at \in 1 .. Len(old.entries) + 1 /\ Len(leaf.entries) = Len(old.entries) + 1
    BY <1>9, <1>11, <1>12, LeafInserted
  <2>2. \A j \in 1 .. Len(old.entries) + 1 :
          leaf.entries[j] = IF j < at THEN old.entries[j]
                            ELSE IF j = at THEN <<key, rid>> ELSE old.entries[j - 1]
    BY <1>9, <1>11, <1>12, LeafInserted
  <2> QED BY <2>1, <2>2
<1>14. /\ leaf.entries \in Seq(EntryType) /\ Len(Keys(leaf)) = Len(leaf.entries)
  BY <1>13, LeafKeys
<1>21. Walked(pinned, to) = fetch_page(EmptyBag, p)
  <2>1. to # <<>> /\ Last(to) = p
    BY <1>3, <1>4, <1>7
  <2> QED BY <1>2, <1>6, <2>1, NothingPinned, WalkedIs
<1>22. unpin_page(fetch_page(EmptyBag, p), p) = EmptyBag
  BY NothingPinned, PinnedOnce
<1>15. ASSUME is_overflow(leaf)
       PROVE  /\ pc' = "split_leaf" /\ path' = to /\ held' = [page |-> p, node |-> leaf]
              /\ pinned' = fetch_page(EmptyBag, p) /\ UNCHANGED <<nodes, split>>
  BY <1>2, <1>3, <1>7, <1>8, <1>10, <1>12, <1>15, <1>21 DEF Insert
<1>16. ASSUME ~is_overflow(leaf)
       PROVE  nodes' = [nodes EXCEPT ![p] = leaf] /\ Return /\ pinned' = EmptyBag
  BY <1>3, <1>7, <1>8, <1>10, <1>12, <1>16, <1>21, <1>22 DEF Insert
<1>17. HeaderInv'
  <2>1. pc' \in {"idle", "split_leaf"}
    BY <1>15, <1>16 DEF Return
  <2> QED BY <1>1, <1>2, <2>1 DEF HeaderInv
<1>18. \E chain2 : Shape(level, edge, chain2)' /\ CallInv(level)'
  <2>1. CASE is_overflow(leaf)
    <3>1. Shape(level, edge, chain)' /\ PageIds' = PageIds
      BY <1>2, <1>15, <2>1, ShapeKept
    <3>2. Len(leaf.entries) = ORDER + 1
      BY <1>11, <1>13, <1>14, <2>1, OrderAssumption DEF is_overflow
    <3>3. PathInv(level)'
      <4>1. path' = to /\ root_page_id' = root_page_id
        BY <1>2, <1>15, <2>1
      <4>2. Len(to) >= 1 /\ \A i \in 1 .. Len(to) : level[to[i]] = Len(to) - i
        BY <1>4, <1>6, <1>7
      <4> QED BY <1>6, <3>1, <4>1, <4>2 DEF PathInv
    <3>4. HeldInv(level)'
      BY <1>4, <1>5, <1>10, <1>13, <1>15, <2>1, <3>2 DEF HeldInv
    <3>5. PendingInv(level)' /\ PinsInv'
      <4>1. PendingInv(level)'
        BY <1>15, <2>1 DEF PendingInv
      <4>2. IsABag(pinned') /\ DOMAIN pinned' = {p}
        BY <1>15, <2>1, NothingPinned, PinnedOnce
      <4>3. p \in 0 .. Len(nodes')
        BY <1>1, <1>7, <1>15, <2>1, NodeFields DEF PageIds
      <4> QED BY <1>15, <2>1, <4>1, <4>2, <4>3 DEF PinsInv
    <3> QED BY <1>17, <3>1, <3>3, <3>4, <3>5 DEF CallInv
  <2>2. CASE ~is_overflow(leaf)
    <3>1. Len(leaf.entries) <= ORDER
      BY <1>11, <1>13, <1>14, <2>2, OrderAssumption DEF is_overflow
    <3>2. Shape(level, edge, chain)'
      BY <1>2, <1>7, <1>10, <1>13, <1>16, <2>2, <3>1, LeafChanged
    <3>3. CallInv(level)'
      BY <1>2, <1>16, <1>17, <2>2, ReturnedOk
    <3> QED BY <3>2, <3>3
  <2> QED BY <2>1, <2>2
<1>19. /\ Leaves' = Leaves
       /\ \A q \in Leaves : Content(q)' = IF q = p THEN leaf ELSE nodes[q]
  <2>1. CASE is_overflow(leaf)
    <3>1. Leaves' = Leaves /\ nodes' = nodes
      BY <1>2, <1>15, <2>1, ShapeKept
    <3> QED BY <1>15, <2>1, <3>1 DEF Content
  <2>2. CASE ~is_overflow(leaf)
    <3>1. Len(leaf.entries) <= ORDER
      BY <1>11, <1>13, <1>14, <2>2, OrderAssumption DEF is_overflow
    <3>2. Leaves' = Leaves /\ PageIds' = PageIds
      BY <1>2, <1>7, <1>10, <1>13, <1>16, <2>2, <3>1, LeafChanged
    <3>3. \A q \in PageIds : nodes'[q] = IF q = p THEN leaf ELSE nodes[q]
      BY <1>2, <1>7, <1>10, <1>13, <1>16, <2>2, <3>1, LeafChanged
    <3>4. held' = NoNode /\ 0 \notin PageIds
      BY <1>16, <2>2, <1>1, NodeFields DEF Return, PageIds
    <3> QED BY <3>2, <3>3, <3>4 DEF Content, NoNode, Leaves
  <2> QED BY <2>1, <2>2
<1>20. PairsInv'
  <2>1. PICK cs : cs = EntriesOf
    OBVIOUS
  <2>2. /\ Holding(Leaves, cs, rows) /\ cs[p] = old.entries
        /\ \A q \in Leaves : cs[q] = nodes[q].entries
    BY <1>1, <1>2, <1>7, <1>10, <2>1, ContentOf DEF PairsInv, EntriesOf, Leaves
  <2>3. EntriesOf' = [cs EXCEPT ![p] = leaf.entries]
    <3>1. \A q \in Leaves : Content(q)'.entries = IF q = p THEN leaf.entries ELSE cs[q]
      BY <1>19, <2>2
    <3>2. EntriesOf' = [q \in Leaves |-> Content(q)'.entries]
      BY <1>19 DEF EntriesOf
    <3>3. DOMAIN cs = Leaves
      BY <2>1 DEF EntriesOf
    <3> QED BY <1>7, <3>1, <3>2, <3>3
  <2>4. PICK L, rs : L = Leaves /\ rs = rows
    OBVIOUS
  <2>5. Holding(L, [cs EXCEPT ![p] = leaf.entries], rs \cup {<<key, rid>>})
    <3>1. Holding(L, cs, rs) /\ p \in L /\ <<key, rid>> \in EntryType /\ <<key, rid>> \notin rs
      BY <1>7, <1>9, <2>2, <2>4
    <3>2. PICK t : t = leaf.entries
      OBVIOUS
    <3>3. /\ at \in 1 .. Len(cs[p]) + 1 /\ t \in Seq(EntryType) /\ Len(t) = Len(cs[p]) + 1
          /\ \A j \in 1 .. Len(cs[p]) + 1 :
               t[j] = IF j < at THEN cs[p][j]
                      ELSE IF j = at THEN <<key, rid>> ELSE cs[p][j - 1]
      BY <1>13, <1>14, <2>2, <3>2
    <3>4. PICK e : e = <<key, rid>>
      OBVIOUS
    <3>5. \A j \in 1 .. Len(cs[p]) + 1 :
            t[j] = IF j < at THEN cs[p][j] ELSE IF j = at THEN e ELSE cs[p][j - 1]
      BY <3>3, <3>4
    <3>6. Holding(L, [cs EXCEPT ![p] = t], rs \cup {e})
      BY <3>1, <3>3, <3>4, <3>5, PairInserted
    <3> QED BY <3>2, <3>4, <3>6
  <2>6. Holding(Leaves', EntriesOf', rows')
    BY <1>2, <1>8, <1>19, <2>3, <2>4, <2>5
  <2>7. IsFiniteSet(rows') /\ \A e \in rows' : e[2][1] = e[1]
    <3>1. IsFiniteSet(rows) /\ \A e \in rows : e[2][1] = e[1]
      BY DEF PairsInv
    <3>2. IsFiniteSet(rows')
      BY <1>2, <3>1, FS_AddElement
    <3> QED BY <1>2, <1>8, <1>9, <3>1, <3>2
  <2> QED BY <2>6, <2>7 DEF PairsInv
<1> QED BY <1>18, <1>20 DEF TreeInv

LEMMA SplitLeafStep ==
  ASSUME PairsInv, NEW level, NEW edge, NEW chain, Shape(level, edge, chain), CallInv(level),
         _split_leaf
  PROVE  TreeInv'
<1>1. NodesInv /\ Levels(level) /\ IsChain(chain) /\ PathInv(level) /\ HeldInv(level)
      /\ PinsInv /\ HeaderInv
  BY DEF Shape, CallInv
<1>2. PICK p, leaf, new, n : p = held.page /\ leaf = held.node /\ new = NewPage /\ n = Half(leaf)
  OBVIOUS
<1>3. /\ pc = "split_leaf" /\ held' = NoNode /\ pinned' = EmptyBag
      /\ UNCHANGED <<path, metadata, root_page_id, num_keys, rows>>
  <2>1. /\ pc = "split_leaf" /\ held' = NoNode
        /\ pinned' = Parted(Told(fetch_page(pinned, NewPage), held.node.next_leaf))
        /\ UNCHANGED <<path, metadata, root_page_id, num_keys, rows>>
    BY DEF _split_leaf
  <2>2. pinned = fetch_page(EmptyBag, held.page)
    BY <1>1, <2>1 DEF PinsInv
  <2> QED BY <2>1, <2>2, PartedReturns
<1>4. PICK m \in Nat \ {0} : m = Len(path)
  BY <1>1, <1>3 DEF PathInv, Splitting
<1>5. /\ path \in Seq(PageIds) /\ path[1] = root_page_id
      /\ \A i \in 1 .. m : path[i] \in PageIds /\ level[path[i]] = m - i
      /\ p = path[m] /\ m \in 1 .. m
  BY <1>1, <1>2, <1>3, <1>4 DEF PathInv, Splitting, HeldInv
<1>6. p \in Leaves /\ p \in PageIds /\ level[p] = 0
  <2>1. p \in PageIds /\ level[p] = 0
    BY <1>4, <1>5
  <2> QED BY <1>1, <2>1 DEF Levels, Leaves
<1>7. PICK k \in DOMAIN chain : chain[k] = p
  BY <1>1, <1>6 DEF IsChain
<1>8. /\ leaf \in LeafNode /\ Len(leaf.entries) = ORDER + 1
      /\ leaf.prev_leaf = nodes[p].prev_leaf /\ leaf.next_leaf = nodes[p].next_leaf
  BY <1>1, <1>2, <1>3 DEF HeldInv
<1>9. leaf.entries \in Seq(EntryType) /\ n = (ORDER + 1) \div 2
      /\ leaf.prev_leaf \in Int /\ leaf.next_leaf \in Int
  BY <1>2, <1>8, LeafKeys DEF Half
<1>10. n \in 1 .. ORDER - 1 /\ ORDER + 1 - n \in 1 .. ORDER /\ ORDER \in Nat
       /\ n \in 0 .. Len(leaf.entries)
  <2>1. n \in 1 .. ORDER - 1 /\ ORDER + 1 - n \in 1 .. ORDER /\ ORDER \in Nat
    BY <1>9, Halves, OrderAssumption
  <2> QED BY <1>8, <2>1
<1>11. PICK es, lo, hi : es = leaf.entries /\ lo = UpTo(es, n) /\ hi = From(es, n + 1)
  OBVIOUS
<1>12. /\ lo \in Seq(EntryType) /\ Len(lo) = n /\ \A j \in 1 .. n : lo[j] = es[j]
       /\ hi \in Seq(EntryType) /\ Len(hi) = Len(es) - n
       /\ \A j \in 1 .. Len(es) - n : hi[j] = es[n + j]
  <2>1. es \in Seq(EntryType) /\ n \in 0 .. Len(es)
    BY <1>9, <1>10, <1>11
  <2>2. lo \in Seq(EntryType) /\ Len(lo) = n
    BY <1>11, <2>1, Cut
  <2>3. \A j \in 1 .. n : lo[j] = es[j]
    BY <1>11, <2>1, Cut
  <2>4. hi \in Seq(EntryType) /\ Len(hi) = Len(es) - n
    BY <1>11, <2>1, Cut, ZenonT(60)
  <2>5. \A j \in 1 .. Len(es) - n : hi[j] = es[n + j]
    BY <1>11, <2>1, Cut, ZenonT(60)
  <2> QED BY <2>2, <2>3, <2>4, <2>5
<1>13. PICK low, high : low = Leaf(lo, leaf.prev_leaf, new) /\ high = Leaf(hi, p, leaf.next_leaf)
  OBVIOUS
<1>14. new = Len(nodes) + 1 /\ new \in Nat /\ p \in Int
  BY <1>1, <1>2, <1>6, NodeFields DEF NewPage
<1>15. /\ low \in LeafNode /\ low.entries = lo /\ low.prev_leaf = leaf.prev_leaf
       /\ low.next_leaf = new
       /\ high \in LeafNode /\ high.entries = hi /\ high.prev_leaf = p
       /\ high.next_leaf = leaf.next_leaf
  BY <1>9, <1>12, <1>13, <1>14 DEF Leaf, LeafNode
<1>16. /\ nodes' = Append([Neighbour(nodes, leaf.next_leaf, new) EXCEPT ![p] = low], high)
       /\ IF m - 1 >= 1
          THEN pc' = "update_parent"
               /\ split' = [node |-> p, new |-> new, separator |-> 0, idx |-> m - 1]
          ELSE pc' = "split_root"
               /\ split' = [node |-> p, new |-> new, separator |-> high.entries[1][1], idx |-> 0]
  BY <1>2, <1>4, <1>11, <1>13 DEF _split_leaf
<1>17. PICK level2 : level2 = [q \in PageIds' |-> IF q = new THEN 0 ELSE level[q]]
  OBVIOUS
<1>18. PICK chain2 : chain2 = InsertAt(chain, k + 1, new)
  OBVIOUS
<1>19. /\ low.prev_leaf = nodes[chain[k]].prev_leaf /\ low.next_leaf = new
       /\ high.prev_leaf = chain[k] /\ high.next_leaf = nodes[chain[k]].next_leaf
       /\ Len(low.entries) <= ORDER /\ Len(high.entries) <= ORDER
       /\ nodes' = Append([Neighbour(nodes, high.next_leaf, new) EXCEPT ![chain[k]] = low], high)
  BY <1>7, <1>8, <1>10, <1>11, <1>12, <1>15, <1>16, SMTT(60)
<1>20. Shape(level2, edge, chain2)'
  BY <1>2, <1>3, <1>15, <1>17, <1>18, <1>19, LeafSplit
<1>21. /\ PageIds' = PageIds \cup {new} /\ new \notin PageIds
       /\ Leaves' = Leaves \cup {new} /\ Len(nodes') = Len(nodes) + 1
  BY <1>2, <1>3, <1>15, <1>17, <1>18, <1>19, LeafSplit
<1>22. /\ \A q \in Leaves : q # p => nodes'[q].entries = nodes[q].entries
       /\ nodes'[p] = low /\ nodes'[new] = high
  <2>1. Halved(nodes, nodes', chain[k], new, low, high)
    BY <1>2, <1>3, <1>15, <1>17, <1>18, <1>19, LeafSplit
  <2> QED BY <1>7, <2>1 DEF Halved
<1>23. level2[new] = 0 /\ \A q \in PageIds : level2[q] = level[q]
  BY <1>17, <1>21
<1>24. PathInv(level2)'
  <2>1. path \in Seq(PageIds')
    BY <1>5, <1>21, SeqMonotonic
  <2>2. \A i \in 1 .. m : level2[path[i]] = m - i
    BY <1>5, <1>23
  <2> QED BY <1>3, <1>4, <1>5, <2>1, <2>2 DEF PathInv
<1>25. HeldInv(level2)'
  BY <1>3, <1>16 DEF HeldInv
<1>26. PendingInv(level2)'
  <2>1. Len(Keys(nodes'[new])) >= 1 /\ high.entries[1][1] \in SearchKeys
    <3>1. Len(hi) >= 1 /\ hi[1] \in EntryType
      BY <1>8, <1>10, <1>11, <1>12
    <3>2. Len(Keys(high)) = Len(hi)
      BY <1>15, LeafKeys
    <3> QED BY <1>15, <1>22, <3>1, <3>2 DEF EntryType
  <2>2. Len(Keys(nodes[split.new]))' >= 1
    <3>1. split'.new = new
      BY <1>16
    <3> QED BY <2>1, <3>1
  <2>3. /\ split'.idx \in 0 .. m - 1 /\ split'.node = path[split'.idx + 1]
        /\ split'.new = new /\ split'.node = p /\ split'.separator \in SearchKeys \cup {0}
    BY <1>4, <1>5, <1>16, <2>1
  <2>4. /\ pc' = "update_parent" => split'.idx # 0
        /\ pc' = "split_root" => split'.idx = 0 /\ split'.separator \in SearchKeys
    BY <1>4, <1>16, <2>1
  <2> QED BY <1>3, <1>4, <1>6, <1>21, <1>23, <2>2, <2>3, <2>4 DEF PendingInv
<1>27. HeaderInv' /\ PinsInv'
  <2>1. pinned' = EmptyBag /\ pc' \in {"update_parent", "split_root"}
    BY <1>3, <1>16
  <2> QED BY <1>1, <1>3, <2>1, NothingPinned DEF HeaderInv, PinsInv
<1>28. CallInv(level2)'
  BY <1>24, <1>25, <1>26, <1>27 DEF CallInv
<1>29. PairsInv'
  <2>1. PICK cs, ds, L, rs : cs = EntriesOf /\ ds = EntriesOf' /\ L = Leaves /\ rs = rows
    OBVIOUS
  <2>2. Holding(L, cs, rs) /\ cs[p] = es /\ \A q \in L : q # p => cs[q] = nodes[q].entries
    BY <1>2, <1>6, <1>11, <2>1 DEF PairsInv, EntriesOf, Content
  <2>3. \A q \in PageIds' : Content(q)' = nodes'[q]
    <3>1. NodesInv'
      BY <1>20 DEF Shape
    <3>2. 0 \notin PageIds'
      BY <1>1, <1>14, <1>21, NodeFields DEF PageIds
    <3> QED BY <1>3, <3>2 DEF Content, NoNode
  <2>4. new \notin L /\ Leaves' = L \cup {new} /\ p \in L /\ L \subseteq PageIds
    BY <1>1, <1>6, <1>21, <2>1, NodeFields
  <2>5. ds = [q \in L \cup {new} |-> nodes'[q].entries]
    BY <1>21, <2>1, <2>3, <2>4 DEF EntriesOf
  <2>6. ds[p] = lo /\ ds[new] = hi /\ \A q \in L : q # p => ds[q] = cs[q]
    BY <1>15, <1>22, <2>1, <2>2, <2>4, <2>5
  <2>7. ds \in [L \cup {new} -> Seq(EntryType)]
    <3>1. cs \in [L -> Seq(EntryType)]
      BY <2>2 DEF Holding
    <3>2. \A q \in L \cup {new} : ds[q] \in Seq(EntryType)
      BY <1>12, <2>6, <3>1
    <3> QED BY <2>5, <3>2
  <2>8. n \in 0 .. Len(cs[p])
    BY <1>10, <1>11, <2>2
  <2>9. Holding(L \cup {new}, ds, rs)
    <3>1. /\ \A j \in 1 .. n : lo[j] = cs[p][j]
          /\ Len(hi) = Len(cs[p]) - n /\ \A j \in 1 .. Len(cs[p]) - n : hi[j] = cs[p][n + j]
      BY <1>12, <2>2
    <3>2. Holding(L, cs, rs) /\ p \in L /\ new \notin L
      BY <2>2, <2>4
    <3>3. lo \in Seq(EntryType) /\ Len(lo) = n /\ hi \in Seq(EntryType)
      BY <1>12
    <3> QED BY <2>6, <2>7, <2>8, <3>1, <3>2, <3>3, PairsCut, SMTT(60)
  <2>10. Holding(Leaves', EntriesOf', rows')
    BY <1>3, <2>1, <2>4, <2>9
  <2> QED BY <1>3, <2>10 DEF PairsInv
<1> QED BY <1>20, <1>28, <1>29 DEF TreeInv

(* The inner nodes of the tree hold no pairs.                              *)
LEMMA PairsKept ==
  ASSUME PairsInv, rows' = rows, Leaves' = Leaves, \A q \in Leaves : Content(q)' = Content(q)
  PROVE  PairsInv'
<1>1. EntriesOf' = EntriesOf
  BY DEF EntriesOf
<1> QED BY <1>1 DEF PairsInv

LEMMA UpdateParentStep ==
  ASSUME PairsInv, NEW level, NEW edge, NEW chain, Shape(level, edge, chain), CallInv(level),
         _update_parent
  PROVE  TreeInv'
<1>1. NodesInv /\ Levels(level) /\ PathInv(level) /\ HeldInv(level) /\ PendingInv(level)
      /\ PinsInv /\ HeaderInv
  BY DEF Shape, CallInv
<1>2. PICK p, i, new, key : p = path[i] /\ i = split.idx /\ new = split.new /\ key = Separator
  OBVIOUS
<1>3. /\ pc = "update_parent" /\ held = NoNode /\ pinned = EmptyBag
      /\ UNCHANGED <<metadata, root_page_id, num_keys, rows>>
  BY <1>1 DEF _update_parent, HeldInv, PinsInv
<1>4. PICK m \in Nat \ {0} : m = Len(path)
  BY <1>1, <1>3 DEF PathInv, Splitting
<1>5. /\ path \in Seq(PageIds) /\ path[1] = root_page_id
      /\ \A j \in 1 .. m : path[j] \in PageIds /\ level[path[j]] = m - j
  BY <1>1, <1>3, <1>4 DEF PathInv, Splitting
<1>6. /\ i \in 1 .. m - 1 /\ new \in PageIds /\ level[new] = level[split.node]
      /\ split.node = path[i + 1] /\ Len(Keys(nodes[new])) >= 1
      /\ split.separator \in SearchKeys \cup {0}
  <2>1. i \in 0 .. m - 1 /\ i # 0
    BY <1>1, <1>2, <1>3, <1>4 DEF PendingInv
  <2>2. i \in 1 .. m - 1
    BY <1>4, <2>1
  <2> QED BY <1>1, <1>2, <1>3, <2>2 DEF PendingInv
<1>7. p \in PageIds /\ level[p] = m - i /\ p \notin Leaves /\ level[new] + 1 = level[p]
  <2>1. i \in 1 .. m /\ i + 1 \in 1 .. m /\ m - i # 0 /\ (m - (i + 1)) + 1 = m - i
    BY <1>4, <1>6
  <2>2. p \in PageIds /\ level[p] = m - i
    BY <1>2, <1>5, <2>1
  <2>3. level[new] = m - (i + 1)
    BY <1>5, <1>6, <2>1
  <2> QED BY <1>1, <2>1, <2>2, <2>3 DEF Levels, Leaves
<1>8. key \in SearchKeys
  <2>1. Keys(nodes[new])[1] \in SearchKeys
    <3>1. CASE new \in Leaves
      <4>1. nodes[new] \in LeafNode
        BY <1>1, <3>1, NodeFields
      <4>2. Keys(nodes[new]) \in Seq(SearchKeys)
        BY <4>1, LeafKeys
      <4> QED BY <1>6, <4>2
    <3>2. CASE new \notin Leaves
      <4>1. ~nodes[new].is_leaf /\ nodes[new].keys \in Seq(SearchKeys)
        BY <1>1, <1>6, <3>2, NodeFields DEF Leaves
      <4>2. Keys(nodes[new]) \in Seq(SearchKeys)
        BY <4>1 DEF Keys
      <4> QED BY <1>6, <4>2
    <3> QED BY <3>1, <3>2
  <2> QED BY <1>2, <1>6, <2>1 DEF Separator
<1>9. PICK old, node, at : /\ old = nodes[p] /\ node = insert_pointer(old, key, new)
                           /\ at = Place(old.keys, key)
  OBVIOUS
<1>10. /\ old \in InnerNode /\ old.pointers \in Seq(PageIds)
       /\ Len(old.pointers) = Len(old.keys) + 1
       /\ Len(old.keys) \in Nat /\ Len(old.keys) <= ORDER /\ ORDER \in Nat
  <2>1. /\ old \in InnerNode /\ old.pointers \in Seq(PageIds)
        /\ Len(old.pointers) = Len(old.keys) + 1 /\ old.keys \in Seq(SearchKeys)
    BY <1>1, <1>7, <1>9, NodeFields
  <2>2. Len(Keys(old)) <= ORDER /\ ~old.is_leaf
    BY <1>1, <1>7, <1>9 DEF NodesInv, Leaves
  <2> QED BY <2>1, <2>2, OrderAssumption DEF Keys
<1>22. PICK P : P = PageIds
  OBVIOUS
<1>23. old.pointers \in Seq(P) /\ P \subseteq Nat /\ new \in P
  BY <1>1, <1>6, <1>10, <1>22, NodeFields
<1>24. Grows(old, key, new, P)
  BY <1>8, <1>10, <1>23 DEF Grows
<1>11. /\ node \in InnerNode /\ node.pointers \in Seq(PageIds)
       /\ Len(node.keys) = Len(old.keys) + 1 /\ Len(node.pointers) = Len(node.keys) + 1
       /\ at \in 1 .. Len(old.keys) + 1
  <2>1. node \in InnerNode
    BY <1>9, <1>24, PointerInserted
  <2>2. node.pointers \in Seq(P)
    BY <1>9, <1>24, PointerInserted
  <2>3. Len(node.keys) = Len(old.keys) + 1
    BY <1>9, <1>24, PointerInserted
  <2>4. Len(node.pointers) = Len(node.keys) + 1
    BY <1>9, <1>24, PointerInserted
  <2>5. at \in 1 .. Len(old.keys) + 1
    BY <1>9, <1>24, PointerInserted
  <2> QED BY <1>22, <2>1, <2>2, <2>3, <2>4, <2>5
<1>12. \A j \in 1 .. Len(old.pointers) + 1 :
         node.pointers[j] = IF j < at + 1 THEN old.pointers[j]
                            ELSE IF j = at + 1 THEN new ELSE old.pointers[j - 1]
  <2>1. ASSUME NEW j \in 1 .. Len(old.pointers) + 1
        PROVE  node.pointers[j] = IF j < at + 1 THEN old.pointers[j]
                                  ELSE IF j = at + 1 THEN new ELSE old.pointers[j - 1]
    BY <1>9, <1>24, PointerInserted
  <2> QED BY <2>1
<1>13. PICK n \in Nat : n = Len(old.pointers) /\ n >= 1
  BY <1>10
<1>14. node.pointers[1] = old.pointers[1]
  <2>1. 1 \in 1 .. n + 1 /\ 1 < at + 1
    BY <1>10, <1>11, <1>13
  <2> QED BY <1>12, <1>13, <2>1
<1>15. \A j \in DOMAIN node.pointers : level[node.pointers[j]] + 1 = level[p]
  <2> SUFFICES ASSUME NEW j \in 1 .. n + 1 PROVE level[node.pointers[j]] + 1 = level[p]
    BY <1>10, <1>11, <1>13, SMTT(30)
  <2>1. \A k \in 1 .. n : level[old.pointers[k]] + 1 = level[p]
    BY <1>1, <1>7, <1>9, <1>10, <1>13, SMTT(30) DEF Levels
  <2>2. CASE j < at + 1
    <3>1. j \in 1 .. n
      BY <1>10, <1>11, <1>13, <2>2
    <3> QED BY <1>12, <1>13, <2>1, <2>2, <3>1
  <2>3. CASE j = at + 1
    <3>1. ~(j < at + 1)
      BY <1>11, <2>3
    <3> QED BY <1>7, <1>12, <1>13, <2>3, <3>1
  <2>4. CASE ~(j < at + 1) /\ j # at + 1
    <3>1. j - 1 \in 1 .. n
      BY <1>10, <1>11, <1>13, <2>4
    <3>2. node.pointers[j] = old.pointers[j - 1]
      BY <1>12, <1>13, <2>4
    <3> QED BY <2>1, <3>1, <3>2
  <2> QED BY <2>2, <2>3, <2>4
<1>16. Len(Keys(node)) = Len(node.keys)
  BY <1>11, InnerIsNode
<1>25. unpin_page(fetch_page(EmptyBag, p), p) = EmptyBag
  BY NothingPinned, PinnedOnce
<1>17. ASSUME is_overflow(node)
       PROVE  /\ pc' = "split_internal" /\ held' = [page |-> p, node |-> node]
              /\ pinned' = fetch_page(EmptyBag, p) /\ UNCHANGED <<nodes, path, split>>
  BY <1>2, <1>3, <1>9, <1>17 DEF _update_parent, Parent
<1>18. ASSUME ~is_overflow(node)
       PROVE  nodes' = [nodes EXCEPT ![p] = node] /\ Return /\ pinned' = EmptyBag
  BY <1>2, <1>3, <1>9, <1>18, <1>25 DEF _update_parent, Parent
<1>19. HeaderInv'
  <2>1. pc' \in {"idle", "split_internal"}
    BY <1>17, <1>18 DEF Return
  <2> QED BY <1>1, <1>3, <2>1 DEF HeaderInv
<1>20. CASE is_overflow(node)
  <2>1. Shape(level, edge, chain)' /\ PageIds' = PageIds /\ Leaves' = Leaves
    BY <1>3, <1>17, <1>20, ShapeKept
  <2>2. Len(node.keys) = ORDER + 1 /\ Len(node.pointers) = ORDER + 2
    <3>1. Len(node.keys) = ORDER + 1
      BY <1>10, <1>11, <1>16, <1>20 DEF is_overflow
    <3> QED BY <1>10, <1>11, <3>1
  <2>3. PathInv(level)'
    BY <1>1, <1>3, <1>17, <1>20, <2>1 DEF PathInv, Splitting
  <2>4. HeldInv(level)'
    <3>1. held'.page = p /\ held'.node = node /\ path' = path /\ split' = split
          /\ pc' = "split_internal" /\ nodes' = nodes
      BY <1>17, <1>20
    <3>2. split'.idx \in 1 .. Len(path') - 1 /\ held'.page = path'[split'.idx]
      BY <1>2, <1>4, <1>6, <3>1
    <3> QED BY <1>9, <1>11, <1>14, <1>15, <2>1, <2>2, <3>1, <3>2 DEF HeldInv
  <2>5. PendingInv(level)' /\ PinsInv'
    <3>1. PendingInv(level)'
      BY <1>17, <1>20 DEF PendingInv
    <3>2. IsABag(pinned') /\ DOMAIN pinned' = {p}
      BY <1>17, <1>20, NothingPinned, PinnedOnce
    <3>3. p \in 0 .. Len(nodes')
      BY <1>1, <1>7, <1>17, <1>20, NodeFields DEF PageIds
    <3> QED BY <1>17, <1>20, <3>1, <3>2, <3>3 DEF PinsInv
  <2>6. CallInv(level)'
    BY <1>19, <2>3, <2>4, <2>5 DEF CallInv
  <2>7. \A q \in Leaves : Content(q)' = Content(q)
    BY <1>1, <1>3, <1>7, <1>17, <1>20, ContentOf, NodeFields DEF Content
  <2>8. PairsInv'
    BY <1>3, <2>1, <2>7, PairsKept
  <2> QED BY <2>1, <2>6, <2>8 DEF TreeInv
<1>21. CASE ~is_overflow(node)
  <2>1. Len(node.keys) <= ORDER
    BY <1>10, <1>11, <1>16, <1>21 DEF is_overflow
  <2>9. /\ p \in PageIds \ Leaves /\ node.pointers[1] = nodes[p].pointers[1]
        /\ nodes' = [nodes EXCEPT ![p] = node] /\ root_page_id' = root_page_id
    BY <1>3, <1>7, <1>9, <1>14, <1>18, <1>21
  <2>2. Shape(level, edge, chain)' /\ Leaves' = Leaves /\ PageIds' = PageIds
    BY <1>11, <1>15, <2>1, <2>9, InnerChanged
  <2>3. \A q \in PageIds : nodes'[q] = IF q = p THEN node ELSE nodes[q]
    BY <1>1, <2>9, NodeFields
  <2>4. CallInv(level)'
    BY <1>3, <1>18, <1>19, <1>21, ReturnedOk
  <2>5. NodesInv' /\ held' = NoNode
    BY <1>18, <1>21, <2>2 DEF Shape, Return
  <2>6. \A q \in Leaves : Content(q)' = nodes'[q]
    <3>1. 0 \notin PageIds
      BY <1>1, NodeFields DEF PageIds
    <3> QED BY <1>1, <2>5, <3>1, NodeFields DEF Content, NoNode
  <2>7. \A q \in Leaves : Content(q)' = Content(q)
    BY <1>1, <1>3, <1>7, <2>3, <2>6, ContentOf, NodeFields
  <2>8. PairsInv'
    BY <1>3, <2>2, <2>7, PairsKept
  <2> QED BY <2>2, <2>4, <2>8 DEF TreeInv
<1> QED BY <1>20, <1>21

LEMMA SplitInternalStep ==
  ASSUME PairsInv, NEW level, NEW edge, NEW chain, Shape(level, edge, chain), CallInv(level),
         _split_internal
  PROVE  TreeInv'
<1>1. NodesInv /\ Levels(level) /\ PathInv(level) /\ HeldInv(level) /\ PinsInv /\ HeaderInv
  BY DEF Shape, CallInv
<1>2. PICK p, i, node, new, n : /\ p = held.page /\ i = split.idx /\ node = held.node
                                /\ new = NewPage /\ n = Half(node)
  OBVIOUS
<1>3. /\ pc = "split_internal" /\ held' = NoNode /\ pinned' = EmptyBag
      /\ UNCHANGED <<path, metadata, root_page_id, num_keys, rows>>
  <2>1. /\ pc = "split_internal" /\ held' = NoNode
        /\ pinned' = Parted(fetch_page(pinned, NewPage))
        /\ UNCHANGED <<path, metadata, root_page_id, num_keys, rows>>
    BY DEF _split_internal
  <2>2. pinned = fetch_page(EmptyBag, held.page)
    BY <1>1, <2>1 DEF PinsInv
  <2> QED BY <2>1, <2>2, PartedReturns
<1>4. PICK m \in Nat \ {0} : m = Len(path)
  BY <1>1, <1>3 DEF PathInv, Splitting
<1>5. /\ path \in Seq(PageIds) /\ path[1] = root_page_id
      /\ \A j \in 1 .. m : path[j] \in PageIds /\ level[path[j]] = m - j
  BY <1>1, <1>3, <1>4 DEF PathInv, Splitting
<1>6. i \in 1 .. m - 1 /\ p = path[i]
  BY <1>1, <1>2, <1>3, <1>4 DEF HeldInv
<1>7. p \in PageIds /\ level[p] = m - i /\ p \notin Leaves
  <2>1. i \in 1 .. m /\ m - i # 0
    BY <1>4, <1>6
  <2>2. p \in PageIds /\ level[p] = m - i
    BY <1>5, <1>6, <2>1
  <2> QED BY <1>1, <2>1, <2>2 DEF Levels, Leaves
<1>8. /\ node \in InnerNode /\ node.pointers \in Seq(PageIds)
      /\ Len(node.keys) = ORDER + 1 /\ Len(node.pointers) = ORDER + 2
      /\ node.pointers[1] = nodes[p].pointers[1]
      /\ \A j \in DOMAIN node.pointers : level[node.pointers[j]] + 1 = level[p]
  BY <1>1, <1>2, <1>3 DEF HeldInv
<1>9. node.keys \in Seq(SearchKeys) /\ n = (ORDER + 1) \div 2
  BY <1>2, <1>8 DEF Half, Keys, InnerNode
<1>10. n \in 1 .. ORDER - 1 /\ ORDER - n \in 1 .. ORDER /\ ORDER \in Nat
  BY <1>9, Halves, OrderAssumption
<1>11. PICK ks, ps, lk, lp, hk, hp :
         /\ ks = node.keys /\ ps = node.pointers
         /\ lk = UpTo(ks, n) /\ lp = UpTo(ps, n + 1)
         /\ hk = From(ks, n + 2) /\ hp = From(ps, n + 2)
  OBVIOUS
<1>12. PICK a \in Nat : a = n + 1 /\ a + 1 = n + 2 /\ a \in 0 .. ORDER /\ n \in Nat
  BY <1>10
<1>13. lk \in Seq(SearchKeys) /\ Len(lk) = n
  <2>1. ks \in Seq(SearchKeys) /\ n \in 0 .. Len(ks)
    BY <1>8, <1>9, <1>10, <1>11
  <2> QED BY <1>11, <2>1, Cut
<1>14. hk \in Seq(SearchKeys) /\ Len(hk) = ORDER - n
  <2>1. ks \in Seq(SearchKeys) /\ a \in 0 .. Len(ks) /\ hk = From(ks, a + 1)
    BY <1>8, <1>9, <1>10, <1>11, <1>12
  <2>2. hk \in Seq(SearchKeys) /\ Len(hk) = Len(ks) - a
    BY <2>1, Cut
  <2> QED BY <1>8, <1>10, <1>11, <1>12, <2>2, SMTT(30)
<1>15. ps \in Seq(PageIds) /\ a \in 0 .. Len(ps) /\ lp = UpTo(ps, a) /\ hp = From(ps, a + 1)
  BY <1>8, <1>10, <1>11, <1>12
<1>16. lp \in Seq(PageIds) /\ Len(lp) = n + 1 /\ \A j \in 1 .. n + 1 : lp[j] = ps[j]
  <2>1. lp \in Seq(PageIds) /\ Len(lp) = a
    BY <1>15, Cut
  <2>2. \A j \in 1 .. a : lp[j] = ps[j]
    BY <1>15, Cut
  <2> QED BY <1>12, <2>1, <2>2
<1>17. /\ hp \in Seq(PageIds) /\ Len(hp) = ORDER + 1 - n
       /\ \A j \in 1 .. ORDER + 1 - n : hp[j] = ps[a + j]
  <2>1. hp \in Seq(PageIds) /\ Len(hp) = Len(ps) - a
    BY <1>15, Cut
  <2>2. \A j \in 1 .. Len(ps) - a : hp[j] = ps[a + j]
    BY <1>15, Cut
  <2>3. Len(ps) - a = ORDER + 1 - n
    BY <1>8, <1>10, <1>11, <1>12
  <2> QED BY <2>1, <2>2, <2>3
<1>18. PICK low, high : low = Inner(lk, lp) /\ high = Inner(hk, hp)
  OBVIOUS
<1>19. /\ low.keys = lk /\ low.pointers = lp /\ high.keys = hk /\ high.pointers = hp
       /\ low \in InnerNode /\ high \in InnerNode
  <2>1. PageIds \subseteq Nat
    BY <1>1, NodeFields
  <2>2. lp \in Seq(Nat) /\ hp \in Seq(Nat)
    BY <1>16, <1>17, <2>1, SeqMonotonic
  <2> QED BY <1>13, <1>14, <1>18, <2>2 DEF Inner, InnerNode
<1>20. InnerFits(low) /\ InnerFits(high)
  BY <1>10, <1>13, <1>14, <1>16, <1>17, <1>19 DEF InnerFits
<1>21. low.pointers[1] = nodes[p].pointers[1]
  <2>1. 1 \in 1 .. n + 1
    BY <1>10
  <2> QED BY <1>8, <1>11, <1>16, <1>19, <2>1
<1>22. \A j \in 1 .. ORDER + 2 : level[ps[j]] + 1 = level[p]
  BY <1>8, <1>10, <1>11
<1>23. \A j \in DOMAIN low.pointers : level[low.pointers[j]] + 1 = level[p]
  <2> SUFFICES ASSUME NEW j \in 1 .. n + 1 PROVE level[lp[j]] + 1 = level[p]
    BY <1>10, <1>16, <1>19
  <2>1. j \in 1 .. ORDER + 2
    BY <1>10
  <2> QED BY <1>16, <1>22, <2>1
<1>24. \A j \in DOMAIN high.pointers : level[high.pointers[j]] + 1 = level[p]
  <2> SUFFICES ASSUME NEW j \in 1 .. ORDER + 1 - n PROVE level[hp[j]] + 1 = level[p]
    BY <1>10, <1>17, <1>19
  <2>1. a + j \in 1 .. ORDER + 2
    BY <1>10, <1>12
  <2> QED BY <1>17, <1>22, <2>1
<1>25. /\ nodes' = Append([nodes EXCEPT ![p] = low], high)
       /\ split' = [node |-> p, new |-> new, separator |-> ks[n + 1], idx |-> i - 1]
       /\ pc' = IF i = 1 THEN "split_root" ELSE "update_parent"
  BY <1>2, <1>11, <1>18 DEF _split_internal
<1>26. PICK level2 : level2 = [q \in PageIds' |-> IF q = new THEN level[p] ELSE level[q]]
  OBVIOUS
<1>27. p \in PageIds \ Leaves /\ root_page_id' = root_page_id
  BY <1>3, <1>7
<1>28. Shape(level2, edge, chain)'
  BY <1>2, <1>20, <1>21, <1>23, <1>24, <1>25, <1>26, <1>27, InnerSplit, SMTT(30)
<1>29. /\ PageIds' = PageIds \cup {new} /\ new \notin PageIds
       /\ Leaves' = Leaves /\ Len(nodes') = Len(nodes) + 1
  BY <1>2, <1>20, <1>21, <1>23, <1>24, <1>25, <1>26, <1>27, InnerSplit, SMTT(30)
<1>40. nodes'[new] = high /\ \A q \in PageIds : q # p => nodes'[q] = nodes[q]
  <2>1. nodes \in Seq(Node) /\ low \in Node /\ high \in Node /\ p \in 1 .. Len(nodes)
    BY <1>1, <1>7, <1>19 DEF NodesInv, Node, PageIds
  <2>2. PICK ms : ms = [nodes EXCEPT ![p] = low]
    OBVIOUS
  <2>3. ms \in Seq(Node) /\ Len(ms) = Len(nodes)
    BY <2>1, <2>2, Replaced
  <2>4. \A q \in 1 .. Len(nodes) : ms[q] = IF q = p THEN low ELSE nodes[q]
    BY <2>1, <2>2, Replaced
  <2>5. nodes' = Append(ms, high) /\ new = Len(ms) + 1
    BY <1>2, <1>25, <2>2, <2>3 DEF NewPage
  <2>6. nodes'[new] = high /\ \A q \in 1 .. Len(ms) : nodes'[q] = ms[q]
    BY <2>1, <2>3, <2>5, AppendProperties
  <2> QED BY <2>3, <2>4, <2>6 DEF PageIds
<1>30. \A q \in PageIds : q # p => nodes'[q] = nodes[q]
  BY <1>40
<1>31. nodes'[new] = high
  BY <1>40
<1>32. level2[new] = level[p] /\ \A q \in PageIds : level2[q] = level[q]
  BY <1>26, <1>29
<1>33. PathInv(level2)'
  <2>1. path \in Seq(PageIds')
    BY <1>5, <1>29, SeqMonotonic
  <2>2. \A j \in 1 .. m : level2[path[j]] = m - j
    BY <1>5, <1>32
  <2> QED BY <1>3, <1>4, <1>5, <2>1, <2>2 DEF PathInv
<1>34. HeldInv(level2)'
  BY <1>3, <1>25 DEF HeldInv
<1>35. PendingInv(level2)'
  <2>1. split'.new = new /\ split'.idx = i - 1 /\ split'.node = p /\ split'.separator = ks[n + 1]
    BY <1>25
  <2>2. Len(Keys(nodes[split.new]))' >= 1
    <3>1. Len(Keys(high)) = Len(hk)
      BY <1>19, <1>20, InnerIsNode DEF InnerFits
    <3> QED BY <1>10, <1>14, <1>31, <2>1, <3>1
  <2>3. ks[n + 1] \in SearchKeys
    <3>1. n + 1 \in 1 .. Len(ks)
      BY <1>8, <1>10, <1>11
    <3> QED BY <1>9, <1>11, <3>1
  <2>4. i - 1 \in 0 .. m - 1 /\ (i - 1) + 1 = i /\ (i - 1 = 0 <=> i = 1)
    BY <1>4, <1>6
  <2>5. level2[p] = level[p]
    BY <1>7, <1>32
  <2> QED BY <1>3, <1>4, <1>6, <1>25, <1>29, <1>32, <2>1, <2>2, <2>3, <2>4, <2>5 DEF PendingInv
<1>36. HeaderInv' /\ PinsInv'
  <2>1. pinned' = EmptyBag /\ pc' \in {"update_parent", "split_root"}
    BY <1>3, <1>25
  <2> QED BY <1>1, <1>3, <2>1, NothingPinned DEF HeaderInv, PinsInv
<1>37. CallInv(level2)'
  BY <1>33, <1>34, <1>35, <1>36 DEF CallInv
<1>38. \A q \in Leaves : Content(q)' = Content(q)
  <2> SUFFICES ASSUME NEW q \in Leaves PROVE Content(q)' = Content(q)
    OBVIOUS
  <2>1. q \in PageIds /\ q # p /\ q # 0
    BY <1>1, <1>7, NodeFields DEF PageIds
  <2>2. Content(q) = nodes[q]
    BY <1>2, <2>1 DEF Content
  <2>3. Content(q)' = nodes'[q]
    BY <1>3, <2>1 DEF Content, NoNode
  <2> QED BY <1>30, <2>1, <2>2, <2>3
<1>39. PairsInv'
  BY <1>3, <1>29, <1>38, PairsKept
<1> QED BY <1>28, <1>37, <1>39 DEF TreeInv

LEMMA SplitRootStep ==
  ASSUME PairsInv, NEW level, NEW edge, NEW chain, Shape(level, edge, chain), CallInv(level),
         _split_root
  PROVE  TreeInv'
<1>1. NodesInv /\ Levels(level) /\ PathInv(level) /\ HeldInv(level) /\ PendingInv(level)
      /\ PinsInv /\ HeaderInv
  BY DEF Shape, CallInv
<1>2. PICK r, b, key, new : /\ r = root_page_id /\ b = split.new /\ key = split.separator
                            /\ new = NewPage
  OBVIOUS
<1>3. /\ pc = "split_root" /\ held = NoNode /\ root_page_id' = new /\ Return
      /\ metadata' = [root_page_id |-> new, num_keys |-> num_keys]
      /\ pinned' = EmptyBag /\ UNCHANGED <<num_keys, rows>>
  <2>1. pinned' = Used(Used(EmptyBag, NewPage), 0)
    BY <1>1 DEF _split_root, PinsInv
  <2>2. pinned' = EmptyBag
    BY <2>1, UsedNothing
  <2> QED BY <1>1, <1>2, <2>2 DEF _split_root, HeldInv, Header
<1>4. /\ split.node = r /\ b \in PageIds /\ level[b] = level[r] /\ key \in SearchKeys
      /\ r \in PageIds
  <2>1. split.idx = 0 /\ split.node = path[split.idx + 1] /\ path[1] = root_page_id
    BY <1>1, <1>3 DEF PendingInv, PathInv, Splitting
  <2>2. split.node = r
    BY <1>2, <2>1
  <2> QED BY <1>1, <1>2, <1>3, <2>2 DEF PendingInv, Levels
<1>5. PICK old, node, P : /\ old = Inner(<<>>, <<r>>) /\ node = insert_pointer(old, key, b)
                          /\ P = PageIds
  OBVIOUS
<1>6. /\ old \in InnerNode /\ old.keys = <<>> /\ old.pointers = <<r>>
      /\ Len(old.keys) = 0 /\ Len(old.pointers) = 1 /\ old.pointers \in Seq(P)
  <2>1. P \subseteq Nat /\ r \in P
    BY <1>1, <1>4, <1>5, NodeFields
  <2> QED BY <1>5, <2>1 DEF Inner, InnerNode
<1>7. Grows(old, key, b, P)
  <2>1. P \subseteq Nat /\ b \in P
    BY <1>1, <1>4, <1>5, NodeFields
  <2>2. Len(old.pointers) = Len(old.keys) + 1
    BY <1>6
  <2> QED BY <1>4, <1>6, <2>1, <2>2 DEF Grows
<1>8. PICK at : at = Place(old.keys, key)
  OBVIOUS
<1>9. node \in InnerNode /\ node.pointers \in Seq(P)
  BY <1>5, <1>7, PointerInserted
<1>10. Len(node.keys) = Len(old.keys) + 1
  BY <1>5, <1>7, PointerInserted
<1>11. Len(node.pointers) = Len(node.keys) + 1
  BY <1>5, <1>7, PointerInserted
<1>12. at \in 1 .. Len(old.keys) + 1
  BY <1>5, <1>7, <1>8, PointerInserted
<1>13. ASSUME NEW j \in 1 .. Len(old.pointers) + 1
       PROVE  node.pointers[j] = IF j < at + 1 THEN old.pointers[j]
                                 ELSE IF j = at + 1 THEN b ELSE old.pointers[j - 1]
  <2>1. insert_pointer(old, key, b).pointers[j] =
          IF j < Place(old.keys, key) + 1 THEN old.pointers[j]
          ELSE IF j = Place(old.keys, key) + 1 THEN b ELSE old.pointers[j - 1]
    BY <1>7, PointerPlaced
  <2>2. node = insert_pointer(old, key, b)
    BY <1>5
  <2> QED BY <1>8, <2>1, <2>2
<1>14. Len(node.keys) = 1 /\ Len(node.pointers) = 2 /\ at = 1
  BY <1>6, <1>10, <1>11, <1>12
<1>15. node.pointers[1] = r /\ node.pointers[2] = b
  <2>1. 1 \in 1 .. Len(old.pointers) + 1 /\ 2 \in 1 .. Len(old.pointers) + 1
    BY <1>6
  <2>2. node.pointers[1] = old.pointers[1] /\ node.pointers[2] = b
    BY <1>13, <1>14, <2>1
  <2> QED BY <1>6, <2>2
<1>16. InnerFits(node)
  BY <1>5, <1>9, <1>11, <1>14, OrderAssumption DEF InnerFits
<1>17. \A i \in DOMAIN node.pointers : level[node.pointers[i]] = level[root_page_id]
  <2>1. DOMAIN node.pointers = {1, 2}
    BY <1>9, <1>14
  <2> QED BY <1>2, <1>4, <1>15, <2>1
<1>18. nodes' = Append(nodes, node)
  BY <1>2, <1>4, <1>5 DEF _split_root
<1>19. PICK level2 :
         level2 = [q \in PageIds' |-> IF q = new THEN level[root_page_id] + 1 ELSE level[q]]
  OBVIOUS
<1>28. PICK edge2 : edge2 = edge \cup {new}
  OBVIOUS
<1>20. node.pointers[1] = root_page_id /\ root_page_id' = new
  BY <1>2, <1>3, <1>15
<1>21. Shape(level2, edge2, chain)'
  BY <1>2, <1>16, <1>17, <1>18, <1>19, <1>20, <1>28, RootSplit
<1>22. /\ PageIds' = PageIds \cup {new} /\ new \notin PageIds
       /\ Leaves' = Leaves /\ Len(nodes') = Len(nodes) + 1
  BY <1>2, <1>16, <1>17, <1>18, <1>19, <1>20, <1>28, RootSplit
<1>23. \A q \in PageIds : nodes'[q] = nodes[q]
  BY <1>1, <1>16, <1>18, AppendProperties DEF NodesInv, PageIds
<1>24. HeaderInv'
  <2>1. num_keys \in Nat
    BY <1>1, <1>3 DEF HeaderInv
  <2> QED BY <1>3, <2>1 DEF HeaderInv, Return
<1>25. CallInv(level2)'
  BY <1>3, <1>24, ReturnedOk
<1>26. \A q \in Leaves : Content(q)' = Content(q)
  <2> SUFFICES ASSUME NEW q \in Leaves PROVE Content(q)' = Content(q)
    OBVIOUS
  <2>1. q \in PageIds /\ q # 0
    BY <1>1, NodeFields DEF PageIds
  <2> QED BY <1>3, <1>23, <2>1 DEF Content, NoNode, Return
<1>27. PairsInv'
  BY <1>3, <1>22, <1>26, PairsKept
<1> QED BY <1>21, <1>25, <1>27 DEF TreeInv

LEMMA EntryRemoved ==
  ASSUME PairsInv, NEW level, NEW edge, NEW chain, Shape(level, edge, chain),
         held = NoNode, held' = NoNode, NEW key \in SearchKeys, NEW rid, HolderOf(key, rid) # 0,
         nodes' = [nodes EXCEPT ![HolderOf(key, rid)] = remove_key(@, key, rid)],
         rows' = rows \ {<<key, rid>>}, root_page_id' = root_page_id
  PROVE  /\ Shape(level, edge, chain)' /\ PairsInv' /\ PageIds' = PageIds
         /\ Len(nodes') = Len(nodes) /\ HolderOf(key, rid) \in PageIds /\ <<key, rid>> \in rows
         /\ pinned = EmptyBag =>
              PinsOfDelete(key, rid) = fetch_page(EmptyBag, HolderOf(key, rid))
<1>1. NodesInv /\ Levels(level) /\ IsChain(chain)
  BY DEF Shape
<1>2. PICK p : p = HolderOf(key, rid)
  OBVIOUS
<1>3. p \in Leaves /\ Holds(nodes[p], key, rid)
  BY <1>1, <1>2, HolderFound
<1>4. PICK old, leaf : old = nodes[p] /\ leaf = remove_key(old, key, rid)
  OBVIOUS
<1>5. /\ old \in LeafNode /\ p \in PageIds /\ Len(old.entries) <= ORDER
      /\ old.entries \in Seq(EntryType)
  <2>1. old \in LeafNode /\ p \in PageIds
    BY <1>1, <1>3, <1>4, NodeFields
  <2>2. Len(Keys(old)) <= ORDER
    BY <1>1, <1>4, <2>1 DEF NodesInv
  <2> QED BY <2>1, <2>2, LeafKeys
<1>6. leaf \in LeafNode /\ leaf.prev_leaf = old.prev_leaf /\ leaf.next_leaf = old.next_leaf
  BY <1>3, <1>4, <1>5, LeafRemoved, ZenonT(60)
<1>17. Holds(old, key, rid)
  BY <1>3, <1>4
<1>18. PICK at : Dropped(old.entries, leaf.entries, at, <<key, rid>>)
  BY <1>4, <1>5, <1>17, LeafRemoved
<1>7. /\ at \in 1 .. Len(old.entries) /\ old.entries[at] = <<key, rid>>
      /\ Len(leaf.entries) = Len(old.entries) - 1
      /\ \A j \in 1 .. Len(old.entries) - 1 :
           leaf.entries[j] = IF j < at THEN old.entries[j] ELSE old.entries[j + 1]
  BY <1>18 DEF Dropped
<1>8. Len(leaf.entries) <= ORDER /\ leaf.entries \in Seq(EntryType)
  <2>1. leaf.entries \in Seq(EntryType)
    BY <1>6, LeafKeys
  <2>2. PICK n \in Nat : n = Len(old.entries) /\ n <= ORDER
    BY <1>5
  <2>3. Len(leaf.entries) = n - 1
    BY <1>7, <2>2
  <2> QED BY <2>1, <2>2, <2>3, OrderAssumption
<1>9. nodes' = [nodes EXCEPT ![p] = leaf]
  BY <1>2, <1>4
<1>10. Shape(level, edge, chain)' /\ Leaves' = Leaves /\ PageIds' = PageIds
       /\ Len(nodes') = Len(nodes)
  BY <1>3, <1>4, <1>6, <1>8, <1>9, LeafChanged
<1>11. \A q \in PageIds : nodes'[q] = IF q = p THEN leaf ELSE nodes[q]
  BY <1>1, <1>5, <1>9, NodeFields
<1>12. PICK cs, L, rs, t, e : /\ cs = EntriesOf /\ L = Leaves /\ rs = rows
                              /\ t = leaf.entries /\ e = <<key, rid>>
  OBVIOUS
<1>13. /\ Holding(L, cs, rs) /\ cs[p] = old.entries /\ p \in L
       /\ \A q \in Leaves : cs[q] = nodes[q].entries
  BY <1>1, <1>3, <1>4, <1>12, ContentOf, NodeFields DEF PairsInv, EntriesOf
<1>14. EntriesOf' = [cs EXCEPT ![p] = t]
  <2>1. \A q \in Leaves : Content(q)' = nodes'[q]
    <3>1. \A q \in Leaves : q \in PageIds /\ q # 0
      BY <1>1, NodeFields DEF PageIds
    <3> QED BY <3>1 DEF Content, NoNode
  <2>2. \A q \in Leaves : Content(q)'.entries = IF q = p THEN t ELSE cs[q]
    BY <1>1, <1>11, <1>12, <1>13, <2>1, NodeFields
  <2>3. EntriesOf' = [q \in Leaves |-> Content(q)'.entries]
    BY <1>10 DEF EntriesOf
  <2>4. DOMAIN cs = Leaves
    BY <1>12 DEF EntriesOf
  <2> QED BY <1>3, <2>2, <2>3, <2>4
<1>15. Holding(L, [cs EXCEPT ![p] = t], rs \ {e}) /\ e \in rs
  <2>1. at \in 1 .. Len(cs[p]) /\ cs[p][at] = e /\ t \in Seq(EntryType)
        /\ Len(t) = Len(cs[p]) - 1
    BY <1>7, <1>8, <1>12, <1>13
  <2>2. \A j \in 1 .. Len(cs[p]) - 1 : t[j] = IF j < at THEN cs[p][j] ELSE cs[p][j + 1]
    BY <1>7, <1>12, <1>13
  <2>3. Holding(L, cs, rs) /\ p \in L
    BY <1>13
  <2>4. Holding(L, [cs EXCEPT ![p] = t], rs \ {e})
    BY <2>1, <2>2, <2>3, PairRemoved
  <2>5. e \in rs
    BY <1>5, <1>13, <2>1, <2>3 DEF Holding
  <2> QED BY <2>4, <2>5
<1>16. PairsInv'
  <2>1. Holding(Leaves', EntriesOf', rows')
    BY <1>10, <1>12, <1>14, <1>15
  <2>2. IsFiniteSet(rows') /\ \A f \in rows' : f[2][1] = f[1]
    BY FS_RemoveElement DEF PairsInv
  <2> QED BY <2>1, <2>2 DEF PairsInv
<1>19. ASSUME pinned = EmptyBag
       PROVE  PinsOfDelete(key, rid) = fetch_page(EmptyBag, p)
  <2>1. p = Last(Tried(key, rid))
    BY <1>1, <1>2, HolderFound
  <2> QED BY <1>1, <1>19, <2>1, TriedEnds
<1> QED BY <1>2, <1>5, <1>10, <1>12, <1>15, <1>16, <1>19

LEMMA DeleteStep ==
  ASSUME PairsInv, NEW level, NEW edge, NEW chain, Shape(level, edge, chain), CallInv(level),
         NEW key \in SearchKeys, NEW rid, Delete(key, rid) \/ DeleteRaises(key, rid)
  PROVE  TreeInv' /\ <<key, rid>> \in rows
<1>1. NodesInv /\ HeldInv(level) /\ PathInv(level) /\ PinsInv /\ HeaderInv
  BY DEF Shape, CallInv
<1>2. /\ pc = "idle" /\ HolderOf(key, rid) # 0 /\ rows' = rows \ {<<key, rid>>}
      /\ nodes' = [nodes EXCEPT ![HolderOf(key, rid)] = remove_key(@, key, rid)]
      /\ UNCHANGED <<root_page_id, path, held, split>>
  BY DEF Delete, DeleteRaises, Idle, call
<1>3. held = NoNode /\ held' = NoNode /\ pinned = EmptyBag
  BY <1>1, <1>2 DEF HeldInv, PinsInv
<1>4. Shape(level, edge, chain)' /\ PairsInv'
  BY <1>2, <1>3, EntryRemoved
<1>5. /\ PageIds' = PageIds /\ Len(nodes') = Len(nodes) /\ HolderOf(key, rid) \in PageIds
      /\ <<key, rid>> \in rows
      /\ PinsOfDelete(key, rid) = fetch_page(EmptyBag, HolderOf(key, rid))
  BY <1>2, <1>3, EntryRemoved
<1>9. PICK p, one, two : /\ p = HolderOf(key, rid) /\ one = fetch_page(EmptyBag, p)
                         /\ two = fetch_page(one, 0)
  OBVIOUS
<1>10. /\ IsABag(two) /\ DOMAIN two = {p, 0} /\ unpin_page(two, 0) = one
       /\ unpin_page(one, p) = EmptyBag
  <2>1. IsABag(one) /\ DOMAIN one = {p}
    <3>1. IsABag(one) /\ DOMAIN one = DOMAIN EmptyBag \cup {p}
      BY <1>9, NothingPinned, PinnedOnce
    <3> QED BY <3>1, NothingPinned
  <2>2. unpin_page(one, p) = EmptyBag
    BY <1>9, NothingPinned, PinnedOnce
  <2> QED BY <1>9, <2>1, <2>2, PinnedOnce
<1>6. pc' \in {"idle", "raised"}
  BY <1>2 DEF Delete, DeleteRaises, call
<1>7. PathInv(level)' /\ HeldInv(level)' /\ PendingInv(level)'
  BY <1>1, <1>2, <1>3, <1>5, <1>6 DEF PathInv, HeldInv, PendingInv, Splitting
<1>8. HeaderInv' /\ PinsInv'
  <2>1. CASE Delete(key, rid)
    <3>1. /\ num_keys \in Nat /\ num_keys > 0 /\ pc' = "idle" /\ num_keys' = num_keys - 1
          /\ metadata' = [root_page_id |-> root_page_id, num_keys |-> num_keys - 1]
      BY <1>1, <1>2, <2>1 DEF Delete, call, HeaderInv
    <3>2. pinned' = EmptyBag
      BY <1>5, <1>9, <1>10, <2>1 DEF Delete, Used
    <3> QED BY <1>1, <1>2, <3>1, <3>2, NothingPinned DEF HeaderInv, PinsInv
  <2>2. CASE DeleteRaises(key, rid)
    <3>1. pinned' = two
      BY <1>5, <1>9, <2>2 DEF DeleteRaises
    <3>2. IsABag(pinned') /\ DOMAIN pinned' \subseteq 0 .. Len(nodes')
      BY <1>1, <1>5, <1>9, <1>10, <3>1, NodeFields DEF PageIds
    <3> QED BY <1>1, <1>2, <2>2, <3>2 DEF DeleteRaises, HeaderInv, PinsInv
  <2> QED BY <2>1, <2>2
<1> QED BY <1>4, <1>5, <1>7, <1>8 DEF TreeInv, CallInv

(* Whatever only reads leaves the pins as it found them.                   *)
LEMMA ReadsReturn ==
  ASSUME NEW level, NEW edge, NEW chain, Shape(level, edge, chain), pinned = EmptyBag,
         \/ Reads
         \/ \E key \in SearchKeys : \E rid : DeleteMisses(key, rid)
  PROVE  pinned' = EmptyBag
<1>1. NodesInv /\ Levels(level) /\ LeftEdge(edge) /\ IsChain(chain)
  BY DEF Shape
<1>2. ASSUME NEW key \in SearchKeys, Search(key)
      PROVE  pinned' = EmptyBag
  <2> DEFINE ends == {p \in Leaves : Stops(nodes[p], key)}
  <2>1. \A p \in Leaves : nodes[p].next_leaf <= 0 => p \in ends
    BY DEF Stops
  <2>2. ends \in SUBSET Leaves /\ Searched(key) = LeavesTo(ends, Last(PathTo(key)))
    BY DEF Searched, LeafOf
  <2>3. /\ PathTo(key) \in Seq(PageIds) /\ PathTo(key) # <<>>
        /\ Last(PathTo(key)) \in Leaves
    BY <1>1, LeafFound DEF LeafOf
  <2> HIDE DEF ends
  <2>4. PICK to, leaves : to = PathTo(key) /\ leaves = Searched(key)
    OBVIOUS
  <2>5. unpin_page(Walked(pinned, to \o Tail(leaves)), Last(leaves)) = EmptyBag
    BY <1>1, <2>1, <2>2, <2>3, <2>4, WalkEnds
  <2> QED BY <1>2, <2>4, <2>5 DEF Search
<1>3. ASSUME NEW lo, NEW hi, NEW to \in Seq(PageIds), to # <<>>, Last(to) \in Leaves,
             RangeScan(to, lo, hi)
      PROVE  pinned' = EmptyBag
  <2> DEFINE ends == {p \in Leaves : Beyond(nodes[p], lo, hi) \/ nodes[p].next_leaf <= 0}
  <2>1. /\ ends \in SUBSET Leaves /\ \A p \in Leaves : nodes[p].next_leaf <= 0 => p \in ends
        /\ Scanned(Last(to), lo, hi) = LeavesTo(ends, Last(to))
    BY DEF Scanned
  <2> HIDE DEF ends
  <2>2. PICK leaves : leaves = Scanned(Last(to), lo, hi)
    OBVIOUS
  <2>3. unpin_page(Walked(pinned, to \o Tail(leaves)), Last(leaves)) = EmptyBag
    BY <1>1, <1>3, <2>1, <2>2, WalkEnds
  <2> QED BY <1>3, <2>2, <2>3 DEF RangeScan, Left
<1>4. ASSUME NEW lo \in ScanKeys, NEW hi \in ScanKeys, RangeScan(PathTo(lo), lo, hi)
      PROVE  pinned' = EmptyBag
  <2>1. lo \in SearchKeys
    BY TreeAssumption
  <2>2. PICK to : to = PathTo(lo)
    OBVIOUS
  <2>3. to \in Seq(PageIds) /\ to # <<>> /\ Last(to) \in Leaves /\ RangeScan(to, lo, hi)
    BY <1>1, <1>4, <2>1, <2>2, LeafFound DEF LeafOf
  <2> QED BY <1>3, <2>3
<1>5. ASSUME NEW hi \in ScanKeys, RangeScan(LeftmostPath, Min(SearchKeys), hi)
      PROVE  pinned' = EmptyBag
  <2>1. PICK to, lo : to = LeftmostPath /\ lo = Min(SearchKeys)
    OBVIOUS
  <2>2. to \in Seq(PageIds) /\ to # <<>> /\ Last(to) \in Leaves /\ RangeScan(to, lo, hi)
    BY <1>1, <1>5, <2>1, LeftmostFound DEF Leftmost
  <2> QED BY <1>3, <2>2
<1>6. ASSUME NEW key \in SearchKeys, NEW rid, DeleteMisses(key, rid)
      PROVE  pinned' = EmptyBag
  <2>1. PICK p : p = Last(Tried(key, rid))
    OBVIOUS
  <2>2. PinsOfDelete(key, rid) = fetch_page(EmptyBag, p)
    BY <1>1, <2>1, TriedEnds
  <2>3. unpin_page(fetch_page(EmptyBag, p), p) = EmptyBag
    BY NothingPinned, PinnedOnce
  <2> QED BY <1>6, <2>1, <2>2, <2>3 DEF DeleteMisses
<1> QED BY <1>2, <1>4, <1>5, <1>6 DEF Reads

(* Reads, and the index file being read again by a new object.             *)
LEMMA ReadsStep ==
  ASSUME TreeInv, \/ Reads \/ Reopen \/ UNCHANGED vars
                  \/ \E key \in SearchKeys : \E rid : DeleteMisses(key, rid)
  PROVE  TreeInv' /\ rows' = rows
<1>1. PICK level, edge, chain : Shape(level, edge, chain) /\ CallInv(level)
  BY DEF TreeInv
<1>2. HeaderInv /\ PairsInv /\ PathInv(level) /\ HeldInv(level) /\ PendingInv(level) /\ PinsInv
  BY <1>1 DEF TreeInv, CallInv
<1>3. /\ UNCHANGED <<nodes, metadata, rows, pc, path, held, split>>
      /\ root_page_id' = root_page_id
      /\ num_keys' \in {num_keys, metadata.num_keys} /\ (num_keys' # num_keys => pc = "idle")
  BY <1>2 DEF Reads, Search, RangeScan, DeleteMisses, tree, Reopen, Idle, vars, call, HeaderInv
<1>4. Shape(level, edge, chain)' /\ PageIds' = PageIds /\ Leaves' = Leaves
  BY <1>1, <1>3, ShapeKept
<1>5. HeaderInv'
  BY <1>2, <1>3 DEF HeaderInv
<1>6. PathInv(level)' /\ HeldInv(level)' /\ PendingInv(level)'
  BY <1>2, <1>3, <1>4 DEF PathInv, HeldInv, PendingInv, Splitting
<1>7. PairsInv'
  BY <1>2, <1>3, <1>4, PairsKept DEF Content
<1>8. PinsInv'
  <2>1. CASE UNCHANGED vars
    BY <1>2, <2>1 DEF PinsInv, vars, call
  <2>2. CASE Reopen
    <3>1. pinned' = EmptyBag /\ pc' = "idle"
      BY <1>3, <2>2, UsedNothing DEF Reopen, Idle
    <3> QED BY <3>1, NothingPinned DEF PinsInv
  <2>3. CASE Reads \/ \E key \in SearchKeys : \E rid : DeleteMisses(key, rid)
    <3>1. pc = "idle"
      BY <2>3 DEF Reads, Search, RangeScan, DeleteMisses, Idle
    <3>2. pinned = EmptyBag
      BY <1>2, <3>1 DEF PinsInv
    <3>3. pinned' = EmptyBag
      BY <1>1, <2>3, <3>2, ReadsReturn
    <3> QED BY <1>3, <3>1, <3>3, NothingPinned DEF PinsInv
  <2> QED BY <2>1, <2>2, <2>3
<1> QED BY <1>3, <1>4, <1>5, <1>6, <1>7, <1>8 DEF TreeInv, CallInv

LEMMA TreeInit == Init => TreeInv
<1> SUFFICES ASSUME Init PROVE TreeInv
  OBVIOUS
<1>1. PICK leaf : leaf = Leaf(<<>>, NoLeaf, NoLeaf)
  OBVIOUS
<1>2. /\ nodes = <<leaf>> /\ root_page_id = 1 /\ metadata = [root_page_id |-> 1, num_keys |-> 0]
      /\ num_keys = 0 /\ pc = "idle" /\ path = <<>> /\ held = NoNode /\ pinned = EmptyBag
      /\ rows = {}
  BY <1>1, UsedNothing DEF Init
<1>3. /\ leaf \in LeafNode /\ leaf.is_leaf /\ leaf.entries = <<>> /\ leaf.prev_leaf = -1
      /\ leaf.next_leaf = -1
  BY <1>1 DEF Leaf, LeafNode, NoLeaf
<1>4. PageIds = {1} /\ nodes[1] = leaf /\ Leaves = {1} /\ Len(nodes) = 1
  BY <1>2, <1>3 DEF PageIds, Leaves
<1>5. NodesInv
  <2>1. leaf \in Node /\ IsNode(leaf) /\ Len(Keys(leaf)) = 0
    BY <1>3, LeafIsNode DEF NoLeaf
  <2> QED BY <1>2, <1>4, <2>1, OrderAssumption DEF NodesInv
<1>6. PICK level, edge, chain : level = [p \in {1} |-> 0] /\ edge = {1} /\ chain = <<1>>
  OBVIOUS
<1>7. Levels(level) /\ LeftEdge(edge)
  BY <1>2, <1>3, <1>4, <1>6 DEF Levels, LeftEdge
<1>8. IsChain(chain)
  <2>1. chain \in Seq({1}) /\ Len(chain) = 1 /\ chain[1] = 1 /\ DOMAIN chain = {1} /\ chain # <<>>
    BY <1>6
  <2> QED BY <1>3, <1>4, <2>1 DEF IsChain, NoLeaf
<1>9. CallInv(level)
  <2>1. PathInv(level) /\ HeldInv(level) /\ PendingInv(level)
    BY <1>2 DEF PathInv, HeldInv, PendingInv, Splitting
  <2>2. HeaderInv /\ PinsInv
    BY <1>2, NothingPinned DEF HeaderInv, PinsInv
  <2> QED BY <2>1, <2>2 DEF CallInv
<1>10. PairsInv
  <2>1. EntriesOf = [p \in {1} |-> <<>>]
    BY <1>2, <1>3, <1>4, <1>5, ContentOf DEF EntriesOf
  <2>2. Holding({1}, [p \in {1} |-> <<>>], {})
    BY DEF Holding
  <2> QED BY <1>2, <1>4, <2>1, <2>2, FS_EmptySet DEF PairsInv
<1> QED BY <1>5, <1>7, <1>8, <1>9, <1>10 DEF TreeInv, Shape

(* What a step does to the rows, and that it keeps the invariant.          *)
RowsStep ==
  \/ rows' = rows
  \/ \E key \in SearchKeys : \E n \in Copies :
       /\ <<key, <<key, n>>>> \notin rows
       /\ rows' = rows \cup {<<key, <<key, n>>>>}
  \/ \E key \in SearchKeys : \E n \in Copies :
       /\ <<key, <<key, n>>>> \in rows
       /\ rows' = rows \ {<<key, <<key, n>>>>}

LEMMA TreeNext == TreeInv /\ [Next]_vars => TreeInv' /\ RowsStep
<1> SUFFICES ASSUME TreeInv, [Next]_vars PROVE TreeInv' /\ RowsStep
  OBVIOUS
<1>1. PICK level, edge, chain : Shape(level, edge, chain) /\ CallInv(level)
  BY DEF TreeInv
<1>2. PairsInv
  BY DEF TreeInv
<1>3. CASE Inserts
  <2>1. PICK key \in SearchKeys : Insert(key)
    BY <1>3 DEF Inserts
  <2>2. TreeInv'
    BY <1>1, <1>2, <2>1, InsertStep
  <2>3. NextRid(key)[2] \in Copies /\ rows' = rows \cup {<<key, NextRid(key)>>}
    BY <2>1 DEF Insert
  <2>4. <<key, NextRid(key)>> \notin rows
    BY <1>2, <2>3, NextRidIsNew DEF PairsInv
  <2>5. PICK n \in Copies : NextRid(key) = <<key, n>>
    <3>1. \E n : NextRid(key) = <<key, n>>
      BY DEF NextRid
    <3> QED BY <2>3, <3>1
  <2> QED BY <2>2, <2>3, <2>4, <2>5 DEF RowsStep
<1>4. CASE Splits
  <2>1. rows' = rows
    BY <1>4 DEF Splits, _split_leaf, _update_parent, _split_internal, _split_root
  <2>2. TreeInv'
    BY <1>1, <1>2, <1>4, SplitLeafStep, UpdateParentStep, SplitInternalStep, SplitRootStep
       DEF Splits
  <2> QED BY <2>1, <2>2 DEF RowsStep
<1>5. CASE Deletes
  <2>0. PICK key \in Deletable, n \in Copies :
          \/ Delete(key, <<key, n>>) \/ DeleteRaises(key, <<key, n>>)
          \/ DeleteMisses(key, <<key, n>>)
    BY <1>5 DEF Deletes
  <2>1. PICK rid :
          /\ rid = <<key, n>>
          /\ Delete(key, rid) \/ DeleteRaises(key, rid) \/ DeleteMisses(key, rid)
    BY <2>0
  <2>2. key \in SearchKeys
    BY <2>0, TreeAssumption
  <2>3. CASE DeleteMisses(key, rid)
    BY <2>2, <2>3, ReadsStep DEF RowsStep
  <2>4. CASE Delete(key, rid) \/ DeleteRaises(key, rid)
    <3>1. TreeInv' /\ <<key, rid>> \in rows
      BY <1>1, <1>2, <2>2, <2>4, DeleteStep
    <3>2. rows' = rows \ {<<key, rid>>}
      BY <2>4 DEF Delete, DeleteRaises
    <3> QED BY <2>1, <2>2, <3>1, <3>2 DEF RowsStep
  <2> QED BY <2>1, <2>3, <2>4
<1>6. CASE Reads \/ Reopen \/ UNCHANGED vars
  BY <1>6, ReadsStep DEF RowsStep
<1> QED BY <1>3, <1>4, <1>5, <1>6 DEF Next

LEMMA TreeInvariant == Spec => []TreeInv
<1>1. Init => TreeInv
  BY TreeInit
<1>2. TreeInv /\ [Next]_vars => TreeInv'
  BY TreeNext
<1> QED BY <1>1, <1>2, PTL DEF Spec
-----------------------------------------------------------------------------
(***************************************************************************)
(* The theorems.                                                           *)
(***************************************************************************)
(* The tree keeps its type: the pages and the object name pages of the     *)
(* file, every inner node has one pointer more than keys, the node that is *)
(* being split is a node, and no page is ever written with more than ORDER *)
(* keys, whichever of them inserts and splits have filled.                 *)
THEOREM TreeTypeCorrect == Spec => []TypeOK
<1>1. TreeInv => TypeOK
  <2> SUFFICES ASSUME TreeInv PROVE TypeOK
    OBVIOUS
  <2>1. PICK level, edge, chain : Shape(level, edge, chain) /\ CallInv(level)
    BY DEF TreeInv
  <2>2. /\ NodesInv /\ Levels(level) /\ PathInv(level) /\ HeldInv(level) /\ HeaderInv /\ PinsInv
    BY <2>1 DEF Shape, CallInv
  <2>3. IsNode(held.node)
    <3>1. CASE pc = "split_leaf"
      <4>1. held.node \in LeafNode
        BY <2>2, <3>1 DEF HeldInv
      <4>2. held.page \in PageIds /\ level[held.page] = 0
        <5>1. PICK m \in Nat \ {0} : m = Len(path)
          BY <2>2, <3>1 DEF PathInv, Splitting
        <5>2. path[m] \in PageIds /\ level[path[m]] = 0
          BY <2>2, <3>1, <5>1 DEF PathInv, Splitting
        <5> QED BY <2>2, <3>1, <5>1, <5>2 DEF HeldInv
      <4>3. held.page \in Leaves
        BY <2>2, <4>2 DEF Levels, Leaves
      <4>4. /\ held.node.prev_leaf \in PageIds \cup {NoLeaf}
            /\ held.node.next_leaf \in PageIds \cup {NoLeaf}
        BY <2>2, <3>1, <4>3, NodeFields DEF HeldInv
      <4> QED BY <4>1, <4>4, LeafIsNode
    <3>2. CASE pc = "split_internal"
      BY <2>2, <3>2, InnerIsNode, OrderAssumption DEF HeldInv
    <3>3. CASE pc \notin {"split_leaf", "split_internal"}
      <4>1. held.node = Leaf(<<>>, NoLeaf, NoLeaf)
        BY <2>2, <3>3 DEF HeldInv, NoNode
      <4> QED BY <4>1 DEF Leaf, IsNode
    <3> QED BY <3>1, <3>2, <3>3
  <2> QED BY <2>2, <2>3 DEF TypeOK, NodesInv, Levels, HeaderInv, PathInv, PinsInv
<1> QED BY <1>1, TreeInvariant, PTL

(* All leaves are on the same level, so that a lookup reads the same       *)
(* number of pages for every key, whichever nodes were split to make room  *)
(* and however often the file was opened again.                            *)
THEOREM TreeStaysBalanced == Spec => []TreeIsBalanced
<1>1. TreeInv => TreeIsBalanced
  <2> SUFFICES ASSUME TreeInv PROVE Cardinality(Depth) = 1
    BY DEF TreeIsBalanced
  <2>1. PICK level, edge, chain : Shape(level, edge, chain)
    BY DEF TreeInv
  <2>2. Depth = {level[root_page_id]}
    BY <2>1, DepthFound DEF Shape
  <2> QED BY <2>2, FS_Singleton
<1> QED BY <1>1, TreeInvariant, PTL

(* An operation that returns has unpinned every page it fetched, as often  *)
(* as it fetched it: on the way down and along the leaves, in a search, a  *)
(* range scan, an insert with any chain of splits, and a delete whether or *)
(* not it finds its pair.  The calls of a split hand over between them one *)
(* pin, that of the node they hold.                                        *)
THEOREM PinsAreAlwaysReturned == Spec => []PinsAreReturned
<1>1. TreeInv => PinsAreReturned
  BY DEF TreeInv, CallInv, PinsInv, PinsAreReturned, Idle
<1> QED BY <1>1, TreeInvariant, PTL

(* The leaves hold the pairs the callers asked for, read along the chain.  *)
LEMMA ContentsAreRows == TreeInv => Contents = rows
<1> SUFFICES ASSUME TreeInv PROVE Contents = rows
  OBVIOUS
<1>1. PICK level, edge, chain : Shape(level, edge, chain)
  BY DEF TreeInv
<1>2. Chain = chain /\ IsChain(chain) /\ Holding(Leaves, EntriesOf, rows)
  BY <1>1, ChainFound DEF Shape, TreeInv, PairsInv
<1>3. \A i \in DOMAIN chain : chain[i] \in Leaves
  BY <1>2 DEF IsChain
<1>4. \A p \in Leaves : \E i \in DOMAIN chain : chain[i] = p
  BY <1>2 DEF IsChain
<1>5. \A p \in Leaves : EntriesOf[p] = Content(p).entries
  BY DEF EntriesOf
<1>6. ASSUME NEW e \in rows PROVE e \in Contents
  <2>1. PICK p \in Leaves : \E j \in DOMAIN EntriesOf[p] : EntriesOf[p][j] = e
    BY <1>2 DEF Holding
  <2>2. e \in ToSet(Content(p).entries)
    BY <1>5, <2>1 DEF ToSet
  <2>3. PICK i \in DOMAIN chain : chain[i] = p
    BY <1>4
  <2> QED BY <1>2, <2>2, <2>3 DEF Contents
<1>7. ASSUME NEW e \in Contents PROVE e \in rows
  <2>1. PICK i \in DOMAIN chain : e \in ToSet(Content(chain[i]).entries)
    BY <1>2 DEF Contents
  <2>2. chain[i] \in Leaves
    BY <1>3, <2>1
  <2>3. PICK j \in DOMAIN EntriesOf[chain[i]] : EntriesOf[chain[i]][j] = e
    BY <1>5, <2>1, <2>2 DEF ToSet
  <2> QED BY <1>2, <2>2, <2>3 DEF Holding
<1> QED BY <1>6, <1>7

(* Splits, parent updates and reopening never lose, duplicate or invent an *)
(* entry, between two calls of one insert either: what the leaves hold     *)
(* along the chain from the left changes in one step per insert or delete, *)
(* and by that pair alone.                                                 *)
THEOREM TreeImplementsIndex == Spec => ImplementsIndex
<1>1. Init => IDX!Init
  <2> SUFFICES ASSUME Init PROVE Contents = {} /\ rows = {}
    BY DEF IDX!Init
  <2>1. rows = {}
    BY DEF Init
  <2> QED BY <2>1, TreeInit, ContentsAreRows
<1>3. TreeInv => Contents = rows
  BY ContentsAreRows
<1>2. TreeInv /\ Contents = rows /\ [Next]_vars /\ (Contents = rows)' => [IDX!Next]_(IDX!vars)
  <2> SUFFICES ASSUME TreeInv, Contents = rows, [Next]_vars, (Contents = rows)'
               PROVE  [IDX!Next]_(IDX!vars)
    OBVIOUS
  <2>1. Contents = rows /\ Contents' = rows' /\ RowsStep
    BY TreeNext
  <2>2. CASE rows' = rows
    BY <2>1, <2>2 DEF IDX!vars
  <2>3. ASSUME NEW key \in SearchKeys, NEW n \in Copies,
               \/ /\ <<key, <<key, n>>>> \notin rows
                  /\ rows' = rows \cup {<<key, <<key, n>>>>}
               \/ /\ <<key, <<key, n>>>> \in rows
                  /\ rows' = rows \ {<<key, <<key, n>>>>}
        PROVE  IDX!Next
    <3>1. <<key, n>> \in IDX!Rids(key)
      BY DEF IDX!Rids
    <3>2. IDX!Insert(key, <<key, n>>) \/ IDX!Delete(key, <<key, n>>)
      BY <2>1, <2>3 DEF IDX!Insert, IDX!Delete
    <3> QED BY <3>1, <3>2 DEF IDX!Next
  <2> QED BY <2>1, <2>2, <2>3 DEF RowsStep
<1> QED BY <1>1, <1>2, <1>3, TreeInvariant, PTL DEF Spec, ImplementsIndex, IDX!Spec
=============================================================================
