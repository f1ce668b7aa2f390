---------------------------- MODULE SchemaProofs -----------------------------
(***************************************************************************)
(* What serialize writes deserialize reads, for every list of columns and  *)
(* every row of their types, wherever variable-length columns stand.       *)
(***************************************************************************)
EXTENDS Schema, FiniteSetTheorems, SequenceTheorems, WellFoundedInduction, TLAPS

(***************************************************************************)
(* Induction over numbers, and functions defined by recursion over them.   *)
(***************************************************************************)
LEMMA Smallest ==
  ASSUME NEW T \in SUBSET Nat, T # {}
  PROVE  \E m \in T : \A n \in T : m <= n
<1> DEFINE Less == {p \in Nat \X Nat : p[1] < p[2]}
<1>1. \A m, n \in Nat : <<m, n>> \in Less <=> m < n
  OBVIOUS
<1>2. IsWellFoundedOn(Less, Nat)
  BY NatLessThanWellFounded DEF OpToRel
<1> HIDE DEF Less
<1>3. PICK m \in T : \A n \in T : <<n, m>> \notin Less
  BY <1>2, WFMin
<1>4. \A n \in T : ~(n < m)
  BY <1>1, <1>3
<1> QED BY <1>4

LEMMA Upward ==
  ASSUME NEW good, 0 \in good, \A n \in Nat : n \in good => n + 1 \in good
  PROVE  \A n \in Nat : n \in good
<1> DEFINE T == {n \in Nat : n \notin good}
<1> SUFFICES ASSUME T # {} PROVE FALSE
  OBVIOUS
<1>1. PICK m \in T : \A n \in T : m <= n
  BY Smallest
<1>2. m \in Nat /\ m # 0 /\ m \notin good
  BY <1>1
<1>3. m - 1 \in Nat /\ ~(m <= m - 1) /\ (m - 1) + 1 = m
  BY <1>2
<1>4. m - 1 \in good
  BY <1>1, <1>3
<1> QED BY <1>2, <1>3, <1>4

(* The values of a recursion over 0 .. n.                                  *)
Iterates(f, n, V, base, step) ==
  /\ f \in [0 .. n -> V] /\ f[0] = base
  /\ \A i \in 1 .. n : f[i] = step[<<i, f[i - 1]>>]

LEMMA Iterated ==
  ASSUME NEW n \in Nat, NEW V, NEW base \in V, NEW step,
         \A i \in 1 .. n : \A v \in V : step[<<i, v>>] \in V
  PROVE  \E f : Iterates(f, n, V, base, step)
<1> DEFINE good == {m \in Nat : m <= n => \E f : Iterates(f, m, V, base, step)}
<1>1. 0 \in good
  <2> DEFINE f == [i \in 0 .. 0 |-> base]
  <2>1. f \in [0 .. 0 -> V] /\ f[0] = base /\ 1 .. 0 = {}
    OBVIOUS
  <2>2. Iterates(f, 0, V, base, step)
    BY <2>1 DEF Iterates
  <2> QED BY <2>2
<1>2. ASSUME NEW m \in Nat, m \in good PROVE m + 1 \in good
  <2> SUFFICES ASSUME m + 1 <= n PROVE \E f : Iterates(f, m + 1, V, base, step)
    OBVIOUS
  <2>1. m <= n /\ m + 1 \in 1 .. n
    OBVIOUS
  <2>2. PICK f : Iterates(f, m, V, base, step)
    BY <1>2, <2>1
  <2> DEFINE g == [i \in 0 .. m + 1 |-> IF i <= m THEN f[i] ELSE step[<<m + 1, f[m]>>]]
  <2>3. f \in [0 .. m -> V] /\ f[0] = base /\ \A i \in 1 .. m : f[i] = step[<<i, f[i - 1]>>]
    BY <2>2 DEF Iterates
  <2>4. f[m] \in V /\ step[<<m + 1, f[m]>>] \in V
    BY <2>1, <2>3
  <2>5. g \in [0 .. m + 1 -> V] /\ \A i \in 0 .. m : g[i] = f[i]
    BY <2>3, <2>4
  <2>6. g[m + 1] = step[<<m + 1, f[m]>>]
    OBVIOUS
  <2> HIDE DEF g
  <2>7. \A i \in 1 .. m + 1 : g[i] = step[<<i, g[i - 1]>>]
    <3> TAKE i \in 1 .. m + 1
    <3>1. CASE i <= m
      <4>1. i \in 0 .. m /\ i - 1 \in 0 .. m /\ i \in 1 .. m
        BY <3>1
      <4> QED BY <2>3, <2>5, <4>1
    <3>2. CASE i = m + 1
      <4>1. i - 1 = m /\ m \in 0 .. m
        BY <3>2
      <4> QED BY <2>5, <2>6, <3>2, <4>1
    <3> QED BY <3>1, <3>2
  <2>8. g[0] = base
    BY <2>3, <2>5
  <2> QED BY <2>5, <2>7, <2>8 DEF Iterates
<1>3. n \in good
  <2> HIDE DEF good
  <2> QED BY <1>1, <1>2, Upward
<1> QED BY <1>3

(***************************************************************************)
(* FlattenSeq: the sequence of the first i parts, for every i.             *)
(***************************************************************************)
Parts(f, T, ss, n) ==
  /\ n \in Nat /\ n = Len(ss) /\ \A i \in 1 .. n : ss[i] \in Seq(T)
  /\ f \in [0 .. n -> Seq(T)] /\ f[0] = <<>>
  /\ \A i \in 1 .. n : f[i] = f[i - 1] \o ss[i]

LEMMA Flattened ==
  ASSUME NEW T, NEW ss \in Seq(Seq(T))
  PROVE  \E f : Parts(f, T, ss, Len(ss)) /\ FlattenSeq(ss) = f[Len(ss)]
<1> DEFINE n == Len(ss)
           V == Seq(T)
           step == [x \in (1 .. n) \X V |-> x[2] \o ss[x[1]]]
           IsFlat(h) == h = [i \in 1 .. n |-> IF i = 1 THEN ss[i] ELSE h[i - 1] \o ss[i]]
<1>1. n \in Nat /\ DOMAIN ss = 1 .. n /\ \A i \in 1 .. n : ss[i] \in V
  BY LenProperties
<1>2. <<>> \in V /\ \A v \in V : <<>> \o v = v
  BY EmptySeq, ConcatEmptySeq
<1>3. \A u, v \in V : u \o v \in V
  BY ConcatProperties
<1>4. \A i \in 1 .. n : \A v \in V : step[<<i, v>>] = v \o ss[i]
  OBVIOUS
<1> HIDE DEF step, V, n
<1>5. \A i \in 1 .. n : \A v \in V : step[<<i, v>>] \in V
  BY <1>1, <1>3, <1>4
<1>6. PICK f : Iterates(f, n, V, <<>>, step)
  BY <1>1, <1>2, <1>5, Iterated
<1>7. f \in [0 .. n -> V] /\ f[0] = <<>> /\ \A i \in 1 .. n : f[i] = f[i - 1] \o ss[i]
  <2>1. f \in [0 .. n -> V] /\ f[0] = <<>> /\ \A i \in 1 .. n : f[i] = step[<<i, f[i - 1]>>]
    BY <1>6 DEF Iterates
  <2>2. \A i \in 1 .. n : i - 1 \in 0 .. n
    BY <1>1
  <2>3. \A i \in 1 .. n : f[i] = f[i - 1] \o ss[i]
    BY <1>4, <2>1, <2>2
  <2> QED BY <2>1, <2>3
<1>8. Parts(f, T, ss, n)
  BY <1>1, <1>7 DEF Parts, n, V
<1>11. ASSUME n # 0 PROVE f[1] = ss[1]
  <2>1. 1 \in 1 .. n /\ 1 - 1 = 0
    BY <1>1, <1>11
  <2>2. f[1] = f[1 - 1] \o ss[1] /\ ss[1] \in V
    BY <1>1, <1>7, <2>1
  <2>3. f[1] = <<>> \o ss[1]
    BY <1>7, <2>1, <2>2
  <2> QED BY <1>2, <2>2, <2>3, Zenon
<1>9. CASE n = 0
  <2>1. ss = <<>> /\ f[n] = <<>>
    BY <1>7, <1>9, EmptySeq DEF n
  <2>2. FlattenSeq(ss) = ss
    BY <1>9 DEF FlattenSeq, n
  <2> QED BY <1>8, <2>1, <2>2 DEF n
<1>10. CASE n # 0
  <2> DEFINE g == [i \in 1 .. n |-> f[i]]
  <2>1. \A i \in 1 .. n : g[i] = IF i = 1 THEN ss[i] ELSE g[i - 1] \o ss[i]
    <3> TAKE i \in 1 .. n
    <3>1. CASE i = 1
      BY <1>10, <1>11, <3>1
    <3>2. CASE i # 1
      <4>1. i - 1 \in 1 .. n
        BY <1>1, <3>2
      <4> QED BY <1>7, <3>2, <4>1
    <3> QED BY <3>1, <3>2
  <2>2. IsFlat(g)
    BY <2>1
  <2>3. PICK h : h = (CHOOSE x : IsFlat(x))
    OBVIOUS
  <2>4. IsFlat(h)
    BY <2>2, <2>3
  <2>5. FlattenSeq(ss) = h[n]
    BY <1>10, <2>3 DEF FlattenSeq, n
  <2>6. \A i \in 1 .. n : h[i] = IF i = 1 THEN ss[i] ELSE h[i - 1] \o ss[i]
    BY <2>4
  <2> DEFINE good == {i \in Nat : i + 1 \in 1 .. n => h[i + 1] = f[i + 1]}
  <2> HIDE DEF g
  <2>7. 0 \in good
    <3>1. 1 \in 1 .. n
      BY <1>1, <1>10
    <3>2. h[1] = ss[1] /\ 0 + 1 = 1
      BY <2>6, <3>1
    <3> QED BY <1>10, <1>11, <3>2
  <2>8. ASSUME NEW i \in Nat, i \in good PROVE i + 1 \in good
    <3> SUFFICES ASSUME (i + 1) + 1 \in 1 .. n PROVE h[(i + 1) + 1] = f[(i + 1) + 1]
      OBVIOUS
    <3>1. PICK j \in Nat : j = i + 1
      OBVIOUS
    <3>2. j \in 1 .. n /\ j + 1 \in 1 .. n /\ j + 1 # 1 /\ (j + 1) - 1 = j
      BY <1>1, <3>1
    <3>3. h[j] = f[j]
      BY <2>8, <3>1, <3>2
    <3>4. h[j + 1] = h[j] \o ss[j + 1]
      BY <2>6, <3>2
    <3>5. f[j + 1] = f[j] \o ss[j + 1]
      BY <1>7, <3>2
    <3> QED BY <3>1, <3>3, <3>4, <3>5
  <2> HIDE DEF good
  <2>9. \A i \in Nat : i \in good
    BY <2>7, <2>8, Upward
  <2>10. n - 1 \in Nat /\ (n - 1) + 1 = n /\ n \in 1 .. n
    BY <1>1, <1>10
  <2>11. n - 1 \in good
    BY <2>9, <2>10
  <2>12. h[n] = f[n]
    BY <2>10, <2>11 DEF good
  <2> QED BY <1>8, <2>5, <2>12 DEF n
<1> QED BY <1>9, <1>10

(* One more part.                                                          *)
LEMMA Joined ==
  ASSUME NEW T, NEW a \in Seq(T), NEW b \in Seq(T), NEW c, c = a \o b
  PROVE  /\ c \in Seq(T) /\ Len(c) = Len(a) + Len(b) /\ Len(a) \in Nat /\ Len(b) \in Nat
         /\ \A k \in 1 .. Len(a) : c[k] = a[k]
         /\ \A k \in 1 .. Len(b) : c[Len(a) + k] = b[k]
<1>1. PICK m, n : m = Len(a) /\ n = Len(b)
  OBVIOUS
<1>2. m \in Nat /\ n \in Nat
  BY <1>1, LenProperties
<1>3. /\ c \in Seq(T) /\ Len(c) = m + n
      /\ \A k \in 1 .. m + n : c[k] = IF k <= m THEN a[k] ELSE b[k - m]
  BY <1>1, ConcatProperties
<1>4. \A k \in 1 .. m : c[k] = a[k]
  BY <1>2, <1>3
<1>5. ASSUME NEW k \in 1 .. n PROVE c[m + k] = b[k]
  <2>1. m + k \in 1 .. m + n /\ ~(m + k <= m) /\ (m + k) - m = k
    BY <1>2
  <2> QED BY <1>3, <2>1
<1> QED BY <1>1, <1>2, <1>3, <1>4, <1>5

(* Where part i is in the whole.                                           *)
StandsAt(s, whole, before, upto) ==
  /\ Len(before) \in Nat /\ Len(s) \in Nat
  /\ Len(upto) = Len(before) + Len(s) /\ Len(upto) <= Len(whole)
  /\ \A k \in 1 .. Len(s) : whole[Len(before) + k] = s[k]

LEMMA PartAt ==
  ASSUME NEW T, NEW ss, NEW n, NEW f, Parts(f, T, ss, n), NEW i \in 1 .. n
  PROVE  StandsAt(ss[i], f[n], f[i - 1], f[i])
<1>1. /\ n \in Nat /\ \A j \in 1 .. n : ss[j] \in Seq(T) /\ f[j] = f[j - 1] \o ss[j]
      /\ \A j \in 0 .. n : f[j] \in Seq(T)
  BY DEF Parts
<1>2. i \in Nat /\ 1 <= i /\ i <= n /\ \A j \in 1 .. n : j - 1 \in 0 .. n
  BY <1>1
<1> DEFINE Keeps(j) == Len(f[i]) <= Len(f[j]) /\ \A k \in 1 .. Len(f[i]) : f[j][k] = f[i][k]
           good == {d \in Nat : i + d <= n => Keeps(i + d)}
<1>3. Len(f[i]) \in Nat
  BY <1>1, <1>2, LenProperties
<1>4. ASSUME NEW j \in 1 .. n - 1, Keeps(j) PROVE Keeps(j + 1)
  <2>1. PICK a, b, c : a = f[j] /\ b = ss[j + 1] /\ c = f[j + 1]
    OBVIOUS
  <2>2. j + 1 \in 1 .. n /\ (j + 1) - 1 = j /\ j \in 0 .. n
    BY <1>1
  <2>3. a \in Seq(T) /\ b \in Seq(T) /\ c = a \o b
    BY <1>1, <2>1, <2>2
  <2>4. PICK la, lb, l : la = Len(a) /\ lb = Len(b) /\ l = Len(f[i])
    OBVIOUS
  <2>5. la \in Nat /\ lb \in Nat /\ Len(c) = la + lb /\ \A k \in 1 .. la : c[k] = a[k]
    BY <2>3, <2>4, Joined
  <2>6. l <= la /\ \A k \in 1 .. l : a[k] = f[i][k]
    BY <1>4, <2>1, <2>4
  <2> HIDE DEF Keeps
  <2>7. l <= la + lb /\ \A k \in 1 .. l : k \in 1 .. la
    BY <1>3, <2>4, <2>5, <2>6
  <2>8. \A k \in 1 .. l : c[k] = f[i][k]
    BY <2>5, <2>6, <2>7
  <2> QED BY <2>1, <2>4, <2>5, <2>7, <2>8 DEF Keeps
<1>5. Keeps(i)
  BY <1>3
<1> HIDE DEF Keeps
<1>6. 0 \in good
  BY <1>2, <1>5
<1>7. ASSUME NEW d \in Nat, d \in good PROVE d + 1 \in good
  <2> SUFFICES ASSUME i + (d + 1) <= n PROVE Keeps(i + (d + 1))
    OBVIOUS
  <2>1. i + d \in 1 .. n - 1 /\ i + d <= n /\ (i + d) + 1 = i + (d + 1)
    BY <1>1, <1>2
  <2>2. Keeps(i + d)
    BY <1>7, <2>1
  <2>3. Keeps((i + d) + 1)
    BY <1>4, <2>1, <2>2
  <2> QED BY <2>1, <2>3
<1>8. Keeps(n)
  <2>1. n - i \in Nat /\ i + (n - i) = n /\ n <= n
    BY <1>1, <1>2
  <2>2. n - i \in good
    <3> HIDE DEF good
    <3>1. \A d \in Nat : d \in good
      BY <1>6, <1>7, Upward
    <3> QED BY <2>1, <3>1
  <2> QED BY <2>1, <2>2
<1>9. PICK a, b, c : a = f[i - 1] /\ b = ss[i] /\ c = f[i]
  OBVIOUS
<1>10. a \in Seq(T) /\ b \in Seq(T) /\ c = a \o b
  BY <1>1, <1>2, <1>9
<1>11. /\ Len(c) = Len(a) + Len(b) /\ Len(a) \in Nat /\ Len(b) \in Nat
       /\ \A k \in 1 .. Len(b) : c[Len(a) + k] = b[k]
  BY <1>10, Joined
<1>12. Len(c) <= Len(f[n]) /\ \A k \in 1 .. Len(c) : f[n][k] = c[k]
  BY <1>8, <1>9 DEF Keeps
<1>13. \A k \in 1 .. Len(b) : f[n][Len(a) + k] = b[k]
  <2>1. \A k \in 1 .. Len(b) : Len(a) + k \in 1 .. Len(c)
    BY <1>11
  <2> QED BY <1>11, <1>12, <2>1
<1> QED BY <1>9, <1>11, <1>12, <1>13 DEF StandsAt

(***************************************************************************)
(* Texts: decode undoes encode.                                            *)
(***************************************************************************)
Byte == Int \X Nat

LEMMA BytesOf ==
  ASSUME NEW x \in Int, NEW n \in Nat
  PROVE  /\ Bytes(x, n) \in Seq(Byte) /\ Len(Bytes(x, n)) = n
         /\ \A i \in 1 .. n : Bytes(x, n)[i] = <<x, i>>
BY DEF Bytes, Byte

LEMMA TwoBytes ==
  ASSUME NEW x \in Nat
  PROVE  Len(Bytes(x, 2)) = 2 /\ Bytes(x, 2)[1] = <<x, 1>>
BY DEF Bytes

Fields(text) == [i \in DOMAIN text |-> Bytes(text[i], CharWidth(text[i]))]
Characters(u, raw, n) ==
  /\ u \in [0 .. n -> Seq(Int)] /\ u[0] = <<>>
  /\ \A p \in 1 .. n : u[p] = IF raw[p][2] = 1 THEN Append(u[p - 1], raw[p][1]) ELSE u[p - 1]

LEMMA DecodedIs ==
  ASSUME NEW raw \in Seq(Byte)
  PROVE  \E u : Characters(u, raw, Len(raw)) /\ Decoded(raw) = u[Len(raw)]
<1> DEFINE n == Len(raw)
           V == Seq(Int)
           step == [x \in (1 .. n) \X V |->
                      IF raw[x[1]][2] = 1 THEN Append(x[2], raw[x[1]][1]) ELSE x[2]]
           IsUpto(u) == u = [i \in 0 .. n |->
                               IF i = 0 THEN <<>>
                               ELSE IF raw[i][2] = 1 THEN Append(u[i - 1], raw[i][1])
                               ELSE u[i - 1]]
<1>1. n \in Nat /\ \A i \in 1 .. n : raw[i] \in Byte /\ raw[i][1] \in Int
  BY LenProperties DEF Byte
<1>2. <<>> \in V /\ \A v \in V, x \in Int : Append(v, x) \in V
  BY EmptySeq, AppendProperties
<1>3. \A i \in 1 .. n : \A v \in V :
        step[<<i, v>>] = IF raw[i][2] = 1 THEN Append(v, raw[i][1]) ELSE v
  OBVIOUS
<1> HIDE DEF step, V, n
<1>4. \A i \in 1 .. n : \A v \in V : step[<<i, v>>] \in V
  BY <1>1, <1>2, <1>3
<1>5. PICK u : Iterates(u, n, V, <<>>, step)
  BY <1>1, <1>2, <1>4, Iterated
<1>6. u \in [0 .. n -> V] /\ u[0] = <<>> /\ \A i \in 1 .. n : u[i] = step[<<i, u[i - 1]>>]
  BY <1>5 DEF Iterates
<1>7. \A i \in 1 .. n : u[i] = IF raw[i][2] = 1 THEN Append(u[i - 1], raw[i][1]) ELSE u[i - 1]
  <2>1. \A i \in 1 .. n : i - 1 \in 0 .. n
    BY <1>1
  <2> QED BY <1>3, <1>6, <2>1
<1>8. IsUpto(u)
  <2>1. \A i \in 0 .. n : u[i] = IF i = 0 THEN <<>>
                                 ELSE IF raw[i][2] = 1 THEN Append(u[i - 1], raw[i][1])
                                 ELSE u[i - 1]
    <3>1. \A i \in 0 .. n : i # 0 => i \in 1 .. n
      BY <1>1
    <3> QED BY <1>6, <1>7, <3>1
  <2>2. u = [i \in 0 .. n |-> u[i]]
    BY <1>6
  <2> QED BY <2>1, <2>2
<1>9. PICK w : w = (CHOOSE x : IsUpto(x))
  OBVIOUS
<1>10. IsUpto(w) /\ Decoded(raw) = w[n]
  BY <1>8, <1>9 DEF Decoded, n
<1>11. w[0] = <<>> /\ \A i \in 1 .. n :
         w[i] = IF raw[i][2] = 1 THEN Append(w[i - 1], raw[i][1]) ELSE w[i - 1]
  <2>1. 0 \in 0 .. n /\ \A i \in 1 .. n : i \in 0 .. n /\ i # 0
    BY <1>1
  <2> QED BY <1>10, <2>1
<1> DEFINE good == {i \in Nat : i <= n => w[i] = u[i]}
<1>12. 0 \in good
  BY <1>6, <1>11
<1>13. ASSUME NEW i \in Nat, i \in good PROVE i + 1 \in good
  <2> SUFFICES ASSUME i + 1 <= n PROVE w[i + 1] = u[i + 1]
    OBVIOUS
  <2>1. i + 1 \in 1 .. n /\ (i + 1) - 1 = i /\ i <= n
    BY <1>1
  <2>2. w[i] = u[i]
    BY <1>13, <2>1
  <2> QED BY <1>7, <1>11, <2>1, <2>2
<1>14. n \in good
  <2> HIDE DEF good
  <2> QED BY <1>1, <1>12, <1>13, Upward
<1>15. w[n] = u[n]
  BY <1>1, <1>14
<1>16. Characters(u, raw, n)
  BY <1>6, <1>7 DEF Characters, V
<1> QED BY <1>10, <1>15, <1>16 DEF n

LEMMA TextBytes ==
  ASSUME NEW text \in Seq(Int)
  PROVE  \E e, n : /\ n = Len(text) /\ n \in Nat /\ Parts(e, Byte, Fields(text), n)
                   /\ Encoded(text) = e[n] /\ Encoded(text) \in Seq(Byte)
                   /\ \A i \in 1 .. n : /\ text[i] \in Int
                                        /\ Fields(text)[i] = Bytes(text[i], CharWidth(text[i]))
<1>1. PICK n : n = Len(text) /\ n \in Nat /\ DOMAIN text = 1 .. n /\ \A i \in 1 .. n : text[i] \in Int
  BY LenProperties
<1>2. PICK ss : ss = Fields(text)
  OBVIOUS
<1>3. \A i \in 1 .. n : ss[i] = Bytes(text[i], CharWidth(text[i])) /\ ss[i] \in Seq(Byte)
  <2> TAKE i \in 1 .. n
  <2>1. ss[i] = Bytes(text[i], CharWidth(text[i])) /\ CharWidth(text[i]) \in Nat
    BY <1>1, <1>2 DEF Fields, CharWidth
  <2> QED BY <1>1, <2>1, BytesOf
<1>4. ss \in Seq(Seq(Byte)) /\ Len(ss) = n
  <2>1. DOMAIN ss = 1 .. n /\ ss = [i \in 1 .. n |-> ss[i]]
    BY <1>1, <1>2 DEF Fields
  <2> HIDE DEF Byte
  <2> QED BY <1>1, <1>3, <2>1
<1>5. PICK e : Parts(e, Byte, ss, Len(ss)) /\ FlattenSeq(ss) = e[Len(ss)]
  BY <1>4, Flattened
<1>6. Encoded(text) = FlattenSeq(ss)
  BY <1>2 DEF Encoded, Fields
<1>7. e[n] \in Seq(Byte)
  <2>1. Parts(e, Byte, ss, n)
    BY <1>4, <1>5
  <2>2. e \in [0 .. n -> Seq(Byte)]
    BY <2>1 DEF Parts
  <2>3. n \in 0 .. n
    BY <1>1
  <2> QED BY <2>2, <2>3
<1> QED BY <1>1, <1>2, <1>3, <1>4, <1>5, <1>6, <1>7

Begins(t, text, i) == t \in Seq(Int) /\ Len(t) = i /\ \A k \in 1 .. i : t[k] = text[k]

LEMMA TextRoundTrip ==
  ASSUME NEW text \in Seq(Int)
  PROVE  Encoded(text) \in Seq(Byte) /\ Decoded(Encoded(text)) = text
<1>1. PICK e, n : /\ n = Len(text) /\ n \in Nat /\ Parts(e, Byte, Fields(text), n)
                  /\ Encoded(text) = e[n] /\ Encoded(text) \in Seq(Byte)
                  /\ \A i \in 1 .. n : /\ text[i] \in Int
                                       /\ Fields(text)[i] = Bytes(text[i], CharWidth(text[i]))
  BY TextBytes
<1>2. PICK raw, l : raw = Encoded(text) /\ l = Len(raw)
  OBVIOUS
<1>3. l \in Nat /\ raw \in Seq(Byte)
  BY <1>1, <1>2, LenProperties
<1>4. PICK u : Characters(u, raw, l) /\ Decoded(raw) = u[l]
  BY <1>2, <1>3, DecodedIs
<1> DEFINE Reads(i) == Begins(u[Len(e[i])], text, i)
           good == {i \in Nat : i <= n => Reads(i)}
<1>5. 0 \in good
  <2>1. e[0] = <<>> /\ Len(e[0]) = 0 /\ u[0] = <<>>
    BY <1>1, <1>4, EmptySeq DEF Parts, Characters
  <2>2. Begins(<<>>, text, 0)
    BY EmptySeq DEF Begins
  <2> QED BY <2>1, <2>2
<1>6. ASSUME NEW i \in Nat, Reads(i), i + 1 <= n PROVE Reads(i + 1)
  <2>1. i + 1 \in 1 .. n /\ (i + 1) - 1 = i
    BY <1>1, <1>6
  <2>2. PICK a, b, w, c, t : /\ a = Len(e[i]) /\ b = Len(e[i + 1]) /\ c = text[i + 1]
                             /\ w = CharWidth(c) /\ t = u[a]
    OBVIOUS
  <2>3. c \in Int /\ w \in {1, 2} /\ Fields(text)[i + 1] = Bytes(c, w)
    BY <1>1, <2>1, <2>2 DEF CharWidth
  <2>4. PICK s : s = Bytes(c, w)
    OBVIOUS
  <2>5. Len(s) = w /\ s \in Seq(Byte) /\ \A k \in 1 .. w : s[k] = <<c, k>>
    BY <2>3, <2>4, BytesOf
  <2>6. /\ a \in Nat /\ b = a + w /\ b <= l
        /\ \A k \in 1 .. w : raw[a + k] = <<c, k>>
    <3>1. PICK j, fs : j = i + 1 /\ fs = Fields(text) /\ fs[j] = s
      BY <2>3, <2>4
    <3>6. j - 1 = i
      BY <2>1, <3>1
    <3>4. j \in 1 .. n /\ Parts(e, Byte, fs, n)
      BY <1>1, <2>1, <3>1
    <3>5. StandsAt(fs[j], e[n], e[j - 1], e[j])
      BY <3>4, PartAt
    <3>7. StandsAt(s, e[n], e[i], e[i + 1])
      BY <3>1, <3>5, <3>6
    <3>2. /\ Len(e[i]) \in Nat /\ Len(e[i + 1]) = Len(e[i]) + Len(s) /\ Len(e[i + 1]) <= Len(e[n])
          /\ \A k \in 1 .. Len(s) : e[n][Len(e[i]) + k] = s[k]
      BY <3>7 DEF StandsAt
    <3>3. raw = e[n]
      BY <1>1, <1>2
    <3> QED BY <1>2, <2>1, <2>2, <2>5, <3>2, <3>3
  <2>7. t \in Seq(Int) /\ Len(t) = i /\ \A k \in 1 .. i : t[k] = text[k]
    BY <1>6, <2>2 DEF Begins
  <2> HIDE DEF Reads
  <2>8. /\ u \in [0 .. l -> Seq(Int)]
        /\ \A p \in 1 .. l :
             u[p] = IF raw[p][2] = 1 THEN Append(u[p - 1], raw[p][1]) ELSE u[p - 1]
    BY <1>4 DEF Characters
  <2>9. u[a + 1] = Append(t, c)
    <3>1. a + 1 \in 1 .. l /\ (a + 1) - 1 = a /\ 1 \in 1 .. w
      BY <1>3, <2>3, <2>6
    <3>2. raw[a + 1][1] = c /\ raw[a + 1][2] = 1
      BY <2>6, <3>1
    <3>3. u[a + 1] = Append(u[(a + 1) - 1], raw[a + 1][1])
      BY <2>8, <3>1, <3>2
    <3> QED BY <2>2, <3>1, <3>2, <3>3
  <2>10. u[b] = Append(t, c)
    <3>1. CASE w = 1
      BY <2>6, <2>9, <3>1
    <3>2. CASE w = 2
      <4>1. a + 2 \in 1 .. l /\ (a + 2) - 1 = a + 1 /\ 2 \in 1 .. w /\ b = a + 2
        BY <1>3, <2>6, <3>2
      <4>2. raw[a + 2][2] # 1
        BY <2>6, <4>1
      <4>3. u[a + 2] = u[(a + 2) - 1]
        BY <2>8, <4>1, <4>2
      <4> QED BY <2>9, <4>1, <4>3
    <3> QED BY <2>3, <3>1, <3>2
  <2>11. PICK r : r = Append(t, c)
    OBVIOUS
  <2>12. r \in Seq(Int) /\ Len(r) = i + 1 /\ \A k \in 1 .. i + 1 : r[k] = IF k <= i THEN t[k] ELSE c
    <3>1. /\ r \in Seq(Int) /\ Len(r) = Len(t) + 1
          /\ \A k \in 1 .. Len(t) : r[k] = t[k]
          /\ r[Len(t) + 1] = c
      <4>1. t \in Seq(Int) /\ c \in Int
        BY <2>3, <2>7
      <4> QED BY <2>11, <4>1, AppendProperties
    <3>2. \A k \in 1 .. i + 1 : ~(k <= i) => k = i + 1
      OBVIOUS
    <3> QED BY <2>7, <3>1, <3>2
  <2>13. \A k \in 1 .. i + 1 : r[k] = text[k]
    <3> TAKE k \in 1 .. i + 1
    <3>1. CASE k <= i
      BY <2>7, <2>12, <3>1
    <3>2. CASE k = i + 1
      BY <2>2, <2>12, <3>2
    <3> QED BY <3>1, <3>2
  <2> QED BY <2>2, <2>10, <2>11, <2>12, <2>13 DEF Reads, Begins
<1>7. Reads(n)
  <2> HIDE DEF Reads
  <2>1. ASSUME NEW i \in Nat, i \in good PROVE i + 1 \in good
    <3> SUFFICES ASSUME i + 1 <= n PROVE Reads(i + 1)
      OBVIOUS
    <3>1. i <= n
      BY <1>1
    <3>2. Reads(i)
      BY <2>1, <3>1
    <3> QED BY <1>6, <3>2
  <2>2. n \in good
    <3> HIDE DEF good
    <3> QED BY <1>1, <1>5, <2>1, Upward
  <2> QED BY <1>1, <2>2
<1>8. l = Len(e[n])
  BY <1>1, <1>2
<1>9. PICK d : d = Decoded(raw)
  OBVIOUS
<1>10. d \in Seq(Int) /\ Len(d) = n /\ \A k \in 1 .. n : d[k] = text[k]
  BY <1>4, <1>7, <1>8, <1>9 DEF Begins
<1>11. d = text
  BY <1>1, <1>10, SeqEqual
<1> QED BY <1>1, <1>2, <1>9, <1>11

(***************************************************************************)
(* Rows.                                                                   *)
(***************************************************************************)
LEMMA Counted ==
  ASSUME NEW columns, NEW i \in Nat
  PROVE  /\ Varchars(columns, i) \in Nat /\ Varchars(columns, 0) = 0
         /\ Varchars(columns, i + 1)
              = Varchars(columns, i) + (IF IsVarchar(columns[i + 1]) THEN 1 ELSE 0)
<1> DEFINE S(n) == {j \in 1 .. n : IsVarchar(columns[j])}
<1>1. \A n \in Nat : IsFiniteSet(S(n)) /\ Cardinality(S(n)) \in Nat
  <2> TAKE n \in Nat
  <2>1. IsFiniteSet(1 .. n) /\ S(n) \subseteq 1 .. n
    BY FS_Interval
  <2>2. IsFiniteSet(S(n))
    BY <2>1, FS_Subset
  <2> QED BY <2>2, FS_CardinalityType
<1>2. \A n : Varchars(columns, n) = Cardinality(S(n))
  BY DEF Varchars
<1>3. Varchars(columns, 0) = 0
  <2>1. S(0) = {}
    OBVIOUS
  <2> HIDE DEF S
  <2> QED BY <1>2, <2>1, FS_EmptySet
<1>4. S(i + 1) = IF IsVarchar(columns[i + 1]) THEN S(i) \cup {i + 1} ELSE S(i)
  <2>1. \A j : j \in 1 .. i + 1 <=> j \in 1 .. i \/ j = i + 1
    OBVIOUS
  <2> QED BY <2>1
<1>5. i + 1 \notin S(i)
  OBVIOUS
<1> HIDE DEF S
<1>6. Cardinality(S(i) \cup {i + 1}) = Cardinality(S(i)) + 1
  BY <1>1, <1>5, FS_AddElement
<1> QED BY <1>1, <1>2, <1>3, <1>4, <1>6

LEMMA Slice ==
  ASSUME NEW T, NEW raw \in Seq(T), NEW s \in Seq(T), NEW a \in Nat, a + Len(s) <= Len(raw),
         \A k \in 1 .. Len(s) : raw[a + k] = s[k]
  PROVE  SubSeq(raw, a + 1, a + Len(s)) = s
<1>1. PICK m, l : m = Len(s) /\ l = Len(raw) /\ m \in Nat /\ l \in Nat
  BY LenProperties
<1>2. PICK u : u = SubSeq(raw, a + 1, a + m)
  OBVIOUS
<1>3. u \in Seq(T) /\ Len(u) = m /\ \A k \in 1 .. m : u[k] = s[k]
  <2>1. PICK b, c : b = a + 1 /\ c = a + m
    OBVIOUS
  <2>2. b \in Int /\ c \in Int /\ \A i \in b .. c : i \in 1 .. l
    BY <1>1, <2>1
  <2>3. c - b + 1 = m /\ (b <= c <=> 0 < m)
    BY <1>1, <2>1
  <2>4. \A i \in b .. c : raw[i] \in T
    BY <1>1, <2>2, LenProperties
  <2>5. /\ u \in Seq(T) /\ Len(u) = IF b <= c THEN c - b + 1 ELSE 0
        /\ \A k \in 1 .. c - b + 1 : u[k] = raw[b + k - 1]
    BY <1>2, <2>1, <2>2, <2>4, SubSeqProperties
  <2>6. \A k \in 1 .. m : b + k - 1 = a + k /\ raw[a + k] = s[k]
    BY <1>1, <2>1
  <2>7. Len(u) = m
    BY <1>1, <2>3, <2>5
  <2> QED BY <2>3, <2>5, <2>6, <2>7
<1>4. u = s
  BY <1>1, <1>3, SeqEqual
<1> QED BY <1>1, <1>2, <1>4

(* A row that has a value of its type for each column.                     *)
ColumnTypes == {"INT", "FLOAT", "BOOL", "VARCHAR"}
Typed(columns, row) ==
  /\ \A i \in DOMAIN columns : columns[i].type \in ColumnTypes
  /\ row = [i \in DOMAIN columns |-> row[i]]
  /\ \A i \in DOMAIN columns : row[i] \in IF IsVarchar(columns[i]) THEN Seq(Int) ELSE Int

LEMMA FieldIs ==
  ASSUME NEW columns, NEW row, Typed(columns, row), NEW i \in DOMAIN columns
  PROVE  /\ Field(columns[i], row[i]) \in Seq(Byte)
         /\ IsVarchar(columns[i]) => Decoded(Field(columns[i], row[i])) = row[i]
         /\ ~IsVarchar(columns[i]) =>
              /\ Len(Field(columns[i], row[i])) = Width[columns[i].type]
              /\ Width[columns[i].type] \in Nat \ {0}
              /\ Field(columns[i], row[i])[1][1] = row[i]
<1>1. CASE IsVarchar(columns[i])
  BY <1>1, TextRoundTrip DEF Typed, Field
<1>2. CASE ~IsVarchar(columns[i])
  <2>1. columns[i].type \in {"INT", "FLOAT", "BOOL"} /\ row[i] \in Int
    BY <1>2 DEF Typed, ColumnTypes, IsVarchar
  <2>2. Width[columns[i].type] \in Nat \ {0}
    BY <2>1 DEF Width
  <2>3. PICK w, x : w = Width[columns[i].type] /\ x = row[i]
    OBVIOUS
  <2>4. Field(columns[i], row[i]) = Bytes(x, w) /\ 1 \in 1 .. w /\ w \in Nat /\ x \in Int
    BY <1>2, <2>1, <2>2, <2>3 DEF Field
  <2>5. Bytes(x, w) \in Seq(Byte) /\ Len(Bytes(x, w)) = w /\ Bytes(x, w)[1] = <<x, 1>>
    BY <2>4, BytesOf
  <2>6. Bytes(x, w)[1][1] = x
    BY <2>5
  <2> QED BY <1>2, <2>2, <2>3, <2>4, <2>5, <2>6
<1> QED BY <1>1, <1>2

(* The fields of a row, and what the prefix has for each.                  *)
RowFields(columns, row) == [i \in DOMAIN columns |-> Field(columns[i], row[i])]
Lengths(columns, row) ==
  [i \in DOMAIN columns |-> IF IsVarchar(columns[i])
                            THEN Bytes(Len(Field(columns[i], row[i])), 2) ELSE <<>>]

LEMMA RowParts ==
  ASSUME NEW columns, NEW row, NEW n \in Nat, DOMAIN columns = 1 .. n, Typed(columns, row)
  PROVE  \E g, p : /\ Parts(g, Byte, RowFields(columns, row), n)
                   /\ Parts(p, Byte, Lengths(columns, row), n)
                   /\ serialize(columns, row) = p[n] \o g[n]
<1>1. PICK fs, ls : fs = RowFields(columns, row) /\ ls = Lengths(columns, row)
  OBVIOUS
<1>2. \A i \in 1 .. n : fs[i] \in Seq(Byte) /\ fs[i] = Field(columns[i], row[i])
  BY <1>1, FieldIs DEF RowFields
<1>3. \A i \in 1 .. n : ls[i] \in Seq(Byte)
  <2> TAKE i \in 1 .. n
  <2>1. CASE IsVarchar(columns[i])
    <3>1. PICK m : m = Len(Field(columns[i], row[i])) /\ m \in Nat
      BY <1>2, LenProperties
    <3>2. ls[i] = Bytes(m, 2)
      BY <1>1, <2>1, <3>1 DEF Lengths
    <3> QED BY <3>1, <3>2, BytesOf
  <2>2. CASE ~IsVarchar(columns[i])
    <3>1. ls[i] = <<>>
      BY <1>1, <2>2 DEF Lengths
    <3> QED BY <3>1, EmptySeq
  <2> QED BY <2>1, <2>2
<1>4. \A ss : ss = [i \in 1 .. n |-> ss[i]] /\ (\A i \in 1 .. n : ss[i] \in Seq(Byte)) =>
                ss \in Seq(Seq(Byte)) /\ Len(ss) = n
  <2> HIDE DEF Byte
  <2> QED OBVIOUS
<1>5. fs = [i \in 1 .. n |-> fs[i]] /\ ls = [i \in 1 .. n |-> ls[i]]
  BY <1>1 DEF RowFields, Lengths
<1>6. fs \in Seq(Seq(Byte)) /\ Len(fs) = n /\ ls \in Seq(Seq(Byte)) /\ Len(ls) = n
  BY <1>2, <1>3, <1>4, <1>5
<1>7. PICK g : Parts(g, Byte, fs, n) /\ FlattenSeq(fs) = g[n]
  <2>1. \E g : Parts(g, Byte, fs, Len(fs)) /\ FlattenSeq(fs) = g[Len(fs)]
    BY <1>6, Flattened
  <2> QED BY <1>6, <2>1
<1>8. PICK p : Parts(p, Byte, ls, n) /\ FlattenSeq(ls) = p[n]
  <2>1. \E p : Parts(p, Byte, ls, Len(ls)) /\ FlattenSeq(ls) = p[Len(ls)]
    BY <1>6, Flattened
  <2> QED BY <1>6, <2>1
<1>9. serialize(columns, row) = FlattenSeq(ls) \o FlattenSeq(fs)
  BY <1>1 DEF serialize, Prefix, RowFields, Lengths
<1> QED BY <1>1, <1>7, <1>8, <1>9

(* The prefix up to column i is two bytes for each VARCHAR so far.         *)
LEMMA PrefixLength ==
  ASSUME NEW columns, NEW row, NEW n \in Nat, DOMAIN columns = 1 .. n, Typed(columns, row),
         NEW p, Parts(p, Byte, Lengths(columns, row), n)
  PROVE  \A i \in 0 .. n : Len(p[i]) = 2 * Varchars(columns, i)
<1> DEFINE good == {i \in Nat : i <= n => Len(p[i]) = 2 * Varchars(columns, i)}
<1>1. 0 \in good
  BY Counted, EmptySeq DEF Parts
<1>2. ASSUME NEW i \in Nat, i \in good, i + 1 <= n
      PROVE  Len(p[i + 1]) = 2 * Varchars(columns, i + 1)
  <2>1. PICK j, ls : j = i + 1 /\ j - 1 = i /\ ls = Lengths(columns, row)
    OBVIOUS
  <2>2. j \in 1 .. n /\ Parts(p, Byte, ls, n)
    BY <1>2, <2>1
  <2>3. StandsAt(ls[j], p[n], p[j - 1], p[j])
    BY <2>2, PartAt
  <2>4. StandsAt(ls[j], p[n], p[i], p[j])
    BY <2>1, <2>3
  <2>5. Len(p[j]) = Len(p[i]) + Len(ls[j])
    BY <2>4 DEF StandsAt
  <2>6. i <= n
    BY <1>2
  <2>7. PICK a, v, w : a = Len(p[i]) /\ v = Varchars(columns, i) /\ w = Varchars(columns, j)
    OBVIOUS
  <2>8. a = 2 * v
    BY <1>2, <2>6, <2>7
  <2>9. v \in Nat /\ w = v + (IF IsVarchar(columns[j]) THEN 1 ELSE 0)
    BY <2>1, <2>7, Counted
  <2>10. CASE IsVarchar(columns[j])
    <3>1. PICK m : m = Len(Field(columns[j], row[j])) /\ m \in Nat
      BY <2>2, FieldIs, LenProperties
    <3>2. ls[j] = Bytes(m, 2)
      BY <2>1, <2>2, <2>10, <3>1 DEF Lengths
    <3>5. Len(Bytes(m, 2)) = 2
      BY <3>1, TwoBytes
    <3>3. Len(ls[j]) = 2
      BY <3>2, <3>5
    <3>4. Len(p[j]) = a + 2 /\ w = v + 1
      BY <2>5, <2>7, <2>9, <2>10, <3>3
    <3> QED BY <2>1, <2>7, <2>8, <2>9, <3>4
  <2>11. CASE ~IsVarchar(columns[j])
    <3>1. ls[j] = <<>>
      BY <2>1, <2>2, <2>11 DEF Lengths
    <3>2. Len(ls[j]) = 0
      BY <3>1, EmptySeq
    <3>3. Len(p[j]) = a + 0 /\ w = v + 0
      BY <2>5, <2>7, <2>9, <2>11, <3>2
    <3> QED BY <2>1, <2>7, <2>8, <2>9, <3>3
  <2> QED BY <2>10, <2>11
<1>3. \A i \in Nat : i \in good
  <2>1. \A i \in Nat : i \in good => i + 1 \in good
    BY <1>2
  <2> HIDE DEF good
  <2> QED BY <1>1, <2>1, Upward
<1> QED BY <1>3

LEMMA ReadLength ==
  ASSUME NEW columns, NEW row, NEW n \in Nat, DOMAIN columns = 1 .. n, Typed(columns, row),
         NEW p, Parts(p, Byte, Lengths(columns, row), n),
         NEW rest \in Seq(Byte), NEW i \in 1 .. n
  PROVE  FieldLength(columns, p[n] \o rest, i) = Len(Field(columns[i], row[i]))
<1>1. CASE ~IsVarchar(columns[i])
  BY <1>1, FieldIs DEF FieldLength
<1>2. CASE IsVarchar(columns[i])
  <2>19. PICK h : h = i - 1
    OBVIOUS
  <2>20. PICK ls, m, raw : /\ ls = Lengths(columns, row) /\ raw = p[n] \o rest
                           /\ m = Len(Field(columns[i], row[i]))
    OBVIOUS
  <2>21. i = h + 1
    BY <2>19
  <2>1. /\ h = i - 1 /\ i = h + 1 /\ ls = Lengths(columns, row)
        /\ m = Len(Field(columns[i], row[i])) /\ raw = p[n] \o rest
    BY <2>19, <2>20, <2>21
  <2>2. m \in Nat /\ h \in 0 .. n /\ h \in Nat
    BY <2>1, FieldIs, LenProperties
  <2>3. ls[i] = Bytes(m, 2)
    BY <1>2, <2>1 DEF Lengths
  <2>18. Len(Bytes(m, 2)) = 2 /\ Bytes(m, 2)[1] = <<m, 1>>
    BY <2>2, TwoBytes
  <2>4. Len(ls[i]) = 2 /\ ls[i][1] = <<m, 1>>
    BY <2>3, <2>18
  <2>5. Parts(p, Byte, ls, n)
    BY <2>1
  <2>6. StandsAt(ls[i], p[n], p[i - 1], p[i])
    BY <2>5, PartAt
  <2>7. StandsAt(ls[i], p[n], p[h], p[i])
    BY <2>1, <2>6
  <2>8. PICK a, v, b : a = Len(p[h]) /\ v = Varchars(columns, h) /\ b = Len(p[n])
    OBVIOUS
  <2>9. a = 2 * v /\ v \in Nat /\ Varchars(columns, i) = v + 1
    <3>1. a = 2 * v
      BY <2>2, <2>8, PrefixLength
    <3>2. Varchars(columns, h + 1) = v + 1 /\ v \in Nat
      BY <1>2, <2>1, <2>2, <2>8, Counted
    <3> QED BY <2>1, <3>1, <3>2
  <2>10. Len(p[i]) = a + 2 /\ Len(p[i]) <= b /\ a \in Nat /\ p[n][a + 1] = ls[i][1]
    <3>1. 1 \in 1 .. Len(ls[i])
      BY <2>4
    <3> QED BY <2>4, <2>7, <2>8, <3>1 DEF StandsAt
  <2>11. p[n] \in Seq(Byte)
    BY DEF Parts
  <2>12. b \in Nat /\ \A k \in 1 .. b : raw[k] = p[n][k]
    BY <2>1, <2>8, <2>11, Joined
  <2>13. a + 1 \in 1 .. b /\ 2 * (v + 1) - 1 = a + 1
    BY <2>9, <2>10, <2>12
  <2>14. raw[a + 1] = <<m, 1>>
    BY <2>4, <2>10, <2>12, <2>13
  <2>15. FieldLength(columns, raw, i) = raw[2 * Varchars(columns, i) - 1][1]
    BY <1>2 DEF FieldLength
  <2>16. FieldLength(columns, raw, i) = raw[a + 1][1]
    BY <2>9, <2>13, <2>15
  <2>17. FieldLength(columns, raw, i) = m
    BY <2>14, <2>16
  <2> QED BY <2>1, <2>17
<1> QED BY <1>1, <1>2

(* deserialize, with the offsets that it computes.                         *)
Offsets(o, columns, raw, n) ==
  /\ o[1] = 2 * Varchars(columns, n)
  /\ \A i \in 1 .. n : o[i + 1] = o[i] + FieldLength(columns, raw, i)
Read(column, data) == IF IsVarchar(column) THEN Decoded(data) ELSE data[1][1]

LEMMA Deserialized ==
  ASSUME NEW columns, NEW raw, NEW n \in Nat, DOMAIN columns = 1 .. n, Len(columns) = n,
         NEW o, Offsets(o, columns, raw, n)
  PROVE  deserialize(columns, raw) =
           [i \in 1 .. n |-> Read(columns[i], SubSeq(raw, o[i] + 1, o[i + 1]))]
<1> DEFINE IsOffset(w) == w = [i \in 1 .. n + 1 |->
             IF i = 1 THEN 2 * Varchars(columns, n)
             ELSE w[i - 1] + FieldLength(columns, raw, i - 1)]
           q == [i \in 1 .. n + 1 |-> o[i]]
<1>1. IsOffset(q)
  <2>1. \A i \in 1 .. n + 1 : q[i] = IF i = 1 THEN 2 * Varchars(columns, n)
                                     ELSE q[i - 1] + FieldLength(columns, raw, i - 1)
    <3> TAKE i \in 1 .. n + 1
    <3>1. q[i] = o[i]
      OBVIOUS
    <3>2. CASE i = 1
      BY <3>1, <3>2 DEF Offsets
    <3>3. CASE i # 1
      <4>1. PICK h : h = i - 1 /\ h \in 1 .. n /\ h + 1 = i /\ h \in 1 .. n + 1
        BY <3>3
      <4>2. o[h + 1] = o[h] + FieldLength(columns, raw, h) /\ q[h] = o[h]
        BY <4>1 DEF Offsets
      <4> HIDE DEF q
      <4> QED BY <3>1, <3>3, <4>1, <4>2
    <3> QED BY <3>2, <3>3
  <2>2. q = [i \in 1 .. n + 1 |-> q[i]]
    OBVIOUS
  <2> HIDE DEF q
  <2> QED BY <2>1, <2>2
<1>2. PICK w : w = (CHOOSE x : IsOffset(x))
  OBVIOUS
<1>3. IsOffset(w)
  <2> HIDE DEF q
  <2> QED BY <1>1, <1>2
<1>4. deserialize(columns, raw) =
        [i \in 1 .. n |-> Read(columns[i], SubSeq(raw, w[i] + 1, w[i + 1]))]
  BY <1>2 DEF deserialize, Read
<1>5. w[1] = o[1]
  <2>1. 1 \in 1 .. n + 1
    OBVIOUS
  <2> QED BY <1>3, <2>1 DEF Offsets
<1>6. ASSUME NEW i \in 1 .. n, w[i] = o[i] PROVE w[i + 1] = o[i + 1]
  <2>1. i + 1 \in 1 .. n + 1 /\ i + 1 # 1 /\ (i + 1) - 1 = i
    OBVIOUS
  <2>2. w[i + 1] = w[(i + 1) - 1] + FieldLength(columns, raw, (i + 1) - 1)
    <3> HIDE DEF q
    <3> QED BY <1>3, <2>1
  <2>3. w[i + 1] = w[i] + FieldLength(columns, raw, i)
    BY <2>1, <2>2
  <2> QED BY <1>6, <2>3 DEF Offsets
<1>7. \A i \in 1 .. n + 1 : w[i] = o[i]
  <2> DEFINE good == {i \in Nat : i <= n => w[i + 1] = o[i + 1]}
  <2> HIDE DEF IsOffset, q
  <2>1. 0 \in good
    BY <1>5
  <2>2. ASSUME NEW i \in Nat, i \in good PROVE i + 1 \in good
    <3> SUFFICES ASSUME i + 1 <= n PROVE w[(i + 1) + 1] = o[(i + 1) + 1]
      OBVIOUS
    <3>1. i <= n /\ i + 1 \in 1 .. n
      OBVIOUS
    <3>2. w[i + 1] = o[i + 1]
      BY <2>2, <3>1
    <3> QED BY <1>6, <3>1, <3>2
  <2>3. \A i \in Nat : i \in good
    <3> HIDE DEF good
    <3> QED BY <2>1, <2>2, Upward
  <2> TAKE i \in 1 .. n + 1
  <2>4. PICK h : h = i - 1 /\ h \in Nat /\ h <= n /\ h + 1 = i
    OBVIOUS
  <2>5. w[h + 1] = o[h + 1]
    BY <2>3, <2>4
  <2> QED BY <2>4, <2>5
<1>8. \A i \in 1 .. n : w[i] = o[i] /\ w[i + 1] = o[i + 1]
  <2>1. \A i \in 1 .. n : i \in 1 .. n + 1 /\ i + 1 \in 1 .. n + 1
    OBVIOUS
  <2> HIDE DEF IsOffset, q
  <2> QED BY <1>7, <2>1
<1> HIDE DEF IsOffset, q
<1> QED BY <1>4, <1>8

(* What serialize wrote of a row deserialize reads as that row.            *)
THEOREM RowRoundTrip ==
  ASSUME NEW columns, NEW row, NEW n \in Nat, DOMAIN columns = 1 .. n, Len(columns) = n,
         Typed(columns, row)
  PROVE  deserialize(columns, serialize(columns, row)) = row
<1>1. PICK g, p : /\ Parts(g, Byte, RowFields(columns, row), n)
                  /\ Parts(p, Byte, Lengths(columns, row), n)
                  /\ serialize(columns, row) = p[n] \o g[n]
  BY RowParts
<1>2. PICK fs, raw, v, b : /\ fs = RowFields(columns, row) /\ raw = p[n] \o g[n]
                           /\ v = Len(p[n]) /\ b = Len(g[n])
  OBVIOUS
<1>3. Parts(g, Byte, fs, n) /\ serialize(columns, row) = raw
  BY <1>1, <1>2
<1>4. p[n] \in Seq(Byte) /\ g[n] \in Seq(Byte) /\ g[0] = <<>>
  BY <1>1 DEF Parts
<1>15. /\ raw \in Seq(Byte) /\ Len(raw) = v + b /\ v \in Nat /\ b \in Nat
       /\ \A k \in 1 .. b : raw[v + k] = g[n][k]
  <2>1. PICK x, y : x = p[n] /\ y = g[n]
    OBVIOUS
  <2>2. x \in Seq(Byte) /\ y \in Seq(Byte) /\ raw = x \o y /\ v = Len(x) /\ b = Len(y)
    BY <1>2, <1>4, <2>1
  <2>3. /\ raw \in Seq(Byte) /\ Len(raw) = v + b /\ v \in Nat /\ b \in Nat
        /\ \A k \in 1 .. b : raw[v + k] = y[k]
    BY <2>2, Joined
  <2> QED BY <2>1, <2>3
<1>5. v \in Nat /\ b \in Nat /\ Len(raw) = v + b
  BY <1>15
<1>6. v = 2 * Varchars(columns, n)
  BY <1>1, <1>2, PrefixLength
<1>7. \A i \in 1 .. n : /\ StandsAt(fs[i], g[n], g[i - 1], g[i])
                        /\ fs[i] = Field(columns[i], row[i]) /\ fs[i] \in Seq(Byte)
  <2> TAKE i \in 1 .. n
  <2>1. StandsAt(fs[i], g[n], g[i - 1], g[i])
    BY <1>3, PartAt
  <2>2. fs[i] = Field(columns[i], row[i])
    BY <1>2 DEF RowFields
  <2>3. Field(columns[i], row[i]) \in Seq(Byte)
    BY FieldIs
  <2> QED BY <2>1, <2>2, <2>3
<1> DEFINE o == [i \in 1 .. n + 1 |-> v + Len(g[i - 1])]
           At(i, a, c, m, s) ==
         /\ a = Len(g[i - 1]) /\ c = Len(g[i]) /\ s = fs[i] /\ m = Len(s)
         /\ a \in Nat /\ m \in Nat /\ c = a + m /\ c <= b
         /\ o[i] = v + a /\ o[i + 1] = v + c
         /\ \A k \in 1 .. m : g[n][a + k] = s[k]
<1>8. ASSUME NEW i \in 1 .. n PROVE \E a, c, m, s : At(i, a, c, m, s)
  <2>1. PICK a, c, m, s : a = Len(g[i - 1]) /\ c = Len(g[i]) /\ s = fs[i] /\ m = Len(s)
    OBVIOUS
  <2>2. i \in 1 .. n + 1 /\ i + 1 \in 1 .. n + 1 /\ (i + 1) - 1 = i
    OBVIOUS
  <2>3. o[i] = v + Len(g[i - 1]) /\ o[i + 1] = v + Len(g[(i + 1) - 1])
    BY <2>2
  <2> HIDE DEF o
  <2>4. o[i] = v + a /\ o[i + 1] = v + c
    BY <2>1, <2>2, <2>3
  <2>5. a \in Nat /\ m \in Nat /\ c = a + m /\ c <= b /\ \A k \in 1 .. m : g[n][a + k] = s[k]
    <3>1. PICK x, y, z : x = g[i - 1] /\ y = g[i] /\ z = g[n]
      OBVIOUS
    <3>2. StandsAt(s, z, x, y) /\ a = Len(x) /\ c = Len(y) /\ m = Len(s) /\ b = Len(z)
      BY <1>2, <1>7, <2>1, <3>1
    <3>3. a \in Nat /\ m \in Nat /\ c = a + m /\ c <= b /\ \A k \in 1 .. m : z[a + k] = s[k]
      BY <3>2 DEF StandsAt
    <3> QED BY <3>1, <3>3, Zenon
  <2>6. At(i, a, c, m, s)
    BY <2>1, <2>4, <2>5
  <2> HIDE DEF At
  <2> QED BY <2>6
<1>9. Offsets(o, columns, raw, n)
  <2>1. o[1] = v
    <3>1. 1 \in 1 .. n + 1 /\ 1 - 1 = 0 /\ Len(g[0]) = 0
      BY <1>4, EmptySeq
    <3>2. o[1] = v + Len(g[1 - 1])
      BY <3>1
    <3> HIDE DEF o
    <3>3. o[1] = v + 0
      BY <3>1, <3>2
    <3> QED BY <1>5, <3>3
  <2>2. ASSUME NEW i \in 1 .. n PROVE o[i + 1] = o[i] + FieldLength(columns, raw, i)
    <3> HIDE DEF o, At
    <3>6. PICK a, c, m, s : At(i, a, c, m, s)
      BY <1>8
    <3>1. /\ s = fs[i] /\ m = Len(s) /\ a \in Nat /\ m \in Nat /\ c = a + m
          /\ o[i] = v + a /\ o[i + 1] = v + c
      BY <3>6 DEF At
    <3>2. FieldLength(columns, raw, i) = Len(Field(columns[i], row[i]))
      BY <1>1, <1>2, <1>4, ReadLength
    <3>3. FieldLength(columns, raw, i) = m
      BY <1>7, <3>1, <3>2
    <3>5. a \in Nat /\ m \in Nat
      BY <3>1
    <3>4. v + (a + m) = (v + a) + m
      BY <1>5, <3>5
    <3> QED BY <3>1, <3>3, <3>4
  <2> HIDE DEF o
  <2> QED BY <1>6, <2>1, <2>2 DEF Offsets
<1> HIDE DEF o, At
<1>10. deserialize(columns, raw) =
         [i \in 1 .. n |-> Read(columns[i], SubSeq(raw, o[i] + 1, o[i + 1]))]
  BY <1>9, Deserialized
<1>11. ASSUME NEW i \in 1 .. n PROVE Read(columns[i], SubSeq(raw, o[i] + 1, o[i + 1])) = row[i]
  <2>11. PICK a, c, m, s : At(i, a, c, m, s)
    BY <1>8
  <2>1. /\ s = fs[i] /\ m = Len(s) /\ a \in Nat /\ m \in Nat /\ c = a + m /\ c <= b
        /\ o[i] = v + a /\ o[i + 1] = v + c
        /\ \A k \in 1 .. m : g[n][a + k] = s[k]
    BY <2>11 DEF At
  <2>8. a \in Nat /\ m \in Nat /\ c = a + m /\ c <= b
    BY <2>1
  <2>9. PICK d, e : d = v + a /\ e = v + c
    OBVIOUS
  <2>2. d = v + a /\ e = v + c /\ d \in Nat /\ e = d + m
    BY <1>5, <2>8, <2>9
  <2>3. \A k \in 1 .. m : raw[d + k] = s[k]
    <3> TAKE k \in 1 .. m
    <3>1. a + k \in 1 .. b /\ d + k = v + (a + k)
      BY <1>5, <2>8, <2>2
    <3>2. raw[v + (a + k)] = g[n][a + k]
      BY <1>15, <3>1
    <3> QED BY <2>1, <3>1, <3>2
  <2>10. d + m <= Len(raw)
    BY <1>5, <2>2, <2>8
  <2>4. d + m <= Len(raw) /\ s \in Seq(Byte)
    BY <1>7, <2>1, <2>10
  <2>5. SubSeq(raw, d + 1, d + Len(s)) = s
    <3>1. Len(s) = m
      BY <2>1
    <3>2. d + Len(s) <= Len(raw) /\ \A k \in 1 .. Len(s) : raw[d + k] = s[k]
      BY <2>3, <2>4, <3>1
    <3> QED BY <1>15, <2>2, <2>4, <3>2, Slice
  <2>6. SubSeq(raw, o[i] + 1, o[i + 1]) = Field(columns[i], row[i])
    BY <1>7, <2>1, <2>2, <2>5
  <2>7. Read(columns[i], Field(columns[i], row[i])) = row[i]
    BY FieldIs DEF Read
  <2> QED BY <2>6, <2>7
<1>12. deserialize(columns, raw) = [i \in 1 .. n |-> row[i]]
  BY <1>10, <1>11
<1>13. row = [i \in 1 .. n |-> row[i]]
  BY DEF Typed
<1> QED BY <1>3, <1>12, <1>13

(***************************************************************************)
(* get_index and coerce.                                                   *)
(***************************************************************************)
LEMMA PositionIs ==
  ASSUME NEW columns, NEW n \in Nat, DOMAIN columns = 1 .. n, NEW name, HasColumn(columns, name)
  PROVE  Position(columns, name) \in 1 .. n
<1> DEFINE S == {i \in DOMAIN columns : columns[i].name = name}
           T == {m \in Nat : m <= n /\ n - m \in S}
<1>1. PICK i \in 1 .. n : i \in S
  BY DEF HasColumn
<1>2. n - i \in T
  <2>1. n - i \in Nat /\ n - i <= n /\ n - (n - i) = i
    BY <1>1
  <2> QED BY <1>1, <2>1
<1>3. PICK m \in T : \A k \in T : m <= k
  <2>1. T \in SUBSET Nat /\ T # {}
    BY <1>2
  <2> HIDE DEF T
  <2> QED BY <2>1, Smallest
<1>4. m \in Nat /\ m <= n /\ n - m \in S
  BY <1>3
<1>5. ASSUME NEW j \in S PROVE n - m >= j
  <2>1. j \in 1 .. n
    OBVIOUS
  <2>2. n - j \in Nat /\ n - j <= n /\ n - (n - j) = j
    BY <2>1
  <2>3. n - j \in T
    BY <2>2
  <2>4. m <= n - j
    BY <1>3, <2>3
  <2> QED BY <1>4, <2>1, <2>4
<1>6. S \subseteq 1 .. n
  OBVIOUS
<1>7. Position(columns, name) \in S
  <2>1. \E x \in S : \A y \in S : x >= y
    BY <1>4, <1>5
  <2>2. Position(columns, name) = CHOOSE x \in S : \A y \in S : x >= y
    BY DEF Position, Max
  <2> HIDE DEF S
  <2> QED BY <2>1, <2>2
<1> QED BY <1>6, <1>7

(* What coerce makes of a row's words is a row, when serialize accepts it. *)
LEMMA Coerced ==
  ASSUME NEW columns, NEW n \in Nat, DOMAIN columns = 1 .. n, Len(columns) = n,
         \A i \in 1 .. n : columns[i].type \in ColumnTypes,
         NEW words, NEW m \in Nat, DOMAIN words = 1 .. m, Len(words) = m,
         \A i \in 1 .. m : words[i].text \in Seq(Int) /\ words[i].number \in Int,
         Serializable(columns, coerce(columns, words))
  PROVE  Typed(columns, coerce(columns, words))
<1>1. PICK q : q = Min({n, m})
  OBVIOUS
<1>2. q \in {n, m} /\ q <= n /\ q <= m
  <2>1. \E x \in {n, m} : \A y \in {n, m} : x <= y
    OBVIOUS
  <2>2. q = CHOOSE x \in {n, m} : \A y \in {n, m} : x <= y
    BY <1>1 DEF Min
  <2> QED BY <2>1, <2>2
<1>3. Paired(columns, words) = 1 .. q
  BY <1>1 DEF Paired
<1>4. PICK row : row = coerce(columns, words)
  OBVIOUS
<1>5. row = [i \in 1 .. q |->
               CASE columns[i].type = "VARCHAR" -> words[i].text
                 [] columns[i].type = "BOOL" -> IF words[i].text \in TrueTexts THEN 1 ELSE 0
                 [] OTHER -> words[i].number]
  BY <1>3, <1>4 DEF coerce
<1>6. q = n
  <2>1. DOMAIN row = 1 .. q /\ q \in Nat
    BY <1>2, <1>5
  <2>2. Len(row) = q
    BY <2>1
  <2>3. Len(row) = n
    BY <1>4 DEF Serializable
  <2> QED BY <2>2, <2>3
<1>7. row = [i \in 1 .. n |-> row[i]]
  BY <1>5, <1>6
<1>8. ASSUME NEW i \in 1 .. n
      PROVE  row[i] \in IF IsVarchar(columns[i]) THEN Seq(Int) ELSE Int
  <2>1. words[i].text \in Seq(Int) /\ words[i].number \in Int
    BY <1>2, <1>6
  <2>2. row[i] = CASE columns[i].type = "VARCHAR" -> words[i].text
                   [] columns[i].type = "BOOL" -> IF words[i].text \in TrueTexts THEN 1 ELSE 0
                   [] OTHER -> words[i].number
    BY <1>5, <1>6
  <2>3. CASE columns[i].type = "VARCHAR"
    BY <2>1, <2>2, <2>3 DEF IsVarchar
  <2>4. CASE columns[i].type = "BOOL"
    BY <2>2, <2>4 DEF IsVarchar
  <2>5. CASE columns[i].type \notin {"VARCHAR", "BOOL"}
    BY <2>1, <2>2, <2>5 DEF IsVarchar
  <2> QED BY <2>3, <2>4, <2>5
<1> QED BY <1>4, <1>7, <1>8 DEF Typed

LEMMA CoercedInts ==
  ASSUME NEW columns, NEW n \in Nat, DOMAIN columns = 1 .. n, Len(columns) = n,
         \A i \in 1 .. n : columns[i].type \in ColumnTypes,
         NEW words, NEW m \in Nat, DOMAIN words = 1 .. m, Len(words) = m,
         \A i \in 1 .. m : words[i].text \in Seq(Int) /\ words[i].number \in Int,
         Serializable(columns, coerce(columns, words)), Coercible(columns, words)
  PROVE  \A i \in 1 .. n : columns[i].type = "INT" => IsInteger(coerce(columns, words)[i])
<1> SUFFICES ASSUME NEW i \in 1 .. n, columns[i].type = "INT"
             PROVE  IsInteger(coerce(columns, words)[i])
  OBVIOUS
<1>1. Typed(columns, coerce(columns, words))
  BY Coerced
<1>2. DOMAIN coerce(columns, words) = 1 .. n
  BY <1>1 DEF Typed
<1>3. Paired(columns, words) = 1 .. n
  BY <1>2 DEF coerce
<1>4. coerce(columns, words)[i] = words[i].number
  BY <1>3 DEF coerce
<1>5. IsInteger(words[i].number)
  BY <1>3 DEF Coercible
<1> QED BY <1>4, <1>5
=============================================================================
