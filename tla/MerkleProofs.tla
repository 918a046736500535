---------------------------- MODULE MerkleProofs ----------------------------
(***************************************************************************)
(* What the Merkle tree computes, for any finite family of hashes: the     *)
(* recursion is well defined, and the hashes can be read off the root.     *)
(*                                                                         *)
(* Induction is by the least number that is not in a set.                  *)
(***************************************************************************)
EXTENDS Merkle, FiniteSetTheorems, TLAPS

LEMMA LeastNumber ==
  ASSUME NEW T \in SUBSET Nat, T # {}
  PROVE  \E m \in T : \A k \in T : m <= k
<1>. DEFINE smaller == {p \in Nat \X Nat : p[1] < p[2]}
<1>1. IsWellFoundedOn(smaller, Nat)
  BY NatLessThanWellFounded DEF OpToRel
<1>. HIDE DEF smaller
<1>2. PICK m \in T : \A k \in T : ~(<<k, m>> \in smaller)
  BY <1>1, WFMin
<1>3. ASSUME NEW k \in T PROVE m <= k
  <2>1. k \in Nat /\ m \in Nat /\ <<k, m>> \notin smaller
    BY <1>2
  <2>. QED
    BY <2>1 DEF smaller
<1>. QED
  BY <1>3

LEMMA Induction ==
  ASSUME NEW T, 0 \in T, \A n \in Nat : n \in T => n + 1 \in T
  PROVE  Nat \subseteq T
<1>. SUFFICES ASSUME Nat \ T # {} PROVE FALSE
  OBVIOUS
<1>1. PICK m \in Nat \ T : \A k \in Nat \ T : m <= k
  BY LeastNumber
<1>2. m # 0 /\ m - 1 \in Nat
  BY <1>1
<1>3. m - 1 \in T
  BY <1>1, <1>2
<1>. QED
  BY <1>1, <1>2, <1>3

-----------------------------------------------------------------------------
(* Sorting. *)

Family(h) == IsFiniteSet(DOMAIN h) /\ \A i \in DOMAIN h : h[i] \in Nat
Size(h) == Cardinality(DOMAIN h)
Values(h) == {h[i] : i \in DOMAIN h}

LEMMA BelowGrows ==
  ASSUME NEW h, Family(h), NEW v \in Nat, NEW w \in Nat, v <= w
  PROVE  /\ Size(h) \in Nat /\ Below(h, v) \in 0 .. Size(h)
         /\ Below(h, v) <= Below(h, w)
         /\ Below(h, 0) = 0
         /\ (\E i \in DOMAIN h : v <= h[i] /\ h[i] < w) => Below(h, v) < Below(h, w)
         /\ (\A i \in DOMAIN h : ~(v <= h[i] /\ h[i] < w)) => Below(h, v) = Below(h, w)
<1>. DEFINE S(u) == {i \in DOMAIN h : h[i] < u}
<1>1. /\ S(v) \in SUBSET S(w) /\ S(w) \in SUBSET DOMAIN h /\ S(0) = {}
      /\ \A i \in DOMAIN h : v <= h[i] /\ h[i] < w => i \in S(w) /\ i \notin S(v)
      /\ (\A i \in DOMAIN h : ~(v <= h[i] /\ h[i] < w)) => S(v) = S(w)
  BY DEF Family
<1>2. IsFiniteSet(DOMAIN h) /\ IsFiniteSet(S(w)) /\ IsFiniteSet(S(v))
  BY <1>1, FS_Subset DEF Family
<1>3. /\ Cardinality(DOMAIN h) \in Nat /\ Cardinality(S(w)) \in Nat
      /\ Cardinality(S(v)) \in Nat
  BY <1>2, FS_CardinalityType
<1>4. /\ Cardinality(S(w)) <= Cardinality(DOMAIN h)
      /\ Cardinality(S(v)) <= Cardinality(S(w))
      /\ Cardinality(S(v)) = Cardinality(S(w)) => S(v) = S(w)
  BY <1>1, <1>2, FS_Subset
<1>5. /\ Below(h, v) = Cardinality(S(v)) /\ Below(h, w) = Cardinality(S(w))
      /\ Below(h, 0) = Cardinality(S(0)) /\ Size(h) = Cardinality(DOMAIN h)
  BY DEF Below, Size
<1>6. Cardinality(S(0)) = 0
  BY <1>1, FS_EmptySet
<1>. HIDE DEF S
<1>. QED
  BY <1>1, <1>3, <1>4, <1>5, <1>6

\* Some number is above all hashes.
LEMMA AllBelow ==
  ASSUME NEW h, Family(h)
  PROVE  \E v \in Nat : Below(h, v) = Size(h)
<1>. DEFINE T == {k \in Nat : k <= Size(h) => \E v \in Nat : k <= Below(h, v)}
<1>1. 0 \in T
  BY BelowGrows
<1>2. ASSUME NEW k \in Nat, k \in T PROVE k + 1 \in T
  <2>. SUFFICES ASSUME k + 1 <= Size(h) PROVE \E v \in Nat : k + 1 <= Below(h, v)
    OBVIOUS
  <2>0. Size(h) \in Nat
    BY BelowGrows
  <2>1. PICK v \in Nat : k <= Below(h, v)
    BY <1>2, <2>0
  <2>2. CASE \E i \in DOMAIN h : v <= h[i]
    <3>. PICK i \in DOMAIN h : v <= h[i]
      BY <2>2
    <3>1. h[i] \in Nat /\ h[i] + 1 \in Nat /\ v <= h[i] + 1 /\ h[i] < h[i] + 1
      BY DEF Family
    <3>2. Below(h, v) < Below(h, h[i] + 1)
      BY <3>1, BelowGrows
    <3>3. Below(h, v) \in Nat /\ Below(h, h[i] + 1) \in Nat
      BY <3>1, BelowGrows
    <3>. QED
      BY <2>1, <3>1, <3>2, <3>3
  <2>3. CASE ~ \E i \in DOMAIN h : v <= h[i]
    <3>1. {i \in DOMAIN h : h[i] < v} = DOMAIN h
      BY <2>1, <2>3 DEF Family
    <3>. QED
      BY <3>1 DEF Below, Size
  <2>. QED
    BY <2>2, <2>3
<1>. HIDE DEF T
<1>3. Size(h) \in T
  BY <1>1, <1>2, Induction, BelowGrows
<1>4. PICK v \in Nat : Size(h) <= Below(h, v)
  BY <1>3, BelowGrows DEF T
<1>. QED
  BY <1>4, BelowGrows

\* Every position of the sorted list has its value.
LEMMA SortedValue ==
  ASSUME NEW h, Family(h), NEW i \in 1 .. Size(h)
  PROVE  /\ Sorted(h)[i] \in Values(h) /\ Sorted(h)[i] \in Nat
         /\ Below(h, Sorted(h)[i]) < i /\ i <= Below(h, Sorted(h)[i] + 1)
<1>. DEFINE T == {v \in Nat : i <= Below(h, v)}
<1>0. Size(h) \in Nat /\ i \in Nat /\ \A v \in Nat : Below(h, v) \in Nat
  BY BelowGrows
<1>1. T # {}
  BY <1>0, AllBelow
<1>2. PICK w \in T : \A k \in T : w <= k
  BY <1>1, LeastNumber
<1>3. w # 0
  BY <1>0, <1>2, BelowGrows
<1>4. w - 1 \in Nat /\ (w - 1) + 1 = w /\ w \in Nat
  BY <1>3
<1>5. Below(h, w - 1) < i /\ i <= Below(h, w)
  BY <1>0, <1>2, <1>4
<1>6. \E j \in DOMAIN h : w - 1 <= h[j] /\ h[j] < w
  BY <1>0, <1>4, <1>5, BelowGrows
<1>7. w - 1 \in Values(h)
  BY <1>4, <1>6 DEF Values, Family
<1>8. \E v \in {h[j] : j \in DOMAIN h} : Below(h, v) < i /\ i <= Below(h, v + 1)
  BY <1>4, <1>5, <1>7 DEF Values
<1>9. /\ Sorted(h)[i] \in {h[j] : j \in DOMAIN h}
      /\ Below(h, Sorted(h)[i]) < i /\ i <= Below(h, Sorted(h)[i] + 1)
  <2>1. Sorted(h)[i] = CHOOSE v \in {h[j] : j \in DOMAIN h} :
                            Below(h, v) < i /\ i <= Below(h, v + 1)
    BY DEF Sorted, Size
  <2>. QED
    BY <1>8, <2>1
<1>. QED
  BY <1>9 DEF Values, Family

LEMMA SortedBelow ==
  ASSUME NEW h, Family(h), NEW i \in 1 .. Size(h), NEW v \in Nat
  PROVE  Sorted(h)[i] < v <=> i <= Below(h, v)
<1>. DEFINE s == Sorted(h)[i]
<1>1. /\ s \in Nat /\ Below(h, s) < i /\ i <= Below(h, s + 1)
      /\ i \in Nat /\ \A w \in Nat : Below(h, w) \in Nat
  BY SortedValue, BelowGrows
<1>2. CASE s < v
  <2>1. Below(h, s + 1) <= Below(h, v)
    BY <1>1, <1>2, BelowGrows
  <2>. QED
    BY <1>1, <1>2, <2>1
<1>3. CASE ~(s < v)
  <2>1. Below(h, v) <= Below(h, s)
    BY <1>1, <1>3, BelowGrows
  <2>. QED
    BY <1>1, <1>3, <2>1
<1>. QED
  BY <1>2, <1>3

\* Every hash has a position.
LEMMA SortedRange ==
  ASSUME NEW h, Family(h)
  PROVE  {Sorted(h)[i] : i \in 1 .. Size(h)} = Values(h)
<1>1. ASSUME NEW v \in Values(h) PROVE \E i \in 1 .. Size(h) : Sorted(h)[i] = v
  <2>. DEFINE i == Below(h, v + 1)
  <2>1. v \in Nat /\ \E j \in DOMAIN h : v <= h[j] /\ h[j] < v + 1
    BY DEF Values, Family
  <2>2. /\ Below(h, v) < i /\ Below(h, v) \in 0 .. Size(h) /\ i \in 0 .. Size(h)
        /\ Size(h) \in Nat
    BY <2>1, BelowGrows
  <2>3. i \in 1 .. Size(h)
    BY <2>2
  <2>. HIDE DEF i
  <2>4. Sorted(h)[i] < v + 1 /\ ~(Sorted(h)[i] < v) /\ Sorted(h)[i] \in Nat
    BY <2>1, <2>2, <2>3, SortedBelow, SortedValue DEF i
  <2>. QED
    BY <2>1, <2>3, <2>4
<1>. QED
  BY <1>1, SortedValue

\* The sorted list depends on how many hashes are below each number, and tells it.
LEMMA SortedTellsBelow ==
  ASSUME NEW g, NEW h, Family(g), Family(h), Size(g) = Size(h)
  PROVE  Sorted(g) = Sorted(h) <=> \A v \in Nat : Below(g, v) = Below(h, v)
<1>1. ASSUME Sorted(g) = Sorted(h), NEW v \in Nat PROVE Below(g, v) = Below(h, v)
  <2>1. /\ Size(h) \in Nat
        /\ Below(g, v) \in 0 .. Size(h) /\ Below(h, v) \in 0 .. Size(h)
    BY BelowGrows
  <2>2. \A i \in 1 .. Size(h) : i <= Below(g, v) <=> i <= Below(h, v)
    BY <1>1, SortedBelow
  <2>. QED
    BY <2>1, <2>2
<1>2. ASSUME \A v \in Nat : Below(g, v) = Below(h, v) PROVE Sorted(g) = Sorted(h)
  <2>1. ASSUME NEW i \in 1 .. Size(h) PROVE Sorted(g)[i] = Sorted(h)[i]
    <3>1. Sorted(g)[i] \in Nat /\ Sorted(h)[i] \in Nat
      BY SortedValue
    <3>2. \A v \in Nat : Sorted(g)[i] < v <=> Sorted(h)[i] < v
      BY <1>2, SortedBelow
    <3>3. Sorted(g)[i] < Sorted(h)[i] + 1 /\ Sorted(h)[i] < Sorted(g)[i] + 1
      BY <3>1, <3>2
    <3>. QED
      BY <3>1, <3>3
  <2>2. /\ Sorted(g) = [i \in 1 .. Size(h) |-> Sorted(g)[i]]
        /\ Sorted(h) = [i \in 1 .. Size(h) |-> Sorted(h)[i]]
    BY DEF Sorted, Size
  <2>. QED
    BY <2>1, <2>2
<1>. QED
  BY <1>1, <1>2
-----------------------------------------------------------------------------
(* The layers. *)

LEMMA LayersDef ==
  ASSUME NEW h, Size(h) \in Nat
  PROVE  Layers(h) = [k \in 0 .. Size(h) |->
                         IF k = 0 THEN Leaves(h) ELSE Round(Layers(h)[k - 1])]
<1>. DEFINE Def(m, f) == f = [k \in 0 .. m |-> IF k = 0 THEN Leaves(h) ELSE Round(f[k - 1])]
            T == {m \in Nat : \E f : Def(m, f)}
<1>1. 0 \in T
  <2>1. Def(0, [k \in 0 .. 0 |-> Leaves(h)])
    OBVIOUS
  <2>. QED
    BY <2>1, Zenon
<1>2. ASSUME NEW m \in Nat, m \in T PROVE m + 1 \in T
  <2>. PICK f : Def(m, f)
    BY <1>2
  <2>. DEFINE g == [k \in 0 .. m + 1 |-> IF k <= m THEN f[k] ELSE Round(f[m])]
  <2>1. \A k \in 0 .. m : f[k] = IF k = 0 THEN Leaves(h) ELSE Round(f[k - 1])
    BY Zenon
  <2>2. ASSUME NEW k \in 0 .. m + 1
        PROVE  g[k] = IF k = 0 THEN Leaves(h) ELSE Round(g[k - 1])
    <3>1. CASE k <= m
      BY <2>1, <3>1
    <3>2. CASE k = m + 1
      BY <3>2
    <3>. QED
      BY <3>1, <3>2
  <2>3. g = [k \in 0 .. m + 1 |-> g[k]]
    OBVIOUS
  <2>. HIDE DEF g
  <2>4. Def(m + 1, g)
    <3>1. [k \in 0 .. m + 1 |-> g[k]]
          = [k \in 0 .. m + 1 |-> IF k = 0 THEN Leaves(h) ELSE Round(g[k - 1])]
      BY <2>2, Zenon
    <3>. QED
      BY <2>3, <3>1, Zenon
  <2>5. m + 1 \in Nat
    OBVIOUS
  <2>. QED
    BY <2>4, <2>5, Zenon
<1>. HIDE DEF T
<1>3. Size(h) \in T
  BY <1>1, <1>2, Induction
<1>4. \E f : Def(Size(h), f)
  BY <1>3, Zenon DEF T
<1>. QED
  BY <1>4, Zenon DEF Layers, Size

LEMMA LayersSteps ==
  ASSUME NEW h, Size(h) \in Nat
  PROVE  /\ Layers(h)[0] = Leaves(h)
         /\ \A k \in 1 .. Size(h) : Layers(h)[k] = Round(Layers(h)[k - 1])
<1>1. \A k \in 0 .. Size(h) :
          Layers(h)[k] = IF k = 0 THEN Leaves(h) ELSE Round(Layers(h)[k - 1])
  BY LayersDef, Zenon
<1>. QED
  BY <1>1

LEMMA RowsDef ==
  ASSUME NEW root, NEW n \in Nat
  PROVE  Rows(root, n) = [k \in 0 .. n |->
                             IF k = 0 THEN <<root>> ELSE Unfold(Rows(root, n)[k - 1])]
<1>. DEFINE Def(m, f) == f = [k \in 0 .. m |-> IF k = 0 THEN <<root>> ELSE Unfold(f[k - 1])]
            T == {m \in Nat : \E f : Def(m, f)}
<1>1. 0 \in T
  <2>1. Def(0, [k \in 0 .. 0 |-> <<root>>])
    OBVIOUS
  <2>. QED
    BY <2>1, Zenon
<1>2. ASSUME NEW m \in Nat, m \in T PROVE m + 1 \in T
  <2>. PICK f : Def(m, f)
    BY <1>2
  <2>. DEFINE g == [k \in 0 .. m + 1 |-> IF k <= m THEN f[k] ELSE Unfold(f[m])]
  <2>1. \A k \in 0 .. m : f[k] = IF k = 0 THEN <<root>> ELSE Unfold(f[k - 1])
    BY Zenon
  <2>2. ASSUME NEW k \in 0 .. m + 1
        PROVE  g[k] = IF k = 0 THEN <<root>> ELSE Unfold(g[k - 1])
    <3>1. CASE k <= m
      BY <2>1, <3>1
    <3>2. CASE k = m + 1
      BY <3>2
    <3>. QED
      BY <3>1, <3>2
  <2>3. g = [k \in 0 .. m + 1 |-> g[k]]
    OBVIOUS
  <2>. HIDE DEF g
  <2>4. Def(m + 1, g)
    <3>1. [k \in 0 .. m + 1 |-> g[k]]
          = [k \in 0 .. m + 1 |-> IF k = 0 THEN <<root>> ELSE Unfold(g[k - 1])]
      BY <2>2, Zenon
    <3>. QED
      BY <2>3, <3>1, Zenon
  <2>5. m + 1 \in Nat
    OBVIOUS
  <2>. QED
    BY <2>4, <2>5, Zenon
<1>. HIDE DEF T
<1>3. n \in T
  BY <1>1, <1>2, Induction
<1>4. \E f : Def(n, f)
  BY <1>3, Zenon DEF T
<1>. QED
  BY <1>4, Zenon DEF Rows

LEMMA RowsSteps ==
  ASSUME NEW root, NEW n \in Nat
  PROVE  /\ Rows(root, n)[0] = <<root>>
         /\ \A k \in 1 .. n : Rows(root, n)[k] = Unfold(Rows(root, n)[k - 1])
<1>1. \A k \in 0 .. n :
          Rows(root, n)[k] = IF k = 0 THEN <<root>> ELSE Unfold(Rows(root, n)[k - 1])
  BY RowsDef, Zenon
<1>. QED
  BY <1>1

-----------------------------------------------------------------------------
(* From the root down to the leaves. *)

\* A layer of nodes, each of which is a leaf or a pair.
IsLayer(s) ==
    /\ Len(s) \in Nat \ {0} /\ DOMAIN s = 1 .. Len(s) /\ s = [i \in 1 .. Len(s) |-> s[i]]
    /\ \A i \in 1 .. Len(s) : Len(s[i]) \in {1, 2}

\* A row starts with the nodes of a layer and has no others.
Covers(row, layer) ==
    /\ IsLayer(row) /\ IsLayer(layer) /\ Len(layer) <= Len(row)
    /\ \A i \in 1 .. Len(layer) : row[i] = layer[i]
    /\ \A i \in 1 .. Len(row) : \E j \in 1 .. Len(layer) : row[i] = layer[j]

LEMMA LeavesLayer ==
  ASSUME NEW h, Size(h) \in Nat \ {0}
  PROVE  /\ IsLayer(Leaves(h)) /\ Len(Leaves(h)) = Size(h)
         /\ \A i \in 1 .. Size(h) : Leaves(h)[i] = <<Sorted(h)[i]>>
<1>1. DOMAIN Sorted(h) = 1 .. Size(h)
  BY DEF Sorted, Size
<1>2. Leaves(h) = [i \in 1 .. Size(h) |-> <<Sorted(h)[i]>>]
  BY <1>1 DEF Leaves
<1>. QED
  BY <1>2 DEF IsLayer

LEMMA PairUpLayer ==
  ASSUME NEW s, IsLayer(s), Len(s) > 1
  PROVE  /\ IsLayer(PairUp(s)) /\ Len(PairUp(s)) = (Len(s) + 1) \div 2
         /\ \A i \in 1 .. Len(PairUp(s)) :
             /\ 2 * i - 1 \in 1 .. Len(s)
             /\ PairUp(s)[i] = <<s[2 * i - 1], IF 2 * i <= Len(s) THEN s[2 * i] ELSE s[Len(s)]>>
<1>. DEFINE n == Len(s)  full == Padded(s)
<1>1. /\ n \in Nat /\ n > 1
      /\ Len(full) = 2 * ((n + 1) \div 2)
      /\ \A i \in 1 .. Len(full) : full[i] = IF i <= n THEN s[i] ELSE s[n]
  <2>1. s \in Seq({s[i] : i \in 1 .. n})
    BY DEF IsLayer
  <2>2. CASE n % 2 = 1
    BY <2>1, <2>2 DEF Padded, IsLayer
  <2>3. CASE n % 2 # 1
    <3>1. n \in Nat /\ n > 1 /\ full = s
      BY <2>3 DEF Padded, IsLayer
    <3>2. \A m \in Nat : m % 2 # 1 => m = 2 * ((m + 1) \div 2)
      OBVIOUS
    <3>. HIDE DEF full, n
    <3>3. n = 2 * ((n + 1) \div 2)
      BY <2>3, <3>1, <3>2
    <3>. QED
      BY <3>1, <3>3 DEF n
  <2>. QED
    BY <2>2, <2>3
<1>. HIDE DEF full, n
<1>2. PairUp(s) = [i \in 1 .. (n + 1) \div 2 |-> <<full[2 * i - 1], full[2 * i]>>]
  BY <1>1 DEF PairUp, full
<1>3. ASSUME NEW i \in 1 .. (n + 1) \div 2
      PROVE  /\ 2 * i - 1 \in 1 .. n
             /\ full[2 * i - 1] = s[2 * i - 1]
             /\ full[2 * i] = IF 2 * i <= n THEN s[2 * i] ELSE s[n]
  BY <1>1
<1>. QED
  BY <1>1, <1>2, <1>3 DEF IsLayer, n

LEMMA Halves ==
  ASSUME NEW n \in Nat, NEW i \in 1 .. 2 * n
  PROVE  \E j \in 1 .. n : i = 2 * j - 1 \/ i = 2 * j
<1>. DEFINE j == (i + 1) \div 2
<1>1. j \in 1 .. n /\ (i = 2 * j - 1 \/ i = 2 * j)
  OBVIOUS
<1>. HIDE DEF j
<1>. QED
  BY <1>1

LEMMA UnfoldLayer ==
  ASSUME NEW row, NEW n \in Nat \ {0}, Len(row) = n, Len(row[1]) # 1
  PROVE  /\ Len(Unfold(row)) = 2 * n /\ DOMAIN Unfold(row) = 1 .. 2 * n
         /\ Unfold(row) = [i \in 1 .. 2 * n |-> Unfold(row)[i]]
         /\ \A i \in 1 .. n : /\ Unfold(row)[2 * i - 1] = row[i][1]
                              /\ Unfold(row)[2 * i] = row[i][2]
<1>. DEFINE Node(i) == row[(i + 1) \div 2][IF i % 2 = 1 THEN 1 ELSE 2]
<1>1. Unfold(row) = [i \in 1 .. 2 * n |-> Node(i)]
  BY DEF Unfold
<1>2. ASSUME NEW i \in 1 .. n
      PROVE  /\ 2 * i - 1 \in 1 .. 2 * n /\ 2 * i \in 1 .. 2 * n
             /\ Node(2 * i - 1) = row[i][1] /\ Node(2 * i) = row[i][2]
  <2>1. /\ 2 * i - 1 \in 1 .. 2 * n /\ 2 * i \in 1 .. 2 * n
        /\ ((2 * i - 1) + 1) \div 2 = i /\ (2 * i + 1) \div 2 = i
        /\ (2 * i - 1) % 2 = 1 /\ (2 * i) % 2 # 1
    OBVIOUS
  <2>. QED
    BY <2>1
<1>. HIDE DEF Node
<1>3. 2 * n \in Nat
  OBVIOUS
<1>. QED
  BY <1>1, <1>2, <1>3

\* A row that starts with the nodes above a layer unfolds to one that starts
\* with the layer itself: the padding only repeats what is there.
LEMMA UnfoldCovers ==
  ASSUME NEW s, NEW row, IsLayer(s), Len(s) > 1, Covers(row, PairUp(s))
  PROVE  Covers(Unfold(row), s)
<1>1. PICK up : up = PairUp(s)
  OBVIOUS
<1>2. PICK down : down = Unfold(row)
  OBVIOUS
<1>3. PICK n : n = Len(s)
  OBVIOUS
<1>4. PICK m : m = Len(up)
  OBVIOUS
<1>5. PICK r : r = Len(row)
  OBVIOUS
<1>6. /\ IsLayer(up) /\ m = (n + 1) \div 2
      /\ \A j \in 1 .. m :
          /\ 2 * j - 1 \in 1 .. n
          /\ up[j] = <<s[2 * j - 1], IF 2 * j <= n THEN s[2 * j] ELSE s[n]>>
  BY <1>1, <1>3, <1>4, PairUpLayer
<1>7. /\ n \in Nat /\ n > 1 /\ m \in Nat \ {0} /\ r \in Nat \ {0} /\ m <= r
      /\ \A j \in 1 .. m : row[j] = up[j]
      /\ \A i \in 1 .. r : \E j \in 1 .. m : row[i] = up[j]
  BY <1>1, <1>3, <1>4, <1>5, <1>6 DEF Covers, IsLayer
<1>8. n <= 2 * m
  BY <1>6, <1>7
<1>9. ASSUME NEW j \in 1 .. m
      PROVE  /\ Len(up[j]) = 2 /\ up[j][1] = s[2 * j - 1]
             /\ up[j][2] = IF 2 * j <= n THEN s[2 * j] ELSE s[n]
             /\ 2 * j - 1 \in 1 .. n
             /\ (IF 2 * j <= n THEN 2 * j ELSE n) \in 1 .. n
  <2>1. PICK last : last = IF 2 * j <= n THEN s[2 * j] ELSE s[n]
    OBVIOUS
  <2>2. up[j] = <<s[2 * j - 1], last>> /\ 2 * j - 1 \in 1 .. n
    BY <1>6, <2>1
  <2>3. (IF 2 * j <= n THEN 2 * j ELSE n) \in 1 .. n
    BY <1>7
  <2>. QED
    BY <2>1, <2>2, <2>3
<1>10. Len(row[1]) # 1
  <2>1. 1 \in 1 .. r
    BY <1>7
  <2>2. PICK j \in 1 .. m : row[1] = up[j]
    BY <2>1, <1>7
  <2>. QED
    BY <2>2, <1>9
<1>11. /\ Len(down) = 2 * r /\ DOMAIN down = 1 .. 2 * r
       /\ down = [i \in 1 .. 2 * r |-> down[i]]
       /\ \A i \in 1 .. r : down[2 * i - 1] = row[i][1] /\ down[2 * i] = row[i][2]
  <2>1. r \in Nat \ {0} /\ Len(row) = r
    BY <1>5, <1>7
  <2>. QED
    BY <1>2, <1>10, <2>1, UnfoldLayer
<1>12. ASSUME NEW i \in 1 .. 2 * r
       PROVE  \E j \in 1 .. n : down[i] = s[j]
  <2>1. PICK k \in 1 .. r : i = 2 * k - 1 \/ i = 2 * k
    BY <1>7, Halves
  <2>2. PICK j \in 1 .. m : row[k] = up[j]
    BY <1>7
  <2>3. down[i] = row[k][1] \/ down[i] = row[k][2]
    BY <1>11, <2>1
  <2>. QED
    BY <1>9, <2>2, <2>3
<1>13. ASSUME NEW i \in 1 .. n PROVE down[i] = s[i]
  <2>1. i \in 1 .. 2 * m
    BY <1>7, <1>8
  <2>2. PICK j \in 1 .. m : i = 2 * j - 1 \/ i = 2 * j
    BY <1>7, <2>1, Halves
  <2>3. j \in 1 .. r
    BY <1>7
  <2>4. down[2 * j - 1] = up[j][1] /\ down[2 * j] = up[j][2]
    BY <1>7, <1>11, <2>3
  <2>5. i = 2 * j => 2 * j <= n
    BY <1>7
  <2>. QED
    BY <1>9, <2>2, <2>4, <2>5
<1>14. IsLayer(down)
  <2>1. \A i \in 1 .. 2 * r : Len(down[i]) \in {1, 2}
    BY <1>3, <1>12 DEF IsLayer
  <2>2. 2 * r \in Nat \ {0}
    BY <1>7
  <2>. QED
    BY <1>11, <2>1, <2>2 DEF IsLayer
<1>15. n <= 2 * r
  BY <1>7, <1>8
<1>16. /\ Len(s) <= Len(down)
       /\ \A i \in 1 .. Len(s) : down[i] = s[i]
       /\ \A i \in 1 .. Len(down) : \E j \in 1 .. Len(s) : down[i] = s[j]
  BY <1>3, <1>11, <1>12, <1>13, <1>15
<1>. QED
  BY <1>2, <1>14, <1>16 DEF Covers

\* A layer has at most one node or at least one less than the layer below it;
\* in the end there is one.
LEMMA LayerSizes ==
  ASSUME NEW h, Size(h) \in Nat \ {0}, NEW k \in 0 .. Size(h)
  PROVE  /\ IsLayer(Layers(h)[k])
         /\ Len(Layers(h)[k]) <= IF k < Size(h) THEN Size(h) - k ELSE 1
<1>. DEFINE n == Size(h)  f == Layers(h)
            Good(j) == IsLayer(f[j]) /\ Len(f[j]) <= IF j < n THEN n - j ELSE 1
            T == {j \in Nat : j <= n => Good(j)}
<1>0. f[0] = Leaves(h) /\ \A j \in 1 .. n : f[j] = Round(f[j - 1])
  BY LayersSteps
<1>. HIDE DEF f
<1>1. 0 \in T
  BY <1>0, LeavesLayer
<1>2. ASSUME NEW j \in Nat, j \in T PROVE j + 1 \in T
  <2>. SUFFICES ASSUME j + 1 <= n PROVE Good(j + 1)
    OBVIOUS
  <2>1. Good(j) /\ f[j + 1] = Round(f[j])
    BY <1>0, <1>2
  <2>2. CASE Len(f[j]) > 1
    <3>1. f[j + 1] = PairUp(f[j])
      BY <2>1, <2>2 DEF Round
    <3>2. IsLayer(f[j + 1]) /\ Len(f[j + 1]) = (Len(f[j]) + 1) \div 2
      BY <2>1, <2>2, <3>1, PairUpLayer
    <3>3. Len(f[j]) \in Nat /\ j < n /\ Len(f[j]) <= n - j
      BY <2>1 DEF IsLayer
    <3>4. \A m \in Nat : m > 1 => (m + 1) \div 2 <= m - 1
      OBVIOUS
    <3>5. (Len(f[j]) + 1) \div 2 <= Len(f[j]) - 1
      BY <2>2, <3>3, <3>4
    <3>6. Len(f[j + 1]) <= Len(f[j]) - 1 /\ Len(f[j + 1]) \in Nat
      BY <3>2, <3>5 DEF IsLayer
    <3>7. n \in Nat /\ n - (j + 1) \in Nat /\ Len(f[j + 1]) <= n - (j + 1)
      BY <3>3, <3>6
    <3>8. j + 1 < n
      BY <2>2, <3>3, <3>7
    <3>. QED
      BY <3>2, <3>7, <3>8
  <2>3. CASE ~(Len(f[j]) > 1)
    <3>1. f[j + 1] = f[j]
      BY <2>1, <2>3 DEF Round
    <3>2. Len(f[j]) \in Nat /\ Len(f[j]) <= 1
      BY <2>1, <2>3 DEF IsLayer
    <3>. QED
      BY <2>1, <3>1, <3>2
  <2>. QED
    BY <2>2, <2>3
<1>. HIDE DEF T
<1>3. k \in T
  BY <1>1, <1>2, Induction
<1>. QED
  BY <1>3 DEF T, f

LEMMA LastLayer ==
  ASSUME NEW h, Size(h) \in Nat \ {0}
  PROVE  /\ Layers(h)[Size(h)] = <<MerkleRoot(h)>>
         /\ Len(MerkleRoot(h)) \in {1, 2}
<1>1. PICK s : s = Layers(h)[Size(h)]
  OBVIOUS
<1>2. Size(h) \in 0 .. Size(h) /\ ~(Size(h) < Size(h))
  OBVIOUS
<1>3. IsLayer(s) /\ Len(s) <= 1
  BY <1>1, <1>2, LayerSizes
<1>4. Len(s) = 1 /\ s = [i \in 1 .. 1 |-> s[i]] /\ Len(s[1]) \in {1, 2}
  BY <1>3 DEF IsLayer
<1>5. MerkleRoot(h) = s[1]
  BY <1>1 DEF MerkleRoot, Size
<1>. QED
  BY <1>1, <1>4, <1>5

\* Unfolding the root of n hashes at least n times ends in a row that covers
\* the leaves.
LEMMA RootCovers ==
  ASSUME NEW h, Size(h) \in Nat \ {0}, NEW m \in Nat, Size(h) <= m
  PROVE  Covers(Rows(MerkleRoot(h), m)[m], Leaves(h))
<1>1. PICK n : n = Size(h)
  OBVIOUS
<1>2. PICK f : f = Layers(h)
  OBVIOUS
<1>3. PICK R : R = Rows(MerkleRoot(h), m)
  OBVIOUS
<1>4. /\ n \in Nat \ {0} /\ n <= m
      /\ f[0] = Leaves(h) /\ \A k \in 1 .. n : f[k] = Round(f[k - 1])
      /\ \A k \in 0 .. n : IsLayer(f[k])
  BY <1>1, <1>2, LayersSteps, LayerSizes
<1>5. R[0] = f[n] /\ \A j \in 1 .. m : R[j] = Unfold(R[j - 1])
  BY <1>1, <1>2, <1>3, RowsSteps, LastLayer
<1>. DEFINE Above(j, k) == (k + j <= n \/ k = 0) /\ Covers(R[j], f[k])
            T == {j \in Nat : j <= m => \E k \in 0 .. n : Above(j, k)}
<1>6. 0 \in T
  <2>1. n \in 0 .. n /\ n + 0 <= n
    BY <1>4
  <2>2. IsLayer(f[n])
    BY <1>4, <2>1
  <2>3. Covers(R[0], f[n])
    BY <1>5, <2>2 DEF Covers, IsLayer
  <2>. QED
    BY <2>1, <2>3
<1>7. ASSUME NEW j \in Nat, j \in T PROVE j + 1 \in T
  <2>. SUFFICES ASSUME j + 1 <= m PROVE \E k \in 0 .. n : Above(j + 1, k)
    OBVIOUS
  <2>1. PICK k \in 0 .. n : Above(j, k)
    BY <1>7
  <2>2. R[j + 1] = Unfold(R[j])
    BY <1>5
  <2>3. PICK i \in 0 .. n : /\ f[i] = f[k] /\ i <= k
                            /\ \A l \in 0 .. n : f[l] = f[k] => i <= l
    <3>. DEFINE same == {l \in 0 .. n : f[l] = f[k]}
    <3>1. same \in SUBSET Nat /\ k \in same
      OBVIOUS
    <3>2. PICK i \in same : \A l \in same : i <= l
      BY <3>1, LeastNumber
    <3>. QED
      BY <3>1, <3>2
  <2>4. CASE i = 0
    <3>1. Covers(R[j], Leaves(h))
      BY <1>4, <2>1, <2>3, <2>4
    <3>2. /\ R[j][1] = Leaves(h)[1] /\ Leaves(h)[1] = <<Sorted(h)[1]>>
      BY <1>1, <1>4, <3>1, LeavesLayer DEF Covers
    <3>3. Unfold(R[j]) = R[j]
      BY <3>2 DEF Unfold
    <3>. QED
      BY <1>4, <2>2, <3>1, <3>3
  <2>5. CASE i # 0
    <3>1. i - 1 \in 0 .. n /\ i \in 1 .. n /\ f[i] = Round(f[i - 1]) /\ f[i - 1] # f[k]
      BY <1>4, <2>3, <2>5
    <3>2. Len(f[i - 1]) > 1 /\ f[i] = PairUp(f[i - 1])
      BY <2>3, <3>1 DEF Round
    <3>3. Covers(R[j + 1], f[i - 1])
      BY <1>4, <2>1, <2>2, <2>3, <3>1, <3>2, UnfoldCovers
    <3>4. (i - 1) + (j + 1) <= n
      BY <1>4, <2>1, <2>3, <2>5
    <3>. QED
      BY <3>1, <3>3, <3>4
  <2>. QED
    BY <2>4, <2>5
<1>. HIDE DEF T
<1>8. m \in T
  BY <1>6, <1>7, Induction
<1>9. PICK k \in 0 .. n : Above(m, k)
  BY <1>8 DEF T
<1>10. k = 0
  BY <1>4, <1>9
<1>. QED
  BY <1>3, <1>4, <1>9, <1>10

\* The leaves under a root start with the sorted hashes and hold no others.
LEMMA LeavesUnderRoot ==
  ASSUME NEW h, Family(h), Size(h) # 0, NEW m \in Nat, Size(h) <= m
  PROVE  LET leaves == LeafHashes(MerkleRoot(h), m)
         IN  /\ Len(leaves) \in Nat /\ DOMAIN leaves = 1 .. Len(leaves)
             /\ Size(h) <= Len(leaves)
             /\ \A i \in 1 .. Size(h) : leaves[i] = Sorted(h)[i]
             /\ {leaves[i] : i \in DOMAIN leaves} = Values(h)
<1>0. Size(h) \in Nat \ {0}
  BY BelowGrows
<1>1. PICK row : row = Rows(MerkleRoot(h), m)[m]
  OBVIOUS
<1>2. PICK leaves : leaves = LeafHashes(MerkleRoot(h), m)
  OBVIOUS
<1>3. Covers(row, Leaves(h))
  BY <1>0, <1>1, RootCovers
<1>4. PICK n : n = Size(h)
  OBVIOUS
<1>5. Len(Leaves(h)) = n /\ \A i \in 1 .. n : Leaves(h)[i] = <<Sorted(h)[i]>>
  BY <1>0, <1>4, LeavesLayer
<1>6. PICK r : r = Len(row)
  OBVIOUS
<1>7. /\ r \in Nat /\ n <= r /\ DOMAIN row = 1 .. r
      /\ \A i \in 1 .. n : row[i] = <<Sorted(h)[i]>>
      /\ \A i \in 1 .. r : \E j \in 1 .. n : row[i] = <<Sorted(h)[j]>>
  BY <1>3, <1>5, <1>6 DEF Covers, IsLayer
<1>8. leaves = [i \in 1 .. r |-> row[i][1]]
  BY <1>1, <1>2, <1>7 DEF LeafHashes
<1>9. /\ Len(leaves) = r
      /\ \A i \in 1 .. n : i \in 1 .. r /\ leaves[i] = Sorted(h)[i]
      /\ \A i \in 1 .. r : \E j \in 1 .. n : leaves[i] = Sorted(h)[j]
  BY <1>0, <1>4, <1>7, <1>8
<1>10. {leaves[i] : i \in 1 .. r} = Values(h)
  <2>1. PICK s : s = Sorted(h)
    OBVIOUS
  <2>2. {s[i] : i \in 1 .. n} = Values(h)
    BY <1>4, <2>1, SortedRange
  <2>3. /\ \A i \in 1 .. n : i \in 1 .. r /\ leaves[i] = s[i]
        /\ \A i \in 1 .. r : \E j \in 1 .. n : leaves[i] = s[j]
    BY <1>9, <2>1
  <2>4. {leaves[i] : i \in 1 .. r} = {s[i] : i \in 1 .. n}
    BY <2>3
  <2>. QED
    BY <2>2, <2>4
<1>11. DOMAIN leaves = 1 .. r
  BY <1>8
<1>12. /\ Len(leaves) \in Nat /\ DOMAIN leaves = 1 .. Len(leaves)
       /\ n <= Len(leaves)
       /\ \A i \in 1 .. n : leaves[i] = Sorted(h)[i]
       /\ {leaves[i] : i \in DOMAIN leaves} = Values(h)
  BY <1>7, <1>9, <1>10, <1>11
<1>. QED
  BY <1>2, <1>4, <1>12

-----------------------------------------------------------------------------
(* What compute_merkle_root promises verify_partition and the manifest. *)

\* Only tables with the same hashes have the same root: a hash that is new, or of
\* which the last row is missing, changes the root.
THEOREM RootTellsHashes ==
  ASSUME NEW g, NEW h, Family(g), Family(h), MerkleRoot(g) = MerkleRoot(h)
  PROVE  Values(g) = Values(h)
<1>1. \A x : Family(x) =>
         /\ Size(x) \in Nat
         /\ Size(x) = 0 => MerkleRoot(x) = <<>> /\ Values(x) = {}
         /\ Size(x) # 0 => MerkleRoot(x) # <<>>
  <2>. SUFFICES ASSUME NEW x, Family(x)
                PROVE  /\ Size(x) \in Nat
                       /\ Size(x) = 0 => MerkleRoot(x) = <<>> /\ Values(x) = {}
                       /\ Size(x) # 0 => MerkleRoot(x) # <<>>
    OBVIOUS
  <2>1. Size(x) \in Nat
    BY BelowGrows
  <2>2. Size(x) = 0 => DOMAIN x = {}
    BY FS_EmptySet DEF Size, Family
  <2>3. Size(x) # 0 => Len(MerkleRoot(x)) # 0
    BY <2>1, LastLayer
  <2>. QED
    BY <2>1, <2>2, <2>3 DEF MerkleRoot, NoRoot, Size, Values
<1>2. CASE Size(g) = 0 \/ Size(h) = 0
  BY <1>1, <1>2
<1>3. CASE Size(g) # 0 /\ Size(h) # 0
  <2>1. PICK m \in Nat : Size(g) <= m /\ Size(h) <= m
    <3>1. Size(g) \in Nat /\ Size(h) \in Nat
      BY <1>1
    <3>. QED
      BY <3>1
  <2>2. PICK leaves : leaves = LeafHashes(MerkleRoot(g), m)
    OBVIOUS
  <2>3. {leaves[i] : i \in DOMAIN leaves} = Values(g)
    BY <1>3, <2>1, <2>2, LeavesUnderRoot
  <2>4. {leaves[i] : i \in DOMAIN leaves} = Values(h)
    BY <1>3, <2>1, <2>2, LeavesUnderRoot
  <2>. QED
    BY <2>3, <2>4
<1>. QED
  BY <1>2, <1>3

\* The root alone tells how many hashes are below any number that is not above
\* all of them: the padding (audit.py:99-100) repeats the greatest hash only.
THEOREM RootTellsSmallerHashes ==
  ASSUME NEW g, NEW h, Family(g), Family(h), MerkleRoot(g) = MerkleRoot(h),
         NEW w \in Values(g), NEW v \in Nat, v <= w
  PROVE  Below(g, v) = Below(h, v)
<1>1. w \in Values(h) /\ w \in Nat
  BY RootTellsHashes DEF Values, Family
<1>2. \A x : Family(x) /\ w \in Values(x) =>
          Size(x) \in Nat \ {0} /\ Below(x, v) \in Nat /\ Below(x, v) < Size(x)
  <2>. SUFFICES ASSUME NEW x, Family(x), w \in Values(x)
                PROVE  /\ Size(x) \in Nat \ {0} /\ Below(x, v) \in Nat
                       /\ Below(x, v) < Size(x)
    OBVIOUS
  <2>1. w + 1 \in Nat /\ v <= w + 1 /\ \E i \in DOMAIN x : v <= x[i] /\ x[i] < w + 1
    BY <1>1 DEF Values
  <2>2. /\ Size(x) \in Nat /\ Below(x, v) \in 0 .. Size(x)
        /\ Below(x, w + 1) \in 0 .. Size(x) /\ Below(x, v) < Below(x, w + 1)
    BY <2>1, BelowGrows
  <2>. QED
    BY <2>2
<1>3. /\ Size(g) \in Nat \ {0} /\ Below(g, v) \in Nat /\ Below(g, v) < Size(g)
      /\ Size(h) \in Nat \ {0} /\ Below(h, v) \in Nat /\ Below(h, v) < Size(h)
  BY <1>1, <1>2
<1>4. PICK m \in Nat : Size(g) <= m /\ Size(h) <= m
  BY <1>3
<1>5. PICK leaves : leaves = LeafHashes(MerkleRoot(g), m)
  OBVIOUS
<1>6. \A i \in 1 .. Size(g) : leaves[i] = Sorted(g)[i]
  BY <1>3, <1>4, <1>5, LeavesUnderRoot
<1>7. \A i \in 1 .. Size(h) : leaves[i] = Sorted(h)[i]
  <2>1. leaves = LeafHashes(MerkleRoot(h), m)
    BY <1>5
  <2>. QED
    BY <1>3, <1>4, <2>1, LeavesUnderRoot
<1>8. \A i \in 1 .. Size(g) : i \in 1 .. Size(h) =>
          (i <= Below(g, v) <=> i <= Below(h, v))
  BY <1>6, <1>7, SortedBelow
<1>9. ~(Below(g, v) < Below(h, v))
  <2>1. Below(g, v) < Below(h, v) =>
            Below(g, v) + 1 \in 1 .. Size(g) /\ Below(g, v) + 1 \in 1 .. Size(h)
    BY <1>3
  <2>. QED
    BY <1>3, <1>8, <2>1
<1>10. ~(Below(h, v) < Below(g, v))
  <2>1. Below(h, v) < Below(g, v) =>
            Below(h, v) + 1 \in 1 .. Size(g) /\ Below(h, v) + 1 \in 1 .. Size(h)
    BY <1>3
  <2>. QED
    BY <1>3, <1>8, <2>1
<1>. QED
  BY <1>3, <1>9, <1>10

\* Together with the row count, the root tells how often each hash occurs.
THEOREM RootAndCountTellHashes ==
  ASSUME NEW g, NEW h, Family(g), Family(h), Size(g) = Size(h),
         MerkleRoot(g) = MerkleRoot(h), NEW v \in Nat
  PROVE  Below(g, v) = Below(h, v)
<1>1. Size(g) \in Nat /\ Size(h) \in Nat
  BY BelowGrows
<1>2. CASE Size(g) = 0
  <2>1. Below(g, v) \in 0 .. Size(g) /\ Below(h, v) \in 0 .. Size(h)
    BY v <= v, BelowGrows
  <2>. QED
    BY <1>2, <2>1
<1>3. CASE Size(g) # 0
  <2>. PICK m \in Nat : m = Size(g) /\ Size(g) <= m /\ Size(h) <= m
    BY <1>1
  <2>0. PICK leaves : leaves = LeafHashes(MerkleRoot(g), m)
    OBVIOUS
  <2>1. \A i \in 1 .. Size(h) : Sorted(g)[i] = Sorted(h)[i]
    <3>1. \A i \in 1 .. Size(g) : leaves[i] = Sorted(g)[i]
      BY <1>1, <1>3, <2>0, LeavesUnderRoot
    <3>2. \A i \in 1 .. Size(h) : leaves[i] = Sorted(h)[i]
      <4>1. leaves = LeafHashes(MerkleRoot(h), m) /\ Size(h) # 0
        BY <1>3, <2>0
      <4>. QED
        BY <4>1, LeavesUnderRoot
    <3>. QED
      BY <3>1, <3>2
  <2>2. /\ Sorted(g) = [i \in 1 .. Size(h) |-> Sorted(g)[i]]
        /\ Sorted(h) = [i \in 1 .. Size(h) |-> Sorted(h)[i]]
    BY DEF Sorted, Size
  <2>3. Sorted(g) = Sorted(h)
    BY <2>1, <2>2
  <2>. QED
    BY <2>3, SortedTellsBelow
<1>. QED
  BY <1>2, <1>3

\* The root depends on nothing else: the order in which the rows were read
\* does not matter.
THEOREM SameHashesSameRoot ==
  ASSUME NEW g, NEW h, Family(g), Family(h), Size(g) = Size(h),
         \A v \in Nat : Below(g, v) = Below(h, v)
  PROVE  MerkleRoot(g) = MerkleRoot(h)
<1>1. Size(g) \in Nat /\ Size(h) \in Nat
  BY BelowGrows
<1>2. Leaves(g) = Leaves(h)
  BY SortedTellsBelow DEF Leaves
<1>3. Layers(g) = Layers(h)
  BY <1>2 DEF Layers, Size
<1>. QED
  BY <1>3 DEF MerkleRoot, Size
=============================================================================
