-------------------------- MODULE MerkleLoopProofs --------------------------
(***************************************************************************)
(* The loop of compute_merkle_root returns MerkleRoot, and with it what    *)
(* the root is for, for lists of any hashes and any length.                *)
(***************************************************************************)
EXTENDS MerkleLoop, MerkleProofs

\* The loop has computed one of the layers, and has returned the root if
\* anything.
LoopInv ==
    /\ hashes \in Lists
    /\ layer # <<>> => /\ hashes # <<>>
                       /\ \E k \in 0 .. Len(hashes) : layer = Layers(hashes)[k]
    /\ Returned => result = <<MerkleRoot(hashes)>>

LEMMA ListIsFamily ==
  ASSUME NEW list \in Lists
  PROVE  /\ Family(list) /\ Size(list) = Len(list) /\ Len(list) \in 0 .. MaxLeaves
         /\ DOMAIN list = 1 .. Len(list)
         /\ list = <<>> <=> Size(list) = 0
         /\ \A i \in DOMAIN list : list[i] \in Hash
<1>1. PICK n \in 0 .. MaxLeaves : list \in [1 .. n -> Hash]
  BY DEF Lists
<1>2. Len(list) = n /\ DOMAIN list = 1 .. n
  BY <1>1, MaxLeavesIsNatural
<1>3. IsFiniteSet(1 .. n) /\ Cardinality(1 .. n) = n
  BY <1>1, MaxLeavesIsNatural, FS_Interval
<1>4. \A i \in 1 .. n : list[i] \in Hash /\ list[i] \in Nat
  BY <1>1, HashesAreNumbers
<1>5. list = <<>> <=> n = 0
  BY <1>1, <1>2, MaxLeavesIsNatural
<1>. QED
  BY <1>2, <1>3, <1>4, <1>5 DEF Family, Size

\* A layer of one node is the last.
LEMMA OneNodeIsRoot ==
  ASSUME NEW h, Size(h) \in Nat \ {0}, NEW k \in 0 .. Size(h), Len(Layers(h)[k]) = 1
  PROVE  Layers(h)[k][1] = MerkleRoot(h)
<1>1. PICK n : n = Size(h)
  OBVIOUS
<1>2. PICK f : f = Layers(h)
  OBVIOUS
<1>3. n \in Nat /\ k \in 0 .. n /\ \A j \in 1 .. n : f[j] = Round(f[j - 1])
  BY <1>1, <1>2, LayersSteps
<1>4. Round(f[k]) = f[k]
  <2>1. Len(f[k]) = 1 /\ ~(1 > 1)
    BY <1>2
  <2>. QED
    BY <2>1 DEF Round
<1>. DEFINE T == {d \in Nat : k + d <= n => f[k + d] = f[k]}
<1>5. 0 \in T
  BY <1>3
<1>6. ASSUME NEW d \in Nat, d \in T PROVE d + 1 \in T
  <2>. SUFFICES ASSUME k + (d + 1) <= n PROVE f[k + (d + 1)] = f[k]
    OBVIOUS
  <2>1. k + (d + 1) \in 1 .. n /\ (k + (d + 1)) - 1 = k + d /\ k + d <= n
    BY <1>3
  <2>. QED
    BY <1>3, <1>4, <1>6, <2>1
<1>. HIDE DEF T
<1>7. n - k \in T
  BY <1>3, <1>5, <1>6, Induction
<1>8. f[n] = f[k]
  BY <1>3, <1>7 DEF T
<1>. QED
  BY <1>1, <1>2, <1>8, LastLayer

LEMMA LoopInvInit == Init => LoopInv
BY DEF Init, LoopInv, Returned

LEMMA LoopInvStep == LoopInv /\ [Next]_vars => LoopInv'
<1>. SUFFICES ASSUME LoopInv, [Next]_vars PROVE LoopInv'
  OBVIOUS
<1>. USE DEF LoopInv, Returned
<1>0. /\ Size(hashes) = Len(hashes) /\ Len(hashes) \in Nat
      /\ hashes = <<>> <=> Size(hashes) = 0
  BY ListIsFamily
<1>1. CASE ReturnEmpty
  <2>1. MerkleRoot(hashes) = NoRoot
    BY <1>0, <1>1 DEF ReturnEmpty, MerkleRoot, Size
  <2>. QED
    BY <1>1, <2>1 DEF ReturnEmpty
<1>2. CASE SortLeaves
  <2>1. Leaves(hashes) = Layers(hashes)[0] /\ 0 \in 0 .. Len(hashes)
    BY <1>0, LayersSteps
  <2>. QED
    BY <1>2, <2>1 DEF SortLeaves
<1>3. CASE HashPairs
  <2>1. layer # <<>>
    BY <1>3 DEF HashPairs
  <2>2. PICK k \in 0 .. Len(hashes) : layer = Layers(hashes)[k]
    BY <2>1
  <2>3. Size(hashes) \in Nat \ {0}
    BY <1>0, <2>1
  <2>4. k # Len(hashes)
    <3>. SUFFICES ASSUME k = Len(hashes) PROVE FALSE
      OBVIOUS
    <3>1. layer = <<MerkleRoot(hashes)>>
      BY <1>0, <2>2, <2>3, LastLayer
    <3>. QED
      BY <1>3, <3>1 DEF HashPairs
  <2>5. k + 1 \in 1 .. Len(hashes) /\ k + 1 \in 0 .. Len(hashes) /\ (k + 1) - 1 = k
    BY <1>0, <2>4
  <2>6. layer' = Layers(hashes)[k + 1]
    BY <1>0, <1>3, <2>2, <2>5, LayersSteps DEF HashPairs, Round
  <2>. QED
    BY <1>3, <2>1, <2>5, <2>6 DEF HashPairs
<1>4. CASE ReturnRoot
  <2>1. layer # <<>>
    BY <1>4 DEF ReturnRoot
  <2>2. PICK k \in 0 .. Len(hashes) : layer = Layers(hashes)[k]
    BY <2>1
  <2>3. layer[1] = MerkleRoot(hashes)
    BY <1>0, <1>4, <2>1, <2>2, OneNodeIsRoot DEF ReturnRoot
  <2>. QED
    BY <1>4, <2>3 DEF ReturnRoot
<1>5. CASE UNCHANGED vars
  BY <1>5 DEF vars
<1>. QED
  BY <1>1, <1>2, <1>3, <1>4, <1>5 DEF Next

LEMMA LoopInvHolds == Spec => []LoopInv
BY LoopInvInit, LoopInvStep, PTL DEF Spec

-----------------------------------------------------------------------------
(* Counting each hash of a list is counting the hashes below each number. *)

LEMMA CountIsDifference ==
  ASSUME NEW list \in Lists, NEW v \in Nat
  PROVE  /\ Below(list, v) \in Nat /\ Count(list, v) \in Nat
         /\ Below(list, v + 1) = Below(list, v) + Count(list, v)
<1>. DEFINE S == {i \in DOMAIN list : list[i] < v}
            E == {i \in DOMAIN list : list[i] = v}
            W == {i \in DOMAIN list : list[i] < v + 1}
<1>1. W = S \cup E /\ S \cap E = {} /\ S \subseteq DOMAIN list /\ E \subseteq DOMAIN list
  BY ListIsFamily DEF Family
<1>2. IsFiniteSet(S) /\ IsFiniteSet(E)
  BY <1>1, ListIsFamily, FS_Subset DEF Family
<1>3. Cardinality(S) \in Nat /\ Cardinality(E) \in Nat /\ Cardinality(S \cap E) = 0
  BY <1>1, <1>2, FS_CardinalityType, FS_EmptySet
<1>4. Cardinality(W) = Cardinality(S) + Cardinality(E) - Cardinality(S \cap E)
  BY <1>1, <1>2, FS_Union
<1>5. /\ Below(list, v) = Cardinality(S) /\ Below(list, v + 1) = Cardinality(W)
      /\ Count(list, v) = Cardinality(E)
  BY DEF Below, Count
<1>. HIDE DEF S, E, W
<1>. QED
  BY <1>3, <1>4, <1>5

LEMMA SameBagSameBelow ==
  ASSUME NEW a \in Lists, NEW b \in Lists, SameBag(a, b)
  PROVE  Size(a) = Size(b) /\ \A v \in Nat : Below(a, v) = Below(b, v)
<1>1. \A v \in Nat : Count(a, v) = Count(b, v)
  <2>. SUFFICES ASSUME NEW v \in Nat PROVE Count(a, v) = Count(b, v)
    OBVIOUS
  <2>1. CASE v \in Hash
    BY <2>1 DEF SameBag
  <2>2. CASE v \notin Hash
    <3>1. /\ {i \in DOMAIN a : a[i] = v} = {}
          /\ {i \in DOMAIN b : b[i] = v} = {}
      BY <2>2, ListIsFamily
    <3>. QED
      BY <3>1 DEF Count
  <2>. QED
    BY <2>1, <2>2
<1>2. Family(a) /\ Family(b)
  BY ListIsFamily
<1>. DEFINE T == {v \in Nat : Below(a, v) = Below(b, v)}
<1>3. 0 \in T
  BY <1>2, 0 <= 0, BelowGrows
<1>4. ASSUME NEW v \in Nat, v \in T PROVE v + 1 \in T
  BY <1>1, <1>4, CountIsDifference
<1>. HIDE DEF T
<1>5. \A v \in Nat : Below(a, v) = Below(b, v)
  BY <1>3, <1>4, Induction DEF T
<1>6. PICK u \in Nat : Below(a, u) = Size(a)
  BY <1>2, AllBelow
<1>7. PICK w \in Nat : Below(b, w) = Size(b)
  BY <1>2, AllBelow
<1>8. PICK x \in Nat : u <= x /\ w <= x
  OBVIOUS
<1>9. /\ Size(a) \in Nat /\ Below(a, x) \in 0 .. Size(a) /\ Size(a) <= Below(a, x)
  BY <1>2, <1>6, <1>8, BelowGrows
<1>10. /\ Size(b) \in Nat /\ Below(b, x) \in 0 .. Size(b) /\ Size(b) <= Below(b, x)
  BY <1>2, <1>7, <1>8, BelowGrows
<1>. QED
  BY <1>5, <1>9, <1>10

\* The hashes collected in any order give the same root, the one the operator
\* MerkleRoot defines, which the models of ingest and of the check use
\* (audit.py:88-105).
THEOREM RootIsDeterministic == Spec => []RootIgnoresOrder
<1>1. LoopInv => RootIgnoresOrder
  <2>. SUFFICES ASSUME LoopInv, Returned, NEW other \in Lists, SameBag(hashes, other)
                PROVE  result[1] = MerkleRoot(other)
    BY DEF RootIgnoresOrder
  <2>1. hashes \in Lists /\ result[1] = MerkleRoot(hashes)
    BY DEF LoopInv
  <2>. QED
    BY <2>1, SameBagSameBelow, SameHashesSameRoot, ListIsFamily
<1>. QED
  BY <1>1, LoopInvHolds, PTL

\* The row count and the root of a manifest tell the hashes of the batch, each
\* as often as it occurs (audit.py:88-105, ingest.py:135-170).
THEOREM ManifestPinsBatch == Spec => []RootAndCountPinBatch
<1>1. LoopInv => RootAndCountPinBatch
  <2>. SUFFICES ASSUME LoopInv, Returned, NEW other \in Lists,
                       Len(other) = Len(hashes), MerkleRoot(other) = result[1],
                       NEW v \in Hash
                PROVE  Count(hashes, v) = Count(other, v)
    BY DEF RootAndCountPinBatch, SameBag
  <2>1. hashes \in Lists /\ result[1] = MerkleRoot(hashes)
    BY DEF LoopInv
  <2>2. v \in Nat /\ v + 1 \in Nat
    BY HashesAreNumbers
  <2>3. \A u \in Nat : Below(hashes, u) = Below(other, u)
    BY <2>1, RootAndCountTellHashes, ListIsFamily
  <2>4. /\ Below(hashes, v) = Below(other, v)
        /\ Below(hashes, v + 1) = Below(other, v + 1)
    BY <2>2, <2>3
  <2>5. /\ Below(hashes, v) \in Nat /\ Count(hashes, v) \in Nat
        /\ Below(hashes, v + 1) = Below(hashes, v) + Count(hashes, v)
    BY <2>1, <2>2, CountIsDifference
  <2>6. /\ Count(other, v) \in Nat
        /\ Below(other, v + 1) = Below(other, v) + Count(other, v)
    BY <2>2, CountIsDifference
  <2>. QED
    BY <2>4, <2>5, <2>6
<1>. QED
  BY <1>1, LoopInvHolds, PTL

\* Unfolding the returned root gives the sorted hashes back, and after them
\* only hashes of the list: padding an odd layer loses and invents nothing
\* (audit.py:97-104).
THEOREM RootLosesNothing == Spec => []RootCoversHashes
<1>1. LoopInv => RootCoversHashes
  <2>. SUFFICES ASSUME LoopInv, Returned, hashes # <<>>
                PROVE  LET leaves == LeafHashes(result[1], Len(hashes))
                       IN  /\ {leaves[i] : i \in DOMAIN leaves}
                                = {hashes[i] : i \in DOMAIN hashes}
                           /\ SubSeq(leaves, 1, Len(hashes)) = Sorted(hashes)
    BY DEF RootCoversHashes
  <2>1. hashes \in Lists /\ result[1] = MerkleRoot(hashes)
    BY DEF LoopInv
  <2>2. PICK n \in Nat : n = Len(hashes) /\ n = Size(hashes) /\ Size(hashes) <= n
                         /\ Size(hashes) # 0
    BY <2>1, ListIsFamily
  <2>3. PICK leaves : leaves = LeafHashes(MerkleRoot(hashes), n)
    OBVIOUS
  <2>4. /\ Len(leaves) \in Nat /\ n <= Len(leaves)
        /\ \A i \in 1 .. n : leaves[i] = Sorted(hashes)[i]
        /\ {leaves[i] : i \in DOMAIN leaves} = Values(hashes)
    <3>1. Family(hashes)
      BY <2>1, ListIsFamily
    <3>2. LET bottom == LeafHashes(MerkleRoot(hashes), n)
          IN  /\ Len(bottom) \in Nat /\ Size(hashes) <= Len(bottom)
              /\ \A i \in 1 .. Size(hashes) : bottom[i] = Sorted(hashes)[i]
              /\ {bottom[i] : i \in DOMAIN bottom} = Values(hashes)
      BY <2>2, <3>1, LeavesUnderRoot
    <3>. QED
      BY <2>2, <2>3, <3>2
  <2>5. SubSeq(leaves, 1, n) = [i \in 1 .. n |-> leaves[i]]
    BY <2>4
  <2>6. Sorted(hashes) = [i \in 1 .. n |-> Sorted(hashes)[i]]
    BY <2>2 DEF Sorted, Size
  <2>. QED
    BY <2>1, <2>2, <2>3, <2>4, <2>5, <2>6 DEF Values
<1>. QED
  BY <1>1, LoopInvHolds, PTL
=============================================================================
