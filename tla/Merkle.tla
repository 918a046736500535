------------------------------- MODULE Merkle -------------------------------
(***************************************************************************)
(* The Merkle root of src/security/audit.py, compute_merkle_root.          *)
(*                                                                         *)
(* The list of hex digests is sorted before the tree is built, so only the *)
(* family of digests matters, not the order in which Spark returns them.   *)
(* A list of hashes is therefore any function from a finite set to Nat: a  *)
(* sequence, or the row hashes of a table indexed by its rows.             *)
(*                                                                         *)
(* A digest is the term that was hashed: <<h>> for a leaf, <<l, r>> for    *)
(* sha256(l + r).  Two digests are equal only if the terms are, which is   *)
(* SHA-256 without collisions.                                             *)
(***************************************************************************)
EXTENDS Naturals, Sequences, FiniteSets

\* How many of the hashes are below v.
Below(hashes, v) == Cardinality({i \in DOMAIN hashes : hashes[i] < v})

\* Mutant of Sorted: the list is used as it comes.
Unsorted(hashes) == [i \in 1 .. Cardinality(DOMAIN hashes) |-> hashes[i]]

\* sorted(hashes): position i holds the value with fewer than i hashes below
\* it and at least i hashes at or below it.
Sorted(hashes) ==
    [i \in 1 .. Cardinality(DOMAIN hashes) |->
        CHOOSE v \in {hashes[j] : j \in DOMAIN hashes} :
            Below(hashes, v) < i /\ i <= Below(hashes, v + 1)]

Leaves(hashes) == LET s == Sorted(hashes) IN [i \in DOMAIN s |-> <<s[i]>>]

\* Mutant of Padded: the odd node is dropped.
OddNodeDropped(layer) ==
    IF Len(layer) % 2 = 1 THEN SubSeq(layer, 1, Len(layer) - 1) ELSE layer

\* An odd layer longer than one duplicates its last node.
Padded(layer) ==
    IF Len(layer) % 2 = 1 THEN Append(layer, layer[Len(layer)]) ELSE layer

\* Mutant of PairUp: the second node of a pair is hashed first.
PairUpSwapped(layer) ==
    LET full == Padded(layer)
    IN  [i \in 1 .. Len(full) \div 2 |-> <<full[2 * i], full[2 * i - 1]>>]

\* One round of pairwise hashing.
PairUp(layer) ==
    LET full == Padded(layer)
    IN  [i \in 1 .. Len(full) \div 2 |-> <<full[2 * i - 1], full[2 * i]>>]

\* The loop ends with one node.
Round(layer) == IF Len(layer) > 1 THEN PairUp(layer) ELSE layer

NoRoot == <<>>      \* the empty string: the root of no hashes at all

\* The tree, layer by layer: n leaves need at most n rounds.
Layers(hashes) ==
    LET layer[k \in 0 .. Cardinality(DOMAIN hashes)] ==
            IF k = 0 THEN Leaves(hashes) ELSE Round(layer[k - 1])
    IN  layer

MerkleRoot(hashes) ==
    LET n == Cardinality(DOMAIN hashes)
    IN  IF n = 0 THEN NoRoot ELSE Layers(hashes)[n][1]

-----------------------------------------------------------------------------
\* What can be read off a root: the nodes that a row of nodes was hashed from ...
Unfold(row) ==
    IF Len(row[1]) = 1 THEN row
    ELSE [i \in 1 .. 2 * Len(row) |->
             row[(i + 1) \div 2][IF i % 2 = 1 THEN 1 ELSE 2]]

\* ... and so on down to the leaves, which are at most n rows below.
Rows(root, n) ==
    LET row[k \in 0 .. n] == IF k = 0 THEN <<root>> ELSE Unfold(row[k - 1])
    IN  row

\* The hashes in the bottom row, the padding included.
LeafHashes(root, n) ==
    LET leaves == Rows(root, n)[n] IN [i \in DOMAIN leaves |-> leaves[i][1]]
=============================================================================
