----------------------------- MODULE MerkleLoop -----------------------------
(***************************************************************************)
(* compute_merkle_root as the loop the code runs: sort, then replace the   *)
(* layer by the layer above it until one node is left.  Checked against    *)
(* the operator MerkleRoot, which the other modules use, and against what  *)
(* the tree is for: equal roots mean equal hashes.                         *)
(***************************************************************************)
EXTENDS Merkle

CONSTANTS
    Hash,       \* the row hashes that occur
    MaxLeaves   \* bound: the longest list of hashes given to the loop

ASSUME HashesAreNumbers == Hash \subseteq Nat
ASSUME MaxLeavesIsNatural == MaxLeaves \in Nat

VARIABLES
    hashes,     \* the argument, in the order Spark collected it
    layer,      \* the local variable of the loop
    result      \* what was returned: a sequence, empty until then

vars == <<hashes, layer, result>>

Lists == UNION {[1 .. n -> Hash] : n \in 0 .. MaxLeaves}

Init ==
    /\ hashes \in Lists
    /\ layer = <<>>
    /\ result = <<>>

\* if not hashes: return ""
ReturnEmpty ==
    /\ result = <<>>
    /\ hashes = <<>>
    /\ result' = <<NoRoot>>
    /\ UNCHANGED <<hashes, layer>>

\* layer = sorted(hashes)
SortLeaves ==
    /\ result = <<>>
    /\ hashes # <<>>
    /\ layer = <<>>
    /\ layer' = Leaves(hashes)
    /\ UNCHANGED <<hashes, result>>

\* Mutant of HashPairs: the loop stops at two nodes.
HashPairsAboveTwo ==
    /\ result = <<>>
    /\ Len(layer) > 2
    /\ layer' = PairUp(layer)
    /\ UNCHANGED <<hashes, result>>

\* the body of the while loop
HashPairs ==
    /\ result = <<>>
    /\ Len(layer) > 1
    /\ layer' = PairUp(layer)
    /\ UNCHANGED <<hashes, result>>

\* return layer[0]
ReturnRoot ==
    /\ result = <<>>
    /\ Len(layer) = 1
    /\ result' = <<layer[1]>>
    /\ UNCHANGED <<hashes, layer>>

Next == ReturnEmpty \/ SortLeaves \/ HashPairs \/ ReturnRoot

Spec == Init /\ [][Next]_vars /\ WF_vars(Next)

-----------------------------------------------------------------------------
Returned == result # <<>>

Count(list, h) == Cardinality({i \in DOMAIN list : list[i] = h})

SameBag(a, b) == \A h \in Hash : Count(a, h) = Count(b, h)

\* The loop returns a root that does not depend on the order of the list it
\* was given, and the root MerkleRoot defines (audit.py:88-105: "the root is
\* deterministic regardless of Spark's partition order").
RootIgnoresOrder ==
    Returned =>
        \A other \in Lists :
            SameBag(hashes, other) => result[1] = MerkleRoot(other)

\* Two batches with the same number of rows and the same root have the same
\* row hashes, each as often: row_count and merkle_root of a manifest
\* together pin the batch down.
RootAndCountPinBatch ==
    Returned =>
        \A other \in Lists :
            /\ Len(other) = Len(hashes)
            /\ MerkleRoot(other) = result[1]
            => SameBag(hashes, other)

\* The root loses no hash and invents none, whatever padding the odd layers
\* needed: its leaves start with the sorted list and only repeat hashes of it.
RootCoversHashes ==
    Returned /\ hashes # <<>> =>
        LET leaves == LeafHashes(result[1], Len(hashes))
        IN  /\ {leaves[i] : i \in DOMAIN leaves} = {hashes[i] : i \in DOMAIN hashes}
            /\ SubSeq(leaves, 1, Len(hashes)) = Sorted(hashes)

\* The loop ends for every list.
Terminates == <>Returned
=============================================================================
