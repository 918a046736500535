----------------------------- MODULE KeyedStore -----------------------------
(***************************************************************************)
(* What write_bronze (src/transformations/bronze.py) promises: a store in  *)
(* which a key, once loaded, keeps its items for ever.  A batch is loaded  *)
(* in one step; all items of a key that is not in the store yet are added, *)
(* items of a key that is there are dropped.                               *)
(***************************************************************************)
CONSTANTS
    Key,
    Item,
    ItemKey     \* [Item -> Key]

VARIABLE store  \* [Key -> SUBSET Item]

Init == store = [k \in Key |-> {}]

LoadBatch(batch) ==
    store' = [k \in Key |-> IF store[k] = {}
                            THEN {x \in batch : ItemKey[x] = k}
                            ELSE store[k]]

Next == \E batch \in SUBSET Item : LoadBatch(batch)

Spec == Init /\ [][Next]_store

-----------------------------------------------------------------------------
\* A loaded key never changes again: no update, no second copy, no removal.
KeysFrozen == [][\A k \in Key : store[k] # {} => store'[k] = store[k]]_store
=============================================================================
