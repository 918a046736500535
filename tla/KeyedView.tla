------------------------------ MODULE KeyedView ------------------------------
(***************************************************************************)
(* What write_silver (src/transformations/silver.py) promises: one row per *)
(* key, taken from what is stored for the key, and once a key has a row it *)
(* always has one.  The store is the keyed store of KeyedStore; the view   *)
(* may change its mind about which of the stored items it shows.           *)
(***************************************************************************)
CONSTANTS
    Key,
    Item,
    ItemKey     \* [Item -> Key]

VARIABLES
    store,      \* [Key -> SUBSET Item]
    view        \* a function from some of the keys to their items

Store == INSTANCE KeyedStore

Init ==
    /\ Store!Init
    /\ view = <<>>

Load ==
    /\ Store!Next
    /\ UNCHANGED view

Refresh ==
    /\ DOMAIN view \subseteq DOMAIN view'
    /\ DOMAIN view' \subseteq Key
    /\ \A k \in DOMAIN view' : view'[k] \in store[k]
    /\ UNCHANGED store

Next == Load \/ Refresh

Spec == Init /\ [][Next]_<<store, view>>
=============================================================================
