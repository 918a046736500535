SPECIFICATION Spec
CONSTANTS
    Hash <- MCHash
    MaxLeaves = 5
INVARIANTS
    RootIgnoresOrder
    RootAndCountPinBatch
    RootCoversHashes
PROPERTY
    Terminates
\* A call ends when it has returned.
CHECK_DEADLOCK FALSE
