CONSTANTS
    Files = {f1}
    Workers = {w1}
SPECIFICATION StorageSpec
CHECK_DEADLOCK FALSE
INVARIANT StoredForGood
