CONSTANTS
    Wrapper = {w1, w2, w3}
    Slots = 2
    Runs = 4
    Adapters = 2
    Timeout = 1
    MaxOutput = 1
SPECIFICATION MCSpec
INVARIANTS
    GuardedLimit
    PassIsEarned
    OrphansAreAccounted
    AdapterIsBounded
PROPERTIES
    WrappersEnd
    SnapshotIsAtomic
    NeverOlder
    AllEnds
CHECK_DEADLOCK FALSE
