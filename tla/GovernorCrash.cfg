CONSTANTS
    Wrapper = {w1, w2, w3}
    Slots = 2
SPECIFICATION GovernorSpec
INVARIANT
    HeavyLimit
CHECK_DEADLOCK FALSE
