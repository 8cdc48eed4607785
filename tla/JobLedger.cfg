CONSTANTS
    j1 = j1
    j2 = j2
    k1 = k1
    k2 = k2
    Job <- TwoJobs
    EffectKey <- TwoKeys
    Budgets = {1, 2}
    LeaseTerms = {1}
    Delays = {0}
    LockWait = 1
SPECIFICATION Spec
SYMMETRY Symmetry
INVARIANTS
    LeaseConsistent
    BudgetAccounting
    NeverReplayed
    GateEvidence
    SucceededIsCommitted
    TrailMatches
PROPERTY
    NoHandover
CHECK_DEADLOCK FALSE
