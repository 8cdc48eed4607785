CONSTANTS
    j1 = j1
    j2 = j2
    k1 = k1
    k2 = k2
    Job <- OneJob
    EffectKey <- TwoKeys
    Budgets = {1, 2, 3}
    LeaseTerms = {1, 2}
    Delays = {0, 2}
    LockWait = 1
SPECIFICATION FairSpec
PROPERTIES
    ImplementsContract
    JobsComeToRest
CHECK_DEADLOCK FALSE
