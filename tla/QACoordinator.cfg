CONSTANTS
    j1 = j1
    p1 = p1
    p2 = p2
    Job <- OneJob
    Profile <- TwoProfiles
    Baseline <- OneProfile
    EffectKey <- Runs
    Budgets = {2}
    LeaseTerms = {1}
    Delays = {0}
    LockWait = 0
    HeartbeatTerm = 1
    RetryDelay = 0
SPECIFICATION QAFair
INVARIANTS
    NoSilentReplay
    BundleMatchesLedger
    VerdictIsEarned
PROPERTY
    QAJobsRest
CHECK_DEADLOCK FALSE
