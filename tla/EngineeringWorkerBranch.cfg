CONSTANTS
    j1 = j1
    Job <- OneJob
    EffectKey <- Candidates
    Budgets = {2}
    LeaseTerms = {1}
    Delays = {0}
    LockWait = 0
    HeartbeatTerm = 1
    RetryDelay = 0
SPECIFICATION WorkerSpec
INVARIANT
    SucceededKeepsBranch
CHECK_DEADLOCK FALSE
