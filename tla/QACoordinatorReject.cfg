CONSTANTS
    j1 = j1
    p1 = p1
    p2 = p2
    Job <- OneJob
    Profile <- OneProfile
    Baseline <- OneProfile
    EffectKey <- RunsOne
    Budgets = {2}
    LeaseTerms = {1}
    Delays = {0}
    LockWait = 0
    HeartbeatTerm = 1
    RetryDelay = 0
SPECIFICATION QASpec
INVARIANT
    RejectCompletes
CHECK_DEADLOCK FALSE
