CONSTANTS
    j1 = j1
    Job <- OneJob
    EffectKey <- Candidates
    Budgets = {2}
    LeaseTerms = {1}
    Delays = {0}
    LockWait = 1
    HeartbeatTerm = 1
    RetryDelay = 0
SPECIFICATION WorkerFair
INVARIANTS
    OneExecutor
    LedgerLeads
    EndingsMatch
PROPERTIES
    ImplementsLedger
    WorkerJobsRest
CHECK_DEADLOCK FALSE
