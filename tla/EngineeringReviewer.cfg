CONSTANTS
    j1 = j1
    Job <- OneJob
    EffectKey = {}
    Budgets = {2}
    LeaseTerms = {1}
    Delays = {0}
    LockWait = 0
    HeartbeatTerm = 1
    RetryDelay = 0
    MediumLimit = 1
    MaxMediums = 1
    c1 = c1
    c2 = c2
    r1 = r1
    r2 = r2
    q1 = q1
    Candidate <- TwoCandidates
    ReviewJob <- TwoReviews
    QAJob <- OneQAJob
    MaxChanges = 1
    MaxFaults = 2
SPECIFICATION MCSpec
INVARIANTS
    OnlyApprovedRuns
    RejectsHaveReasons
    ReviewMatchesLedger
    ApprovalIsEarned
PROPERTY
    ReviewsEnd
CHECK_DEADLOCK FALSE
