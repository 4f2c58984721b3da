SPECIFICATION MCSpec
CONSTANTS
    Pubkeys = {p1}
    Jobs = {j1, j2}
    JOBS_THRESHOLD = 2
    MaxRetries = 2
    MaxCrashes = 1
    FeedbackAttempts = 2
    None = None
    SolanaPubkeys = {p1, p2}
    SolanaThreshold = 1
    SolanaRetries = 3
    SolanaCrashes = 2
    MaxBolt = 200
    MaxCalls = 2
INVARIANTS
    Accounted
    PayoutsKept
    SerialWrites
    CreditedOnce
    Solvent
    FeedbackCopies
    BoltSplitExact
    
PROPERTIES
    AllPayoutsDecided
    FeedbackDecided
CHECK_DEADLOCK FALSE
