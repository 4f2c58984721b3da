SPECIFICATION FairSpec
CONSTANTS
    p1 = p1  p2 = p2
    s1 = s1  s2 = s2  s3 = s3
    u1 = u1  u2 = u2
    Pubkeys = {p1}
    Sockets = {s1, s3}
    Owner <- MCOwnerReconnect
    ProviderType <- MCProviderTypeOne
    Capabilities <- MCCapabilitiesOne
    Jobs = {j1, j2}
    DemoJobs = {}
    Users = {u1}
    Requests <- MCPublic
    Codes = {}
    Scores = {}
    Tiers = {}
    Outputs = {"output"}
    SentReceipts = {None}
    MaxRegistrations = 2
    MaxCrashes = 1
    HeartbeatTimeout = 1
    MaxAttempts = 2
    None = None
INVARIANTS
    NoDoubleBooking
    OpenJobsAttended
    PaidOncePerCompletion
PROPERTIES
    LifecycleSpec
    JobsEnd
    TerminalIsFinal
    RemovedFreesJob
