SPECIFICATION RepSpec
CONSTANTS
    p1 = p1  p2 = p2
    s1 = s1  s2 = s2  s3 = s3
    u1 = u1  u2 = u2
    Pubkeys = {p1, p2}
    Sockets = {s1, s2}
    Owner <- MCOwnerTwo
    ProviderType <- MCProviderType
    Capabilities <- MCCapabilities
    Jobs = {j1}
    DemoJobs = {}
    Users = {u1}
    Requests <- MCPublic
    Codes = {}
    Scores <- MCScores
    Tiers = {"OPEN", "VERIFIED", "SENTINEL"}
    Outputs = {"output"}
    SentReceipts = {None}
    MaxRegistrations = 2
    MaxCrashes = 1
    HeartbeatTimeout = 1
    MaxAttempts = 2
    None = None
    Self = Self
    Others = {other}
    Base58Keys = {p1}
    Balances = {1000}
    OtherValues = {3000, 12000}
    InitialOwners <- MCInitialOwners
    MaxOthers = 1
    MaxAgents = 2
    MaxScan = 1
CONSTRAINT Scenario
INVARIANTS
    RankRespected
    ReputationIsOwn
    NeverRatesItself
    ScoreRoundTrip
