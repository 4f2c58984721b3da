SPECIFICATION HSpec
CONSTANTS
    p1 = p1  s1 = s1  s3 = s3  u1 = u1
    Pubkeys = {p1}
    Sockets = {s1, s3}
    Owner <- MCOwner
    ProviderType <- MCProviderType
    Capabilities <- MCCapabilities
    Jobs = {j1}
    DemoJobs = {}
    Users = {u1}
    Requests <- MCRequests
    Codes = {}
    Scores = {}
    Tiers = {}
    Outputs = {"output"}
    SentReceipts = {None}
    MaxRegistrations = 2
    MaxCrashes = 1
    HeartbeatTimeout = 3
    MaxAttempts = 2
    None = None
PROPERTY
    PrunedOnlyIfSilent
