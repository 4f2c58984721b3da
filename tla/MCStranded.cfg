SPECIFICATION FairSpec
CONSTANTS
    p1 = p1  p2 = p2
    s1 = s1  s2 = s2  s3 = s3
    u1 = u1  u2 = u2
    Pubkeys = {p1, p2}
    Sockets = {s1, s2}
    Owner <- MCOwnerTwo
    ProviderType <- MCProviderType
    Capabilities <- MCCapabilities
    Jobs = {j1}
    DemoJobs = {}
    Users = {u1}
    Requests <- MCPublic
    Codes = {}
    Scores = {}
    Tiers = {}
    Outputs = {"output"}
    SentReceipts = {None}
    MaxRegistrations = 2
    MaxCrashes = 0
    HeartbeatTimeout = 1
    MaxAttempts = 2
    None = None
PROPERTIES
    JobsAlwaysEnd
