SPECIFICATION Spec
CONSTANTS
    p1 = p1  p2 = p2
    s1 = s1  s2 = s2  s3 = s3
    u1 = u1  u2 = u2
    Pubkeys = {p1, p2}
    Sockets = {s1, s2}
    Owner <- MCOwnerTwo
    ProviderType <- MCProviderType
    Capabilities <- MCCapabilities
    Jobs = {j1}
    DemoJobs = {d1}
    Users = {u1, u2}
    Requests <- MCPrivate
    Codes = {c1}
    Scores = {}
    Tiers = {}
    Outputs = {"output"}
    SentReceipts <- MCReceipts
    MaxRegistrations = 2
    MaxCrashes = 1
    HeartbeatTimeout = 0
    MaxAttempts = 1
    None = None
INVARIANTS
    PrivateOnlyTrusted
    ReceiptsMatchJobs
    IndInv
    AnswerFreesItsSender
