SPECIFICATION FairSpec
CONSTANTS
    w1 = w1
    w2 = w2
    Workers = {w1, w2}
    Runs = {r1}
    MaxKeys = 2
    Keys = {"anthropic"}
    Preferred = "openai"
    None = None
    Fleets <- MCFleets
    Options <- MCOptions
    Configs <- MCConfigs
CONSTRAINT Scenario
INVARIANTS
    ChargedAsQuoted
    ReceiptsVerify
    AnswerIsTheJobs
    ExecutorsAgree
PROPERTIES
    RunEnds
    JobsSettle
CHECK_DEADLOCK FALSE
