CONSTANTS
    Tenant = {"t1", "t2"}
    Run = {r1}
    None = None
    Name = {"read", "write", "unknown"}
    Registered = {"read", "write"}
    ReadOnly = {"read"}
    Needs <- MCNeeds
    Envelopes <- MCEnvelopes
    MaxBudgetSteps = 2
    MaxBudgetCalls = 2
    MaxProposed = 2
    MaxFaults = 1
    MaxAdmin = 2
SPECIFICATION FairSpec
INVARIANT TypeOK
INVARIANT ChainValid
INVARIANT RunsAccounted
INVARIANT ToolsAudited
INVARIANT BudgetHolds
INVARIANT StopsPromptly
CHECK_DEADLOCK FALSE
PROPERTY RunEnds
