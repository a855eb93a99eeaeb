\* API_CONTRACTS.md:174 against the cancellation branch around a tool.
CONSTANTS
    Tenant = {"t1", "t2"}
    Run = {r1}
    None = None
    Name = {"read", "write", "unknown"}
    Registered = {"read", "write"}
    ReadOnly = {"read"}
    Needs <- MCNeeds
    Envelopes <- MCEnvelopes
    MaxBudgetSteps = 2
    MaxBudgetCalls = 2
    MaxProposed = 2
    MaxFaults = 0
    MaxAdmin = 0
SPECIFICATION Spec
INVARIANT EveryToolAudited
CHECK_DEADLOCK FALSE
