\* Three operators of two tenants against tight limits, while both tenants'
\* tasks are claimed, retried, cancelled, lost and recovered and every lease
\* ever given may report late or twice.
CONSTANTS
    o1 = o1
    o2 = o2
    o3 = o3
    tA = tA
    tB = tB
    Task = {t1, t2}
    Tenant = {tA, tB}
    Operator = {o1, o2, o3}
    Key = {k1, k2}
    Fingerprint = {f1, f2}
    Cost = {2}
    Priority = {0}
    MaxAttempts = {2}
    LeaseFor = 1
    BaseDelay = 1
    MaxDelay = 1
    MaxActive = 1
    MaxDaily = 2
    MaxDailyCost = 3
    RequestsPerWindow = 1
    WindowLen = 1
    DayLen = 2
    MaxClock = 2
    MaxLag = 1
    MaxTokens = 3
    TenantOf <- MCTenantOf
SYMMETRY Symmetry
SPECIFICATION Spec
INVARIANTS TypeOK Fencing CancelSticks AttemptsBounded OneTaskPerKey RateIsAdmissions WithinQuotas
PROPERTIES TerminalIsFinal ImplementsLifecycle
