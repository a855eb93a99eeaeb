\* Two workers and one task that succeeds, fails, is retried, cancelled or
\* abandoned; a coordinated stop, a crash, two restarts with their recovery.
CONSTANTS
    Task = {t1}
    Worker = {w1, w2}
    None = None
    MaxAttempts = 2
    MaxRestarts = 2
    Threshold = 2
SPECIFICATION FairSpec
INVARIANTS TypeOK ExclusiveExecution SettledStop
PROPERTIES OpenIsProbed CancelSettles
CHECK_DEADLOCK FALSE
