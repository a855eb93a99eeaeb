\* One worker, one task: the probe finds nothing to claim.
CONSTANTS
    Task = {t1}
    Worker = {w1}
    None = None
    MaxAttempts = 2
    MaxRestarts = 0
    Threshold = 1
SPECIFICATION FairSpec
PROPERTY QueuedIsServed
CHECK_DEADLOCK FALSE
