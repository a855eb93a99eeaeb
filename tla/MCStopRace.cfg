\* A claim between the check of the shutdown flag and cancel_all_running.
CONSTANTS
    Task = {t1}
    Worker = {w1}
    None = None
    MaxAttempts = 1
    MaxRestarts = 0
    Threshold = 1
SPECIFICATION Spec
INVARIANT StopReachesEveryRun
CHECK_DEADLOCK FALSE
