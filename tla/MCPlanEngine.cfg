\* Four steps: 3 needs 1, 2 undoes 1, 4 undoes 3; with and without a human
\* approval that may expire; three resolutions.
CONSTANTS
    Step = {1, 2, 3, 4}
    NoStep = NoStep
    Deps <- MCDeps
    Compensation <- MCCompensation
    StepMax <- MCStepMax
    Conditional = {1, 2}
    Resolution = {r1, r2, r3}
SYMMETRY Symmetry
SPECIFICATION Spec
INVARIANTS TypeOK OneBoundary TaskAgrees DependenciesFirst StepAttemptsBounded WorkerKeysFresh QueuedCanRun
PROPERTIES UnknownWaits FollowsTables
CHECK_DEADLOCK FALSE
