\* A source, its undo and a step after them: the undo has run before the
\* compensation is asked for.
CONSTANTS
    Step = {1, 2, 3}
    NoStep = NoStep
    Deps <- MCDeps
    Compensation <- MCCompensation
    StepMax <- MCStepMax
    Conditional = {}
    Resolution = {r1}
SPECIFICATION Spec
INVARIANT CompensationCanRun
CHECK_DEADLOCK FALSE
