\* Cancelled while running, found unknown, resumed, cancelled again.
CONSTANTS
    Step = {1, 2}
    NoStep = NoStep
    Deps <- MCDeps
    Compensation <- MCCompensation
    StepMax <- MCStepMax
    Conditional = {}
    Resolution = {r1}
SPECIFICATION Spec
INVARIANT CancelPossible
CHECK_DEADLOCK FALSE
