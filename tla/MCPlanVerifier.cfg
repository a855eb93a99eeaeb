\* One call on each input.
CONSTANTS
    Inputs <- MCInputs
    None = None
SPECIFICATION Spec
INVARIANT VerdictSound
CHECK_DEADLOCK FALSE
