CONSTANTS
    Step = {1}
    None = None
    Writer = {w1, w2}
    Reader = {r1}
    MaxTransitions = 9
    MaxCheckpoints = 3
    MaxPrepared = 2
    MaxReads = 1
SPECIFICATION Spec
SYMMETRY Symmetry
INVARIANT TypeOK
INVARIANT SnapshotRebuilds
INVARIANT InspectionSound
PROPERTY EndedStays
CHECK_DEADLOCK FALSE
