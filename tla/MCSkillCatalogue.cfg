CONSTANTS
    Skill = {s1}
    KeyId = {k1}
    SigningKey = {p1}
    Bytes = {b1, b2}
    Permissions <- MCPermissions
    HostCapabilities <- MCHostCapabilities
    Cli = {c1, c2}
    None = None
    MaxChanges = 4
    MaxEdits = 1
SPECIFICATION Spec
SYMMETRY Symmetry
INVARIANT TypeOK
INVARIANT RevokedNeverRuns
INVARIANT RunsApproved
INVARIANT BytesApproved
INVARIANT AuditBacked
CHECK_DEADLOCK FALSE
