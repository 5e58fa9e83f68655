SPECIFICATION Spec
CONSTANTS
    c1 = c1
    c2 = c2
    Operators = {o1, o2}
    Invitees = {i1, i2}
    Companies = {c1, c2}
    Others <- MCOthers
    Rows <- MCRows
    MaxHash = 3
    MaxLicences = 2
SYMMETRY Symmetry
CHECK_DEADLOCK FALSE
INVARIANTS
    LinkWorksOnce
    InviteeIsNotShutOut
    DecidedOnce
    TenantSeesItsOwn
