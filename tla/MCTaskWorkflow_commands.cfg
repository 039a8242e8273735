SPECIFICATION Spec
CONSTANTS
    r1 = r1
    r2 = r2
    a1 = a1
    a2 = a2
    k1 = k1
    x1 = x1
    Clients = {r1, r2}
    Actors = {a1, a2}
    Criteria = {k1}
    Outcomes = {"passed"}
    CodeChanges = {x1}
    ClaimLifetime = 1
    MaxVersion = 6
    MaxItems = 0
    MaxTime = 1
SYMMETRY ClientSymmetry
INVARIANTS
    IfMatchMeansUnchanged
    ReviewedCodeIsDelivered
    WorkingIffOneActiveClaim
    BlockedByOneOpenIssue
    ArchivedIsIdle
PROPERTIES
    ImplementsStageOwnership
CHECK_DEADLOCK FALSE
