SPECIFICATION Spec
CONSTANTS
    r1 = r1
    r2 = r2
    a1 = a1
    a2 = a2
    k1 = k1
    x1 = x1
    Clients = {r1}
    Actors = {a1}
    Criteria = {k1}
    Outcomes = {"passed"}
    CodeChanges = {}
    ClaimLifetime = 1
    MaxVersion = 11
    MaxItems = 2
    MaxTime = 0
INVARIANTS
    DeliveryIsComplete
    ClaimWorksOnOneCycle
PROPERTIES
    HistoryIsFinal
    AcceptedAfresh
CHECK_DEADLOCK FALSE
