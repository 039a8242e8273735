CONSTANTS
    u1 = u1
    u2 = u2
    m1 = m1
    k1 = k1
    t1 = t1
    r1 = r1
    r2 = r2
    c1 = c1
    x1 = x1
    x2 = x2
    q1 = q1
    None = None
    Closed = Closed
    Users = {u1, u2}
    Administrators = {}
    Milestones = {m1}
    Criteria = {k1}
    Tasks = {t1}
    Requests = {r1, r2}
    MaxVersion = 3
    Connections = {c1}
    Credentials = {x1, x2}
    Checks = {q1}
    MaxConnectionVersion = 2
SPECIFICATION Spec
SYMMETRY Symmetry
CHECK_DEADLOCK FALSE
INVARIANTS
    ProjectHasAdmin
    BoundConnectionIsActive
    ValidationIsOfStoredCredential
PROPERTIES
    ArchivedIsSettled
    CommitMatchesAdmission
