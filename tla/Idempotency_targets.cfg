SPECIFICATION Spec
CONSTANTS
    Requests = {r1, r2}
    Keys = {k1}
    Bodies = {b1}
    Targets = {t1, t2}
    NoRequest = none
    Retention = 2
    ClaimUntil = 2
    MaxTime = 5
INVARIANTS
    ReplayIsOfTheSameTarget
CHECK_DEADLOCK FALSE
