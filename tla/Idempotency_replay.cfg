SPECIFICATION FairSpec
CONSTANTS
    Requests = {r1, r2, r3}
    Keys = {k1}
    Bodies = {b1, b2}
    Targets = {t1}
    NoRequest = none
    Retention = 2
    ClaimUntil = 2
    MaxTime = 5
INVARIANTS
    ExclusiveExecution
    OneAnswerPerKey
PROPERTIES
    MutationNotDuplicated
    ClaimedKeyIsFreed
CHECK_DEADLOCK FALSE
