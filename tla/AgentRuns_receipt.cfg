SPECIFICATION FairSpec
CONSTANTS
    Workers = {w1}
    NoWorker = NoWorker
    MaxClarificationRounds = 1
    maxRunAttempts = 2
    MaxClaims = 3
    MaxTasks = 1
PROPERTY
    VerifiedReceiptIsEmitted
CHECK_DEADLOCK FALSE
