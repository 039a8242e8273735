SPECIFICATION FairSpec
CONSTANTS
    Workers = {w1, w2}
    NoWorker = NoWorker
    MaxClarificationRounds = 2
    maxRunAttempts = 2
    MaxClaims = 3
    MaxTasks = 2
INVARIANTS
    TypeOK
    OneOutcomeIsReported
    WaitingRunCanBeAnswered
    ReceiptNamesTheTask
PROPERTY
    RunIsNotRewritten
    EveryRunIsReported
CHECK_DEADLOCK FALSE
