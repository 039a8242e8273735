SPECIFICATION Spec
CONSTANTS
    Workers = {w1}
    NoWorker = NoWorker
    MaxClarificationRounds = 1
    maxRunAttempts = 2
    MaxClaims = 4
    MaxTasks = 1
INVARIANT
    ResumedRunSurvivesRestart
CHECK_DEADLOCK FALSE
