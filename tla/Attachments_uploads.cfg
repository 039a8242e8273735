CONSTANTS
    s1 = s1
    s2 = s2
    q1 = q1
    q2 = q2
    NoSession = NoSession
    Sessions = {s1, s2}
    Completions = {q1, q2}
    MaxActiveTaskAttachments = 1
SPECIFICATION Spec
INVARIANTS
    ContentFollowsRow
    AttachmentLimit
PROPERTIES
    DeletedIsCleaned
