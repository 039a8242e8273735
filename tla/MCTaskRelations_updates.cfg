\* The bound on changes ends every behaviour.
CHECK_DEADLOCK FALSE
SPECIFICATION Spec
CONSTANTS
    Tasks = {t1, t2, t3}
    Milestones = {m1}
    NoMilestone = none
    NoTask = nobody
    Requests = {r1, r2}
    MaxChanges = 2
INVARIANTS
    HierarchyIsSound
    NoShortDependencyCycle
    AcceptanceStands
SYMMETRY Symmetry
