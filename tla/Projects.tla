------------------------------ MODULE Projects ------------------------------
(***************************************************************************)
(* One Project: its members, its Milestones with their acceptance          *)
(* criteria, the Tasks that keep it from being archived, and its archive.  *)
(*                                                                         *)
(* Every command is admitted first (RequireProject of                      *)
(* internal/application/project_access.go reads the Project and the        *)
(* membership outside any transaction) and applied later by one            *)
(* transaction that locks the projects row and compares its version with   *)
(* If-Match.  The lock makes each of these transactions one step; what can *)
(* go stale is what the admission read.  If-Match is any number (etag.go)   *)
(* and only the transaction compares it.  One that has passed already can  *)
(* only be refused and is left out; one that is still to come is kept, and *)
(* the request remembers whether it sent the version it was admitted at.   *)
(* Which command a request carries matters to its transaction alone and is *)
(* chosen there.  The version of a Milestone changes only together with    *)
(* the Project's, which the same commands compare, so it is left out.      *)
(***************************************************************************)
EXTENDS Naturals, FiniteSets

CONSTANTS
    Users,
    Administrators,  \* users with the platform role Administrator
    Milestones,
    Criteria,
    Tasks,
    None,            \* no item; for a Task, the Backlog
    Closed,          \* a Task that is done, cancelled or not created yet
    Requests,        \* requests at work at a time
    MaxVersion       \* bound: Project version

ASSUME BoundAssumption == MaxVersion \in Nat

Roles == {"member", "admin"}
MilestoneStatus == {"absent", "planned", "active", "completed", "cancelled"}

VARIABLES
    project,    \* projects: version, archived_at
    role,       \* project_memberships: the role of each user, "none" without a row
    account,    \* users.active
    milestone,  \* milestones: status
    criterion,  \* acceptance_criteria: owner, version, whether the last check satisfies it
    task,       \* tasks: where an unfinished Task is, Closed for any other
    request     \* per request: user and permission it was admitted with, If-Match,
                \* whether that was the current version then, the item it is about

projectVars == <<project, role, account, milestone, criterion, task>>

NoRequest == [permission |-> "none", user |-> None, expected |-> 0, read |-> FALSE, item |-> None]

OpenMilestones == {m \in Milestones : milestone[m] \in {"planned", "active"}}
ActiveCriteria(m) == {k \in Criteria : criterion[k].milestone = m /\ criterion[k].state # "removed"}
Unsatisfied(m) == {k \in ActiveCriteria(m) : criterion[k].state # "satisfied"}
UnfinishedTasks == {t \in Tasks : task[t] # Closed}
UnfinishedIn(m) == {t \in Tasks : task[t] = m}

\* A Project with a past: its version is counted from here.  Whoever created it became
\* its administrator, and the commands below lead to every one of these states.
ProjectInit ==
    /\ project \in [version : {1}, archived : BOOLEAN]
    /\ role \in [Users -> Roles \cup {"none"}] /\ \E u \in Users : role[u] = "admin"
    /\ account = [u \in Users |-> TRUE]
    /\ milestone \in [Milestones -> MilestoneStatus]
    /\ project.archived => OpenMilestones = {}
    /\ criterion \in [Criteria -> {[milestone |-> None, version |-> 1, state |-> "absent"]} \cup
                          [milestone : {m \in Milestones : milestone[m] # "absent"}, version : {1},
                           state : {"satisfied"}]]
    /\ task = [t \in Tasks |-> Closed]
    /\ request = [r \in Requests |-> NoRequest]

------------------------------------------------------------------------------
(* Admission *)

\* An archived Project refuses the write permission and not the admin permission.
RequireProject(u, permission) ==
    /\ u \in Administrators \/ role[u] \in (IF permission = "admin" THEN {"admin"} ELSE Roles)
    /\ permission = "write" => ~project.archived

\* parseIfMatch takes any positive number: the current version or, as far as anything
\* can still commit at it, a later one.
parseIfMatch(version) == {version} \cup version..(MaxVersion - 1)

\* A command on the Project, a Milestone or a Task; ResolveTaskAssociation reads the
\* archive state once more before the transaction of a Task creation.
Admit(r, u, permission) ==
    /\ request[r] = NoRequest
    /\ account[u] /\ RequireProject(u, permission)
    /\ \E expected \in parseIfMatch(project.version) :
          request' = [request EXCEPT ![r] = [permission |-> permission, user |-> u, expected |-> expected,
                                             read |-> expected = project.version, item |-> None]]
    /\ UNCHANGED projectVars

\* A command on a criterion: If-Match is the version of the criterion alone.
AdmitCriterion(r, u, k) ==
    /\ request[r] = NoRequest
    /\ account[u] /\ RequireProject(u, "write")
    /\ criterion[k].state \notin {"absent", "removed"}
    /\ \E expected \in parseIfMatch(criterion[k].version) :
          request' = [request EXCEPT ![r] = [permission |-> "write", user |-> u, expected |-> expected,
                                             read |-> expected = criterion[k].version, item |-> k]]
    /\ UNCHANGED projectVars

\* Any transaction may be refused, rolled back or never begun.
Refuse(r) ==
    /\ request[r] # NoRequest
    /\ request' = [request EXCEPT ![r] = NoRequest]
    /\ UNCHANGED projectVars

------------------------------------------------------------------------------
(* Transactions *)

\* Mutant of LockVersion: If-Match is not compared under the lock.
LockOnly(r, permission) == request[r].permission = permission /\ request[r].item = None

\* The projects row FOR UPDATE, its version compared with If-Match.
LockVersion(r, permission) ==
    /\ request[r].permission = permission
    /\ request[r].item = None
    /\ request[r].expected = project.version

\* version = version + 1, with the commit.
Bump(r) ==
    /\ project.version < MaxVersion
    /\ project' = [version |-> project.version + 1, archived |-> project.archived]
    /\ request' = [request EXCEPT ![r] = NoRequest]

UpdateProject(r) ==
    /\ LockVersion(r, "admin")
    /\ Bump(r)
    /\ UNCHANGED <<role, account, milestone, criterion, task>>

\* Mutant of ArchiveReady: planned Milestones are not counted.
ArchiveNoneActive == UnfinishedTasks = {} /\ "active" \notin {milestone[m] : m \in Milestones}

\* projectArchiveReadiness
ArchiveReady == OpenMilestones = {} /\ UnfinishedTasks = {}

\* Archive checks the readiness, Restore nothing; either may repeat.
ApplyLifecycle(r, archive) ==
    /\ LockVersion(r, "admin")
    /\ archive => ArchiveReady
    /\ project.version < MaxVersion
    /\ project' = [version |-> project.version + 1, archived |-> archive]
    /\ request' = [request EXCEPT ![r] = NoRequest]
    /\ UNCHANGED <<role, account, milestone, criterion, task>>

\* Mutant of requireAnotherActiveProjectAdmin: the user themselves is counted.
AnyActiveProjectAdmin(u) == \E v \in Users : role[v] = "admin" /\ account[v]

\* The users rows are not locked: an account may be deactivated right after.
requireAnotherActiveProjectAdmin(u) == \E v \in Users \ {u} : role[v] = "admin" /\ account[v]

\* mutate: Add and ChangeRole take an active user; losing "admin" needs another one.
AddMember(r, u, to) ==
    /\ LockVersion(r, "admin")
    /\ account[u] /\ role[u] = "none"
    /\ role' = [role EXCEPT ![u] = to]
    /\ Bump(r)
    /\ UNCHANGED <<account, milestone, criterion, task>>

ChangeRole(r, u, to) ==
    /\ LockVersion(r, "admin")
    /\ account[u] /\ role[u] # "none"
    /\ role[u] = "admin" /\ to # "admin" => requireAnotherActiveProjectAdmin(u)
    /\ role' = [role EXCEPT ![u] = to]
    /\ Bump(r)
    /\ UNCHANGED <<account, milestone, criterion, task>>

RemoveMember(r, u) ==
    /\ LockVersion(r, "admin")
    /\ role[u] # "none"
    /\ role[u] = "admin" => requireAnotherActiveProjectAdmin(u)
    /\ role' = [role EXCEPT ![u] = "none"]
    /\ Bump(r)
    /\ UNCHANGED <<account, milestone, criterion, task>>

CreateMilestone(r, m) ==
    /\ LockVersion(r, "write")
    /\ milestone[m] = "absent"
    /\ milestone' = [milestone EXCEPT ![m] = "planned"]
    /\ Bump(r)
    /\ UNCHANGED <<role, account, criterion, task>>

UpdateMilestone(r, m) ==
    /\ LockVersion(r, "write")
    /\ milestone[m] # "absent"
    /\ Bump(r)
    /\ UNCHANGED <<role, account, milestone, criterion, task>>

\* ApplyLifecycleVersionedWithOperation
MoveMilestone(r, m, to) ==
    /\ LockVersion(r, "write")
    /\ milestone' = [milestone EXCEPT ![m] = to]
    /\ Bump(r)
    /\ UNCHANGED <<role, account, criterion, task>>

Activate(r, m) ==
    /\ milestone[m] = "planned"
    /\ ActiveCriteria(m) # {}
    /\ MoveMilestone(r, m, "active")

Complete(r, m) ==
    /\ milestone[m] = "active"
    /\ ActiveCriteria(m) # {} /\ Unsatisfied(m) = {}
    /\ UnfinishedIn(m) = {}
    /\ MoveMilestone(r, m, "completed")

Cancel(r, m) ==
    /\ milestone[m] \in {"planned", "active"}
    /\ UnfinishedIn(m) = {}
    /\ MoveMilestone(r, m, "cancelled")

\* Reopen asks for a reason and not for criteria.
Reopen(r, m) ==
    /\ milestone[m] \in {"completed", "cancelled"}
    /\ MoveMilestone(r, m, "active")

CreateCriterion(r, m, k) ==
    /\ LockVersion(r, "write")
    /\ milestone[m] # "absent"
    /\ criterion[k].state = "absent"
    /\ criterion' = [criterion EXCEPT ![k] = [milestone |-> m, version |-> criterion[k].version,
                                              state |-> "unsatisfied"]]
    /\ Bump(r)
    /\ UNCHANGED <<role, account, milestone, task>>

\* lockCriterionAndOwners, and If-Match against the criterion.
LockCriterion(r, k) ==
    /\ request[r].item = k
    /\ criterion[k].state # "removed"
    /\ criterion[k].version = request[r].expected

\* incrementCriterionOwners: criterion, Milestone and Project advance together.
ChangeCriterion(r, k, state) ==
    /\ LockCriterion(r, k)
    /\ criterion' = [criterion EXCEPT ![k] = [milestone |-> criterion[k].milestone,
                                              version |-> criterion[k].version + 1, state |-> state]]
    /\ Bump(r)
    /\ UNCHANGED <<role, account, milestone, task>>

\* Another text is another revision, which no check covers yet; a move keeps the checks.
UpdateCriterion(r, k) == \E state \in {"unsatisfied", criterion[k].state} : ChangeCriterion(r, k, state)

\* passed and waived satisfy, failed does not.
AddCheck(r, k) == \E state \in {"satisfied", "unsatisfied"} : ChangeCriterion(r, k, state)

\* Deleted without checks and archived with them; an active Milestone keeps one.
RemoveCriterion(r, k) ==
    /\ LET m == criterion[k].milestone
       IN  m # None /\ milestone[m] = "active" => Cardinality(ActiveCriteria(m)) > 1
    /\ ChangeCriterion(r, k, "removed")

\* A Task is created, reopened or moved (to stands for its place) or closed: neither
\* the Project nor its version is looked at again.
WriteTask(r, t, to) ==
    /\ request[r].permission = "write" /\ request[r].item = None
    /\ to \in {None, Closed} \cup {m \in Milestones : milestone[m] # "absent"}
    /\ task' = [task EXCEPT ![t] = to]
    /\ request' = [request EXCEPT ![r] = NoRequest]
    /\ UNCHANGED <<project, role, account, milestone, criterion>>

\* DeactivateUser and ReactivateUser look at no Project.
SetAccount(u) ==
    /\ account' = [account EXCEPT ![u] = ~@]
    /\ UNCHANGED <<project, role, milestone, criterion, task, request>>

------------------------------------------------------------------------------

ProjectNext ==
    \/ \E r \in Requests, u \in Users, permission \in {"write", "admin"} : Admit(r, u, permission)
    \/ \E r \in Requests, u \in Users, k \in Criteria : AdmitCriterion(r, u, k)
    \/ \E r \in Requests : Refuse(r) \/ UpdateProject(r)
    \/ \E r \in Requests, archive \in BOOLEAN : ApplyLifecycle(r, archive)
    \/ \E r \in Requests, u \in Users, to \in Roles : AddMember(r, u, to) \/ ChangeRole(r, u, to)
    \/ \E r \in Requests, u \in Users : RemoveMember(r, u)
    \/ \E r \in Requests, m \in Milestones :
          \/ CreateMilestone(r, m) \/ UpdateMilestone(r, m)
          \/ Activate(r, m) \/ Complete(r, m) \/ Cancel(r, m) \/ Reopen(r, m)
    \/ \E r \in Requests, m \in Milestones, k \in Criteria : CreateCriterion(r, m, k)
    \/ \E r \in Requests, k \in Criteria : UpdateCriterion(r, k) \/ AddCheck(r, k) \/ RemoveCriterion(r, k)
    \/ \E r \in Requests, t \in Tasks, to \in Milestones \cup {None, Closed} : WriteTask(r, t, to)
    \/ \E u \in Users : SetAccount(u)
=============================================================================
