------------------------- MODULE RepositoriesProofs -------------------------
(***************************************************************************)
(* Proofs of the properties of Repositories, for any users, requests,      *)
(* Milestones, Connections, validations and bounds.                        *)
(*                                                                         *)
(* None of the properties is inductive.  What they rest on is that         *)
(* whatever was read before a transaction is still true as long as the     *)
(* version read with it is the current one: RequestsHold for what the      *)
(* admission of a request found, ChecksHold for the credential that a      *)
(* validation took to the provider.                                        *)
(***************************************************************************)
EXTENDS Repositories, TLAPS

\* The part of the state the properties speak of, with its types.
Types ==
    /\ project \in [version : Nat, archived : BOOLEAN]
    /\ role \in [Users -> Roles \cup {"none"}]
    /\ milestone \in [Milestones -> MilestoneStatus]
    /\ criterion \in [Criteria -> [milestone : Milestones \cup {None}, version : Nat,
            state : {"absent", "satisfied", "unsatisfied", "removed"}]]
    /\ request \in [Requests -> {NoRequest} \cup
            [permission : {"write", "admin"}, user : Users, expected : Nat, read : BOOLEAN,
             item : Criteria \cup Connections \cup {None}]]
    /\ connection \in [Connections ->
            [status : {"absent", "active", "disabled"}, version : Nat,
             credential : Credentials \cup {None}, validated : Credentials \cup {None}]]
    /\ bound \subseteq Connections
    /\ check \in [Checks -> {NoCheck} \cup
            [connection : Connections, version : Nat, credential : Credentials \cup {None}]]

Entitled(u, permission) ==
    u \in Administrators \/ role[u] \in (IF permission = "admin" THEN {"admin"} ELSE Roles)

\* A request that compares the Project version, sent the one it had read and finds it
\* current belongs to a user who still has the right, and a write to a Project that is
\* not archived.  Nothing is known of one that sent a version still to come.
RequestsHold ==
    \A r \in Requests :
        request[r] # NoRequest /\ request[r].item \notin Criteria =>
            /\ request[r].item \in Connections => request[r].permission = "admin"
            /\ request[r].read =>
                 /\ request[r].expected <= project.version
                 /\ request[r].expected = project.version =>
                      /\ Entitled(request[r].user, request[r].permission)
                      /\ request[r].permission = "write" => ~project.archived

\* A validation that carries the current version took the stored credential along.
ChecksHold ==
    \A q \in Checks :
        check[q] # NoCheck =>
            LET c == check[q].connection
            IN  /\ connection[c].status # "absent"
                /\ check[q].version <= connection[c].version
                /\ check[q].version = connection[c].version =>
                     check[q].credential = connection[c].credential

Inv ==
    /\ Types /\ RequestsHold /\ ChecksHold
    /\ ProjectHasAdmin
    /\ BoundConnectionIsActive /\ ValidationIsOfStoredCredential

------------------------------------------------------------------------------
(* What a step of the Project can be: nothing but requests change; a request is *)
(* admitted; or a request commits, alone or with one more change.             *)

RepositoriesSame == UNCHANGED <<connection, bound, check>>

Ends(r) == request' = [request EXCEPT ![r] = NoRequest]

QuietStep ==
    /\ UNCHANGED <<project, role, milestone, criterion>> /\ RepositoriesSame
    /\ UNCHANGED request \/ \E r \in Requests : Ends(r)

AdmitStep ==
    \E r \in Requests, u \in Users, p \in {"write", "admin"}, e \in Nat, b \in BOOLEAN,
       i \in Criteria \cup Connections \cup {None} :
        /\ request' = [request EXCEPT ![r] = [permission |-> p, user |-> u, expected |-> e,
                                              read |-> b, item |-> i]]
        /\ i \notin Criteria => /\ i \in Connections => p = "admin"
                                /\ b => e = project.version
                                /\ Entitled(u, p)
                                /\ p = "write" => ~project.archived
        /\ UNCHANGED <<project, role, milestone, criterion>> /\ RepositoriesSame

\* The version advances, and the flag may change with it; only a request about a
\* criterion has not compared the version.
Commits(r, archived) ==
    /\ request[r] # NoRequest
    /\ request[r].item \in Criteria \/ request[r].expected = project.version
    /\ Ends(r)
    /\ project' = [version |-> project.version + 1, archived |-> archived]

PlainCommit ==
    \E r \in Requests :
        /\ Commits(r, project.archived)
        /\ criterion' \in [Criteria -> [milestone : Milestones \cup {None}, version : Nat,
                state : {"absent", "satisfied", "unsatisfied", "removed"}]]
        /\ UNCHANGED <<role, milestone>> /\ RepositoriesSame

ArchiveCommit ==
    \E r \in Requests, archive \in BOOLEAN :
        /\ LockVersion(r, "admin") /\ Commits(r, archive)
        /\ archive => OpenMilestones = {}
        /\ UNCHANGED <<role, milestone, criterion>> /\ RepositoriesSame

RoleCommit ==
    \E r \in Requests, u \in Users, to \in Roles \cup {"none"} :
        /\ LockVersion(r, "admin") /\ Commits(r, project.archived)
        /\ role[u] = "admin" /\ to # "admin" => \E v \in Users \ {u} : role[v] = "admin"
        /\ role' = [role EXCEPT ![u] = to]
        /\ UNCHANGED <<milestone, criterion>> /\ RepositoriesSame

MilestoneCommit ==
    \E r \in Requests, m \in Milestones, to \in MilestoneStatus :
        /\ LockVersion(r, "write") /\ Commits(r, project.archived)
        /\ milestone' = [milestone EXCEPT ![m] = to]
        /\ UNCHANGED <<role, criterion>> /\ RepositoriesSame

\* A transaction that finds what it looks for in a request has one.
LEMMA LiveRequest ==
    ASSUME NEW r \in Requests
    PROVE  /\ LockVersion(r, "admin") => request[r] # NoRequest
           /\ LockVersion(r, "write") => request[r] # NoRequest
           /\ LockVersion(r, "admin") \/ LockVersion(r, "write") => request[r].expected = project.version
           /\ request[r].item # None => request[r] # NoRequest
  BY DEF LockVersion, NoRequest

\* Every number If-Match may hold is a natural number.
LEMMA IfMatchIsNat ==
    ASSUME NEW v \in Nat, NEW e \in parseIfMatch(v)
    PROVE  e \in Nat
  BY BoundAssumption DEF parseIfMatch

\* The rows of criteria keep their shape when one is written.
LEMMA CriterionTypes ==
    ASSUME Types, NEW k \in Criteria, NEW m \in Milestones \cup {None}, NEW v \in Nat,
           NEW state \in {"absent", "satisfied", "unsatisfied", "removed"}
    PROVE  [criterion EXCEPT ![k] = [milestone |-> m, version |-> v, state |-> state]]
             \in [Criteria -> [milestone : Milestones \cup {None}, version : Nat,
                    state : {"absent", "satisfied", "unsatisfied", "removed"}]]
  BY DEF Types

\* Every step of a Project is of one of these kinds.
LEMMA ProjectSteps ==
    ASSUME Types, ProjectNext, UNCHANGED repositoryVars
    PROVE  QuietStep \/ AdmitStep \/ PlainCommit \/ ArchiveCommit \/ RoleCommit \/ MilestoneCommit
  <1> USE DEF RepositoriesSame, repositoryVars, Ends, Commits
  <1>1. ASSUME NEW r \in Requests, NEW u \in Users, NEW p \in {"write", "admin"}, Admit(r, u, p)
        PROVE  AdmitStep
    <2>1. PICK e \in parseIfMatch(project.version) :
            request' = [request EXCEPT ![r] = [permission |-> p, user |-> u, expected |-> e,
                                               read |-> e = project.version, item |-> None]]
      BY <1>1 DEF Admit
    <2>2. e \in Nat /\ (e = project.version) \in BOOLEAN
      BY IfMatchIsNat DEF Types
    <2> QED
      BY <1>1, <2>1, <2>2, ItemAssumption, Zenon DEF Admit, AdmitStep, RequireProject, Entitled, projectVars
  <1>2. ASSUME NEW r \in Requests, NEW u \in Users, NEW k \in Criteria, AdmitCriterion(r, u, k)
        PROVE  AdmitStep
    <2>1. PICK e \in parseIfMatch(criterion[k].version) :
            request' = [request EXCEPT ![r] = [permission |-> "write", user |-> u, expected |-> e,
                                               read |-> e = criterion[k].version, item |-> k]]
      BY <1>2 DEF AdmitCriterion
    <2>2. e \in Nat /\ (e = criterion[k].version) \in BOOLEAN
      BY IfMatchIsNat DEF Types
    <2> QED
      BY <1>2, <2>1, <2>2, Zenon DEF AdmitCriterion, AdmitStep, projectVars
  <1>3. ASSUME NEW r \in Requests, Refuse(r)
        PROVE  QuietStep
    BY <1>3, Zenon DEF Refuse, QuietStep, projectVars
  <1>4. ASSUME NEW r \in Requests, UpdateProject(r)
        PROVE  PlainCommit
    BY <1>4, LiveRequest, Zenon DEF UpdateProject, Bump, PlainCommit, Types
  <1>5. ASSUME NEW r \in Requests, NEW archive \in BOOLEAN, ApplyLifecycle(r, archive)
        PROVE  ArchiveCommit
    BY <1>5, LiveRequest, Zenon DEF ApplyLifecycle, ArchiveReady, ArchiveCommit
  <1>6. ASSUME NEW r \in Requests, NEW u \in Users, NEW to \in Roles,
               AddMember(r, u, to) \/ ChangeRole(r, u, to)
        PROVE  RoleCommit
    BY <1>6, LiveRequest
    DEF AddMember, ChangeRole, Bump, requireAnotherActiveProjectAdmin, RoleCommit
  <1>7. ASSUME NEW r \in Requests, NEW u \in Users, RemoveMember(r, u)
        PROVE  RoleCommit
    BY <1>7, LiveRequest, Zenon DEF RemoveMember, Bump, requireAnotherActiveProjectAdmin, RoleCommit
  <1>8. ASSUME NEW r \in Requests, NEW m \in Milestones, UpdateMilestone(r, m)
        PROVE  PlainCommit
    BY <1>8, LiveRequest, Zenon DEF UpdateMilestone, Bump, PlainCommit, Types
  <1>9. ASSUME NEW r \in Requests, NEW m \in Milestones,
               \/ CreateMilestone(r, m) \/ Activate(r, m) \/ Complete(r, m)
               \/ Cancel(r, m) \/ Reopen(r, m)
        PROVE  MilestoneCommit
    BY <1>9, LiveRequest
    DEF CreateMilestone, Activate, Complete, Cancel, Reopen, MoveMilestone, Bump, MilestoneCommit,
        MilestoneStatus
  <1>10. ASSUME NEW r \in Requests, NEW m \in Milestones, NEW k \in Criteria, CreateCriterion(r, m, k)
         PROVE  PlainCommit
    <2>1. criterion[k].version \in Nat
      BY DEF Types
    <2> QED
      BY <1>10, <2>1, LiveRequest, CriterionTypes, Zenon DEF CreateCriterion, Bump, PlainCommit
  <1>11. ASSUME NEW r \in Requests, NEW k \in Criteria,
                NEW state \in {"absent", "satisfied", "unsatisfied", "removed"},
                ChangeCriterion(r, k, state)
         PROVE  PlainCommit
    <2>1. criterion[k].version + 1 \in Nat /\ criterion[k].milestone \in Milestones \cup {None}
      BY DEF Types
    <2>2. request[r] # NoRequest /\ request[r].item \in Criteria
      BY <1>11, LiveRequest, ItemAssumption DEF ChangeCriterion, LockCriterion
    <2> QED
      BY <1>11, <2>1, <2>2, CriterionTypes, Zenon DEF ChangeCriterion, Bump, PlainCommit
  <1>12. ASSUME NEW r \in Requests, NEW k \in Criteria,
                UpdateCriterion(r, k) \/ AddCheck(r, k) \/ RemoveCriterion(r, k)
         PROVE  PlainCommit
    <2>1. criterion[k].state \in {"absent", "satisfied", "unsatisfied", "removed"}
      BY DEF Types
    <2> QED
      BY <1>11, <1>12, <2>1 DEF UpdateCriterion, AddCheck, RemoveCriterion
  <1>13. ASSUME NEW r \in Requests, NEW t \in Tasks, NEW to, WriteTask(r, t, to)
         PROVE  QuietStep
    BY <1>13, Zenon DEF WriteTask, QuietStep
  <1>14. ASSUME NEW u \in Users, SetAccount(u)
         PROVE  QuietStep
    BY <1>14 DEF SetAccount, QuietStep
  <1> QED
    BY <1>1, <1>2, <1>3, <1>4, <1>5, <1>6, <1>7, <1>8, <1>9, <1>10, <1>12, <1>13, <1>14
    DEF ProjectNext

BindingCommit ==
    \E r \in Requests, c \in Connections :
        /\ Commits(r, project.archived)
        /\ request[r].item \notin Criteria /\ request[r].permission = "admin"
        /\ request[r].expected = project.version
        /\ (bound' = bound \cup {c} /\ Active(c)) \/ bound' = bound \ {c}
        /\ UNCHANGED <<role, milestone, criterion, connection, check>>

ConnectionStep ==
    /\ \/ \E c \in Connections, x \in Credentials : Create(c, x) \/ Rotate(c, x)
       \/ \E q \in Checks, c \in Connections : Validate(q, c)
       \/ \E q \in Checks : RecordValidation(q) \/ RecordFailure(q)
       \/ \E c \in Connections : Disable(c)
    /\ UNCHANGED <<project, role, milestone, criterion, request, bound>>

\* The steps of Connections and bindings, sorted the same way.
LEMMA RepositorySteps ==
    ASSUME Types, RequestsHold, RepositoryNext
    PROVE  AdmitStep \/ BindingCommit \/ ConnectionStep
  <1>1. ASSUME NEW r \in Requests, NEW u \in Users, NEW c \in Connections, AdmitBind(r, u, c)
        PROVE  AdmitStep
    <2>1. PICK e \in parseIfMatch(project.version) :
            request' = [request EXCEPT ![r] = [permission |-> "admin", user |-> u, expected |-> e,
                                               read |-> e = project.version, item |-> c]]
      BY <1>1 DEF AdmitBind
    <2>2. e \in Nat /\ (e = project.version) \in BOOLEAN
      BY IfMatchIsNat DEF Types
    <2> QED
      BY <1>1, <2>1, <2>2, ItemAssumption, Zenon
      DEF AdmitBind, AdmitStep, RequireProject, Entitled, projectVars, repositoryVars, RepositoriesSame
  <1>2. ASSUME NEW r \in Requests, NEW c \in Connections, Bind(r, c)
        PROVE  BindingCommit
    <2>1. request[r].item \notin Criteria /\ request[r].item # None
      BY <1>2, ItemAssumption DEF Bind, Bindable
    <2>2. request[r] # NoRequest
      BY <2>1, LiveRequest
    <2>3. request[r].permission = "admin"
      BY <1>2, <2>1, <2>2 DEF RequestsHold, Bind, Bindable
    <2> QED
      BY <1>2, <2>1, <2>2, <2>3, Zenon DEF Bind, Bindable, Bump, BindingCommit, Commits, Ends
  <1>3. ASSUME NEW r \in Requests, NEW c \in Connections, Unbind(r, c)
        PROVE  BindingCommit
    <2>1. request[r] # NoRequest
      BY <1>3, LiveRequest DEF Unbind
    <2> QED
      BY <1>3, <2>1, ItemAssumption, Zenon DEF Unbind, LockVersion, Bump, BindingCommit, Commits, Ends
  <1>4. ASSUME \/ \E c \in Connections, x \in Credentials : Create(c, x) \/ Rotate(c, x)
               \/ \E q \in Checks, c \in Connections : Validate(q, c)
               \/ \E q \in Checks : RecordValidation(q) \/ RecordFailure(q)
               \/ \E c \in Connections : Disable(c)
        PROVE  ConnectionStep
    BY <1>4, Zenon
    DEF ConnectionStep, Create, Rotate, Validate, RecordValidation, RecordFailure, Disable, projectVars
  <1> QED
    BY <1>1, <1>2, <1>3, <1>4 DEF RepositoryNext

Step ==
    \/ QuietStep \/ AdmitStep \/ PlainCommit \/ ArchiveCommit \/ RoleCommit \/ MilestoneCommit
    \/ BindingCommit \/ ConnectionStep

\* Every step, and stuttering, is of one of the kinds.
LEMMA StepKinds ==
    ASSUME Types, RequestsHold, [Next]_vars
    PROVE  Step
  <1>1. CASE UNCHANGED vars
    BY <1>1 DEF vars, projectVars, repositoryVars, Step, QuietStep, RepositoriesSame
  <1>2. CASE ProjectNext /\ UNCHANGED repositoryVars
    BY <1>2, ProjectSteps DEF Step
  <1>3. CASE RepositoryNext
    BY <1>3, RepositorySteps DEF Step
  <1> QED
    BY <1>1, <1>2, <1>3 DEF Next

------------------------------------------------------------------------------
(* The invariant *)

\* A committing request leaves every other as it was.
LEMMA CommitEffect ==
    ASSUME Types, NEW r \in Requests, Ends(r)
    PROVE  \A s \in Requests : request'[s] = NoRequest \/ request'[s] = request[s]
  BY DEF Types, Ends

\* The types of the rows of Connections and of the validations at work.
ConnectionTypes ==
    /\ connection \in [Connections ->
            [status : {"absent", "active", "disabled"}, version : Nat,
             credential : Credentials \cup {None}, validated : Credentials \cup {None}]]
    /\ check \in [Checks -> {NoCheck} \cup
            [connection : Connections, version : Nat, credential : Credentials \cup {None}]]

\* Types are kept by every step.
LEMMA TypesStep ==
    ASSUME Types, Step
    PROVE  Types'
  <1>1. CASE QuietStep
    BY <1>1 DEF Types, QuietStep, RepositoriesSame, Ends
  <1>2. CASE AdmitStep
    BY <1>2 DEF Types, AdmitStep, RepositoriesSame
  <1>3. CASE PlainCommit
    BY <1>3 DEF Types, PlainCommit, Commits, Ends, RepositoriesSame
  <1>4. CASE ArchiveCommit
    BY <1>4 DEF Types, ArchiveCommit, Commits, Ends, RepositoriesSame
  <1>5. CASE RoleCommit
    BY <1>5 DEF Types, RoleCommit, Commits, Ends, RepositoriesSame
  <1>6. CASE MilestoneCommit
    BY <1>6 DEF Types, MilestoneCommit, Commits, Ends, RepositoriesSame
  <1>7. CASE BindingCommit
    BY <1>7 DEF Types, BindingCommit, Commits, Ends
  <1>8. CASE ConnectionStep
    <2>0. ConnectionTypes
      BY DEF Types, ConnectionTypes
    <2>1. ASSUME NEW c \in Connections, NEW x \in Credentials, Create(c, x) \/ Rotate(c, x)
          PROVE  ConnectionTypes'
      BY <2>0, <2>1 DEF ConnectionTypes, Create, Rotate
    <2>2. ASSUME NEW q \in Checks, NEW c \in Connections, Validate(q, c)
          PROVE  ConnectionTypes'
      BY <2>0, <2>2 DEF ConnectionTypes, Validate
    <2>3. ASSUME NEW q \in Checks, RecordValidation(q) \/ RecordFailure(q)
          PROVE  ConnectionTypes'
      BY <2>0, <2>3 DEF ConnectionTypes, RecordValidation, RecordFailure
    <2>4. ASSUME NEW c \in Connections, Disable(c)
          PROVE  ConnectionTypes'
      BY <2>0, <2>4 DEF ConnectionTypes, Disable
    <2>5. ConnectionTypes'
      BY <1>8, <2>1, <2>2, <2>3, <2>4, Zenon DEF ConnectionStep
    <2> QED
      BY <1>8, <2>5, Zenon DEF ConnectionStep, Types, ConnectionTypes
  <1> QED
    BY <1>1, <1>2, <1>3, <1>4, <1>5, <1>6, <1>7, <1>8 DEF Step

\* What an admission read stays true until the version advances: archiving, roles and
\* bindings change only together with it.
LEMMA RequestsStep ==
    ASSUME Types, RequestsHold, Step
    PROVE  RequestsHold'
  <1>1. CASE QuietStep
    BY <1>1 DEF Types, RequestsHold, Entitled, QuietStep, Ends
  <1>2. CASE AdmitStep
    BY <1>2 DEF Types, RequestsHold, Entitled, AdmitStep
  <1>3. ASSUME NEW r \in Requests, NEW archived, Commits(r, archived)
        PROVE  RequestsHold'
    <2> SUFFICES ASSUME NEW s \in Requests, request'[s] # NoRequest, request'[s].item \notin Criteria
                 PROVE  /\ request'[s].item \in Connections => request'[s].permission = "admin"
                        /\ request'[s].expected \in Nat /\ project'.version \in Nat
                        /\ request'[s].read => request'[s].expected < project'.version
      BY DEF RequestsHold, Entitled
    <2>1. request'[s] = request[s]
      BY <1>3, CommitEffect DEF Commits
    <2>2. request[s].expected \in Nat /\ project.version \in Nat
      BY <2>1 DEF Types
    <2>3. request[s].read => request[s].expected <= project.version
      BY <2>1 DEF RequestsHold
    <2>4. project'.version = project.version + 1
      BY <1>3, Zenon DEF Commits
    <2> QED
      BY <2>1, <2>2, <2>3, <2>4 DEF RequestsHold
  <1>4. CASE ConnectionStep
    BY <1>4 DEF RequestsHold, Entitled, ConnectionStep
  <1> QED
    BY <1>1, <1>2, <1>3, <1>4
    DEF Step, PlainCommit, ArchiveCommit, RoleCommit, MilestoneCommit, BindingCommit

\* The last administrator is neither removed nor given another role.
LEMMA AdminStep ==
    ASSUME Types, ProjectHasAdmin, Step
    PROVE  ProjectHasAdmin'
  <1>1. CASE RoleCommit
    BY <1>1 DEF Types, ProjectHasAdmin, RoleCommit
  <1> QED
    BY <1>1 DEF ProjectHasAdmin, Step, QuietStep, AdmitStep, PlainCommit, ArchiveCommit,
                MilestoneCommit, BindingCommit, ConnectionStep

\* What a validation read stays true until the version of the Connection advances.
LEMMA ChecksStep ==
    ASSUME Types, ChecksHold, Step
    PROVE  ChecksHold'
  <1>1. ASSUME NEW c \in Connections, NEW x \in Credentials, Create(c, x)
        PROVE  ChecksHold'
    BY <1>1 DEF Types, ChecksHold, Create
  <1>2. ASSUME NEW c \in Connections, NEW x \in Credentials, Rotate(c, x)
        PROVE  ChecksHold'
    BY <1>2 DEF Types, ChecksHold, Rotate, Active, NoCheck
  <1>3. ASSUME NEW q \in Checks, NEW c \in Connections, Validate(q, c)
        PROVE  ChecksHold'
    BY <1>3 DEF Types, ChecksHold, Validate
  <1>4. ASSUME NEW q \in Checks, RecordValidation(q)
        PROVE  ChecksHold'
    BY <1>4 DEF Types, ChecksHold, RecordValidation, Active
  <1>5. ASSUME NEW q \in Checks, RecordFailure(q)
        PROVE  ChecksHold'
    BY <1>5 DEF Types, ChecksHold, RecordFailure
  <1>6. ASSUME NEW c \in Connections, Disable(c)
        PROVE  ChecksHold'
    BY <1>6 DEF Types, ChecksHold, Disable, Active
  <1>7. CASE ConnectionStep
    BY <1>1, <1>2, <1>3, <1>4, <1>5, <1>6, <1>7, Zenon DEF ConnectionStep
  <1> QED
    BY <1>7 DEF ChecksHold, Step, QuietStep, AdmitStep, PlainCommit, ArchiveCommit, RoleCommit,
                MilestoneCommit, BindingCommit, RepositoriesSame

\* A Connection is bound while it is active and disabled while it is not bound.
LEMMA BoundStep ==
    ASSUME Types, BoundConnectionIsActive, Step
    PROVE  BoundConnectionIsActive'
  <1>1. CASE ConnectionStep
    <2>1. bound' = bound /\ bound \subseteq Connections
      BY <1>1 DEF Types, ConnectionStep
    <2>2. ASSUME NEW c \in Connections, NEW x \in Credentials, Create(c, x) \/ Rotate(c, x)
          PROVE  BoundConnectionIsActive'
      BY <2>1, <2>2 DEF Types, BoundConnectionIsActive, Active, Create, Rotate
    <2>3. ASSUME NEW q \in Checks, RecordValidation(q)
          PROVE  BoundConnectionIsActive'
      BY <2>1, <2>3 DEF Types, BoundConnectionIsActive, Active, RecordValidation
    <2>4. ASSUME NEW c \in Connections, Disable(c)
          PROVE  BoundConnectionIsActive'
      BY <2>1, <2>4 DEF Types, BoundConnectionIsActive, Active, Disable
    <2>5. ASSUME UNCHANGED connection
          PROVE  BoundConnectionIsActive'
      BY <2>1, <2>5 DEF BoundConnectionIsActive, Active
    <2> QED
      BY <1>1, <2>2, <2>3, <2>4, <2>5, Zenon DEF ConnectionStep, Validate, RecordFailure
  <1>2. CASE BindingCommit
    BY <1>2, Zenon DEF BoundConnectionIsActive, Active, BindingCommit
  <1> QED
    BY <1>1, <1>2, Zenon DEF BoundConnectionIsActive, Active, Step, QuietStep, AdmitStep, PlainCommit,
                      ArchiveCommit, RoleCommit, MilestoneCommit, RepositoriesSame

\* The credential a validation vouches for is the one that is stored.
LEMMA ValidationStep ==
    ASSUME Types, ChecksHold, ValidationIsOfStoredCredential, Step
    PROVE  ValidationIsOfStoredCredential'
  <1>1. ASSUME NEW q \in Checks, RecordValidation(q)
        PROVE  ValidationIsOfStoredCredential'
    BY <1>1, Zenon DEF Types, ChecksHold, ValidationIsOfStoredCredential, RecordValidation
  <1>2. CASE ConnectionStep
    BY <1>1, <1>2, SMTT(30)
       DEF Types, ValidationIsOfStoredCredential, ConnectionStep, Create, Rotate, Validate,
           RecordFailure, Disable
  <1> QED
    BY <1>2 DEF ValidationIsOfStoredCredential, Step, QuietStep, AdmitStep, PlainCommit, ArchiveCommit,
                RoleCommit, MilestoneCommit, BindingCommit, RepositoriesSame

\* The invariant holds initially.
LEMMA InvInit == Init => Inv
  <1> SUFFICES ASSUME Init PROVE Inv
    OBVIOUS
  <1>1. Types
    BY DEF Init, ProjectInit, Types
  <1>2. RequestsHold /\ ChecksHold
    BY DEF Init, ProjectInit, RequestsHold, ChecksHold
  <1>3. ProjectHasAdmin
    BY DEF Init, ProjectInit, ProjectHasAdmin
  <1>4. BoundConnectionIsActive /\ ValidationIsOfStoredCredential
    BY DEF Init, BoundConnectionIsActive, ValidationIsOfStoredCredential
  <1> QED
    BY <1>1, <1>2, <1>3, <1>4 DEF Inv

\* Every step keeps the invariant.
LEMMA InvStep == Inv /\ [Next]_vars => Inv'
  <1> SUFFICES ASSUME Inv, [Next]_vars PROVE Inv'
    OBVIOUS
  <1>1. Step
    BY StepKinds DEF Inv
  <1> QED
    BY <1>1, TypesStep, RequestsStep, ChecksStep, AdminStep, BoundStep, ValidationStep
    DEF Inv

\* The Project has an administrator, for any number of requests at work and accounts that
\* come and go (requireAnotherActiveProjectAdmin).
THEOREM ProjectsKeepAnAdmin == Spec => []ProjectHasAdmin
  <1>1. Inv => ProjectHasAdmin
    BY DEF Inv
  <1> QED
    BY <1>1, InvInit, InvStep, PTL DEF Spec

\* A bound Connection is active, however Bind and Disable interleave.
THEOREM BindingsAreSafe == Spec => []BoundConnectionIsActive
  <1>1. Inv => BoundConnectionIsActive
    BY DEF Inv
  <1> QED
    BY <1>1, InvInit, InvStep, PTL DEF Spec

\* The recorded validation is one of the stored credential, for any number of
\* validations and rotations at a time.
THEOREM ValidationIsCurrent == Spec => []ValidationIsOfStoredCredential
  <1>1. Inv => ValidationIsOfStoredCredential
    BY DEF Inv
  <1> QED
    BY <1>1, InvInit, InvStep, PTL DEF Spec

\* A request that sent the version it had read and finds it current would be admitted
\* again.
LEMMA StillAdmitted ==
    ASSUME RequestsHold, NEW r \in Requests, request[r] # NoRequest,
           request[r].item \notin Criteria, request[r].read, request[r].expected = project.version
    PROVE  RequireProject(request[r].user, request[r].permission)
  BY DEF RequestsHold, Entitled, RequireProject

\* A request that advances the Project is about a criterion or has compared the version.
LEMMA CommitCompares ==
    ASSUME Types, Step, NEW s \in Requests, CommitsIn(s)
    PROVE  request[s].item \in Criteria \/ request[s].expected = project.version
  <1>1. ASSUME NEW r \in Requests, NEW archived, Commits(r, archived)
        PROVE  request[s].item \in Criteria \/ request[s].expected = project.version
    <2>1. s = r
      BY <1>1 DEF CommitsIn, Commits, Ends, Types
    <2> QED
      BY <1>1, <2>1 DEF Commits
  <1>2. ~QuietStep /\ ~AdmitStep /\ ~ConnectionStep
    BY DEF CommitsIn, QuietStep, AdmitStep, ConnectionStep
  <1> QED
    BY <1>1, <1>2
    DEF Step, PlainCommit, ArchiveCommit, RoleCommit, MilestoneCommit, BindingCommit

\* Membership and archive flag read before a transaction are as good as read in it, for
\* every command on the Project, its members, Milestones and bindings that sent the
\* version it had read (RequireProject, lockProjectVersion).
THEOREM AdmissionsStayGood == Spec => CommitMatchesAdmission
  <1> DEFINE Change ==
        \A r \in Requests :
            CommitsIn(r) /\ request[r].read /\ request[r].item \notin Criteria =>
                RequireProject(request[r].user, request[r].permission)
  <1>1. Inv /\ [Next]_vars => [Change]_vars
    <2> SUFFICES ASSUME Inv, [Next]_vars, NEW r \in Requests,
                        CommitsIn(r), request[r].read, request[r].item \notin Criteria
                 PROVE  RequireProject(request[r].user, request[r].permission)
      OBVIOUS
    <2>1. Step
      BY StepKinds DEF Inv
    <2>2. request[r].expected = project.version
      BY <2>1, CommitCompares DEF Inv
    <2> QED
      BY <2>2, StillAdmitted DEF Inv, CommitsIn
  <1> QED
    BY <1>1, InvInit, InvStep, PTL DEF Spec, CommitMatchesAdmission

\* A Project is archived without open Milestones and gets none afterwards from a request
\* that sent the version it had read (ApplyLifecycle and the version it advances).
THEOREM ArchivesStaySettled == Spec => ArchivedIsSettled
  <1> DEFINE Change ==
        project'.archived /\ OpenMilestones' # {} =>
            \/ project.archived /\ OpenMilestones # {}
            \/ \E r \in Requests : CommitsIn(r) /\ ~request[r].read
  <1>1. Inv /\ [Next]_vars => [Change]_vars
    <2> SUFFICES ASSUME Inv, [Next]_vars, project'.archived, OpenMilestones' # {}
                 PROVE  \/ project.archived /\ OpenMilestones # {}
                        \/ \E r \in Requests : CommitsIn(r) /\ ~request[r].read
      OBVIOUS
    <2> USE DEF Inv
    <2>1. Step
      BY StepKinds
    <2>2. CASE MilestoneCommit
      <3>1. PICK r \in Requests : LockVersion(r, "write") /\ Commits(r, project.archived)
        BY <2>2 DEF MilestoneCommit
      <3>2. project.archived
        BY <3>1 DEF Commits
      <3>3. project'.version # project.version
        BY <3>1 DEF Commits, Types
      <3>4. CommitsIn(r)
        BY <3>1, <3>3 DEF Commits, Ends, CommitsIn, Types
      <3>5. ~request[r].read
        BY <3>1, <3>2, <3>4, StillAdmitted, ItemAssumption DEF LockVersion, RequireProject, CommitsIn
      <3> QED
        BY <3>4, <3>5
    <2>3. CASE ArchiveCommit
      BY <2>3, SMTT(30) DEF ArchiveCommit, Commits, OpenMilestones
    <2>4. CASE PlainCommit \/ RoleCommit \/ BindingCommit
      BY <2>4, SMTT(30) DEF PlainCommit, RoleCommit, BindingCommit, Commits, OpenMilestones
    <2>5. CASE QuietStep \/ AdmitStep \/ ConnectionStep
      BY <2>5, SMTT(30) DEF QuietStep, AdmitStep, ConnectionStep, OpenMilestones
    <2> QED
      BY <2>1, <2>2, <2>3, <2>4, <2>5 DEF Step
  <1> QED
    BY <1>1, InvInit, InvStep, PTL DEF Spec, ArchivedIsSettled
=============================================================================
