---------------------------- MODULE Repositories ----------------------------
(***************************************************************************)
(* Repository Connections, kept by platform Administrators, and the        *)
(* bindings that let a Project use them.                                   *)
(*                                                                         *)
(* Creating a Connection, rotating its credential, validating it and       *)
(* binding it all ask the provider first, outside any transaction, and     *)
(* store the outcome later.  The rows read before the question may be old  *)
(* by then.  Connections stand here for one repository at the provider:    *)
(* the unique indexes of migration 0033 keep one of them active.  A        *)
(* provider that refuses changes nothing but the audit.                    *)
(***************************************************************************)
EXTENDS Projects

CONSTANTS
    Connections,
    Credentials,
    Checks,                \* validations at a time
    MaxConnectionVersion   \* bound: Connection version

\* The ids a request may carry are told apart, and a missing one from each of them.
ASSUME ItemAssumption ==
    /\ None \notin Criteria \cup Connections
    /\ Criteria \cap Connections = {}

VARIABLES
    connection,  \* repository_connections: status, version, credential;
                 \* validated is the credential last_validated_at speaks of
    bound,       \* project_repositories without unbound_at: the Connections bound
    check        \* per validation: the credential the provider accepted, the version read with it

repositoryVars == <<connection, bound, check>>
vars == <<projectVars, request, repositoryVars>>

NoCheck == [connection |-> None, version |-> 0, credential |-> None]

Active(c) == connection[c].status = "active"

Init ==
    /\ ProjectInit
    /\ connection = [c \in Connections |->
                       [status |-> "absent", version |-> 1, credential |-> None, validated |-> None]]
    /\ bound = {}
    /\ check = [q \in Checks |-> NoCheck]

------------------------------------------------------------------------------
(* Administration of Connections *)

\* The provider answers before the row is written; the indexes refuse a second
\* active row for the repository.
Create(c, x) ==
    /\ connection[c].status = "absent"
    /\ \A d \in Connections : ~Active(d)
    /\ connection' = [connection EXCEPT ![c] = [status |-> "active", version |-> 1,
                                                credential |-> x, validated |-> x]]
    /\ UNCHANGED <<projectVars, request, bound, check>>

\* Mutant of Rotate: the row keeps its version.
RotateQuietly(c, x) ==
    /\ Active(c)
    /\ connection[c].version < MaxConnectionVersion
    /\ connection' = [connection EXCEPT ![c].credential = x, ![c].validated = x]
    /\ UNCHANGED <<projectVars, request, bound, check>>

\* RotateCredential brings its own credential to the provider, so nothing it read can
\* be old but the version, which updateValidated compares: one step.
Rotate(c, x) ==
    /\ Active(c)
    /\ connection[c].version < MaxConnectionVersion
    /\ connection' = [connection EXCEPT ![c] = [status |-> "active",
                                                version |-> connection[c].version + 1,
                                                credential |-> x, validated |-> x]]
    /\ UNCHANGED <<projectVars, request, bound, check>>

\* Validate reads the stored credential with its version; the provider accepts it.
Validate(q, c) ==
    /\ check[q] = NoCheck
    /\ connection[c].status # "absent"
    /\ check' = [check EXCEPT ![q] = [connection |-> c, version |-> connection[c].version,
                                      credential |-> connection[c].credential]]
    /\ UNCHANGED <<projectVars, request, connection, bound>>

\* RecordValidation: updateValidated compares the version under the row lock.
RecordValidation(q) ==
    LET c == check[q].connection
    IN  /\ check[q] # NoCheck
        /\ connection[c].version = check[q].version
        /\ Active(c)
        /\ connection[c].version < MaxConnectionVersion
        /\ connection' = [connection EXCEPT ![c] =
                [status |-> "active", version |-> connection[c].version + 1,
                 credential |-> connection[c].credential, validated |-> check[q].credential]]
        /\ check' = [check EXCEPT ![q] = NoCheck]
        /\ UNCHANGED <<projectVars, request, bound>>

\* The transaction is refused or never begins: RecordFailure writes an audit row.
RecordFailure(q) ==
    /\ check[q] # NoCheck
    /\ check' = [check EXCEPT ![q] = NoCheck]
    /\ UNCHANGED <<projectVars, request, connection, bound>>

\* The bindings are counted under the row lock of the Connection.
Disable(c) ==
    /\ Active(c)
    /\ c \notin bound
    /\ connection[c].version < MaxConnectionVersion
    /\ connection' = [connection EXCEPT ![c] =
            [status |-> "disabled", version |-> connection[c].version + 1,
             credential |-> connection[c].credential, validated |-> connection[c].validated]]
    /\ UNCHANGED <<projectVars, request, bound, check>>

------------------------------------------------------------------------------
(* Binding *)

\* The Connection is found active and accepted by the provider before the transaction.
AdmitBind(r, u, c) ==
    /\ request[r] = NoRequest
    /\ account[u] /\ RequireProject(u, "admin")
    /\ ~project.archived
    /\ Active(c)
    /\ \E expected \in parseIfMatch(project.version) :
          request' = [request EXCEPT ![r] = [permission |-> "admin", user |-> u, expected |-> expected,
                                             read |-> expected = project.version, item |-> c]]
    /\ UNCHANGED <<projectVars, repositoryVars>>

\* Mutant of Bindable: the Connection found before the transaction is trusted.
BindableThen(r, c) == request[r].item = c /\ request[r].expected = project.version /\ ~project.archived

\* The Project FOR UPDATE and at the version sent, then the Connection FOR SHARE.
Bindable(r, c) ==
    /\ request[r].item = c
    /\ request[r].expected = project.version
    /\ ~project.archived
    /\ Active(c)

\* The index project_repositories_active_binding refuses a second binding.
Bind(r, c) ==
    /\ Bindable(r, c)
    /\ c \notin bound
    /\ bound' = bound \cup {c}
    /\ Bump(r)
    /\ UNCHANGED <<role, account, milestone, criterion, task, connection, check>>

\* Admitted like any command of an administrator, and refused for an archived Project.
Unbind(r, c) ==
    /\ LockVersion(r, "admin")
    /\ ~project.archived
    /\ c \in bound
    /\ bound' = bound \ {c}
    /\ Bump(r)
    /\ UNCHANGED <<role, account, milestone, criterion, task, connection, check>>

------------------------------------------------------------------------------

RepositoryNext ==
    \/ \E c \in Connections, x \in Credentials : Create(c, x) \/ Rotate(c, x)
    \/ \E q \in Checks, c \in Connections : Validate(q, c)
    \/ \E q \in Checks : RecordValidation(q) \/ RecordFailure(q)
    \/ \E c \in Connections : Disable(c)
    \/ \E r \in Requests, u \in Users, c \in Connections : AdmitBind(r, u, c)
    \/ \E r \in Requests, c \in Connections : Bind(r, c) \/ Unbind(r, c)

Next ==
    \/ ProjectNext /\ UNCHANGED repositoryVars
    \/ RepositoryNext

Spec == Init /\ [][Next]_vars

------------------------------------------------------------------------------
(* Properties *)

\* Some user always holds the role of an administrator of the Project, although
\* accounts are deactivated while requireAnotherActiveProjectAdmin counts active ones:
\* neither removals nor role changes ever leave a Project without one.
ProjectHasAdmin == \E u \in Users : role[u] = "admin"

\* In this step request r commits a change that advances the Project.
CommitsIn(r) == request[r] # NoRequest /\ request'[r] = NoRequest /\ project' # project

\* A Project is archived without planned and active Milestones, and none is created or
\* reopened in it afterwards by a request that was admitted before the archive and sent
\* the version it had read: archiving advances the version, so its transaction fails.
\* Milestone commands do not look at the archive flag again, so a request that sent a
\* version still to come is not stopped.
ArchivedIsSettled ==
    [][project'.archived /\ OpenMilestones' # {} =>
          \/ project.archived /\ OpenMilestones # {}
          \/ \E r \in Requests : CommitsIn(r) /\ ~request[r].read]_vars

\* What admission found is as good as read in the transaction, for a command on the
\* Project, its members, Milestones and bindings that sent the version it had read: when
\* it commits, RequireProject would admit it again, whatever was archived, removed or
\* given another role in between.  (Commands on criteria compare another version, and a
\* version still to come binds a command to no admission.)
CommitMatchesAdmission ==
    [][\A r \in Requests :
          CommitsIn(r) /\ request[r].read /\ request[r].item \notin Criteria =>
              RequireProject(request[r].user, request[r].permission)]_vars

\* A Project is never bound to a disabled Connection: the Connection that Bind found
\* active before it asked the provider may be disabled since, and Disable counts
\* bindings while Bind is at work.
BoundConnectionIsActive == \A c \in bound : Active(c)

\* last_validated_at speaks of the credential that is stored: a validation whose
\* provider call ran while the credential was rotated is not recorded for the new one.
ValidationIsOfStoredCredential ==
    \A c \in Connections : connection[c].validated = connection[c].credential
=============================================================================
