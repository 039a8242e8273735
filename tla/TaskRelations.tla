---------------------------- MODULE TaskRelations ----------------------------
(***************************************************************************)
(* The relations between the Tasks of one Project: parent and children,    *)
(* dependencies, and the Milestone a parent shares with its children.      *)
(*                                                                         *)
(* Models CreateWithOperation and updateWithExpectedVersion of             *)
(* internal/store/task_store.go under READ COMMITTED, lock by lock: a      *)
(* transaction holds its own Task FOR UPDATE, the parent and the           *)
(* dependencies it names FOR SHARE, and sees what others have committed.   *)
(* The deferred triggers of migration 0015 run before its changes become   *)
(* visible, so two commits may overlap.  A Task never leaves its Project,  *)
(* so one Project is enough; dates, labels and texts are left out, and so  *)
(* is the Task version: If-Match only refuses requests.  Tasks that are    *)
(* created here have the legacy status "todo" for ever (the workflow       *)
(* changes the phase alone), so the status tests never refuse.             *)
(***************************************************************************)
EXTENDS Naturals, FiniteSets

CONSTANTS
    Tasks,
    Milestones,
    NoMilestone,    \* the Project Backlog
    NoTask,
    Requests,       \* transactions that run at a time
    MaxChanges      \* bound: committed changes

ASSUME NoTaskAssumption == NoTask \notin Tasks

Places == Milestones \cup {NoMilestone}

VARIABLES
    task,        \* tasks: phase, parent_task_id, milestone_id, archived_at
    dependency,  \* task_dependencies: <<task_id, depends_on_task_id>>
    tx,          \* per request: the transaction at work, its locks and its writes
    changes      \* committed changes so far

vars == <<task, dependency, tx, changes>>

\* "closed" stands for done and cancelled, "in_progress" for both active phases.
Absent == [phase |-> "absent", parent |-> NoTask, milestone |-> NoMilestone, archived |-> FALSE]
NewTask(phase) == [Absent EXCEPT !.phase = phase]

NoTx == [stage |-> "idle", task |-> NoTask, parent |-> NoTask, milestone |-> NoMilestone,
         dependenciesSet |-> FALSE, dependencies |-> {}, unchecked |-> {},
         shared |-> {}, children |-> {}]

Exists(t) == task[t].phase # "absent"
Closed(t) == task[t].phase = "closed"
Children(t) == {c \in Tasks : task[c].parent = t}
Dependencies(t) == {d \in Tasks : <<t, d>> \in dependency}

\* WITH RECURSIVE reachable: every Task that d depends on, directly or not, which is the
\* least set that holds the dependencies of d and of its own members.
Reachable(edges, d) ==
    {e \in Tasks : \A S \in SUBSET Tasks :
        (\A a, b \in Tasks : <<a, b>> \in edges /\ (a = d \/ a \in S) => b \in S) => e \in S}

\* Tasks with a past: all of them new, or all of them claimed and one of them with a
\* dependency or none.
Init ==
    /\ \E made \in SUBSET Tasks, phase \in {"backlog", "in_progress"} :
          /\ task = [t \in Tasks |-> IF t \in made THEN NewTask(phase) ELSE Absent]
          /\ dependency \in SUBSET (made \X made)
          /\ dependency # {} => phase = "in_progress"
    /\ \A e, f \in dependency : e = f
    /\ \A t \in Tasks : <<t, t>> \notin dependency
    /\ tx = [r \in Requests |-> NoTx]
    /\ changes = 0

------------------------------------------------------------------------------
(* Row locks *)

Exclusive(r) == {tx[r].task} \cup tx[r].children
Held(r) == Exclusive(r) \cup tx[r].shared

\* Mutant of ForUpdate: only exclusive holders are waited for.
ForUpdateIgnoringShares(r, t) == \A q \in Requests \ {r} : t \notin Exclusive(q)

\* FOR UPDATE waits for every other holder of the row.
ForUpdate(r, t) == \A q \in Requests \ {r} : t \notin Held(q)

\* FOR SHARE waits for exclusive holders only.
ForShare(r, t) == \A q \in Requests \ {r} : t \notin Exclusive(q)

Unlocked(t) == \A q \in Requests : t \notin Held(q)

------------------------------------------------------------------------------
(* The transaction of a request *)

\* validateParentAssignment has nothing to do without a parent.
FirstStage(parent) == IF parent = NoTask THEN "dependencies" ELSE "parent"

\* The row of a created Task is not visible to others before the commit.
CreateTask(r, t, parent, milestone, dependencies) ==
    /\ tx[r] = NoTx
    /\ ~Exists(t) /\ \A q \in Requests : tx[q].task # t
    /\ tx' = [tx EXCEPT ![r] = [NoTx EXCEPT !.stage = FirstStage(parent), !.task = t,
                                  !.parent = parent, !.milestone = milestone,
                                  !.dependenciesSet = TRUE, !.dependencies = dependencies,
                                  !.unchecked = dependencies]]
    /\ UNCHANGED <<task, dependency, changes>>

\* The own row is locked first; a child moves to another Milestone only by being
\* detached in the same update.  Fields the patch does not set keep their value.
UpdateTask(r, t, parent, milestone, dependenciesSet, dependencies) ==
    /\ tx[r] = NoTx
    /\ Exists(t) /\ ForUpdate(r, t)
    /\ task[t].parent # NoTask /\ milestone # task[t].milestone => parent = NoTask
    /\ dependenciesSet \/ dependencies = Dependencies(t)
    /\ tx' = [tx EXCEPT ![r] = [NoTx EXCEPT !.stage = FirstStage(parent), !.task = t,
                                  !.parent = parent, !.milestone = milestone,
                                  !.dependenciesSet = dependenciesSet,
                                  !.dependencies = dependencies,
                                  !.unchecked = IF dependenciesSet THEN dependencies ELSE {}]]
    /\ UNCHANGED <<task, dependency, changes>>

ParentAssignable(t, parent, milestone) ==
    /\ parent # t /\ Exists(parent)
    /\ ~task[parent].archived
    /\ task[parent].parent = NoTask
    /\ task[parent].milestone = milestone
    /\ Children(t) = {}
    /\ <<t, parent>> \notin dependency /\ <<parent, t>> \notin dependency

\* Mutant of validateParentAssignment: the row of the parent is not locked.
validateParentUnlocked(r) ==
    /\ tx[r].stage = "parent"
    /\ ParentAssignable(tx[r].task, tx[r].parent, tx[r].milestone)
    /\ tx' = [tx EXCEPT ![r].stage = "dependencies"]
    /\ UNCHANGED <<task, dependency, changes>>

validateParentAssignment(r) ==
    LET parent == tx[r].parent
    IN  /\ tx[r].stage = "parent"
        /\ ForShare(r, parent)
        /\ ParentAssignable(tx[r].task, parent, tx[r].milestone)
        /\ tx' = [tx EXCEPT ![r].stage = "dependencies", ![r].shared = {parent}]
        /\ UNCHANGED <<task, dependency, changes>>

DependencyAssignable(t, parent, d) ==
    /\ d # t /\ Exists(d)
    /\ ~task[d].archived
    /\ parent # d /\ task[d].parent # t
    /\ t \notin Reachable(dependency, d)

\* Mutant of validateDependencyAssignment: the row of the dependency is not locked.
validateDependencyUnlocked(r, d) ==
    /\ tx[r].stage = "dependencies" /\ d \in tx[r].unchecked
    /\ DependencyAssignable(tx[r].task, tx[r].parent, d)
    /\ tx' = [tx EXCEPT ![r].unchecked = @ \ {d}]
    /\ UNCHANGED <<task, dependency, changes>>

\* One round of the loop of validateDependencyAssignments, in the patch's order.
validateDependencyAssignment(r, d) ==
    /\ tx[r].stage = "dependencies" /\ d \in tx[r].unchecked
    /\ ForShare(r, d)
    /\ DependencyAssignable(tx[r].task, tx[r].parent, d)
    /\ tx' = [tx EXCEPT ![r].unchecked = @ \ {d}, ![r].shared = @ \cup {d}]
    /\ UNCHANGED <<task, dependency, changes>>

\* countUnfinishedTasks for a ready Task whose dependencies are replaced.
ReadyStays(r) ==
    task[tx[r].task].phase = "ready" /\ tx[r].dependenciesSet
        => \A d \in tx[r].dependencies : Closed(d)

\* moveTaskChildren: the children of a Task that changes its Milestone.
MovedChildren(r) ==
    LET t == tx[r].task
    IN  IF task[t].parent = NoTask /\ task[t].milestone # tx[r].milestone THEN Children(t) ELSE {}

\* The tables as the transaction r sees them after its writes.
WrittenTask(r) ==
    [t \in Tasks |->
        IF t = tx[r].task
        THEN [phase |-> IF Exists(t) THEN task[t].phase ELSE "backlog",
              parent |-> tx[r].parent, milestone |-> tx[r].milestone, archived |-> task[t].archived]
        ELSE IF t \in MovedChildren(r) THEN [task[t] EXCEPT !.milestone = tx[r].milestone]
        ELSE task[t]]

WrittenDependency(r) ==
    {e \in dependency : e[1] # tx[r].task} \cup {<<tx[r].task, d>> : d \in tx[r].dependencies}

\* The trigger of the rows of tasks that r wrote.
validate_task_relationships(r) ==
    LET rows == WrittenTask(r)
        edges == WrittenDependency(r)
    IN  \A t \in {tx[r].task} \cup MovedChildren(r) :
          /\ rows[t].parent # NoTask =>
               LET parent == rows[t].parent
               IN  /\ rows[parent].phase # "absent"
                   /\ rows[parent].parent = NoTask
                   /\ \A c \in Tasks : rows[c].parent # t
                   /\ rows[parent].milestone = rows[t].milestone
                   /\ <<t, parent>> \notin edges /\ <<parent, t>> \notin edges
          /\ rows[t].parent = NoTask =>
               \A c \in Tasks : rows[c].parent = t => rows[c].milestone = rows[t].milestone

\* The trigger of the rows of task_dependencies that r inserted.
validate_task_dependency(r) ==
    LET t == tx[r].task
        rows == WrittenTask(r)
    IN  tx[r].dependenciesSet =>
          \A d \in tx[r].dependencies :
             /\ rows[t].parent # d /\ rows[d].parent # t
             /\ t \notin Reachable(WrittenDependency(r), d)

\* replaceTaskDependencies, the INSERT or UPDATE of the Task, moveTaskChildren,
\* which waits for the row of every child, and the triggers that the commit runs
\* before anyone sees the change.
Write(r) ==
    /\ tx[r].stage = "dependencies" /\ tx[r].unchecked = {}
    /\ ReadyStays(r)
    /\ \A c \in MovedChildren(r) : ForUpdate(r, c)
    /\ validate_task_relationships(r)
    /\ validate_task_dependency(r)
    /\ tx' = [tx EXCEPT ![r].stage = "checked", ![r].children = MovedChildren(r)]
    /\ UNCHANGED <<task, dependency, changes>>

Commit(r) ==
    /\ tx[r].stage = "checked"
    /\ task' = WrittenTask(r)
    /\ dependency' = WrittenDependency(r)
    /\ tx' = [tx EXCEPT ![r] = NoTx]
    /\ changes' = changes + 1

\* A test fails, the client goes away, or the server breaks a deadlock.
Rollback(r) ==
    /\ tx[r] # NoTx
    /\ tx' = [tx EXCEPT ![r] = NoTx]
    /\ UNCHANGED <<task, dependency, changes>>

\* Children and dependencies are counted under the lock of the own row alone: the
\* counted rows are not locked, and other transactions go on until the commit.
AcceptTask(r, t) ==
    /\ tx[r] = NoTx
    /\ task[t].phase = "in_progress" /\ Unlocked(t)
    /\ \A s \in Children(t) \cup Dependencies(t) : Closed(s)
    /\ tx' = [tx EXCEPT ![r] = [NoTx EXCEPT !.stage = "accepting", !.task = t,
                                  !.dependencies = Dependencies(t)]]
    /\ UNCHANGED <<task, dependency, changes>>

CommitAcceptance(r) ==
    /\ tx[r].stage = "accepting"
    /\ task' = [task EXCEPT ![tx[r].task].phase = "closed"]
    /\ tx' = [tx EXCEPT ![r] = NoTx]
    /\ changes' = changes + 1
    /\ UNCHANGED dependency

------------------------------------------------------------------------------
(* The other transactions of the workflow and the archive flag: one row, locked FOR   *)
(* UPDATE throughout, so each is one step.                                      *)

ChangeRow(t, phase, archived) ==
    /\ Exists(t) /\ Unlocked(t)
    /\ task' = [task EXCEPT ![t].phase = phase, ![t].archived = archived]
    /\ changes' = changes + 1
    /\ UNCHANGED <<dependency, tx>>

MarkReady(t) ==
    /\ task[t].phase = "backlog" /\ ~task[t].archived
    /\ \A d \in Dependencies(t) : Closed(d)
    /\ ChangeRow(t, "ready", FALSE)

WithdrawReadiness(t) == task[t].phase = "ready" /\ ChangeRow(t, "backlog", task[t].archived)

\* A Claim starts the work without asking about dependencies again.
Claim(t) ==
    /\ task[t].phase = "ready" /\ ~task[t].archived
    /\ ChangeRow(t, "in_progress", FALSE)

\* CancelTask, in any open phase.
Cancel(t) == ~Closed(t) /\ ChangeRow(t, "closed", task[t].archived)

\* Setting the flag the row has already only counts a version.
setArchived(t) == ChangeRow(t, task[t].phase, ~task[t].archived)

------------------------------------------------------------------------------
\* A Task named as its own parent or dependency is refused at once.
Begin(r) ==
    \E t \in Tasks, milestone \in Places :
    \E parent \in (Tasks \ {t}) \cup {NoTask}, ds \in SUBSET (Tasks \ {t}) :
        \/ CreateTask(r, t, parent, milestone, ds)
        \/ \E set \in BOOLEAN : UpdateTask(r, t, parent, milestone, set, ds)

Step(r) ==
    \/ Begin(r)
    \/ validateParentAssignment(r)
    \/ \E d \in Tasks : validateDependencyAssignment(r, d)
    \/ Write(r) \/ Commit(r)
    \/ \E t \in Tasks : AcceptTask(r, t)
    \/ CommitAcceptance(r)

Next ==
    \/ changes < MaxChanges /\ \E r \in Requests : Step(r)
    \/ \E r \in Requests : Rollback(r)
    \/ changes < MaxChanges /\ \E t \in Tasks : MarkReady(t) \/ WithdrawReadiness(t) \/ Claim(t)
                                                \/ Cancel(t) \/ setArchived(t)

Spec == Init /\ [][Next]_vars

------------------------------------------------------------------------------
(* Properties *)

\* The hierarchy has one level, parent and child share their Milestone and are
\* not dependencies of each other, whatever updates of both ran side by side:
\* what validateParentAssignment and the triggers checked still holds when the
\* change becomes visible, because of the rows the transaction has locked.
HierarchyIsSound ==
    \A c \in Tasks :
        LET parent == task[c].parent
        IN  parent # NoTask =>
              /\ Exists(parent) /\ task[parent].parent = NoTask
              /\ task[parent].milestone = task[c].milestone
              /\ <<c, parent>> \notin dependency /\ <<parent, c>> \notin dependency

\* No Task depends on itself through at most two others: any two updates that
\* could close so short a cycle meet in the row of a Task both have locked.
\* (A cycle of four Tasks has two edges without a Task in common.)
NoShortDependencyCycle ==
    \A a, b, c \in Tasks :
        /\ <<a, a>> \notin dependency
        /\ ~(<<a, b>> \in dependency /\ <<b, a>> \in dependency)
        /\ ~(<<a, b>> \in dependency /\ <<b, c>> \in dependency /\ <<c, a>> \in dependency)

\* A Task is completed without an unfinished child and without an unfinished dependency:
\* what AcceptTask counted still holds whenever its transaction commits, although a Task
\* may be given a child or a dependency by another transaction that was under way when
\* it counted.
AcceptanceStands ==
    \A r \in Requests : tx[r].stage = "accepting" =>
        \A s \in Children(tx[r].task) \cup Dependencies(tx[r].task) : Closed(s)
==============================================================================
