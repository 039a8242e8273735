------------------------ MODULE TaskRelationsProofs ------------------------
(***************************************************************************)
(* Proofs of the properties of TaskRelations, for any Tasks, Milestones    *)
(* and number of transactions.                                             *)
(*                                                                         *)
(* A transaction tests the relations it is going to write against rows     *)
(* that others may change until it commits.  What the properties rest on   *)
(* is that the rows it has locked keep every test true: Locks says that    *)
(* exclusive locks exclude, and Prepared what a transaction has found and  *)
(* may rely on because of them.                                            *)
(***************************************************************************)
EXTENDS TaskRelations, TLAPS

TaskRows ==
    [phase : {"absent", "backlog", "ready", "in_progress", "closed"},
     parent : Tasks \cup {NoTask}, milestone : Places, archived : BOOLEAN]

Transactions ==
    [stage : {"idle", "parent", "dependencies", "checked", "accepting"},
     task : Tasks \cup {NoTask}, parent : Tasks \cup {NoTask}, milestone : Places,
     dependenciesSet : BOOLEAN, dependencies : SUBSET Tasks, unchecked : SUBSET Tasks,
     shared : SUBSET Tasks, children : SUBSET Tasks]

Types ==
    /\ task \in [Tasks -> TaskRows]
    /\ dependency \subseteq Tasks \X Tasks
    /\ tx \in [Requests -> Transactions]

\* A row that is not there has no parent.
AbsentIsAlone == \A t \in Tasks : ~Exists(t) => task[t].parent = NoTask

\* What one transaction holds exclusively no other one holds.
Excluded(r, q) == \A t \in Exclusive(r) : t \in Tasks => t \notin Held(q)

\* The rows that are locked are there, and exclusive locks exclude.
Locks ==
    /\ \A r \in Requests : \A t \in tx[r].shared \cup tx[r].children : Exists(t)
    /\ \A r, q \in Requests : r # q => Excluded(r, q)

\* No path of one or two dependencies leads from d to t.
Apart(d, t) ==
    /\ <<d, t>> \notin dependency
    /\ \A x \in Tasks : ~(<<d, x>> \in dependency /\ <<x, t>> \in dependency)

\* The parent named is locked and has the place the child will have.
ParentHolds(r) ==
    LET t == tx[r].task
        parent == tx[r].parent
    IN  /\ parent \in tx[r].shared
        /\ parent \notin tx[r].dependencies
        /\ task[parent].parent = NoTask
        /\ task[parent].milestone = tx[r].milestone
        /\ Children(t) = {}
        /\ <<parent, t>> \notin dependency

\* The tests of Write and of the triggers are still true.
ChecksHold(r) ==
    /\ tx[r].unchecked = {}
    /\ tx[r].children = MovedChildren(r)
    /\ tx[r].parent # NoTask => ParentHolds(r)
    /\ \A d \in tx[r].dependencies : task[d].parent # tx[r].task

\* What an acceptance counted is still true.
AcceptanceHolds(r) ==
    /\ Exists(tx[r].task)
    /\ \A s \in Tasks :
          task[s].parent = tx[r].task \/ <<tx[r].task, s>> \in dependency => Closed(s)

\* What a transaction has found and may rely on.
Prepared(r) ==
    LET t == tx[r].task
    IN  /\ t \in Tasks /\ t # tx[r].parent /\ t \notin tx[r].dependencies
        /\ tx[r].stage = "parent" =>
             /\ tx[r].parent # NoTask
             /\ tx[r].dependenciesSet => tx[r].unchecked = tx[r].dependencies
        /\ tx[r].stage # "parent" /\ tx[r].parent # NoTask => tx[r].parent \in tx[r].shared
        /\ ~tx[r].dependenciesSet => tx[r].dependencies = Dependencies(t)
        /\ tx[r].dependenciesSet =>
             \A d \in tx[r].dependencies \ tx[r].unchecked : d \in tx[r].shared /\ Apart(d, t)
        /\ tx[r].stage # "checked" => tx[r].children = {}
        /\ tx[r].stage = "checked" => ChecksHold(r)
        /\ tx[r].stage = "accepting" => AcceptanceHolds(r)

\* A request without a transaction holds nothing.
Transacting ==
    \A r \in Requests : IF tx[r].stage = "idle" THEN tx[r] = NoTx ELSE Prepared(r)

Inv ==
    /\ Types /\ AbsentIsAlone /\ Locks /\ Transacting
    /\ HierarchyIsSound /\ NoShortDependencyCycle

------------------------------------------------------------------------------
(* Lemmas about rows and locks. *)

\* What is not reachable is not reached by one or two dependencies.
LEMMA ReachableIsWide ==
    ASSUME NEW edges, NEW d \in Tasks, NEW t \in Tasks, t \notin Reachable(edges, d)
    PROVE  /\ <<d, t>> \notin edges
           /\ \A x \in Tasks : ~(<<d, x>> \in edges /\ <<x, t>> \in edges)
  <1>1. PICK S \in SUBSET Tasks :
             /\ \A a, b \in Tasks : <<a, b>> \in edges /\ (a = d \/ a \in S) => b \in S
             /\ t \notin S
    BY DEF Reachable
  <1> QED
    BY <1>1

\* A transaction that runs is on a Task; an idle request holds nothing.
LEMMA Holdings ==
    ASSUME Types, Transacting, NEW r \in Requests
    PROVE  /\ tx[r].stage = "idle" => /\ tx[r].task = NoTask /\ tx[r].shared = {}
                                      /\ tx[r].children = {}
           /\ tx[r].stage # "idle" => tx[r].task \in Tasks /\ Prepared(r)
  BY DEF Transacting, NoTx, Prepared

\* A step that changes the transaction of one request alone keeps the invariant if
\* that transaction may rely on what it has found and its locks exclude.
LEMMA OneTransaction ==
    ASSUME Inv, NEW r \in Requests, NEW new \in Transactions,
           tx' = [tx EXCEPT ![r] = new], UNCHANGED <<task, dependency>>,
           IF new.stage = "idle" THEN new = NoTx ELSE Prepared(r)',
           \A t \in new.shared \cup new.children : Exists(t),
           \A q \in Requests \ {r} : Excluded(r, q)' /\ Excluded(q, r)'
    PROVE  Inv'
  <1>1. Types'
    BY DEF Inv, Types
  <1>2. tx'[r] = new /\ \A q \in Requests \ {r} : tx'[q] = tx[q]
    BY DEF Inv, Types
  <1>3. AbsentIsAlone' /\ HierarchyIsSound' /\ NoShortDependencyCycle'
    BY DEF Inv, AbsentIsAlone, HierarchyIsSound, NoShortDependencyCycle, Exists
  <1>4. Locks'
    <2>1. \A q \in Requests : \A t \in (tx[q].shared \cup tx[q].children)' : Exists(t)'
      BY <1>2 DEF Inv, Locks, Exists
    <2>2. ASSUME NEW p \in Requests \ {r}, NEW q \in Requests \ {r}, p # q
          PROVE  Excluded(p, q)'
      BY <1>2, <2>2 DEF Inv, Locks, Excluded, Exclusive, Held
    <2> QED
      BY <2>1, <2>2 DEF Locks
  <1>5. Transacting'
    <2>1. ASSUME NEW q \in Requests \ {r}
          PROVE  IF tx'[q].stage = "idle" THEN tx'[q] = NoTx ELSE Prepared(q)'
      <3>1. tx'[q] = tx[q]
        BY <1>2
      <3>2. Prepared(q) = Prepared(q)'
        BY <3>1 DEF Prepared, ChecksHold, ParentHolds, MovedChildren, Children, Apart,
                    AcceptanceHolds, Dependencies, Closed, Exists
      <3> QED
        BY <3>1, <3>2 DEF Inv, Transacting
    <2> QED
      BY <1>2, <2>1 DEF Transacting
  <1> QED
    BY <1>1, <1>3, <1>4, <1>5 DEF Inv

\* Two transactions exclude each other if neither holds what the other holds exclusively.
LEMMA Exclusion ==
    ASSUME NEW r, NEW q, tx'[q] = tx[q],
           \A t \in Exclusive(r)' : t \in Tasks => t \notin Held(q),
           \A t \in Held(r)' : t \in Tasks => t \notin Exclusive(q)
    PROVE  Excluded(r, q)' /\ Excluded(q, r)'
  <1>1. Exclusive(q)' = Exclusive(q) /\ Held(q)' = Held(q)
    BY DEF Exclusive, Held
  <1> QED
    BY <1>1 DEF Excluded

------------------------------------------------------------------------------
(* The steps of a transaction up to its commit. *)

\* A transaction that begins holds its own Task, which nobody else holds.
LEMMA Opened ==
    ASSUME Inv, NEW r \in Requests, NEW t \in Tasks, NEW milestone \in Places,
           NEW parent \in (Tasks \ {t}) \cup {NoTask}, NEW ds \in SUBSET (Tasks \ {t}),
           NEW set \in BOOLEAN, NEW unchecked \in {ds, {}}, NEW new,
           new = [NoTx EXCEPT !.stage = FirstStage(parent), !.task = t,
                     !.parent = parent, !.milestone = milestone, !.dependenciesSet = set,
                     !.dependencies = ds, !.unchecked = unchecked],
           tx' = [tx EXCEPT ![r] = new], UNCHANGED <<task, dependency>>,
           IF set THEN unchecked = ds ELSE ds = Dependencies(t),
           \A q \in Requests \ {r} : t \notin Held(q)
    PROVE  Inv'
  <1>1. /\ new.stage = FirstStage(parent) /\ new.task = t /\ new.parent = parent
        /\ new.dependenciesSet = set /\ new.dependencies = ds /\ new.unchecked = unchecked
        /\ new.shared = {} /\ new.children = {}
        /\ new \in Transactions
    BY Zenon DEF NoTx, FirstStage, Transactions
  <1>2. tx'[r] = new /\ \A q \in Requests \ {r} : tx'[q] = tx[q]
    BY DEF Inv, Types
  <1>3. new.stage \in {"parent", "dependencies"} /\ (new.stage = "parent" <=> parent # NoTask)
    BY <1>1 DEF FirstStage
  <1>4. Prepared(r)'
    <2>1. t \in Tasks /\ t # parent /\ t \notin ds
      BY NoTaskAssumption
    <2>2. set => unchecked = ds
      OBVIOUS
    <2>3. ~set => ds = Dependencies(t)'
      BY DEF Dependencies
    <2> QED
      BY <1>1, <1>2, <1>3, <2>1, <2>2, <2>3, ZenonT(30) DEF Prepared
  <1>5. Exclusive(r)' = {t} /\ Held(r)' = {t}
    BY <1>1, <1>2, Zenon DEF Exclusive, Held
  <1>6. \A q \in Requests \ {r} : Excluded(r, q)' /\ Excluded(q, r)'
    BY <1>2, <1>5, Exclusion DEF Held
  <1> QED
    BY <1>1, <1>3, <1>4, <1>6, OneTransaction, Zenon

\* A Task that is created is in nobody's hands, and UpdateTask waits for its row.
LEMMA BeginStep ==
    ASSUME Inv, NEW r \in Requests, Begin(r)
    PROVE  Inv'
  <1>1. ASSUME NEW t \in Tasks, NEW milestone \in Places,
               NEW parent \in (Tasks \ {t}) \cup {NoTask}, NEW ds \in SUBSET (Tasks \ {t}),
               CreateTask(r, t, parent, milestone, ds)
        PROVE  Inv'
    <2>1. \A q \in Requests : t \notin Held(q)
      BY <1>1 DEF CreateTask, Inv, Locks, Held, Exclusive
    <2> QED
      BY <1>1, <2>1, Opened, Zenon DEF CreateTask
  <1>2. ASSUME NEW t \in Tasks, NEW milestone \in Places,
               NEW parent \in (Tasks \ {t}) \cup {NoTask}, NEW ds \in SUBSET (Tasks \ {t}),
               NEW set \in BOOLEAN, UpdateTask(r, t, parent, milestone, set, ds)
        PROVE  Inv'
    <2>1. (IF set THEN ds ELSE {}) \in {ds, {}}
      OBVIOUS
    <2> QED
      BY <1>2, <2>1, Opened, Zenon DEF UpdateTask, ForUpdate
  <1> QED
    BY <1>1, <1>2 DEF Begin

\* The parent is locked for share before it is tested.
LEMMA ParentStep ==
    ASSUME Inv, NEW r \in Requests, validateParentAssignment(r)
    PROVE  Inv'
  <1> DEFINE new == [tx[r] EXCEPT !.stage = "dependencies", !.shared = {tx[r].parent}]
  <1>1. tx[r] \in Transactions /\ tx[r].stage = "parent" /\ Prepared(r) /\ tx[r].parent \in Tasks
    BY DEF validateParentAssignment, Inv, Types, Transacting, Prepared, Transactions
  <1>2. /\ new.stage = "dependencies" /\ new.task = tx[r].task /\ new.parent = tx[r].parent
        /\ new.dependenciesSet = tx[r].dependenciesSet /\ new.dependencies = tx[r].dependencies
        /\ new.unchecked = tx[r].unchecked
        /\ new.shared = {tx[r].parent} /\ new.children = tx[r].children
        /\ new \in Transactions
    BY <1>1, Zenon DEF Transactions
  <1>3. tx' = [tx EXCEPT ![r] = new] /\ UNCHANGED <<task, dependency>>
    BY Zenon DEF validateParentAssignment, Inv, Types, Transactions
  <1> HIDE DEF new
  <1>4. tx'[r] = new /\ \A q \in Requests \ {r} : tx'[q] = tx[q]
    BY <1>3 DEF Inv, Types
  <1>5. Prepared(r)' /\ new.stage # "idle"
    BY <1>1, <1>2, <1>3, <1>4 DEF Prepared, Dependencies
  <1>6. \A q \in Requests \ {r} : Excluded(r, q)' /\ Excluded(q, r)'
    <2>1. Exclusive(r)' = Exclusive(r) /\ Held(r)' = Exclusive(r) \cup {tx[r].parent}
      BY <1>2, <1>4 DEF Exclusive, Held
    <2>2. TAKE q \in Requests \ {r}
    <2>3. Excluded(r, q) /\ Excluded(q, r) /\ tx[r].parent \notin Exclusive(q)
      BY DEF Inv, Locks, validateParentAssignment, ForShare
    <2> QED
      BY <1>4, <2>1, <2>3, Exclusion DEF Excluded, Held
  <1>7. \A t \in new.shared \cup new.children : Exists(t)
    BY <1>1, <1>2 DEF validateParentAssignment, ParentAssignable, Prepared
  <1> QED
    BY <1>2, <1>3, <1>5, <1>6, <1>7, OneTransaction, Zenon

\* A dependency is locked for share before the search for a cycle.
LEMMA DependencyStep ==
    ASSUME Inv, NEW r \in Requests, NEW d \in Tasks, validateDependencyAssignment(r, d)
    PROVE  Inv'
  <1> DEFINE new == [tx[r] EXCEPT !.unchecked = @ \ {d}, !.shared = @ \cup {d}]
  <1>1. tx[r] \in Transactions /\ tx[r].stage = "dependencies" /\ Prepared(r)
    BY DEF validateDependencyAssignment, Inv, Types, Transacting
  <1>2. /\ new.stage = tx[r].stage /\ new.task = tx[r].task /\ new.parent = tx[r].parent
        /\ new.dependenciesSet = tx[r].dependenciesSet /\ new.dependencies = tx[r].dependencies
        /\ new.unchecked = tx[r].unchecked \ {d}
        /\ new.shared = tx[r].shared \cup {d} /\ new.children = tx[r].children
        /\ new \in Transactions
    BY <1>1, Zenon DEF Transactions
  <1>3. tx' = [tx EXCEPT ![r] = new] /\ UNCHANGED <<task, dependency>>
    BY Zenon DEF validateDependencyAssignment, Inv, Types, Transactions
  <1> HIDE DEF new
  <1>4. tx'[r] = new /\ \A q \in Requests \ {r} : tx'[q] = tx[q]
    BY <1>3 DEF Inv, Types
  <1>5. Apart(d, tx[r].task)
    BY <1>1, ReachableIsWide DEF validateDependencyAssignment, DependencyAssignable, Apart, Prepared
  <1>6. Prepared(r)' /\ new.stage # "idle"
    BY <1>1, <1>2, <1>3, <1>4, <1>5 DEF Prepared, Dependencies, Apart
  <1>7. \A q \in Requests \ {r} : Excluded(r, q)' /\ Excluded(q, r)'
    <2>1. Exclusive(r)' = Exclusive(r) /\ Held(r)' = Held(r) \cup {d}
      BY <1>2, <1>4 DEF Exclusive, Held
    <2>2. TAKE q \in Requests \ {r}
    <2>3. Excluded(r, q) /\ Excluded(q, r) /\ d \notin Exclusive(q)
      BY DEF Inv, Locks, validateDependencyAssignment, ForShare
    <2> QED
      BY <1>4, <2>1, <2>3, Exclusion DEF Excluded
  <1>8. \A t \in new.shared \cup new.children : Exists(t)
    BY <1>2 DEF validateDependencyAssignment, DependencyAssignable, Inv, Locks
  <1> QED
    BY <1>2, <1>3, <1>6, <1>7, <1>8, OneTransaction, Zenon

\* A transaction that gives up leaves nothing behind.
LEMMA RollbackStep ==
    ASSUME Inv, NEW r \in Requests, Rollback(r)
    PROVE  Inv'
  <1>1. NoTx \in Transactions /\ NoTx.stage = "idle"
    BY DEF NoTx, Transactions, Places
  <1>2. NoTx.shared = {} /\ NoTx.children = {} /\ NoTx.task = NoTask
    BY DEF NoTx
  <1>3. tx' = [tx EXCEPT ![r] = NoTx] /\ UNCHANGED <<task, dependency>>
    BY DEF Rollback
  <1>4. tx'[r] = NoTx /\ \A q \in Requests \ {r} : tx'[q] = tx[q]
    BY <1>3 DEF Inv, Types
  <1>5. \A q \in Requests \ {r} : Excluded(r, q)' /\ Excluded(q, r)'
    BY <1>2, <1>4, NoTaskAssumption DEF Excluded, Exclusive, Held
  <1> QED
    BY <1>1, <1>2, <1>3, <1>5, OneTransaction, Zenon

\* The rows and dependencies a transaction is going to write.
LEMMA Written ==
    ASSUME Types, NEW r \in Requests, NEW t, t \in Tasks, t = tx[r].task
    PROVE  /\ WrittenTask(r)[t].phase = IF Exists(t) THEN task[t].phase ELSE "backlog"
           /\ WrittenTask(r)[t].parent = tx[r].parent
           /\ WrittenTask(r)[t].milestone = tx[r].milestone
           /\ \A x \in Tasks \ {t} :
                /\ WrittenTask(r)[x].parent = task[x].parent
                /\ WrittenTask(r)[x].phase = task[x].phase
                /\ WrittenTask(r)[x].milestone = IF x \in MovedChildren(r) THEN tx[r].milestone
                                                                           ELSE task[x].milestone
           /\ \A x, y \in Tasks :
                <<x, y>> \in WrittenDependency(r)
                   <=> IF x = t THEN y \in tx[r].dependencies ELSE <<x, y>> \in dependency
           /\ WrittenTask(r) \in [Tasks -> TaskRows]
           /\ WrittenDependency(r) \subseteq Tasks \X Tasks
  <1>1. task \in [Tasks -> TaskRows] /\ tx[r] \in Transactions /\ dependency \subseteq Tasks \X Tasks
    BY DEF Types
  <1>2. \A x \in Tasks : task[x] \in TaskRows
    BY <1>1
  <1>3. ASSUME NEW x \in Tasks
        PROVE  WrittenTask(r)[x] =
                 IF x = t
                 THEN [phase |-> IF Exists(t) THEN task[t].phase ELSE "backlog",
                       parent |-> tx[r].parent, milestone |-> tx[r].milestone,
                       archived |-> task[t].archived]
                 ELSE IF x \in MovedChildren(r) THEN [task[x] EXCEPT !.milestone = tx[r].milestone]
                 ELSE task[x]
    BY DEF WrittenTask
  <1>4. ASSUME NEW x \in Tasks \ {t}
        PROVE  /\ WrittenTask(r)[x].parent = task[x].parent
               /\ WrittenTask(r)[x].phase = task[x].phase
               /\ WrittenTask(r)[x].milestone = IF x \in MovedChildren(r) THEN tx[r].milestone
                                                                          ELSE task[x].milestone
               /\ WrittenTask(r)[x] \in TaskRows
    <2>1. task[x] \in TaskRows /\ tx[r].milestone \in Places
      BY <1>1, <1>2 DEF Transactions
    <2>2. CASE x \in MovedChildren(r)
      <3>1. WrittenTask(r)[x] = [task[x] EXCEPT !.milestone = tx[r].milestone]
        BY <1>3, <2>2
      <3> QED
        BY <2>1, <2>2, <3>1 DEF TaskRows
    <2>3. CASE x \notin MovedChildren(r)
      BY <1>3, <2>1, <2>3, Zenon
    <2> QED
      BY <2>2, <2>3
  <1>5. /\ WrittenTask(r)[t].phase = IF Exists(t) THEN task[t].phase ELSE "backlog"
        /\ WrittenTask(r)[t].parent = tx[r].parent
        /\ WrittenTask(r)[t].milestone = tx[r].milestone
        /\ WrittenTask(r)[t] \in TaskRows
    <2>1. task[t] \in TaskRows /\ tx[r].milestone \in Places /\ tx[r].parent \in Tasks \cup {NoTask}
      BY <1>1, <1>2 DEF Transactions
    <2>2. WrittenTask(r)[t] = [phase |-> IF Exists(t) THEN task[t].phase ELSE "backlog",
                               parent |-> tx[r].parent, milestone |-> tx[r].milestone,
                               archived |-> task[t].archived]
      BY <1>3, Zenon
    <2> QED
      BY <2>1, <2>2 DEF TaskRows
  <1>6. WrittenTask(r) \in [Tasks -> TaskRows]
    BY <1>4, <1>5 DEF WrittenTask
  <1>7. ASSUME NEW x \in Tasks, NEW y \in Tasks
        PROVE  <<x, y>> \in WrittenDependency(r)
                   <=> IF x = t THEN y \in tx[r].dependencies ELSE <<x, y>> \in dependency
    <2>1. <<x, y>> \in {e \in dependency : e[1] # t} <=> <<x, y>> \in dependency /\ x # t
      OBVIOUS
    <2>2. <<x, y>> \in {<<t, d>> : d \in tx[r].dependencies} <=> x = t /\ y \in tx[r].dependencies
      OBVIOUS
    <2> QED
      BY <2>1, <2>2 DEF WrittenDependency
  <1>8. WrittenDependency(r) \subseteq Tasks \X Tasks
    <2>1. tx[r].dependencies \subseteq Tasks
      BY <1>1 DEF Transactions
    <2>2. {<<t, d>> : d \in tx[r].dependencies} \subseteq Tasks \X Tasks
      BY <2>1
    <2> QED
      BY <1>1, <2>2 DEF WrittenDependency
  <1> QED
    BY <1>4, <1>5, <1>6, <1>7, <1>8

\* The triggers test what the transaction relies on until its change is visible.
LEMMA WriteStep ==
    ASSUME Inv, NEW r \in Requests, Write(r)
    PROVE  Inv'
  <1> DEFINE new == [tx[r] EXCEPT !.stage = "checked", !.children = MovedChildren(r)]
             t == tx[r].task
             parent == tx[r].parent
  <1>1. tx[r] \in Transactions /\ tx[r].stage = "dependencies" /\ Prepared(r) /\ tx[r].unchecked = {}
    BY DEF Write, Inv, Types, Transacting
  <1>2. MovedChildren(r) \subseteq Tasks
    BY DEF MovedChildren, Children
  <1>3. /\ new.stage = "checked" /\ new.task = t /\ new.parent = parent
        /\ new.milestone = tx[r].milestone
        /\ new.dependenciesSet = tx[r].dependenciesSet /\ new.dependencies = tx[r].dependencies
        /\ new.unchecked = tx[r].unchecked
        /\ new.shared = tx[r].shared /\ new.children = MovedChildren(r)
        /\ new \in Transactions
    BY <1>1, <1>2, Zenon DEF Transactions
  <1>4. tx' = [tx EXCEPT ![r] = new] /\ UNCHANGED <<task, dependency>>
    BY Zenon DEF Write, Inv, Types, Transactions
  <1> HIDE DEF new
  <1>5. tx'[r] = new /\ \A q \in Requests \ {r} : tx'[q] = tx[q]
    BY <1>4 DEF Inv, Types
  <1>6. t \in Tasks /\ t # parent /\ t \notin tx[r].dependencies /\ parent \in Tasks \cup {NoTask}
        /\ tx[r].dependencies \subseteq Tasks
    BY <1>1 DEF Prepared, Transactions
  <1>7. task[t].parent # t
    BY <1>6, NoTaskAssumption, Zenon DEF Inv, HierarchyIsSound
  <1> DEFINE rows == WrittenTask(r)
             edges == WrittenDependency(r)
  <1>8a. /\ rows[t].parent = parent /\ rows[t].milestone = tx[r].milestone
         /\ \A x \in Tasks \ {t} :
                /\ rows[x].parent = task[x].parent
                /\ rows[x].milestone = IF x \in MovedChildren(r) THEN tx[r].milestone
                                                                 ELSE task[x].milestone
         /\ \A x, y \in Tasks :
                <<x, y>> \in edges <=> IF x = t THEN y \in tx[r].dependencies ELSE <<x, y>> \in dependency
    <2>1. Types
      BY DEF Inv
    <2> QED
      BY <1>6, <2>1, Written
  <1>8b. validate_task_relationships(r) /\ validate_task_dependency(r)
    BY DEF Write
  <1>8. parent # NoTask => ParentHolds(r)
    <2>0. SUFFICES ASSUME parent # NoTask PROVE ParentHolds(r)
      BY Zenon
    <2>2. /\ rows[parent].parent = NoTask
          /\ \A c \in Tasks : rows[c].parent # t
          /\ rows[parent].milestone = tx[r].milestone
          /\ <<t, parent>> \notin edges /\ <<parent, t>> \notin edges
      BY <1>8a, <1>8b, <2>0 DEF validate_task_relationships
    <2> HIDE DEF rows, edges
    <2>3. parent \in Tasks \ {t}
      BY <1>6, <2>0
    <2>4. task[parent].parent = NoTask
      BY <1>8a, <2>2, <2>3
    <2>5. parent \notin MovedChildren(r)
      BY <1>6, <2>4, NoTaskAssumption DEF MovedChildren, Children
    <2>6. task[parent].milestone = tx[r].milestone
      BY <1>8a, <2>2, <2>3, <2>5
    <2>7. \A c \in Tasks : task[c].parent # t
      BY <1>7, <1>8a, <2>2
    <2>8. parent \notin tx[r].dependencies /\ <<parent, t>> \notin dependency
      BY <1>6, <1>8a, <2>2, <2>3
    <2>9. parent \in tx[r].shared
      BY <1>1, <2>0 DEF Prepared
    <2> QED
      BY <2>4, <2>6, <2>7, <2>8, <2>9 DEF ParentHolds, Children
  <1>9. \A d \in tx[r].dependencies : task[d].parent # t
    <2>1. CASE tx[r].dependenciesSet
      BY <1>6, <1>8a, <1>8b, <2>1 DEF validate_task_dependency
    <2>2. CASE ~tx[r].dependenciesSet
      BY <1>1, <1>6, <2>2, NoTaskAssumption, Zenon DEF Prepared, Dependencies, Inv, HierarchyIsSound
    <2> QED
      BY <2>1, <2>2
  <1>10. ChecksHold(r)'
    <2>1. MovedChildren(r)' = MovedChildren(r)
      BY <1>3, <1>4, <1>5 DEF MovedChildren, Children
    <2>2. ParentHolds(r) => ParentHolds(r)'
      BY <1>3, <1>4, <1>5 DEF ParentHolds, Children
    <2> QED
      BY <1>1, <1>3, <1>4, <1>5, <1>8, <1>9, <2>1, <2>2 DEF ChecksHold
  <1>11. Prepared(r)'
    BY <1>1, <1>3, <1>4, <1>5, <1>10 DEF Prepared, Dependencies, Apart
  <1>12. \A q \in Requests \ {r} : Excluded(r, q)' /\ Excluded(q, r)'
    <2>1. /\ Exclusive(r)' = {t} \cup MovedChildren(r)
          /\ Held(r)' = {t} \cup MovedChildren(r) \cup tx[r].shared
      BY <1>3, <1>5 DEF Exclusive, Held
    <2>2. TAKE q \in Requests \ {r}
    <2>3. Excluded(r, q) /\ Excluded(q, r) /\ \A c \in MovedChildren(r) : c \notin Held(q)
      BY DEF Inv, Locks, Write, ForUpdate
    <2> QED
      BY <1>5, <2>1, <2>3, Exclusion DEF Excluded, Held, Exclusive
  <1>13. \A x \in new.shared \cup new.children : Exists(x)
    <2>1. \A c \in MovedChildren(r) : Exists(c)
      BY <1>6, NoTaskAssumption, Zenon DEF MovedChildren, Children, Inv, AbsentIsAlone
    <2> QED
      BY <1>3, <2>1 DEF Inv, Locks
  <1> QED
    BY <1>3, <1>4, <1>11, <1>12, <1>13, OneTransaction, Zenon

------------------------------------------------------------------------------
(* The steps that change rows. *)

\* A transaction may go on relying on what it has found while the rows it holds keep
\* their place and their dependencies, its own Task gains neither a child nor a
\* dependent, and what is closed stays closed.
LEMMA OtherKeeps ==
    ASSUME Inv, NEW q \in Requests, tx'[q] = tx[q], tx[q].stage # "idle",
           \A x \in Tasks : x \in Held(q) =>
              /\ task'[x].parent = task[x].parent /\ task'[x].milestone = task[x].milestone
              /\ task'[x].phase = task[x].phase
              /\ \A y \in Tasks : <<x, y>> \in dependency' <=> <<x, y>> \in dependency,
           \A x \in Tasks :
              /\ task'[x].parent = tx[q].task => task[x].parent = tx[q].task
              /\ <<x, tx[q].task>> \in dependency' => <<x, tx[q].task>> \in dependency
              /\ Closed(x) => Closed(x)'
    PROVE  Prepared(q)'
  <1> DEFINE u == tx[q].task
  <1>1. Prepared(q) /\ tx[q] \in Transactions /\ tx'[q] = tx[q]
    BY Zenon DEF Inv, Transacting, Types
  <1>2. u \in Tasks /\ u \in Held(q) /\ tx[q].shared \subseteq Tasks /\ tx[q].children \subseteq Tasks
        /\ tx[q].dependencies \subseteq Tasks
        /\ \A x \in tx[q].shared \cup tx[q].children : x \in Held(q)
    BY <1>1, Zenon DEF Prepared, Transactions, Held, Exclusive
  <1> HIDE DEF u
  <1>3. Dependencies(u)' = Dependencies(u)
    BY <1>2 DEF u, Dependencies
  <1>4. \A d \in tx[q].shared : Apart(d, u) => Apart(d, u)'
    BY <1>2, Zenon DEF u, Apart
  <1>5. ASSUME tx[q].stage = "checked" PROVE ChecksHold(q)'
    <2>1. ChecksHold(q)
      BY <1>1, <1>5 DEF Prepared
    <2>2. Children(u)' \subseteq Children(u)
      BY Zenon DEF u, Children
    <2>3. MovedChildren(q)' = MovedChildren(q)
      <3>1. /\ task'[u].parent = task[u].parent /\ task'[u].milestone = task[u].milestone
        BY <1>2
      <3>2. CASE task[u].parent = NoTask /\ task[u].milestone # tx[q].milestone
        <4>1. Children(u) = tx[q].children
          BY <2>1, <3>2 DEF ChecksHold, MovedChildren, u
        <4>2. Children(u) \subseteq Children(u)'
          BY <1>1, <1>2, <4>1 DEF Children, u
        <4>2a. Children(u)' = Children(u)
          BY <2>2, <4>2 DEF Children
        <4>3. MovedChildren(q) = Children(u)
          BY <3>2, Zenon DEF MovedChildren, u
        <4>4. MovedChildren(q)' = Children(u)'
          BY <1>1, <3>1, <3>2, Zenon DEF MovedChildren, u
        <4> QED
          BY <4>2a, <4>3, <4>4, Zenon
      <3>3. CASE ~(task[u].parent = NoTask /\ task[u].milestone # tx[q].milestone)
        BY <1>1, <3>1, <3>3, Zenon DEF MovedChildren, u
      <3> QED
        BY <3>2, <3>3
    <2>4. tx[q].parent # NoTask => ParentHolds(q)'
      <3>1. SUFFICES ASSUME tx[q].parent # NoTask PROVE ParentHolds(q)'
        OBVIOUS
      <3>2. ParentHolds(q)
        BY <2>1, <3>1, Zenon DEF ChecksHold
      <3>3. tx[q].parent \in Tasks /\ tx[q].parent \in Held(q)
        BY <1>2, <3>2, Zenon DEF ParentHolds
      <3>4. Children(u)' = {}
        BY <2>2, <3>2 DEF ParentHolds, u
      <3> QED
        BY <1>1, <3>2, <3>3, <3>4 DEF ParentHolds, u
    <2>5. \A d \in tx[q].dependencies : task'[d].parent # u
      BY <1>2, <2>1, Zenon DEF ChecksHold, u
    <2> QED
      BY <1>1, <2>1, <2>3, <2>4, <2>5 DEF ChecksHold, u
  <1>6. ASSUME tx[q].stage = "accepting" PROVE AcceptanceHolds(q)'
    <2>1. AcceptanceHolds(q)
      BY <1>1, <1>6 DEF Prepared
    <2> QED
      BY <1>1, <1>2, <2>1, Zenon DEF AcceptanceHolds, Exists, u
  <1> QED
    BY <1>1, <1>3, <1>4, <1>5, <1>6, Zenon DEF Prepared, u

\* The phase and the archive flag of one row change; the transactions in ending, which
\* end with the change, are the only ones that hold it.
LEMMA RowStep ==
    ASSUME Inv, NEW t \in Tasks, NEW phase \in {"backlog", "ready", "in_progress", "closed"},
           NEW archived \in BOOLEAN, NEW ending \in SUBSET Requests,
           Exists(t), Closed(t) => phase = "closed",
           task' = [task EXCEPT ![t].phase = phase, ![t].archived = archived],
           dependency' = dependency,
           tx' = [q \in Requests |-> IF q \in ending THEN NoTx ELSE tx[q]],
           \A q \in Requests \ ending : t \notin Held(q)
    PROVE  Inv'
  <1>1. /\ \A x \in Tasks \ {t} : task'[x] = task[x]
        /\ task'[t].phase = phase /\ task'[t].parent = task[t].parent
        /\ task'[t].milestone = task[t].milestone
        /\ task' \in [Tasks -> TaskRows]
    <2>1. task \in [Tasks -> TaskRows] /\ task[t] \in TaskRows
      BY DEF Inv, Types
    <2>2. task' = [task EXCEPT ![t] = [task[t] EXCEPT !.phase = phase, !.archived = archived]]
      BY <2>1, Zenon DEF TaskRows
    <2>3. [task[t] EXCEPT !.phase = phase, !.archived = archived] \in TaskRows
      BY <2>1, Zenon DEF TaskRows
    <2> QED
      BY <2>1, <2>2, <2>3 DEF TaskRows
  <1>2. /\ \A q \in ending : tx'[q] = NoTx
        /\ \A q \in Requests \ ending : tx'[q] = tx[q]
    OBVIOUS
  <1>3. \A x \in Tasks : /\ task'[x].parent = task[x].parent /\ task'[x].milestone = task[x].milestone
                         /\ Exists(x)' = Exists(x) /\ (Closed(x) => Closed(x)')
    BY <1>1 DEF Exists, Closed
  <1>4. /\ NoTx.stage = "idle" /\ NoTx.shared = {} /\ NoTx.children = {} /\ NoTx.task = NoTask
        /\ NoTx \in Transactions
    BY Zenon DEF NoTx, Transactions, Places
  <1>5. Types'
    <2>1. tx' \in [Requests -> Transactions]
      BY <1>4 DEF Inv, Types
    <2> QED
      BY <1>1, <2>1, Zenon DEF Inv, Types
  <1>6. AbsentIsAlone' /\ NoShortDependencyCycle'
    BY <1>3, Zenon DEF Inv, AbsentIsAlone, NoShortDependencyCycle
  <1>7. HierarchyIsSound'
    <2>1. \A x \in Tasks : task[x].parent \in Tasks \cup {NoTask}
      BY DEF Inv, Types, TaskRows
    <2>2. ASSUME NEW c \in Tasks, NEW p, p = task'[c].parent, p # NoTask
          PROVE  /\ Exists(p)' /\ task'[p].parent = NoTask
                 /\ task'[p].milestone = task'[c].milestone
                 /\ <<c, p>> \notin dependency' /\ <<p, c>> \notin dependency'
      <3>1. p = task[c].parent /\ p \in Tasks
        BY <1>3, <2>1, <2>2
      <3>2. /\ Exists(p) /\ task[p].parent = NoTask
            /\ task[p].milestone = task[c].milestone
            /\ <<c, p>> \notin dependency /\ <<p, c>> \notin dependency
        BY <2>2, <3>1, Zenon DEF Inv, HierarchyIsSound
      <3> QED
        BY <1>3, <3>1, <3>2, Zenon
    <2> QED
      BY <2>2, Zenon DEF HierarchyIsSound
  <1>8. Locks'
    <2>1. \A q \in Requests : tx[q].shared \subseteq Tasks /\ tx[q].children \subseteq Tasks
      BY Zenon DEF Inv, Types, Transactions
    <2>2. ASSUME NEW q \in Requests, NEW x \in tx'[q].shared \cup tx'[q].children PROVE Exists(x)'
      BY <1>2, <1>3, <1>4, <2>1, <2>2 DEF Inv, Locks
    <2>3. ASSUME NEW p \in Requests, NEW q \in Requests, p # q PROVE Excluded(p, q)'
      <3>1. CASE p \in ending \/ q \in ending
        BY <1>2, <1>4, <3>1, NoTaskAssumption DEF Excluded, Exclusive, Held
      <3>2. CASE p \notin ending /\ q \notin ending
        BY <1>2, <2>3, <3>2 DEF Inv, Locks, Excluded, Exclusive, Held
      <3> QED
        BY <3>1, <3>2
    <2> QED
      BY <2>2, <2>3 DEF Locks
  <1>9. Transacting'
    <2>1. ASSUME NEW q \in Requests \ ending, tx[q].stage # "idle" PROVE Prepared(q)'
      BY <1>1, <1>2, <1>3, <2>1, OtherKeeps
    <2> QED
      BY <1>2, <1>4, <2>1 DEF Inv, Transacting
  <1> QED
    BY <1>5, <1>6, <1>7, <1>8, <1>9 DEF Inv

\* A change of a row that no transaction holds.
LEMMA FreeRowStep ==
    ASSUME Inv, NEW t \in Tasks, NEW phase \in {"backlog", "ready", "in_progress", "closed"},
           NEW archived \in BOOLEAN, ChangeRow(t, phase, archived),
           Closed(t) => phase = "closed"
    PROVE  Inv'
  <1>1. tx' = [q \in Requests |-> IF q \in {} THEN NoTx ELSE tx[q]]
    BY DEF ChangeRow, Inv, Types
  <1>2. \A q \in Requests \ {} : t \notin Held(q)
    BY Zenon DEF ChangeRow, Unlocked
  <1>3. {} \in SUBSET Requests
    OBVIOUS
  <1> QED
    BY <1>1, <1>2, <1>3, RowStep, Zenon DEF ChangeRow

\* An acceptance has counted under the lock of its Task.
LEMMA AcceptStep ==
    ASSUME Inv, NEW r \in Requests, NEW t \in Tasks, AcceptTask(r, t)
    PROVE  Inv'
  <1> DEFINE new == [NoTx EXCEPT !.stage = "accepting", !.task = t, !.dependencies = Dependencies(t)]
  <1>1. /\ new.stage = "accepting" /\ new.task = t /\ new.parent = NoTask
        /\ new.dependenciesSet = FALSE /\ new.dependencies = Dependencies(t) /\ new.unchecked = {}
        /\ new.shared = {} /\ new.children = {}
    BY Zenon DEF NoTx
  <1>2. new \in Transactions
    BY DEF NoTx, Transactions, Places, Dependencies
  <1>3. tx' = [tx EXCEPT ![r] = new] /\ UNCHANGED <<task, dependency>>
    BY DEF AcceptTask
  <1> HIDE DEF new
  <1>4. tx'[r] = new /\ \A q \in Requests \ {r} : tx'[q] = tx[q]
    BY <1>3 DEF Inv, Types
  <1>5. AcceptanceHolds(r)'
    BY <1>1, <1>3, <1>4 DEF AcceptTask, AcceptanceHolds, Children, Dependencies, Closed, Exists
  <1>6. t \notin Dependencies(t)
    BY DEF Dependencies, Inv, NoShortDependencyCycle
  <1>7. Dependencies(t)' = Dependencies(t)
    BY <1>3 DEF Dependencies
  <1>8. Prepared(r)'
    BY <1>1, <1>4, <1>5, <1>6, <1>7, NoTaskAssumption, Zenon DEF Prepared
  <1>9. Exclusive(r)' = {t} /\ Held(r)' = {t}
    BY <1>1, <1>4, Zenon DEF Exclusive, Held
  <1>10. \A q \in Requests \ {r} : t \notin Held(q)
    BY DEF AcceptTask, Unlocked
  <1>11. \A q \in Requests \ {r} : Excluded(r, q)' /\ Excluded(q, r)'
    BY <1>4, <1>9, <1>10, Exclusion DEF Held
  <1> QED
    BY <1>1, <1>2, <1>3, <1>8, <1>11, OneTransaction, Zenon

\* The Task that an acceptance closes is held by nobody else.
LEMMA CommitAcceptanceStep ==
    ASSUME Inv, NEW r \in Requests, CommitAcceptance(r)
    PROVE  Inv'
  <1> DEFINE t == tx[r].task
  <1>1. t \in Tasks /\ tx[r].stage = "accepting"
    BY DEF CommitAcceptance, Inv, Transacting, Prepared
  <1>2. tx' = [q \in Requests |-> IF q \in {r} THEN NoTx ELSE tx[q]]
    BY DEF CommitAcceptance, Inv, Types
  <1>3. \A q \in Requests \ {r} : t \notin Held(q)
    BY <1>1 DEF Inv, Locks, Excluded, Exclusive
  <1>4. task[t] \in TaskRows
    BY <1>1 DEF Inv, Types
  <1>5. task' = [task EXCEPT ![t].phase = "closed", ![t].archived = task[t].archived]
    BY <1>1, <1>4 DEF CommitAcceptance, Inv, Types, TaskRows
  <1>6. task[t].archived \in BOOLEAN
    BY <1>4 DEF TaskRows
  <1>7. Exists(t)
    BY <1>1 DEF Inv, Transacting, Prepared, AcceptanceHolds
  <1>8. {r} \in SUBSET Requests /\ "closed" \in {"backlog", "ready", "in_progress", "closed"}
    OBVIOUS
  <1>9. dependency' = dependency
    BY DEF CommitAcceptance
  <1> HIDE DEF t
  <1> QED
    BY <1>1, <1>2, <1>3, <1>5, <1>6, <1>7, <1>8, <1>9, RowStep, Zenon

\* A transaction that has passed its checks.
CommitFacts(r, t, parent, moved, deps) ==
    /\ t = tx[r].task /\ parent = tx[r].parent /\ moved = MovedChildren(r) /\ deps = tx[r].dependencies
    /\ t \in Tasks /\ t # parent /\ t \notin deps /\ deps \subseteq Tasks
    /\ parent \in Tasks \cup {NoTask} /\ tx[r].children = moved /\ moved \subseteq Tasks
    /\ Prepared(r) /\ ChecksHold(r)
    /\ tx[r].dependenciesSet => \A d \in deps : d \in tx[r].shared /\ Apart(d, t)
    /\ ~tx[r].dependenciesSet => deps = Dependencies(t)
    /\ parent # NoTask => parent \in tx[r].shared
    /\ task'[t].phase = (IF Exists(t) THEN task[t].phase ELSE "backlog")
    /\ task'[t].parent = parent /\ task'[t].milestone = tx[r].milestone
    /\ \A x \in Tasks \ {t} :
         /\ task'[x].parent = task[x].parent /\ task'[x].phase = task[x].phase
         /\ task'[x].milestone = IF x \in moved THEN tx[r].milestone ELSE task[x].milestone
    /\ \A x, y \in Tasks :
         <<x, y>> \in dependency' <=> IF x = t THEN y \in deps ELSE <<x, y>> \in dependency

\* What a commit writes is what its transaction has checked.
LEMMA CommitWrites ==
    ASSUME Inv, NEW r \in Requests, Commit(r)
    PROVE  CommitFacts(r, tx[r].task, tx[r].parent, MovedChildren(r), tx[r].dependencies)
  <1>1. tx[r] \in Transactions /\ tx[r].stage = "checked" /\ Prepared(r) /\ ChecksHold(r)
    BY Zenon DEF Commit, Inv, Types, Transacting, Prepared
  <1>2. /\ tx[r].task \in Tasks /\ tx[r].task # tx[r].parent /\ tx[r].task \notin tx[r].dependencies
        /\ tx[r].dependencies \subseteq Tasks /\ tx[r].parent \in Tasks \cup {NoTask}
        /\ tx[r].children = MovedChildren(r) /\ MovedChildren(r) \subseteq Tasks
    BY <1>1, Zenon DEF Prepared, ChecksHold, Transactions
  <1>3. /\ tx[r].dependenciesSet =>
             \A d \in tx[r].dependencies : d \in tx[r].shared /\ Apart(d, tx[r].task)
        /\ ~tx[r].dependenciesSet => tx[r].dependencies = Dependencies(tx[r].task)
        /\ tx[r].parent # NoTask => tx[r].parent \in tx[r].shared
    BY <1>1 DEF Prepared, ChecksHold
  <1>4. Types /\ task' = WrittenTask(r) /\ dependency' = WrittenDependency(r)
    BY Zenon DEF Inv, Commit
  <1> DEFINE t == tx[r].task
  <1>5. /\ task'[t].phase = (IF Exists(t) THEN task[t].phase ELSE "backlog")
        /\ task'[t].parent = tx[r].parent /\ task'[t].milestone = tx[r].milestone
        /\ \A x \in Tasks \ {t} :
             /\ task'[x].parent = task[x].parent /\ task'[x].phase = task[x].phase
             /\ task'[x].milestone = IF x \in MovedChildren(r) THEN tx[r].milestone
                                                               ELSE task[x].milestone
        /\ \A x, y \in Tasks :
             <<x, y>> \in dependency'
                <=> IF x = t THEN y \in tx[r].dependencies ELSE <<x, y>> \in dependency
    BY <1>2, <1>4, Written
  <1> QED
    BY <1>1, <1>2, <1>3, <1>5, Zenon DEF CommitFacts

\* The committed parent and the moved children keep the hierarchy sound.
LEMMA CommitHierarchy ==
    ASSUME Inv, NEW r \in Requests, NEW t, NEW parent, NEW moved, NEW deps,
           CommitFacts(r, t, parent, moved, deps)
    PROVE  HierarchyIsSound'
  <1>1. SUFFICES ASSUME NEW c \in Tasks, NEW p, p = task'[c].parent, p # NoTask
                 PROVE  /\ Exists(p)' /\ task'[p].parent = NoTask
                        /\ task'[p].milestone = task'[c].milestone
                        /\ <<c, p>> \notin dependency' /\ <<p, c>> \notin dependency'
    BY DEF HierarchyIsSound
  <1>2. \A x \in Tasks : task[x].parent \in Tasks \cup {NoTask}
    BY Zenon DEF Inv, Types, TaskRows
  <1>3. CASE c = t
    <2>1. p = parent /\ p \in Tasks /\ p # t /\ p \in tx[r].shared /\ ParentHolds(r)
      BY <1>1, <1>3, Zenon DEF CommitFacts, ChecksHold
    <2>2. /\ p \notin deps /\ task[p].parent = NoTask /\ task[p].milestone = tx[r].milestone
          /\ <<p, t>> \notin dependency
      BY <2>1, Zenon DEF ParentHolds, CommitFacts
    <2>3. p \notin moved
      BY <2>2, NoTaskAssumption, Zenon DEF CommitFacts, MovedChildren, Children
    <2>4. Exists(p)
      BY <2>1, Zenon DEF Inv, Locks
    <2> QED
      BY <1>3, <2>1, <2>2, <2>3, <2>4, Zenon DEF CommitFacts, Exists
  <1>4. CASE c # t /\ p = t
    <2>1. task[c].parent = t /\ t \in Tasks
      BY <1>1, <1>4, Zenon DEF CommitFacts
    <2>2. parent = NoTask
      BY <2>1, Zenon DEF CommitFacts, ChecksHold, ParentHolds, Children
    <2>3. /\ task[t].parent = NoTask /\ task[t].milestone = task[c].milestone
          /\ <<c, t>> \notin dependency
      BY <1>1, <1>4, <2>1, Zenon DEF Inv, HierarchyIsSound
    <2>4. task'[c].milestone = tx[r].milestone
      <3>1. CASE task[t].milestone = tx[r].milestone
        BY <1>4, <2>3, <3>1, Zenon DEF CommitFacts
      <3>2. CASE task[t].milestone # tx[r].milestone
        <4>1. c \in moved
          BY <2>1, <2>3, <3>2 DEF CommitFacts, MovedChildren, Children
        <4> QED
          BY <1>4, <4>1, Zenon DEF CommitFacts
      <3> QED
        BY <3>1, <3>2
    <2>5. c \notin deps
      BY <2>1, Zenon DEF CommitFacts, ChecksHold
    <2>6. Exists(t)'
      BY Zenon DEF CommitFacts, Exists
    <2> QED
      BY <1>4, <2>2, <2>3, <2>4, <2>5, <2>6 DEF CommitFacts
  <1>5. CASE c # t /\ p # t
    <2>1. task[c].parent = p /\ p \in Tasks
      BY <1>1, <1>2, <1>5, ZenonT(30) DEF CommitFacts
    <2>2. /\ Exists(p) /\ task[p].parent = NoTask /\ task[p].milestone = task[c].milestone
          /\ <<c, p>> \notin dependency /\ <<p, c>> \notin dependency
      BY <1>1, <2>1, Zenon DEF Inv, HierarchyIsSound
    <2>3. c \notin moved /\ p \notin moved
      BY <1>1, <1>5, <2>1, <2>2, NoTaskAssumption DEF CommitFacts, MovedChildren, Children
    <2> QED
      BY <1>5, <2>1, <2>2, <2>3, Zenon DEF CommitFacts, Exists
  <1> QED
    BY <1>3, <1>4, <1>5

\* The committed dependencies close no short cycle.
LEMMA CommitDependencies ==
    ASSUME Inv, NEW r \in Requests, NEW t, NEW parent, NEW moved, NEW deps,
           CommitFacts(r, t, parent, moved, deps)
    PROVE  NoShortDependencyCycle'
  <1>1. CASE ~tx[r].dependenciesSet
    <2>1. \A x, y \in Tasks : <<x, y>> \in dependency' <=> <<x, y>> \in dependency
      BY <1>1, Zenon DEF CommitFacts, Dependencies
    <2> QED
      BY <2>1, Zenon DEF Inv, NoShortDependencyCycle
  <1>2. CASE tx[r].dependenciesSet
    <2>1. \A d \in deps : /\ <<d, t>> \notin dependency
                          /\ \A x \in Tasks : ~(<<d, x>> \in dependency /\ <<x, t>> \in dependency)
      BY <1>2 DEF CommitFacts, Apart
    <2>2. \A x, y \in Tasks :
            <<x, y>> \in dependency' <=> IF x = t THEN y \in deps ELSE <<x, y>> \in dependency
      BY Zenon DEF CommitFacts
    <2>3. t \in Tasks /\ t \notin deps /\ deps \subseteq Tasks
      BY DEF CommitFacts
    <2>4. NoShortDependencyCycle
      BY DEF Inv
    <2>5. SUFFICES ASSUME NEW a \in Tasks, NEW b \in Tasks, NEW c \in Tasks
                   PROVE  /\ <<a, a>> \notin dependency'
                          /\ ~(<<a, b>> \in dependency' /\ <<b, a>> \in dependency')
                          /\ ~(<<a, b>> \in dependency' /\ <<b, c>> \in dependency'
                                /\ <<c, a>> \in dependency')
      BY Zenon DEF NoShortDependencyCycle
    <2>6. <<a, a>> \notin dependency'
      BY <2>2, <2>3, <2>4 DEF NoShortDependencyCycle
    <2>7. ~(<<a, b>> \in dependency' /\ <<b, a>> \in dependency')
      BY <2>1, <2>2, <2>3, <2>4, Zenon DEF NoShortDependencyCycle
    <2>8. ~(<<a, b>> \in dependency' /\ <<b, c>> \in dependency' /\ <<c, a>> \in dependency')
      BY <2>1, <2>2, <2>3, <2>4, Zenon DEF NoShortDependencyCycle
    <2> QED
      BY <2>6, <2>7, <2>8, Zenon
  <1> QED
    BY <1>1, <1>2

\* A commit disturbs no transaction that is under way: they hold different rows, and
\* whoever gives a Task a new child or dependent has locked it.
LEMMA CommitStep ==
    ASSUME Inv, NEW r \in Requests, Commit(r)
    PROVE  Inv'
  <1>1. PICK t, parent, ch, ds : CommitFacts(r, t, parent, ch, ds)
    BY CommitWrites
  <1>2. HierarchyIsSound' /\ NoShortDependencyCycle'
    BY <1>1, CommitHierarchy, CommitDependencies
  <1>3. tx'[r] = NoTx /\ \A q \in Requests \ {r} : tx'[q] = tx[q]
    BY Zenon DEF Commit, Inv, Types
  <1>4. /\ NoTx.stage = "idle" /\ NoTx.shared = {} /\ NoTx.children = {} /\ NoTx.task = NoTask
        /\ NoTx \in Transactions
    BY Zenon DEF NoTx, Transactions, Places
  <1>5. Types'
    <2>1. tx' \in [Requests -> Transactions]
      BY <1>4, Zenon DEF Commit, Inv, Types
    <2>2. Types /\ tx[r].task \in Tasks
      BY <1>1, Zenon DEF CommitFacts, Inv
    <2> QED
      BY <2>1, <2>2, Written, Zenon DEF Types, Commit
  <1>6. AbsentIsAlone'
    BY <1>1, ZenonT(30) DEF Inv, AbsentIsAlone, CommitFacts, Exists
  <1>7. \A x \in Tasks : (Exists(x) => Exists(x)') /\ (Closed(x) => Closed(x)')
    BY <1>1, Zenon DEF CommitFacts, Exists, Closed
  <1>8. Locks'
    <2>1. \A q \in Requests : tx[q].shared \subseteq Tasks /\ tx[q].children \subseteq Tasks
      BY Zenon DEF Inv, Types, Transactions
    <2>2. \A q \in Requests : \A x \in (tx[q].shared \cup tx[q].children)' : Exists(x)'
      BY <1>3, <1>4, <1>7, <2>1 DEF Inv, Locks
    <2>3. ASSUME NEW p \in Requests \ {r}, NEW q \in Requests \ {r}, p # q
          PROVE  Excluded(p, q)'
      BY <1>3, <2>3 DEF Inv, Locks, Excluded, Exclusive, Held
    <2>4. Exclusive(r)' = {NoTask} /\ Held(r)' = {NoTask}
      BY <1>3, <1>4 DEF Exclusive, Held
    <2>5. ASSUME NEW q \in Requests \ {r} PROVE Excluded(r, q)' /\ Excluded(q, r)'
      BY <2>4, NoTaskAssumption, Zenon DEF Excluded
    <2> QED
      BY <2>2, <2>3, <2>5 DEF Locks
  <1>9. ASSUME NEW q \in Requests \ {r}, tx[q].stage # "idle" PROVE Prepared(q)'
    <2> DEFINE u == tx[q].task
    <2>1. u \in Tasks
      BY <1>9 DEF Inv, Transacting, Prepared
    <2>2. Excluded(r, q) /\ Excluded(q, r)
      BY Zenon DEF Inv, Locks
    <2>3. t \notin Held(q) /\ \A x \in ch : x \notin Held(q)
      BY <1>1, <2>2, Zenon DEF Excluded, CommitFacts, Exclusive
    <2>4. u \notin tx[r].shared /\ u # t
      BY <1>1, <2>1, <2>2, Zenon DEF Excluded, CommitFacts, Exclusive, Held
    <2> HIDE DEF u
    <2>5. \A x \in Tasks : x \in Held(q) =>
              /\ task'[x].parent = task[x].parent /\ task'[x].milestone = task[x].milestone
              /\ task'[x].phase = task[x].phase
              /\ \A y \in Tasks : <<x, y>> \in dependency' <=> <<x, y>> \in dependency
      BY <1>1, <2>3, Zenon DEF CommitFacts
    <2>6. \A x \in Tasks :
              /\ task'[x].parent = u => task[x].parent = u
              /\ <<x, u>> \in dependency' => <<x, u>> \in dependency
      <3>1. parent # u
        BY <1>1, <2>1, <2>4, NoTaskAssumption, Zenon DEF CommitFacts
      <3>2. u \in ds => <<t, u>> \in dependency
        BY <1>1, <2>4, Zenon DEF CommitFacts, Dependencies
      <3> QED
        BY <1>1, <2>1, <3>1, <3>2, Zenon DEF CommitFacts
    <2> QED
      BY <1>3, <1>7, <1>9, <2>5, <2>6, OtherKeeps, Zenon DEF u
  <1>10. Transacting'
    BY <1>3, <1>4, <1>9 DEF Inv, Transacting
  <1> QED
    BY <1>2, <1>5, <1>6, <1>8, <1>10 DEF Inv

------------------------------------------------------------------------------
(* The theorems. *)

\* Tasks begin without relations and nothing is locked.
LEMMA InvInit == ASSUME Init PROVE Inv
  <1>1. NoTx \in Transactions /\ NoTx.stage = "idle" /\ NoTx.shared = {} /\ NoTx.children = {}
        /\ NoTx.task = NoTask
    BY DEF NoTx, Transactions, Places
  <1>2. PICK made \in SUBSET Tasks, phase \in {"backlog", "in_progress"} :
          /\ task = [t \in Tasks |-> IF t \in made THEN NewTask(phase) ELSE Absent]
          /\ dependency \in SUBSET (made \X made)
    BY DEF Init
  <1>3. /\ NewTask(phase) \in TaskRows /\ Absent \in TaskRows
        /\ NewTask(phase).parent = NoTask /\ Absent.parent = NoTask
    BY Zenon DEF NewTask, Absent, TaskRows, Places
  <1>4. task \in [Tasks -> TaskRows] /\ \A t \in Tasks : task[t].parent = NoTask
    BY <1>2, <1>3
  <1>5. tx = [r \in Requests |-> NoTx] /\ \A t \in Tasks : <<t, t>> \notin dependency
    BY DEF Init
  <1>6. /\ dependency \subseteq Tasks \X Tasks
        /\ \A e, f \in dependency : e = f
    BY <1>2 DEF Init
  <1>7. Types /\ AbsentIsAlone /\ Transacting
    BY <1>1, <1>4, <1>5, <1>6 DEF Types, AbsentIsAlone, Transacting
  <1>8. Locks
    BY <1>1, <1>5, NoTaskAssumption DEF Locks, Excluded, Exclusive, Held
  <1>9. NoShortDependencyCycle
    BY <1>5, <1>6 DEF NoShortDependencyCycle
  <1>10. HierarchyIsSound
    BY <1>4 DEF HierarchyIsSound
  <1> QED
    BY <1>7, <1>8, <1>9, <1>10, Zenon DEF Inv

\* Every step keeps the invariant.
LEMMA InvStep == ASSUME Inv, [Next]_vars PROVE Inv'
  <1>1. ASSUME NEW r \in Requests, Step(r) PROVE Inv'
    BY <1>1, BeginStep, ParentStep, DependencyStep, WriteStep, CommitStep, AcceptStep,
       CommitAcceptanceStep DEF Step
  <1>2. ASSUME NEW r \in Requests, Rollback(r) PROVE Inv'
    BY <1>2, RollbackStep
  <1>3. ASSUME NEW t \in Tasks,
               MarkReady(t) \/ WithdrawReadiness(t) \/ Claim(t) \/ Cancel(t) \/ setArchived(t)
        PROVE  Inv'
    <2>1. task[t] \in TaskRows
      BY DEF Inv, Types
    <2>2. CASE MarkReady(t)
      BY <2>2, FreeRowStep, Zenon DEF MarkReady, Closed
    <2>3. CASE WithdrawReadiness(t)
      BY <2>1, <2>3, FreeRowStep DEF WithdrawReadiness, Closed, TaskRows
    <2>4. CASE Claim(t)
      BY <2>4, FreeRowStep, Zenon DEF Claim, Closed
    <2>5. CASE Cancel(t)
      BY <2>1, <2>5, FreeRowStep DEF Cancel, TaskRows
    <2>6. CASE setArchived(t)
      <3>1. task[t].phase \in {"backlog", "ready", "in_progress", "closed"}
            /\ (~task[t].archived) \in BOOLEAN
        BY <2>1, <2>6 DEF setArchived, ChangeRow, Exists, TaskRows
      <3> QED
        BY <2>6, <3>1, FreeRowStep, Zenon DEF setArchived, Closed
    <2> QED
      BY <1>3, <2>2, <2>3, <2>4, <2>5, <2>6
  <1>4. ASSUME UNCHANGED vars PROVE Inv'
    <2>1. task' = task /\ dependency' = dependency /\ tx' = tx
      BY <1>4, Zenon DEF vars
    <2>2. Types' /\ AbsentIsAlone' /\ HierarchyIsSound' /\ NoShortDependencyCycle'
      BY <2>1, Zenon DEF Inv, Types, AbsentIsAlone, HierarchyIsSound, NoShortDependencyCycle, Exists
    <2>3. Locks'
      BY <2>1, Zenon DEF Inv, Locks, Exists, Excluded, Exclusive, Held
    <2>4. Transacting'
      <3>1. \A x \in Tasks : Closed(x) => Closed(x)'
        BY <2>1 DEF Closed
      <3> QED
        BY <2>1, <3>1, OtherKeeps DEF Inv, Transacting
    <2> QED
      BY <2>2, <2>3, <2>4 DEF Inv
  <1> QED
    BY <1>1, <1>2, <1>3, <1>4 DEF Next

\* The inductive invariant holds throughout.
LEMMA InvAlways == Spec => []Inv
  BY InvInit, InvStep, PTL DEF Spec

\* The hierarchy of Tasks stays sound, however many updates of parents, children and
\* dependencies run side by side (CreateWithOperation, updateWithExpectedVersion).
THEOREM HierarchyStaysSound == Spec => []HierarchyIsSound
  <1>1. Inv => HierarchyIsSound
    BY DEF Inv
  <1> QED
    BY <1>1, InvAlways, PTL

\* The search for a cycle and its locks never let a cycle of up to three Tasks in
\* (validateDependencyAssignment).
THEOREM NoShortCycleIsEverClosed == Spec => []NoShortDependencyCycle
  <1>1. Inv => NoShortDependencyCycle
    BY DEF Inv
  <1> QED
    BY <1>1, InvAlways, PTL

\* A Task is completed without unfinished children and dependencies, however many
\* transactions give it new ones while AcceptTask is on its way to its commit
\* (taskCompletionReadinessForCycle).
THEOREM AcceptancesStand == Spec => []AcceptanceStands
  <1>1. Inv => AcceptanceStands
    BY DEF Inv, Transacting, Prepared, AcceptanceHolds, AcceptanceStands, Children, Dependencies
  <1> QED
    BY <1>1, InvAlways, PTL

============================================================================
