---------------------------- MODULE TaskWorkflow ----------------------------
(***************************************************************************)
(* The command-driven workflow of one Task under concurrent clients.       *)
(*                                                                         *)
(* Models internal/store/task_workflow_store.go, task_claim_commands.go,   *)
(* task_stage_claim_store.go, the code change links and the acceptance     *)
(* criteria of a Task, and the request handling of                         *)
(* internal/api/v1/task_workflow.go that surrounds them.                   *)
(*                                                                         *)
(* Every command transaction takes the row lock of the Task before it      *)
(* reads anything else, so transactions on one Task are serialised and a   *)
(* transaction is one atomic step here.  What is NOT atomic is everything  *)
(* a request does before its transaction: the client reads the Task (its   *)
(* ETag becomes the If-Match of a later command), and a Claim command      *)
(* reads the Claim it names and the code changes it delivers.  Those reads *)
(* are kept in client[r] and the transaction may run any time later.       *)
(*                                                                         *)
(* A command whose transaction is refused changes nothing: the request     *)
(* ends with Abandon, which also stands for lost connections and crashes   *)
(* (an uncommitted transaction is rolled back).                            *)
(***************************************************************************)
EXTENDS Naturals, Sequences, FiniteSets

CONSTANTS
    Clients,        \* concurrent requests (browser tabs, CLI sessions, agents)
    Actors,         \* authenticated principals
    Criteria,       \* identities of acceptance criteria that may be created
    Outcomes,       \* acceptance outcomes the clients report
    CodeChanges,    \* code changes that may be linked to the Task
    ClaimLifetime,  \* TaskClaimActiveLifetime (seven days)
    MaxVersion,     \* bound: Task versions explored
    MaxItems,       \* bound: claimed progress and submission Items explored
    MaxTime         \* bound: clock values explored

L == INSTANCE TaskLifecycle

\* The holder of a stage nobody owns.
NoActor == "nobody"

ASSUME ConstantsAssumption ==
    /\ NoActor \notin Actors
    /\ Outcomes \subseteq L!AcceptanceOutcome
    /\ ClaimLifetime \in Nat \ {0}
    /\ MaxVersion \in Nat
    /\ MaxItems \in Nat
    /\ MaxTime \in Nat

VARIABLES
    task,         \* the tasks row: version, phase, activity, review cycle, ...
    claims,       \* task_stage_claims of the Task, oldest first
    threads,      \* Issue Threads of the Task, oldest first
    criteria,     \* acceptance_criteria of the Task
    checks,       \* acceptance_checks of those criteria
    items,        \* claimed progress and work submission Items
    completions,  \* execution_completed Items with their payloads
    linked,       \* task_code_changes that are not unlinked
    audit,        \* the actor of the latest business audit event
    now,          \* the wall clock
    client        \* what each request has read so far

vars == <<task, claims, threads, criteria, checks, items, completions, linked,
          audit, now, client>>

delivery == <<checks, items, completions>>

-----------------------------------------------------------------------------
NoIssue == 0
NoClaim == 0
NoOutcome == "none"

TaskRow == [version: Nat, phase: L!TaskPhase,
            activity: L!TaskActivityState \cup {L!NoActivity},
            reviewCycle: Nat, activeIssue: Nat, archived: BOOLEAN]

TaskStageClaim == [stage: L!TaskClaimStage, owner: Actors,
                   status: L!StageClaimStatus,
                   outcome: L!TaskClaimOutcome \cup {NoOutcome},
                   version: Nat, expiresAt: Nat]

IssueThread == [status: {"open", "resolved"}, openedFromPhase: L!TaskPhase,
                version: Nat]

AcceptanceCriterion == [state: {"absent", "active", "archived", "deleted"},
                        revision: Nat, version: Nat]

AcceptanceCheck == [criterion: Criteria, revision: Nat,
                    outcome: L!AcceptanceOutcome,
                    purpose: {"execution_verification", "acceptance"},
                    claim: Nat, cycle: Nat]

DeliveryItem == [kind: {"progress", "work_submission"}, claim: Nat, cycle: Nat]

CriterionRevision == [criterion: Criteria, revision: Nat]

ExecutionCompleted == [claim: Nat, cycle: Nat, submissions: SUBSET DeliveryItem,
                       checks: SUBSET AcceptanceCheck,
                       criterionRevisions: SUBSET CriterionRevision,
                       codeChanges: SUBSET CodeChanges]

\* principal: whom the client authenticates as.  seen: the Task of the ETag.  listed: the criteria, which are listed by a
\* request of their own, and fresh: it was answered after the ETag.
ClientType == [principal: Actors, step: {"idle", "seen", "target"},
               seen: TaskRow, at: Nat,
               listed: [Criteria -> AcceptanceCriterion], fresh: BOOLEAN,
               prepared: SUBSET CodeChanges, claim: Nat, claimVersion: Nat]

InitialTask == [version |-> 1, phase |-> "backlog", activity |-> L!NoActivity,
                reviewCycle |-> 0, activeIssue |-> NoIssue, archived |-> FALSE]

InitialCriteria == [k \in Criteria |->
                      [state |-> "absent", revision |-> 0, version |-> 0]]

Idle(a) == [principal |-> a, step |-> "idle", seen |-> InitialTask, at |-> 0,
            listed |-> InitialCriteria, fresh |-> FALSE,
            prepared |-> {}, claim |-> NoClaim, claimVersion |-> 0]

Init ==
    /\ task = InitialTask
    /\ claims = <<>>
    /\ threads = <<>>
    /\ criteria = InitialCriteria
    /\ checks = {}
    /\ items = {}
    /\ completions = <<>>
    /\ linked = {}
    /\ audit \in Actors
    /\ now = 0
    /\ client \in [Clients -> {Idle(a) : a \in Actors}]

-----------------------------------------------------------------------------
\* Building blocks of the transactions.

ActiveClaims == {c \in 1..Len(claims) : claims[c].status = "active"}

\* expireDueWorkflowClaim: the active Claim of a working Task, past its deadline.
DueClaims(at) ==
    {c \in ActiveClaims : task.activity = "working" /\ claims[c].expiresAt <= at}

\* The If-Match header still names the current Task version.
IfMatch(r) == client[r].step # "idle" /\ client[r].seen.version = task.version

Principal(r) == client[r].principal

EndRequest(r) == client' = [client EXCEPT ![r] = Idle(Principal(r))]

Audit(r) == audit' = Principal(r)

Persist(t) ==
    /\ task.version < MaxVersion
    /\ L!Valid(t)
    /\ task' = [t EXCEPT !.version = task.version + 1]

IncrementVersion ==
    /\ task.version < MaxVersion
    /\ task' = [task EXCEPT !.version = task.version + 1]

\* TaskStageClaim.Complete and updateTaskStageClaim
Completed(claim, outcome) ==
    [claim EXCEPT !.status = L!CompletedStatus(outcome), !.outcome = outcome,
                  !.version = claim.version + 1]

EndedClaims(c, outcome) == [claims EXCEPT ![c] = Completed(claims[c], outcome)]

EndClaim(c, outcome) ==
    /\ claims[c].status = "active"
    /\ L!StageAcceptsOutcome(claims[c].stage, outcome)
    /\ claims' = EndedClaims(c, outcome)

\* Mutant of ClaimStillOwned: validateClaimActor is forgotten.
ClaimStillActive(r) ==
    /\ client[r].step = "target"
    /\ client[r].claim \in ActiveClaims
    /\ claims[client[r].claim].version = client[r].claimVersion

\* lockOwnedWorkflowClaim without its Task version check: the Claim read before
\* the transaction is still the active one, unchanged, and the caller owns it.
ClaimStillOwned(r) ==
    LET c == client[r].claim IN
    /\ client[r].step = "target"
    /\ c \in ActiveClaims
    /\ claims[c].version = client[r].claimVersion
    /\ claims[c].owner = Principal(r)

OwnedClaim(r) == IfMatch(r) /\ ClaimStillOwned(r)

\* Thread.Resolve and persistResolvedIssue
ResolveThread(i) ==
    /\ threads[i].status = "open"
    /\ threads' = [threads EXCEPT ![i] =
                     [threads[i] EXCEPT !.status = "resolved",
                                        !.version = threads[i].version + 1]]

-----------------------------------------------------------------------------
\* Reading before a command.

\* The client reads the Task and keeps its ETag, and the clock it saw.
GetTask(r) ==
    /\ client[r].step = "idle"
    /\ client' = [client EXCEPT ![r] = [client[r] EXCEPT !.step = "seen", !.seen = task,
                                                         !.at = now, !.fresh = FALSE]]
    /\ UNCHANGED <<task, claims, threads, criteria, delivery, linked, audit, now>>

\* The criteria come with another request, before or after the Task's.
ListTaskCriteria(r) ==
    /\ client[r].step \in {"idle", "seen"}
    /\ client' = [client EXCEPT ![r] = [client[r] EXCEPT !.listed = criteria,
                                                         !.fresh = (client[r].step = "seen")]]
    /\ UNCHANGED <<task, claims, threads, criteria, delivery, linked, audit, now>>

\* TaskDeliveryService.PrepareCompletion: the links as they are before the
\* completing transaction begins.
PrepareCompletion(r) ==
    /\ client[r].step = "seen"
    /\ client[r].prepared # linked
    /\ client' = [client EXCEPT ![r] = [client[r] EXCEPT !.prepared = linked]]
    /\ UNCHANGED <<task, claims, threads, criteria, delivery, linked, audit, now>>

\* claimCommandTarget: the Claim named by the request is active and not yet due.
ClaimCommandTarget(r, c) ==
    /\ client[r].step = "seen"
    /\ c \in ActiveClaims
    /\ claims[c].expiresAt > now
    /\ client' = [client EXCEPT ![r] =
                    [client[r] EXCEPT !.step = "target", !.claim = c,
                                      !.claimVersion = claims[c].version]]
    /\ UNCHANGED <<task, claims, threads, criteria, delivery, linked, audit, now>>

\* The request fails, is refused, or its client goes away.
Abandon(r) ==
    /\ client[r] # Idle(Principal(r))
    /\ EndRequest(r)
    /\ UNCHANGED <<task, claims, threads, criteria, delivery, linked, audit, now>>

AdvanceTime ==
    /\ now < MaxTime
    /\ now' = now + 1
    /\ UNCHANGED <<task, claims, threads, criteria, delivery, linked, audit, client>>

-----------------------------------------------------------------------------
\* Commands on the Task.

MarkReady(r, unfinishedDependencies) ==
    /\ IfMatch(r)
    /\ L!CanMarkReady(task, unfinishedDependencies)
    /\ Persist(L!MarkReady(task))
    /\ Audit(r)
    /\ EndRequest(r)
    /\ UNCHANGED <<claims, threads, criteria, delivery, linked, now>>

WithdrawReadiness(r) ==
    /\ IfMatch(r)
    /\ L!CanWithdrawReadiness(task)
    /\ Persist(L!WithdrawReadiness(task))
    /\ Audit(r)
    /\ EndRequest(r)
    /\ UNCHANGED <<claims, threads, criteria, delivery, linked, now>>

NewTaskStageClaim(t, r, at) ==
    [stage |-> L!ClaimStage(t), owner |-> Principal(r), status |-> "active",
     outcome |-> NoOutcome, version |-> 1, expiresAt |-> at + ClaimLifetime]

\* Claim reads the clock before it waits for the Task lock.  A due Claim of
\* another actor is expired in the same transaction.
Claim(r, at) ==
    /\ IfMatch(r)
    /\ at \in client[r].at..now
    /\ \/ /\ L!CanClaim(task)
          /\ claims' = Append(claims, NewTaskStageClaim(task, r, at))
          /\ Persist(L!Claim(task))
       \/ \E c \in DueClaims(at) :
            /\ L!RequireWorkingStage(task, claims[c].stage)
            /\ L!CanClaim(L!Release(task))
            /\ claims' = Append(EndedClaims(c, "deadline_elapsed"),
                                NewTaskStageClaim(task, r, at))
            /\ Persist(L!Claim(L!Release(task)))
    /\ Audit(r)
    /\ EndRequest(r)
    /\ UNCHANGED <<threads, criteria, delivery, linked, now>>

\* ExpireDueClaim, run by whoever lists, reads or addresses a due Claim.
ExpireDueClaim(r) ==
    /\ \E c \in DueClaims(now) :
         /\ L!RequireWorkingStage(task, claims[c].stage)
         /\ EndClaim(c, "deadline_elapsed")
    /\ Persist(L!Release(task))
    /\ Audit(r)
    /\ UNCHANGED <<threads, criteria, delivery, linked, now, client>>

ResolveIssue(r, i, threadVersion) ==
    /\ IfMatch(r)
    /\ task.activeIssue # NoIssue /\ task.activeIssue = i
    /\ threads[i].version = threadVersion
    /\ threads[i].openedFromPhase = task.phase
    /\ ResolveThread(i)
    /\ L!CanResolveIssue(task)
    /\ Persist(L!ResolveIssue([task EXCEPT !.activeIssue = NoIssue]))
    /\ Audit(r)
    /\ EndRequest(r)
    /\ UNCHANGED <<claims, criteria, delivery, linked, now>>

\* Mutant of CancelTask: neither the active Claim nor the open Issue ends.
CancelTaskRowOnly(r) ==
    /\ IfMatch(r)
    /\ L!CanCancel(task)
    /\ Persist(L!Cancel(task))
    /\ Audit(r)
    /\ EndRequest(r)
    /\ UNCHANGED <<claims, threads, criteria, delivery, linked, now>>

\* Anyone with access may cancel: the active Claim or the open Issue ends with
\* the Task.
CancelTask(r) ==
    /\ IfMatch(r)
    /\ \/ /\ task.activity = "working"
          /\ \E c \in ActiveClaims : EndClaim(c, "task_cancelled")
          /\ UNCHANGED threads
          /\ Persist(L!Cancel(task))
       \/ /\ task.activity = "needs_resolution"
          /\ task.activeIssue # NoIssue
          /\ ResolveThread(task.activeIssue)
          /\ UNCHANGED claims
          /\ Persist(L!Cancel([task EXCEPT !.activeIssue = NoIssue]))
       \/ /\ task.activity \notin {"working", "needs_resolution"}
          /\ UNCHANGED <<claims, threads>>
          /\ Persist(L!Cancel(task))
    /\ L!CanCancel(task)
    /\ Audit(r)
    /\ EndRequest(r)
    /\ UNCHANGED <<criteria, delivery, linked, now>>

\* Mutant of SetArchived: work in progress is not looked at.
SetArchivedUnchecked(r, archived) ==
    /\ IfMatch(r)
    /\ task.version < MaxVersion
    /\ task' = [task EXCEPT !.archived = archived, !.version = task.version + 1]
    /\ audit' = Principal(r)
    /\ EndRequest(r)
    /\ UNCHANGED <<claims, threads, criteria, delivery, linked, now>>

\* setArchivedWithExpectedVersion: repeating the current flag still counts as a
\* new version.
SetArchived(r, archived) ==
    /\ IfMatch(r)
    /\ (archived /\ ~task.archived)
          => task.activity \notin {"working", "needs_resolution"}
    /\ task.version < MaxVersion
    /\ task' = [task EXCEPT !.archived = archived, !.version = task.version + 1]
    /\ audit' = IF archived = task.archived THEN audit ELSE Principal(r)
    /\ EndRequest(r)
    /\ UNCHANGED <<claims, threads, criteria, delivery, linked, now>>

-----------------------------------------------------------------------------
\* Commands on the caller's active Claim.

\* finishClaim, with the Lifecycle mutation and outcome of each command.
FinishClaim(r, outcome, t) ==
    /\ EndClaim(client[r].claim, outcome)
    /\ Persist(t)
    /\ Audit(r)
    /\ EndRequest(r)

ReleaseClaim(r) ==
    /\ OwnedClaim(r)
    /\ L!RequireWorkingStage(task, claims[client[r].claim].stage)
    /\ FinishClaim(r, "voluntarily_released", L!Release(task))
    /\ UNCHANGED <<threads, criteria, delivery, linked, now>>

RequestChanges(r) ==
    /\ OwnedClaim(r)
    /\ L!RequireWorkingStage(task, "review")
    /\ FinishClaim(r, "changes_requested", L!RequestChanges(task))
    /\ UNCHANGED <<threads, criteria, delivery, linked, now>>

RequestResolution(r) ==
    /\ OwnedClaim(r)
    /\ L!RequireWorkingStage(task, claims[client[r].claim].stage)
    /\ threads' = Append(threads, [status |-> "open", openedFromPhase |-> task.phase,
                                   version |-> 1])
    /\ FinishClaim(r, "needs_resolution",
          [L!RequestResolution(task) EXCEPT !.activeIssue = Len(threads) + 1])
    /\ UNCHANGED <<criteria, delivery, linked, now>>

ActiveCriterionRevisions ==
    {[criterion |-> k, revision |-> criteria[k].revision] :
       k \in {j \in Criteria : criteria[j].state = "active"}}

\* Mutant of ExecutionCompletionPayload: checks of the new cycle are looked up.
PayloadOfCompletedCycle(c, cycle, codeChanges) ==
    [claim |-> c, cycle |-> cycle,
     submissions |-> {i \in items : i.kind = "work_submission" /\ i.cycle = cycle},
     checks |-> {h \in checks : h.purpose = "execution_verification"
                                /\ h.cycle = cycle},
     criterionRevisions |-> ActiveCriterionRevisions,
     codeChanges |-> codeChanges]

\* executionCompletionPayload for the new review cycle: the submissions carry
\* that cycle, the execution checks were recorded under the one before it.
ExecutionCompletionPayload(c, cycle, codeChanges) ==
    [claim |-> c, cycle |-> cycle,
     submissions |-> {i \in items : i.kind = "work_submission" /\ i.cycle = cycle},
     checks |-> {h \in checks : h.purpose = "execution_verification"
                                /\ h.cycle = cycle - 1},
     criterionRevisions |-> ActiveCriterionRevisions,
     codeChanges |-> codeChanges]

CompleteExecution(r) ==
    /\ OwnedClaim(r)
    /\ L!RequireWorkingStage(task, "execution")
    /\ client[r].prepared = linked
    /\ completions' = Append(completions,
          ExecutionCompletionPayload(client[r].claim, task.reviewCycle + 1,
                                     client[r].prepared))
    /\ FinishClaim(r, "execution_completed", L!CompleteExecution(task))
    /\ UNCHANGED <<threads, criteria, checks, items, linked, now>>

\* Mutant of UnsatisfiedCriteria: acceptance checks of any cycle count.
UncheckedCriteria ==
    {k \in Criteria :
       /\ criteria[k].state = "active"
       /\ ~\E h \in checks : /\ h.criterion = k
                             /\ h.revision = criteria[k].revision
                             /\ h.purpose = "acceptance"
                             /\ L!Satisfies(h.outcome)}

\* taskCompletionReadinessForCycle: active criteria without a satisfying
\* acceptance check of their current revision in the current review cycle.
UnsatisfiedCriteria ==
    {k \in Criteria :
       /\ criteria[k].state = "active"
       /\ ~\E h \in checks : /\ h.criterion = k
                             /\ h.revision = criteria[k].revision
                             /\ h.purpose = "acceptance"
                             /\ h.cycle = task.reviewCycle
                             /\ L!Satisfies(h.outcome)}

\* unfinishedRelated: some child or prerequisite Task is not finished.
AcceptTask(r, unfinishedRelated) ==
    /\ OwnedClaim(r)
    /\ L!RequireWorkingStage(task, "review")
    /\ UnsatisfiedCriteria = {}
    /\ ~unfinishedRelated
    /\ FinishClaim(r, "task_accepted", L!Accept(task))
    /\ UNCHANGED <<threads, criteria, delivery, linked, now>>

\* insertDeliveryWorkflowItem
InsertDeliveryItem(kind, c, cycle) ==
    /\ Cardinality(items) < MaxItems
    /\ items' = items \cup {[kind |-> kind, claim |-> c, cycle |-> cycle]}

\* RecordWorkSubmission and RecordClaimProgress leave both versions alone.
RecordWorkSubmission(r) ==
    /\ OwnedClaim(r)
    /\ L!RequireWorkingStage(task, "execution")
    /\ claims[client[r].claim].stage = "execution"
    /\ InsertDeliveryItem("work_submission", client[r].claim, task.reviewCycle + 1)
    /\ Audit(r)
    /\ EndRequest(r)
    /\ UNCHANGED <<task, claims, threads, criteria, checks, completions, linked, now>>

\* Mutant of ExecutionCycleOffset: progress always counts for the current cycle.
NoCycleOffset(stage) == 0

ExecutionCycleOffset(stage) == IF stage = "execution" THEN 1 ELSE 0

RecordClaimProgress(r) ==
    /\ client[r].step = "target"
    /\ client[r].claim \in ActiveClaims
    /\ claims[client[r].claim].owner = Principal(r)
    /\ task.activity = "working"
    /\ InsertDeliveryItem("progress", client[r].claim,
          task.reviewCycle + ExecutionCycleOffset(claims[client[r].claim].stage))
    /\ Audit(r)
    /\ EndRequest(r)
    /\ UNCHANGED <<task, claims, threads, criteria, checks, completions, linked, now>>

\* The caller states the criterion revision it checked; it must be current.
RecordAcceptanceCheck(r, k, outcome) ==
    /\ OwnedClaim(r)
    /\ task.activity = "working"
    /\ criteria[k].state = "active"
    /\ client[r].listed[k].revision = criteria[k].revision
    /\ checks' = checks \cup
         {[criterion |-> k, revision |-> criteria[k].revision, outcome |-> outcome,
           purpose |-> IF claims[client[r].claim].stage = "execution"
                       THEN "execution_verification" ELSE "acceptance",
           claim |-> client[r].claim, cycle |-> task.reviewCycle]}
    /\ Audit(r)
    /\ EndRequest(r)
    /\ UNCHANGED <<task, claims, threads, criteria, items, completions, linked, now>>

\* Mutant of ChangeLinks: a review Claim may change the links, too.
ChangeLinksInAnyStage(r, links) ==
    /\ OwnedClaim(r)
    /\ linked' = links
    /\ Persist(task)
    /\ Audit(r)
    /\ EndRequest(r)
    /\ UNCHANGED <<claims, threads, criteria, delivery, now>>

\* TaskCodeChangeStore.Link and Unlink
ChangeLinks(r, links) ==
    /\ OwnedClaim(r)
    /\ ~task.archived
    /\ task.phase = "in_progress" /\ task.activity = "working"
    /\ claims[client[r].claim].stage = "execution"
    /\ linked' = links
    /\ Persist(task)
    /\ Audit(r)
    /\ EndRequest(r)
    /\ UNCHANGED <<claims, threads, criteria, delivery, now>>

LinkCodeChange(r, change) ==
    /\ change \notin linked
    /\ ChangeLinks(r, linked \cup {change})

UnlinkCodeChange(r, change) ==
    /\ change \in linked
    /\ ChangeLinks(r, linked \ {change})

-----------------------------------------------------------------------------
\* The acceptance contract.  A criterion has a version of its own; changing it
\* also counts as a new version of the Task that owns it.

\* createVersioned
CreateTaskCriterion(r, k) ==
    /\ IfMatch(r)
    /\ criteria[k].state = "absent"
    /\ criteria' = [criteria EXCEPT ![k] = [state |-> "active", revision |-> 1,
                                            version |-> 1]]
    /\ IncrementVersion
    /\ Audit(r)
    /\ EndRequest(r)
    /\ UNCHANGED <<claims, threads, delivery, linked, now>>

\* lockCriterionAndOwners and the check of the criterion's own If-Match
CriterionIfMatch(r, k) ==
    /\ criteria[k].state = "active"
    /\ client[r].listed[k].version = criteria[k].version

\* Mutant of UpdateCriterion: the owning Task's version is not counted.
UpdateCriterionOnly(r, k, reworded) ==
    /\ CriterionIfMatch(r, k)
    /\ criteria' = [criteria EXCEPT ![k] = [criteria[k] EXCEPT !.revision = criteria[k].revision + 1,
                                                               !.version = criteria[k].version + 1]]
    /\ Audit(r)
    /\ EndRequest(r)
    /\ UNCHANGED <<task, claims, threads, delivery, linked, now>>

\* UpdateCriterionVersioned: new wording is a new revision, moving is not.
UpdateCriterion(r, k, reworded) ==
    /\ CriterionIfMatch(r, k)
    /\ criteria' = [criteria EXCEPT ![k] =
          [criteria[k] EXCEPT
             !.revision = IF reworded THEN criteria[k].revision + 1
                          ELSE criteria[k].revision,
             !.version = criteria[k].version + 1]]
    /\ IncrementVersion
    /\ Audit(r)
    /\ EndRequest(r)
    /\ UNCHANGED <<claims, threads, delivery, linked, now>>

\* RemoveCriterionVersioned: a criterion that was ever checked is archived.
RemoveCriterion(r, k) ==
    /\ CriterionIfMatch(r, k)
    /\ criteria' = [criteria EXCEPT ![k] =
          IF \E h \in checks : h.criterion = k
          THEN [criteria[k] EXCEPT !.state = "archived",
                                   !.version = criteria[k].version + 1]
          ELSE [criteria[k] EXCEPT !.state = "deleted"]]
    /\ IncrementVersion
    /\ Audit(r)
    /\ EndRequest(r)
    /\ UNCHANGED <<claims, threads, delivery, linked, now>>

-----------------------------------------------------------------------------
TaskCommand(r) ==
    \/ \E unfinished \in BOOLEAN : MarkReady(r, unfinished)
    \/ WithdrawReadiness(r)
    \/ \E at \in 0..now : Claim(r, at)
    \/ \E i \in 1..Len(threads), v \in 1..2 : ResolveIssue(r, i, v)
    \/ CancelTask(r)
    \/ \E archived \in BOOLEAN : SetArchived(r, archived)

ClaimCommand(r) ==
    \/ ReleaseClaim(r)
    \/ RequestChanges(r)
    \/ RequestResolution(r)
    \/ CompleteExecution(r)
    \/ \E unfinished \in BOOLEAN : AcceptTask(r, unfinished)
    \/ RecordWorkSubmission(r)
    \/ RecordClaimProgress(r)
    \/ \E k \in Criteria, o \in Outcomes : RecordAcceptanceCheck(r, k, o)
    \/ \E change \in CodeChanges : LinkCodeChange(r, change)
    \/ \E change \in CodeChanges : UnlinkCodeChange(r, change)

CriterionCommand(r) ==
    \/ \E k \in Criteria : CreateTaskCriterion(r, k)
    \/ \E k \in Criteria, reworded \in BOOLEAN : UpdateCriterion(r, k, reworded)
    \/ \E k \in Criteria : RemoveCriterion(r, k)

Read(r) ==
    \/ GetTask(r)
    \/ ListTaskCriteria(r)
    \/ PrepareCompletion(r)
    \/ \E c \in 1..Len(claims) : ClaimCommandTarget(r, c)
    \/ ExpireDueClaim(r)
    \/ Abandon(r)

Next ==
    \/ AdvanceTime
    \/ \E r \in Clients : \/ Read(r)
                          \/ TaskCommand(r)
                          \/ ClaimCommand(r)
                          \/ CriterionCommand(r)

Spec == Init /\ [][Next]_vars

-----------------------------------------------------------------------------
TypeOK ==
    /\ task \in TaskRow
    /\ claims \in Seq(TaskStageClaim)
    /\ threads \in Seq(IssueThread)
    /\ criteria \in [Criteria -> AcceptanceCriterion]
    /\ checks \in SUBSET AcceptanceCheck
    /\ items \in SUBSET DeliveryItem
    /\ completions \in Seq(ExecutionCompleted)
    /\ linked \in SUBSET CodeChanges
    /\ audit \in Actors
    /\ now \in Nat
    /\ client \in [Clients -> ClientType]

-----------------------------------------------------------------------------
(* Safety. *)

\* A Task is "working" exactly while one Claim is active, and that Claim is of
\* the stage its phase expects.  Claim, expiry, release, completion, blocking and
\* cancellation each change the Task row and a Claim row; none may forget one,
\* whatever order racing clients run them in.
\* (The unique index task_stage_claims_one_active_per_task is not modelled: the
\* transactions keep this without its help.)
WorkingIffOneActiveClaim ==
    IF task.activity = "working"
    THEN \E c \in 1..Len(claims) : /\ ActiveClaims = {c}
                                   /\ L!RequireWorkingStage(task, claims[c].stage)
    ELSE ActiveClaims = {}

\* A Task needs resolution exactly while it points at an Issue Thread, which is
\* open, was opened from the current phase, and is the only open one: blocking,
\* resolving and cancelling keep the row and the Threads together.
BlockedByOneOpenIssue ==
    /\ task.activity = "needs_resolution" <=> task.activeIssue # NoIssue
    /\ \A i \in 1..Len(threads) :
         threads[i].status = "open" <=> i = task.activeIssue
    /\ task.activeIssue # NoIssue =>
         /\ task.activeIssue <= Len(threads)
         /\ threads[task.activeIssue].openedFromPhase = task.phase

\* An archived Task is never being worked on or blocked: neither archiving a
\* Task in use nor claiming an archived one slips through, in either order.
ArchivedIsIdle ==
    task.archived => task.activity \notin {"working", "needs_resolution"}

\* Optimistic concurrency is sound: a request whose If-Match still names the
\* current version read exactly the phase, activity, review cycle, Issue and
\* archive flag that are current, and the acceptance criteria it listed after the
\* ETag are the current ones, wording and all.  Every transaction that changes
\* any of them must therefore count a new version of the Task.  (Criteria listed
\* before the ETag was read may be out of date.)
IfMatchMeansUnchanged ==
    \A r \in Clients : IfMatch(r) =>
        /\ client[r].seen = task
        /\ client[r].fresh => client[r].listed = criteria

\* Items and checks recorded through one Claim are all attributed to the review
\* cycle that Claim works on: executions prepare the next cycle, reviews judge
\* the current one.
ClaimWorksOnOneCycle ==
    \A c \in 1..Len(claims) :
      /\ \A i, j \in items : (i.claim = c /\ j.claim = c) => i.cycle = j.cycle
      /\ \A i \in items, h \in checks : (i.claim = c /\ h.claim = c)
           => i.cycle = IF claims[c].stage = "execution" THEN h.cycle + 1 ELSE h.cycle

\* Nothing delivered is lost or counted twice: once a review cycle is reached,
\* its one completion Item lists every work submission made for it and every
\* execution check made since the completion before it.
DeliveryIsComplete ==
    /\ Len(completions) = task.reviewCycle
    /\ \A n \in 1..Len(completions) :
         /\ completions[n].cycle = n
         /\ completions[n].submissions =
              {i \in items : i.kind = "work_submission" /\ i.cycle = n}
         /\ completions[n].checks =
              {h \in checks : h.purpose = "execution_verification" /\ h.cycle = n - 1}

\* What is reviewed is what was delivered: from the completion of an execution
\* until changes are requested, the linked code changes are the ones its
\* completion Item lists, although they were collected before the transaction.
ReviewedCodeIsDelivered ==
    task.phase \in {"in_review", "done"} =>
      /\ completions # <<>>
      /\ completions[Len(completions)].codeChanges = linked

-----------------------------------------------------------------------------
(* Action properties. *)

\* Acceptance is never stale: when a Task becomes done, each of its active
\* criteria has a satisfying check of its current revision, recorded through a
\* review Claim younger than the execution Claim that delivered this cycle.
\* Checks of an earlier cycle, of an earlier wording, or made by an executor do
\* not count.
AcceptedAfreshStep ==
    (task.phase # "done" /\ task'.phase = "done") =>
      /\ completions # <<>>
      /\ \A k \in Criteria : criteria[k].state = "active" =>
           \E h \in checks :
             /\ h.criterion = k /\ h.revision = criteria[k].revision
             /\ h.outcome \in {"passed", "waived"}
             /\ claims[h.claim].stage = "review"
             /\ h.claim > completions[Len(completions)].claim

AcceptedAfresh == [][AcceptedAfreshStep]_vars

\* History is append-only: a finished Task never leaves its phase, the review
\* cycle never goes back, and an ended Claim keeps its outcome.
HistoryIsFinalStep ==
    /\ L!Terminal(task.phase) => task'.phase = task.phase
    /\ task'.reviewCycle >= task.reviewCycle
    /\ \A c \in 1..Len(claims) :
         claims[c].status # "active" => claims'[c] = claims[c]

HistoryIsFinal == [][HistoryIsFinalStep]_vars

-----------------------------------------------------------------------------
(* Refinement: the active Claim is the ownership StageOwnership promises. *)

Ownership == INSTANCE StageOwnership WITH
    Lifetime <- ClaimLifetime,
    holder   <- IF ActiveClaims = {} THEN NoActor
                ELSE claims[CHOOSE c \in ActiveClaims : TRUE].owner,
    deadline <- IF ActiveClaims = {} THEN 0
                ELSE claims[CHOOSE c \in ActiveClaims : TRUE].expiresAt,
    closed   <- L!Terminal(task.phase),
    by       <- audit,
    clock    <- now

\* TaskWorkflow implements StageOwnership: whatever requests are in flight, a
\* stage changes hands only when its owner finishes, its deadline has passed, or
\* the Task ends.
ImplementsStageOwnership == Ownership!OwnershipSpec
=============================================================================
