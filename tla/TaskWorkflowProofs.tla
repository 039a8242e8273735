------------------------- MODULE TaskWorkflowProofs -------------------------
(***************************************************************************)
(* Machine-checked proofs about TaskWorkflow, for every set of clients,    *)
(* actors, criteria and code changes and every bound: types, ownership,    *)
(* Issues and archiving, then what follows from their invariant: If-Match  *)
(* is sound, the workflow implements StageOwnership, history is final,     *)
(* deliveries are complete and acceptance is fresh.                        *)
(***************************************************************************)
EXTENDS TaskWorkflow, TLAPS

-----------------------------------------------------------------------------
(* Types: what the building blocks of the transactions return. *)

\* Every lifecycle transition of the domain yields a Task row.
LEMMA LifecycleType ==
    ASSUME NEW t \in TaskRow
    PROVE  /\ L!MarkReady(t) \in TaskRow
           /\ L!WithdrawReadiness(t) \in TaskRow
           /\ L!Claim(t) \in TaskRow
           /\ L!Release(t) \in TaskRow
           /\ L!RequestResolution(t) \in TaskRow
           /\ L!ResolveIssue(t) \in TaskRow
           /\ L!CompleteExecution(t) \in TaskRow
           /\ L!RequestChanges(t) \in TaskRow
           /\ L!Accept(t) \in TaskRow
           /\ L!Cancel(t) \in TaskRow
  <1> USE DEF TaskRow, L!TaskPhase, L!TaskActivityState, L!NoActivity
  <1>1. L!MarkReady(t) \in TaskRow
    BY DEF L!MarkReady
  <1>2. L!WithdrawReadiness(t) \in TaskRow
    BY DEF L!WithdrawReadiness
  <1>3. L!Claim(t) \in TaskRow
    BY Zenon DEF L!Claim, L!ClaimedPhase
  <1>4. L!Release(t) \in TaskRow /\ L!ResolveIssue(t) \in TaskRow
    BY DEF L!Release, L!ResolveIssue
  <1>5. L!RequestResolution(t) \in TaskRow
    BY DEF L!RequestResolution
  <1>6. L!CompleteExecution(t) \in TaskRow
    <2>1. t.reviewCycle + 1 \in Nat
      OBVIOUS
    <2> QED
      BY <2>1, Zenon DEF L!CompleteExecution
  <1>7. L!RequestChanges(t) \in TaskRow
    BY Zenon DEF L!RequestChanges
  <1>8. L!Accept(t) \in TaskRow
    BY Zenon DEF L!Accept
  <1>9. L!Cancel(t) \in TaskRow
    BY Zenon DEF L!Cancel
  <1> QED
    BY <1>1, <1>2, <1>3, <1>4, <1>5, <1>6, <1>7, <1>8, <1>9, Zenon

\* persistWorkflowTask stores a Task row.
LEMMA PersistType ==
    ASSUME task \in TaskRow, NEW t \in TaskRow, Persist(t)
    PROVE  task' \in TaskRow
BY DEF Persist, TaskRow

\* Counting a new Task version keeps the row a Task row.
LEMMA IncrementVersionType ==
    ASSUME task \in TaskRow, IncrementVersion
    PROVE  task' \in TaskRow
BY DEF IncrementVersion, TaskRow

\* An ended Claim is a Claim, with a terminal status.
LEMMA CompletedType ==
    ASSUME NEW claim \in TaskStageClaim, NEW outcome \in L!TaskClaimOutcome
    PROVE  /\ Completed(claim, outcome) \in TaskStageClaim
           /\ Completed(claim, outcome).status # "active"
           /\ Completed(claim, outcome).outcome = outcome
  <1>1. L!CompletedStatus(outcome) \in L!StageClaimStatus \ {"active"}
    BY DEF L!TaskClaimOutcome, L!CompletedStatus, L!StageClaimStatus
  <1>2. claim.version + 1 \in Nat
    BY DEF TaskStageClaim
  <1> QED
    BY <1>1, <1>2, Zenon DEF Completed, TaskStageClaim

\* Ending a Claim keeps the table of Claims a table of Claims.
LEMMA EndedClaimsType ==
    ASSUME TypeOK, NEW c \in ActiveClaims, NEW outcome \in L!TaskClaimOutcome
    PROVE  /\ EndedClaims(c, outcome) \in Seq(TaskStageClaim)
           /\ Len(EndedClaims(c, outcome)) = Len(claims)
           /\ \A d \in 1..Len(claims) : d # c => EndedClaims(c, outcome)[d] = claims[d]
           /\ EndedClaims(c, outcome)[c].status # "active"
  <1>1. c \in 1..Len(claims) /\ claims \in Seq(TaskStageClaim)
    BY DEF ActiveClaims, TypeOK
  <1>2. claims[c] \in TaskStageClaim
    BY <1>1
  <1>3. /\ Completed(claims[c], outcome) \in TaskStageClaim
        /\ Completed(claims[c], outcome).status # "active"
    BY <1>2, CompletedType
  <1> QED
    BY <1>1, <1>3 DEF EndedClaims

\* A request authenticates as a known actor.
LEMMA PrincipalType ==
    ASSUME TypeOK, NEW r \in Clients
    PROVE  Principal(r) \in Actors
BY DEF TypeOK, ClientType, Principal

\* A new Claim is an active Claim of the stage its phase expects.
LEMMA NewClaimType ==
    ASSUME TypeOK, NEW t \in TaskRow, NEW r \in Clients, NEW at \in Nat
    PROVE  /\ NewTaskStageClaim(t, r, at) \in TaskStageClaim
           /\ NewTaskStageClaim(t, r, at).status = "active"
           /\ NewTaskStageClaim(t, r, at).stage = L!ClaimStage(t)
BY PrincipalType, ConstantsAssumption
   DEF NewTaskStageClaim, TaskStageClaim, L!TaskClaimStage, L!StageClaimStatus, L!ClaimStage,
       L!ExpectedStage, L!ClaimedPhase

\* Resolving stores the Thread it resolved; a Thread that is no position of the
\* sequence leaves the sequence as it is.
LEMMA ResolveThreadType ==
    ASSUME TypeOK, NEW i, ResolveThread(i)
    PROVE  threads' \in Seq(IssueThread) /\ Len(threads') = Len(threads)
  <1>1. CASE i \in 1..Len(threads)
    <2>1. threads[i] \in IssueThread /\ threads \in Seq(IssueThread)
      BY <1>1 DEF TypeOK
    <2>2. threads[i].version + 1 \in Nat
      BY <2>1 DEF IssueThread
    <2>3. [threads[i] EXCEPT !.status = "resolved",
                             !.version = threads[i].version + 1] \in IssueThread
      BY <2>1, <2>2, Zenon DEF IssueThread
    <2> QED
      BY <1>1, <2>1, <2>3 DEF ResolveThread
  <1>2. CASE i \notin 1..Len(threads)
    <2>1. threads \in [1..Len(threads) -> IssueThread]
      BY DEF TypeOK
    <2>2. threads' = threads
      BY <1>2, <2>1, Zenon DEF ResolveThread
    <2> QED
      BY <2>2 DEF TypeOK
  <1> QED
    BY <1>1, <1>2

\* The initial client and the created Task have their types.
LEMMA IdleType == /\ \A a \in Actors : Idle(a) \in ClientType
                  /\ InitialTask \in TaskRow
                  /\ InitialCriteria \in [Criteria -> AcceptanceCriterion]
BY DEF Idle, ClientType, InitialTask, InitialCriteria, TaskRow, AcceptanceCriterion,
       NoIssue, NoClaim, L!TaskPhase, L!NoActivity, L!TaskActivityState

\* Ending a request leaves a well-typed client.
LEMMA EndRequestType ==
    ASSUME TypeOK, NEW r \in Clients, EndRequest(r)
    PROVE  client' \in [Clients -> ClientType]
BY IdleType, PrincipalType DEF TypeOK, EndRequest

\* The audit row of a request names the request's principal, a known actor.
LEMMA AuditType ==
    ASSUME TypeOK, NEW r \in Clients, Audit(r)
    PROVE  audit' \in Actors
BY PrincipalType DEF Audit

-----------------------------------------------------------------------------
(* Type correctness. *)

\* A freshly created Task satisfies the type invariant.
LEMMA InitTypeOK == Init => TypeOK
BY IdleType DEF Init, TypeOK

\* Reading (GetTask with the lazy expiry of due Claims) preserves the types.
LEMMA ReadType ==
    ASSUME TypeOK, NEW r \in Clients, Read(r)
    PROVE  TypeOK'
  <1>0. client[r] \in ClientType /\ task \in TaskRow /\ now \in Nat /\ criteria \in [Criteria -> AcceptanceCriterion]
    BY DEF TypeOK
  <1>1. CASE GetTask(r)
    <2>1. [client[r] EXCEPT !.step = "seen", !.seen = task, !.at = now, !.fresh = FALSE] \in ClientType
      BY <1>0, Zenon DEF ClientType
    <2> QED
      BY <1>1, <2>1 DEF GetTask, TypeOK, delivery
  <1>6. CASE ListTaskCriteria(r)
    <2>1. PICK late \in BOOLEAN : late = (client[r].step = "seen")
      BY Zenon
    <2>2. [client[r] EXCEPT !.listed = criteria, !.fresh = late] \in ClientType
      BY <1>0, <2>1, Zenon DEF ClientType
    <2> QED
      BY <1>6, <2>1, <2>2 DEF ListTaskCriteria, TypeOK, delivery
  <1>2. CASE PrepareCompletion(r)
    <2>1. client[r] \in ClientType /\ linked \in SUBSET CodeChanges
      BY DEF TypeOK
    <2>2. [client[r] EXCEPT !.prepared = linked] \in ClientType
      BY <2>1 DEF ClientType
    <2> QED
      BY <1>2, <2>2 DEF PrepareCompletion, TypeOK, delivery
  <1>3. CASE \E c \in 1..Len(claims) : ClaimCommandTarget(r, c)
    <2>1. PICK c \in 1..Len(claims) : ClaimCommandTarget(r, c)
      BY <1>3
    <2>2. client[r] \in ClientType /\ claims[c] \in TaskStageClaim /\ c \in Nat
      BY DEF TypeOK
    <2>3. claims[c].version \in Nat
      BY <2>2 DEF TaskStageClaim
    <2>4. [client[r] EXCEPT !.step = "target", !.claim = c,
                            !.claimVersion = claims[c].version] \in ClientType
      BY <2>2, <2>3, Zenon DEF ClientType
    <2> QED
      BY <2>1, <2>4 DEF ClaimCommandTarget, TypeOK, delivery
  <1>4. CASE ExpireDueClaim(r)
    <2>1. PICK c \in DueClaims(now) : EndClaim(c, "deadline_elapsed")
      BY <1>4 DEF ExpireDueClaim
    <2>2. claims' \in Seq(TaskStageClaim)
      BY <2>1, EndedClaimsType DEF EndClaim, DueClaims, L!TaskClaimOutcome
    <2>3. task' \in TaskRow
      BY <1>4, LifecycleType, PersistType DEF ExpireDueClaim, TypeOK
    <2> QED
      BY <1>4, <2>2, <2>3, AuditType DEF ExpireDueClaim, TypeOK, delivery
  <1>5. CASE Abandon(r)
    BY <1>5, EndRequestType DEF Abandon, TypeOK, delivery
  <1> QED
    BY <1>1, <1>2, <1>3, <1>4, <1>5, <1>6 DEF Read

\* The commands that address the Task by If-Match preserve the types.
LEMMA TaskCommandType ==
    ASSUME TypeOK, NEW r \in Clients, TaskCommand(r)
    PROVE  TypeOK'
  <1>0. task \in TaskRow
    BY DEF TypeOK
  <1>1. CASE \E unfinished \in BOOLEAN : MarkReady(r, unfinished)
    <2>1. task' \in TaskRow
      BY <1>0, <1>1, LifecycleType, PersistType DEF MarkReady
    <2> QED
      BY <1>1, <2>1, AuditType, EndRequestType DEF MarkReady, TypeOK, delivery
  <1>2. CASE WithdrawReadiness(r)
    <2>1. task' \in TaskRow
      BY <1>0, <1>2, LifecycleType, PersistType DEF WithdrawReadiness
    <2> QED
      BY <1>2, <2>1, AuditType, EndRequestType DEF WithdrawReadiness, TypeOK, delivery
  <1>3. CASE \E at \in 0..now : Claim(r, at)
    <2>1. PICK at \in 0..now : Claim(r, at)
      BY <1>3
    <2>2. at \in Nat /\ NewTaskStageClaim(task, r, at) \in TaskStageClaim
      BY <1>0, NewClaimType DEF TypeOK
    <2>3. CASE /\ claims' = Append(claims, NewTaskStageClaim(task, r, at))
               /\ Persist(L!Claim(task))
      <3>1. task' \in TaskRow
        BY <1>0, <2>3, LifecycleType, PersistType
      <3>2. claims' \in Seq(TaskStageClaim)
        BY <2>2, <2>3 DEF TypeOK
      <3> QED
        BY <2>1, <3>1, <3>2, AuditType, EndRequestType DEF Claim, TypeOK, delivery
    <2>4. ASSUME NEW c \in DueClaims(at),
                 claims' = Append(EndedClaims(c, "deadline_elapsed"),
                                  NewTaskStageClaim(task, r, at)),
                 Persist(L!Claim(L!Release(task)))
          PROVE  TypeOK'
      <3>1. task' \in TaskRow
        BY <1>0, <2>4, LifecycleType, PersistType
      <3>2. EndedClaims(c, "deadline_elapsed") \in Seq(TaskStageClaim)
        BY EndedClaimsType DEF DueClaims, L!TaskClaimOutcome
      <3>3. claims' \in Seq(TaskStageClaim)
        BY <2>2, <2>4, <3>2
      <3> QED
        BY <2>1, <3>1, <3>3, AuditType, EndRequestType, Zenon DEF Claim, TypeOK, delivery
    <2> QED
      BY <2>1, <2>3, <2>4 DEF Claim
  <1>4. CASE \E i \in 1..Len(threads), v \in 1..2 : ResolveIssue(r, i, v)
    <2>1. PICK i \in 1..Len(threads), v \in 1..2 : ResolveIssue(r, i, v)
      BY <1>4
    <2>2. [task EXCEPT !.activeIssue = NoIssue] \in TaskRow
      BY <1>0 DEF TaskRow, NoIssue
    <2>3. task' \in TaskRow
      BY <1>0, <2>1, <2>2, LifecycleType, PersistType DEF ResolveIssue
    <2>4. threads' \in Seq(IssueThread)
      BY <2>1, ResolveThreadType DEF ResolveIssue
    <2> QED
      BY <2>1, <2>3, <2>4, AuditType, EndRequestType DEF ResolveIssue, TypeOK, delivery
  <1>5. CASE CancelTask(r)
    <2>1. [task EXCEPT !.activeIssue = NoIssue] \in TaskRow
      BY <1>0 DEF TaskRow, NoIssue
    <2>2. task' \in TaskRow
      BY <1>0, <1>5, <2>1, LifecycleType, PersistType DEF CancelTask
    <2>3. claims' \in Seq(TaskStageClaim)
      BY <1>5, EndedClaimsType DEF CancelTask, EndClaim, TypeOK, L!TaskClaimOutcome
    <2>4. threads' \in Seq(IssueThread)
      BY <1>5, ResolveThreadType DEF CancelTask, TypeOK
    <2> QED
      BY <1>5, <2>2, <2>3, <2>4, AuditType, EndRequestType DEF CancelTask, TypeOK, delivery
  <1>6. CASE \E archived \in BOOLEAN : SetArchived(r, archived)
    <2>1. PICK archived \in BOOLEAN : SetArchived(r, archived)
      BY <1>6
    <2>2. task.version + 1 \in Nat
      BY <1>0 DEF TaskRow
    <2>3. task' \in TaskRow
      BY <1>0, <2>1, <2>2, Zenon DEF SetArchived, TaskRow
    <2>4. audit' \in Actors
      BY <2>1, PrincipalType DEF SetArchived, TypeOK
    <2> QED
      BY <2>1, <2>3, <2>4, EndRequestType DEF SetArchived, TypeOK, delivery
  <1> QED
    BY <1>1, <1>2, <1>3, <1>4, <1>5, <1>6 DEF TaskCommand

\* finishClaim keeps the types of everything it changes.
LEMMA FinishClaimType ==
    ASSUME TypeOK, NEW r \in Clients, NEW outcome \in L!TaskClaimOutcome,
           NEW t \in TaskRow, ClaimStillOwned(r), FinishClaim(r, outcome, t)
    PROVE  /\ task' \in TaskRow
           /\ claims' \in Seq(TaskStageClaim)
           /\ audit' \in Actors
           /\ client' \in [Clients -> ClientType]
  <1>1. task' \in TaskRow
    BY PersistType DEF FinishClaim, TypeOK
  <1>2. claims' \in Seq(TaskStageClaim)
    BY EndedClaimsType DEF FinishClaim, EndClaim, ClaimStillOwned
  <1> QED
    BY <1>1, <1>2, AuditType, EndRequestType DEF FinishClaim

\* Inserting a Delivery Item preserves the types.
LEMMA InsertDeliveryItemType ==
    ASSUME TypeOK, NEW kind \in {"progress", "work_submission"}, NEW c \in Nat,
           NEW cycle \in Nat, InsertDeliveryItem(kind, c, cycle)
    PROVE  items' \in SUBSET DeliveryItem
BY DEF TypeOK, InsertDeliveryItem, DeliveryItem

\* The completion payload collected from the Thread is well typed.
LEMMA PayloadType ==
    ASSUME TypeOK, NEW c \in Nat, NEW cycle \in Nat, NEW changes \in SUBSET CodeChanges
    PROVE  ExecutionCompletionPayload(c, cycle, changes) \in ExecutionCompleted
  <1>1. ActiveCriterionRevisions \in SUBSET CriterionRevision
    BY DEF TypeOK, ActiveCriterionRevisions, CriterionRevision, AcceptanceCriterion
  <1> QED
    BY <1>1 DEF TypeOK, ExecutionCompletionPayload, ExecutionCompleted

\* The commands that address a Claim preserve the types.
LEMMA ClaimCommandType ==
    ASSUME TypeOK, NEW r \in Clients, ClaimCommand(r)
    PROVE  TypeOK'
  <1> USE DEF L!TaskClaimOutcome
  <1>0. /\ task \in TaskRow
        /\ task.reviewCycle \in Nat
        /\ client[r] \in ClientType
        /\ client[r].claim \in Nat
        /\ client[r].prepared \in SUBSET CodeChanges
    BY Zenon DEF TypeOK, TaskRow, ClientType
  <1>1. CASE ReleaseClaim(r)
    <2>1. L!Release(task) \in TaskRow
      BY <1>0, LifecycleType
    <2> QED
      BY <1>1, <2>1, FinishClaimType DEF ReleaseClaim, OwnedClaim, TypeOK, delivery
  <1>2. CASE RequestChanges(r)
    <2>1. L!RequestChanges(task) \in TaskRow
      BY <1>0, LifecycleType
    <2> QED
      BY <1>2, <2>1, FinishClaimType DEF RequestChanges, OwnedClaim, TypeOK, delivery
  <1>3. CASE RequestResolution(r)
    <2>1. L!RequestResolution(task) \in TaskRow /\ Len(threads) + 1 \in Nat
      BY <1>0, LifecycleType DEF TypeOK
    <2>2. [L!RequestResolution(task) EXCEPT !.activeIssue = Len(threads) + 1] \in TaskRow
      BY <2>1 DEF TaskRow
    <2>3. [status |-> "open", openedFromPhase |-> task.phase, version |-> 1] \in IssueThread
      BY <1>0 DEF IssueThread, TaskRow
    <2>4. threads' \in Seq(IssueThread)
      BY <1>3, <2>3 DEF RequestResolution, TypeOK
    <2> QED
      BY <1>3, <2>2, <2>4, FinishClaimType, Zenon
         DEF RequestResolution, OwnedClaim, TypeOK, delivery
  <1>4. CASE CompleteExecution(r)
    <2>1. L!CompleteExecution(task) \in TaskRow
      BY <1>0, LifecycleType
    <2>2. ExecutionCompletionPayload(client[r].claim, task.reviewCycle + 1,
                                     client[r].prepared) \in ExecutionCompleted
      BY <1>0, PayloadType
    <2>3. completions' \in Seq(ExecutionCompleted)
      BY <1>4, <2>2 DEF CompleteExecution, TypeOK
    <2> QED
      BY <1>4, <2>1, <2>3, FinishClaimType, Zenon DEF CompleteExecution, OwnedClaim, TypeOK
  <1>5. CASE \E unfinished \in BOOLEAN : AcceptTask(r, unfinished)
    <2>1. L!Accept(task) \in TaskRow
      BY <1>0, LifecycleType
    <2> QED
      BY <1>5, <2>1, FinishClaimType, Zenon DEF AcceptTask, OwnedClaim, TypeOK, delivery
  <1>6. CASE RecordWorkSubmission(r)
    <2>1. items' \in SUBSET DeliveryItem
      BY <1>0, <1>6, InsertDeliveryItemType DEF RecordWorkSubmission
    <2> QED
      BY <1>6, <2>1, AuditType, EndRequestType, Zenon DEF RecordWorkSubmission, TypeOK
  <1>7. CASE RecordClaimProgress(r)
    <2>1. task.reviewCycle + ExecutionCycleOffset(claims[client[r].claim].stage) \in Nat
      BY <1>0 DEF ExecutionCycleOffset
    <2>2. items' \in SUBSET DeliveryItem
      BY <1>0, <1>7, <2>1, InsertDeliveryItemType, Zenon DEF RecordClaimProgress
    <2> QED
      BY <1>7, <2>2, AuditType, EndRequestType, Zenon DEF RecordClaimProgress, TypeOK
  <1>8. CASE \E k \in Criteria, o \in Outcomes : RecordAcceptanceCheck(r, k, o)
    <2>1. PICK k \in Criteria, o \in Outcomes : RecordAcceptanceCheck(r, k, o)
      BY <1>8
    <2>2. criteria[k].revision \in Nat /\ o \in L!AcceptanceOutcome
      BY ConstantsAssumption, Zenon DEF TypeOK, AcceptanceCriterion
    <2>3. checks' \in SUBSET AcceptanceCheck
      BY <1>0, <2>1, <2>2, SMTT(30) DEF RecordAcceptanceCheck, AcceptanceCheck, TypeOK
    <2> QED
      BY <2>1, <2>3, AuditType, EndRequestType, Zenon DEF RecordAcceptanceCheck, TypeOK
  <1>9. ASSUME NEW links \in SUBSET CodeChanges, ChangeLinks(r, links)
        PROVE  TypeOK'
    <2>1. task' \in TaskRow
      BY <1>0, <1>9, PersistType DEF ChangeLinks
    <2> QED
      BY <1>9, <2>1, AuditType, EndRequestType, Zenon DEF ChangeLinks, TypeOK, delivery
  <1>10. CASE \E change \in CodeChanges : \/ LinkCodeChange(r, change)
                                          \/ UnlinkCodeChange(r, change)
    BY <1>9, <1>10 DEF LinkCodeChange, UnlinkCodeChange, TypeOK
  <1> QED
    BY <1>1, <1>2, <1>3, <1>4, <1>5, <1>6, <1>7, <1>8, <1>10, Zenon DEF ClaimCommand

\* The edits of acceptance criteria preserve the types.
LEMMA CriterionCommandType ==
    ASSUME TypeOK, NEW r \in Clients, CriterionCommand(r)
    PROVE  TypeOK'
  <1>0. task \in TaskRow
    BY DEF TypeOK
  <1>1. ASSUME NEW k \in Criteria, NEW new \in AcceptanceCriterion,
               criteria' = [criteria EXCEPT ![k] = new],
               IncrementVersion, Audit(r), EndRequest(r),
               UNCHANGED <<claims, threads, delivery, linked, now>>
        PROVE  TypeOK'
    BY <1>0, <1>1, IncrementVersionType, AuditType, EndRequestType DEF TypeOK, delivery
  <1>2. CASE \E k \in Criteria : CreateTaskCriterion(r, k)
    <2>1. [state |-> "active", revision |-> 1, version |-> 1] \in AcceptanceCriterion
      BY DEF AcceptanceCriterion
    <2> QED
      BY <1>1, <1>2, <2>1, Zenon DEF CreateTaskCriterion
  <1>3. CASE \E k \in Criteria, reworded \in BOOLEAN : UpdateCriterion(r, k, reworded)
    <2>1. PICK k \in Criteria, reworded \in BOOLEAN : UpdateCriterion(r, k, reworded)
      BY <1>3
    <2>2. criteria[k] \in AcceptanceCriterion
      BY DEF TypeOK
    <2> DEFINE revision == IF reworded THEN criteria[k].revision + 1
                           ELSE criteria[k].revision
    <2>3. revision \in Nat /\ criteria[k].version + 1 \in Nat
      BY <2>2 DEF AcceptanceCriterion
    <2>4. [criteria[k] EXCEPT !.revision = revision,
                              !.version = criteria[k].version + 1] \in AcceptanceCriterion
      BY <2>2, <2>3, Zenon DEF AcceptanceCriterion
    <2> QED
      BY <1>1, <2>1, <2>4, Zenon DEF UpdateCriterion
  <1>4. CASE \E k \in Criteria : RemoveCriterion(r, k)
    <2>1. PICK k \in Criteria : RemoveCriterion(r, k)
      BY <1>4
    <2>2. criteria[k] \in AcceptanceCriterion
      BY DEF TypeOK
    <2>3. criteria[k].version + 1 \in Nat
      BY <2>2 DEF AcceptanceCriterion
    <2>4. /\ [criteria[k] EXCEPT !.state = "archived",
                                 !.version = criteria[k].version + 1] \in AcceptanceCriterion
          /\ [criteria[k] EXCEPT !.state = "deleted"] \in AcceptanceCriterion
      BY <2>2, <2>3, Zenon DEF AcceptanceCriterion
    <2> DEFINE removed == IF \E h \in checks : h.criterion = k
                          THEN [criteria[k] EXCEPT !.state = "archived",
                                                   !.version = criteria[k].version + 1]
                          ELSE [criteria[k] EXCEPT !.state = "deleted"]
    <2>5. removed \in AcceptanceCriterion
      BY <2>4
    <2>6. criteria' = [criteria EXCEPT ![k] = removed]
      BY <2>1 DEF RemoveCriterion
    <2> HIDE DEF removed
    <2> QED
      BY <1>1, <2>1, <2>5, <2>6, Zenon DEF RemoveCriterion
  <1> QED
    BY <1>2, <1>3, <1>4 DEF CriterionCommand

\* Every step of the workflow preserves the types.
LEMMA NextTypeOK ==
    ASSUME TypeOK, [Next]_vars
    PROVE  TypeOK'
  <1>1. CASE AdvanceTime
    BY <1>1 DEF AdvanceTime, TypeOK, delivery
  <1>2. CASE \E r \in Clients : Read(r) \/ TaskCommand(r) \/ ClaimCommand(r)
                                \/ CriterionCommand(r)
    BY <1>2, ReadType, TaskCommandType, ClaimCommandType, CriterionCommandType
  <1>3. CASE UNCHANGED vars
    BY <1>3 DEF vars, TypeOK
  <1> QED
    BY <1>1, <1>2, <1>3 DEF Next

\* Type correctness: whatever the clients do, every row of the Task, its Claims,
\* Threads, criteria, checks and Items keeps the shape its Go type declares.
THEOREM TypeCorrect == Spec => []TypeOK
  <1>1. Init => TypeOK
    BY InitTypeOK
  <1>2. TypeOK /\ [Next]_vars => TypeOK'
    BY NextTypeOK, Zenon
  <1> QED
    BY <1>1, <1>2, PTL DEF Spec

-----------------------------------------------------------------------------
(* Ownership, Issues and archiving.  The three invariants are inductive      *)
(* together with type correctness.                                           *)

WorkflowInv ==
    /\ TypeOK
    /\ WorkingIffOneActiveClaim
    /\ BlockedByOneOpenIssue
    /\ ArchivedIsIdle

\* Ending an active Claim takes it out of the active ones.
LEMMA ActiveAfterEnd ==
    ASSUME TypeOK, NEW c \in ActiveClaims, NEW outcome \in L!TaskClaimOutcome,
           claims' = EndedClaims(c, outcome)
    PROVE  ActiveClaims' = ActiveClaims \ {c} /\ Len(claims') = Len(claims)
  <1>1. c \in 1..Len(claims)
    BY Zenon DEF ActiveClaims
  <1> QED
    BY <1>1, EndedClaimsType DEF ActiveClaims

\* Claiming an unclaimed stage makes the new Claim the only active one.
LEMMA ActiveAfterClaim ==
    ASSUME TypeOK, ActiveClaims = {}, NEW new \in TaskStageClaim, new.status = "active",
           claims' = Append(claims, new)
    PROVE  /\ Len(claims') = Len(claims) + 1
           /\ ActiveClaims' = {Len(claims) + 1}
           /\ claims'[Len(claims) + 1] = new
  <1>1. claims \in Seq(TaskStageClaim) /\ Len(claims) \in Nat
    BY DEF TypeOK
  <1>2. /\ Len(claims') = Len(claims) + 1
        /\ claims'[Len(claims) + 1] = new
        /\ \A d \in 1..Len(claims) : claims'[d] = claims[d]
    BY <1>1
  <1>3. \A d \in 1..Len(claims) : claims[d].status # "active"
    BY DEF ActiveClaims
  <1> QED
    BY <1>1, <1>2, <1>3 DEF ActiveClaims

\* Taking over a due Claim ends it and makes the new Claim the only active one.
LEMMA ActiveAfterTakeover ==
    ASSUME TypeOK, NEW c, ActiveClaims = {c}, NEW new \in TaskStageClaim,
           new.status = "active",
           claims' = Append(EndedClaims(c, "deadline_elapsed"), new)
    PROVE  /\ Len(claims') = Len(claims) + 1
           /\ ActiveClaims' = {Len(claims) + 1}
           /\ claims'[Len(claims) + 1] = new
  <1> DEFINE ended == EndedClaims(c, "deadline_elapsed")
  <1>0. c \in ActiveClaims
    OBVIOUS
  <1>1. claims \in Seq(TaskStageClaim) /\ Len(claims) \in Nat /\ c \in 1..Len(claims)
    BY <1>0 DEF TypeOK, ActiveClaims
  <1>2. /\ ended \in Seq(TaskStageClaim)
        /\ Len(ended) = Len(claims)
        /\ \A d \in 1..Len(claims) : d # c => ended[d] = claims[d]
        /\ ended[c].status # "active"
    BY <1>0, EndedClaimsType DEF L!TaskClaimOutcome
  <1>3. \A d \in 1..Len(claims) : d # c => claims[d].status # "active"
    BY DEF ActiveClaims
  <1> HIDE DEF ended
  <1>4. /\ Len(claims') = Len(claims) + 1
        /\ claims'[Len(claims) + 1] = new
        /\ \A d \in 1..Len(claims) : claims'[d] = ended[d]
    BY <1>1, <1>2 DEF ended
  <1> QED
    BY <1>1, <1>2, <1>3, <1>4, SMTT(30) DEF ActiveClaims

\* The owned Claim is the only active Claim.
LEMMA OwnedIsActive ==
    ASSUME WorkflowInv, NEW r \in Clients, ClaimStillOwned(r)
    PROVE  /\ ActiveClaims = {client[r].claim}
           /\ task.activity = "working"
           /\ task.activeIssue = NoIssue
           /\ ~task.archived
           /\ L!RequireWorkingStage(task, claims[client[r].claim].stage)
BY DEF WorkflowInv, WorkingIffOneActiveClaim, BlockedByOneOpenIssue, ArchivedIsIdle,
       ClaimStillOwned, NoIssue

\* An active Claim or open Issue is untouched by a step that changes neither
\* phase, activity, Issue nor archive flag.
LEMMA WorkflowFrame ==
    ASSUME WorkflowInv, TypeOK', UNCHANGED <<claims, threads>>,
           task'.phase = task.phase, task'.activity = task.activity,
           task'.activeIssue = task.activeIssue, task'.archived = task.archived
    PROVE  WorkflowInv'
BY DEF WorkflowInv, WorkingIffOneActiveClaim, BlockedByOneOpenIssue, ArchivedIsIdle,
       ActiveClaims, L!RequireWorkingStage

\* Persisting t stores t's phase, activity, review cycle, Issue and archive flag.
LEMMA PersistFields ==
    ASSUME TypeOK, NEW t \in TaskRow, Persist(t)
    PROVE  /\ task'.phase = t.phase
           /\ task'.activity = t.activity
           /\ task'.reviewCycle = t.reviewCycle
           /\ task'.activeIssue = t.activeIssue
           /\ task'.archived = t.archived
           /\ task'.version = task.version + 1
BY DEF Persist, TaskRow

\* A step that ends the only active Claim and leaves the Task neither working nor
\* blocked keeps the invariants.
LEMMA EndingInv ==
    ASSUME WorkflowInv, TypeOK', UNCHANGED threads,
           NEW c, ActiveClaims = {c}, NEW outcome \in L!TaskClaimOutcome,
           claims' = EndedClaims(c, outcome),
           task.activeIssue = NoIssue, task'.activeIssue = NoIssue,
           task'.activity \notin {"working", "needs_resolution"}
    PROVE  WorkflowInv'
  <1>1. c \in ActiveClaims /\ TypeOK
    BY DEF WorkflowInv
  <1>2. ActiveClaims' = {}
    BY <1>1, ActiveAfterEnd
  <1>3. WorkingIffOneActiveClaim'
    BY <1>2 DEF WorkingIffOneActiveClaim
  <1>4. BlockedByOneOpenIssue'
    BY DEF WorkflowInv, BlockedByOneOpenIssue, NoIssue
  <1> QED
    BY <1>3, <1>4 DEF WorkflowInv, ArchivedIsIdle

\* finishClaim with a Lifecycle that is neither working nor blocked.
LEMMA FinishInv ==
    ASSUME WorkflowInv, TypeOK', NEW r \in Clients, NEW outcome \in L!TaskClaimOutcome,
           NEW t \in TaskRow, ClaimStillOwned(r), FinishClaim(r, outcome, t),
           UNCHANGED threads, t.activeIssue = task.activeIssue,
           t.activity \notin {"working", "needs_resolution"}
    PROVE  WorkflowInv'
  <1>1. ActiveClaims = {client[r].claim} /\ task.activeIssue = NoIssue
    BY OwnedIsActive, Zenon
  <1>2. claims' = EndedClaims(client[r].claim, outcome)
    BY Zenon DEF FinishClaim, EndClaim
  <1>3. task'.activity = t.activity /\ task'.activeIssue = t.activeIssue
    BY PersistFields DEF FinishClaim, WorkflowInv
  <1> QED
    BY <1>1, <1>2, <1>3, EndingInv, Zenon

\* The lazy expiry run by readers keeps the workflow invariant.
LEMMA ReadInv ==
    ASSUME WorkflowInv, TypeOK', NEW r \in Clients, Read(r)
    PROVE  WorkflowInv'
  <1>1. CASE ExpireDueClaim(r)
    <2>1. PICK c \in DueClaims(now) : EndClaim(c, "deadline_elapsed")
      BY <1>1 DEF ExpireDueClaim
    <2>2. task.activity = "working" /\ c \in ActiveClaims
      BY DEF DueClaims
    <2>3. ActiveClaims = {c} /\ task.activeIssue = NoIssue
      BY <2>2 DEF WorkflowInv, WorkingIffOneActiveClaim, BlockedByOneOpenIssue
    <2>4. task \in TaskRow /\ L!Release(task) \in TaskRow
      BY LifecycleType DEF WorkflowInv, TypeOK
    <2>5. task'.activity = "available" /\ task'.activeIssue = NoIssue
      <3>1. /\ task'.activity = L!Release(task).activity
            /\ task'.activeIssue = L!Release(task).activeIssue
        BY <1>1, <2>4, PersistFields DEF ExpireDueClaim, WorkflowInv
      <3> QED
        BY <2>3, <2>4, <3>1, Zenon DEF L!Release, TaskRow
    <2> QED
      BY <1>1, <2>1, <2>3, <2>5, EndingInv, Zenon DEF ExpireDueClaim, EndClaim, L!TaskClaimOutcome
  <1>2. CASE UNCHANGED <<task, claims, threads>>
    BY <1>2, WorkflowFrame
  <1> QED
    BY <1>1, <1>2, Zenon DEF Read, GetTask, ListTaskCriteria, PrepareCompletion, ClaimCommandTarget, Abandon

\* The owner's commands (release, block, complete, review) keep the workflow invariant.
LEMMA ClaimCommandInv ==
    ASSUME WorkflowInv, TypeOK', NEW r \in Clients, ClaimCommand(r)
    PROVE  WorkflowInv'
  <1> USE DEF L!TaskClaimOutcome
  <1>0. TypeOK /\ task \in TaskRow
    BY DEF WorkflowInv, TypeOK
  <1>1. CASE ReleaseClaim(r)
    <2>1. /\ L!Release(task) \in TaskRow
          /\ L!Release(task).activeIssue = task.activeIssue
          /\ L!Release(task).activity = "available"
      BY <1>0, LifecycleType DEF L!Release, TaskRow
    <2> QED
      BY <1>1, <2>1, FinishInv DEF ReleaseClaim, OwnedClaim
  <1>2. CASE RequestChanges(r)
    <2>1. /\ L!RequestChanges(task) \in TaskRow
          /\ L!RequestChanges(task).activeIssue = task.activeIssue
          /\ L!RequestChanges(task).activity = "available"
      BY <1>0, LifecycleType, Zenon DEF L!RequestChanges, TaskRow
    <2> QED
      BY <1>2, <2>1, FinishInv DEF RequestChanges, OwnedClaim
  <1>3. CASE CompleteExecution(r)
    <2>1. /\ L!CompleteExecution(task) \in TaskRow
          /\ L!CompleteExecution(task).activeIssue = task.activeIssue
          /\ L!CompleteExecution(task).activity = "available"
      BY <1>0, LifecycleType, Zenon DEF L!CompleteExecution, TaskRow
    <2> QED
      BY <1>3, <2>1, FinishInv DEF CompleteExecution, OwnedClaim
  <1>4. CASE \E unfinished \in BOOLEAN : AcceptTask(r, unfinished)
    <2>1. /\ L!Accept(task) \in TaskRow
          /\ L!Accept(task).activeIssue = task.activeIssue
          /\ L!Accept(task).activity = L!NoActivity
      BY <1>0, LifecycleType, Zenon DEF L!Accept, TaskRow
    <2> QED
      BY <1>4, <2>1, FinishInv DEF AcceptTask, OwnedClaim, L!NoActivity
  <1>5. CASE RequestResolution(r)
    <2>1. ClaimStillOwned(r) /\ EndClaim(client[r].claim, "needs_resolution")
      BY <1>5 DEF RequestResolution, OwnedClaim, FinishClaim
    <2>2. /\ ActiveClaims = {client[r].claim}
          /\ task.activeIssue = NoIssue /\ ~task.archived
      BY <2>1, OwnedIsActive
    <2>3. ActiveClaims' = {}
      BY <1>0, <2>1, <2>2, ActiveAfterEnd, Zenon DEF EndClaim
    <2> DEFINE t == [L!RequestResolution(task) EXCEPT !.activeIssue = Len(threads) + 1]
    <2>4. L!RequestResolution(task) \in TaskRow /\ Len(threads) + 1 \in Nat
      BY <1>0, LifecycleType DEF TypeOK
    <2>5. /\ t \in TaskRow
          /\ t.activity = "needs_resolution" /\ t.phase = task.phase
          /\ t.activeIssue = Len(threads) + 1 /\ t.archived = task.archived
      BY <1>0, <2>4, Zenon DEF TaskRow, L!RequestResolution
    <2>6. Persist(t)
      BY <1>5 DEF RequestResolution, FinishClaim
    <2> HIDE DEF t
    <2>7. /\ task'.activity = "needs_resolution" /\ task'.phase = task.phase
          /\ task'.activeIssue = Len(threads) + 1 /\ ~task'.archived
      BY <1>0, <2>2, <2>5, <2>6, PersistFields
    <2>8. /\ threads \in Seq(IssueThread) /\ Len(threads) \in Nat
          /\ Len(threads') = Len(threads) + 1
          /\ threads'[Len(threads) + 1].status = "open"
          /\ threads'[Len(threads) + 1].openedFromPhase = task.phase
          /\ \A i \in 1..Len(threads) : threads'[i] = threads[i]
      BY <1>0, <1>5 DEF RequestResolution, TypeOK
    <2>9. \A i \in 1..Len(threads) : threads[i].status # "open"
      BY <2>2, <2>8 DEF WorkflowInv, BlockedByOneOpenIssue, NoIssue
    <2>10. BlockedByOneOpenIssue'
      BY <2>7, <2>8, <2>9 DEF BlockedByOneOpenIssue, NoIssue
    <2> QED
      BY <2>3, <2>7, <2>10 DEF WorkflowInv, WorkingIffOneActiveClaim, ArchivedIsIdle
  <1>6. CASE RecordWorkSubmission(r) \/ RecordClaimProgress(r)
             \/ \E k \in Criteria, o \in Outcomes : RecordAcceptanceCheck(r, k, o)
    BY <1>6, WorkflowFrame, Zenon
       DEF RecordWorkSubmission, RecordClaimProgress, RecordAcceptanceCheck
  <1>7. CASE \E change \in CodeChanges : \/ LinkCodeChange(r, change)
                                         \/ UnlinkCodeChange(r, change)
    BY <1>0, <1>7, PersistFields, WorkflowFrame, Zenon
       DEF LinkCodeChange, UnlinkCodeChange, ChangeLinks
  <1> QED
    BY <1>1, <1>2, <1>3, <1>4, <1>5, <1>6, <1>7 DEF ClaimCommand

\* A step on a Task that is neither working nor blocked, which leaves it so.
LEMMA IdleTaskInv ==
    ASSUME WorkflowInv, TypeOK', UNCHANGED <<claims, threads>>,
           task.activity \notin {"working", "needs_resolution"},
           task'.activity \notin {"working", "needs_resolution"},
           task'.activeIssue = task.activeIssue
    PROVE  WorkflowInv'
BY DEF WorkflowInv, WorkingIffOneActiveClaim, BlockedByOneOpenIssue, ArchivedIsIdle,
       ActiveClaims, NoIssue

\* The active Issue is a Thread of the Task; resolving it leaves none open.
LEMMA ResolvedInv ==
    ASSUME WorkflowInv, TypeOK', UNCHANGED claims,
           task.activity = "needs_resolution", ResolveThread(task.activeIssue),
           task'.activity \notin {"working", "needs_resolution"},
           task'.activeIssue = NoIssue
    PROVE  WorkflowInv'
  <1>1. threads \in Seq(IssueThread) /\ Len(threads) \in Nat /\ task.activeIssue \in Nat
    BY DEF WorkflowInv, TypeOK, TaskRow
  <1>2. task.activeIssue \in 1..Len(threads)
    BY <1>1 DEF WorkflowInv, BlockedByOneOpenIssue, NoIssue
  <1>3. Len(threads') = Len(threads)
    BY <1>1 DEF ResolveThread
  <1>4. \A i \in 1..Len(threads) : threads'[i].status # "open"
    <2> TAKE i \in 1..Len(threads)
    <2>1. CASE i = task.activeIssue
      <3>1. threads[i] \in IssueThread
        BY <1>1
      <3> QED
        BY <1>1, <2>1, <3>1 DEF ResolveThread, IssueThread
    <2>2. CASE i # task.activeIssue
      BY <1>1, <2>2 DEF ResolveThread, WorkflowInv, BlockedByOneOpenIssue
    <2> QED
      BY <2>1, <2>2
  <1>5. BlockedByOneOpenIssue'
    BY <1>1, <1>3, <1>4 DEF BlockedByOneOpenIssue, NoIssue
  <1>6. WorkingIffOneActiveClaim'
    BY DEF WorkflowInv, WorkingIffOneActiveClaim, ActiveClaims
  <1> QED
    BY <1>5, <1>6 DEF WorkflowInv, ArchivedIsIdle

\* After a Claim the Task is working for the new Claim alone.
LEMMA ClaimedInv ==
    ASSUME WorkflowInv, TypeOK', UNCHANGED threads, NEW new,
           Len(claims') = Len(claims) + 1, ActiveClaims' = {Len(claims) + 1},
           claims'[Len(claims) + 1] = new, new.stage = L!ExpectedStage(task'.phase),
           L!Active(task'.phase), task'.activity = "working",
           task.activeIssue = NoIssue, task'.activeIssue = NoIssue, ~task'.archived
    PROVE  WorkflowInv'
  <1>1. Len(claims) \in Nat
    BY DEF WorkflowInv, TypeOK
  <1>2. WorkingIffOneActiveClaim'
    BY <1>1 DEF WorkingIffOneActiveClaim, L!RequireWorkingStage
  <1>3. BlockedByOneOpenIssue'
    BY Zenon DEF WorkflowInv, BlockedByOneOpenIssue, NoIssue
  <1> QED
    BY <1>2, <1>3 DEF WorkflowInv, ArchivedIsIdle

\* Claiming, with the takeover of an overdue Claim, keeps the workflow invariant.
LEMMA ClaimInv ==
    ASSUME WorkflowInv, TypeOK', NEW r \in Clients, NEW at \in 0..now, Claim(r, at)
    PROVE  WorkflowInv'
  <1>0. TypeOK /\ task \in TaskRow /\ at \in Nat
    BY DEF WorkflowInv, TypeOK
  <1> DEFINE new == NewTaskStageClaim(task, r, at)
  <1>1. new \in TaskStageClaim /\ new.status = "active" /\ new.stage = L!ClaimStage(task)
    BY <1>0, NewClaimType
  <1> HIDE DEF new
  <1>2. CASE /\ L!CanClaim(task)
             /\ claims' = Append(claims, new)
             /\ Persist(L!Claim(task))
    <2>1. task.activity \notin {"working", "needs_resolution"} /\ ~task.archived
          /\ (task.phase = "ready" \/ L!Active(task.phase))
      BY <1>2, Zenon DEF L!CanClaim, L!Claimable, L!NoActivity
    <2>2. ActiveClaims = {} /\ task.activeIssue = NoIssue
      BY <2>1 DEF WorkflowInv, WorkingIffOneActiveClaim, BlockedByOneOpenIssue
    <2>3. L!Claim(task) \in TaskRow
      BY <1>0, LifecycleType, Zenon
    <2>4. /\ task'.activity = "working" /\ task'.phase = L!ClaimedPhase(task)
          /\ task'.activeIssue = NoIssue /\ ~task'.archived
      <3>1. /\ L!Claim(task).activity = "working"
            /\ L!Claim(task).phase = L!ClaimedPhase(task)
            /\ L!Claim(task).activeIssue = task.activeIssue
            /\ L!Claim(task).archived = task.archived
        BY <1>0 DEF L!Claim, TaskRow
      <3> QED
        BY <1>0, <1>2, <2>1, <2>2, <2>3, <3>1, PersistFields
    <2>5. L!Active(task'.phase) /\ new.stage = L!ExpectedStage(task'.phase)
      BY <1>1, <2>1, <2>4 DEF L!ClaimedPhase, L!Active, L!ClaimStage
    <2>6. /\ Len(claims') = Len(claims) + 1
          /\ ActiveClaims' = {Len(claims) + 1}
          /\ claims'[Len(claims) + 1] = new
      BY <1>0, <1>1, <1>2, <2>2, ActiveAfterClaim, Zenon
    <2> QED
      BY <2>2, <2>4, <2>5, <2>6, ClaimedInv, Zenon DEF Claim
  <1>3. ASSUME NEW c \in DueClaims(at),
               L!RequireWorkingStage(task, claims[c].stage),
               L!CanClaim(L!Release(task)),
               claims' = Append(EndedClaims(c, "deadline_elapsed"), new),
               Persist(L!Claim(L!Release(task)))
        PROVE  WorkflowInv'
    <2>1. task.activity = "working" /\ L!Active(task.phase) /\ c \in ActiveClaims
      BY <1>3 DEF DueClaims, L!RequireWorkingStage
    <2>2. ActiveClaims = {c} /\ task.activeIssue = NoIssue /\ ~task.archived
      BY <2>1 DEF WorkflowInv, WorkingIffOneActiveClaim, BlockedByOneOpenIssue,
                  ArchivedIsIdle
    <2>3. L!Release(task) \in TaskRow /\ L!Claim(L!Release(task)) \in TaskRow
      BY <1>0, LifecycleType
    <2>4. task.phase # "ready"
      BY <2>1, Zenon DEF L!Active
    <2>5. /\ task'.activity = "working" /\ task'.phase = task.phase
          /\ task'.activeIssue = NoIssue /\ ~task'.archived
      <3>1. /\ L!Claim(L!Release(task)).activity = "working"
            /\ L!Claim(L!Release(task)).phase = task.phase
            /\ L!Claim(L!Release(task)).activeIssue = task.activeIssue
            /\ L!Claim(L!Release(task)).archived = task.archived
        BY <1>0, <2>4 DEF L!Claim, L!ClaimedPhase, L!Release, TaskRow
      <3> QED
        BY <1>0, <1>3, <2>2, <2>3, <3>1, PersistFields, Zenon
    <2>6. new.stage = L!ExpectedStage(task'.phase)
      BY <1>1, <2>4, <2>5, Zenon DEF L!ClaimStage, L!ClaimedPhase
    <2>7. /\ Len(claims') = Len(claims) + 1
          /\ ActiveClaims' = {Len(claims) + 1}
          /\ claims'[Len(claims) + 1] = new
      BY <1>0, <1>1, <1>3, <2>2, ActiveAfterTakeover
    <2> QED
      BY <2>1, <2>2, <2>5, <2>6, <2>7, ClaimedInv, Zenon DEF Claim
  <1> QED
    BY <1>2, <1>3 DEF Claim, new

\* Ready, cancel, resolve, archive and restore keep the workflow invariant.
LEMMA TaskCommandInv ==
    ASSUME WorkflowInv, TypeOK', NEW r \in Clients, TaskCommand(r)
    PROVE  WorkflowInv'
  <1>0. TypeOK /\ task \in TaskRow
    BY DEF WorkflowInv, TypeOK
  <1>1. CASE \E unfinished \in BOOLEAN : MarkReady(r, unfinished)
    <2>1. /\ L!MarkReady(task) \in TaskRow
          /\ L!MarkReady(task).activity = task.activity
          /\ L!MarkReady(task).activeIssue = task.activeIssue
      BY <1>0, LifecycleType DEF L!MarkReady, TaskRow
    <2>2. task.activity = L!NoActivity
      BY <1>1, Zenon DEF MarkReady, L!CanMarkReady
    <2>3. task'.activity = task.activity /\ task'.activeIssue = task.activeIssue
      BY <1>0, <1>1, <2>1, PersistFields, Zenon DEF MarkReady
    <2> QED
      BY <1>1, <2>2, <2>3, IdleTaskInv DEF MarkReady, L!NoActivity
  <1>2. CASE WithdrawReadiness(r)
    <2>1. /\ L!WithdrawReadiness(task) \in TaskRow
          /\ L!WithdrawReadiness(task).activity = task.activity
          /\ L!WithdrawReadiness(task).activeIssue = task.activeIssue
      BY <1>0, LifecycleType DEF L!WithdrawReadiness, TaskRow
    <2>2. task.activity = L!NoActivity
      BY <1>2, Zenon DEF WithdrawReadiness, L!CanWithdrawReadiness
    <2>3. task'.activity = task.activity /\ task'.activeIssue = task.activeIssue
      BY <1>0, <1>2, <2>1, PersistFields DEF WithdrawReadiness
    <2> QED
      BY <1>2, <2>2, <2>3, IdleTaskInv DEF WithdrawReadiness, L!NoActivity
  <1>3. CASE \E at \in 0..now : Claim(r, at)
    BY <1>3, ClaimInv
  <1>4. CASE \E i \in 1..Len(threads), v \in 1..2 : ResolveIssue(r, i, v)
    <2>1. PICK i \in 1..Len(threads), v \in 1..2 : ResolveIssue(r, i, v)
      BY <1>4
    <2>2. task.activity = "needs_resolution" /\ ResolveThread(task.activeIssue)
      BY <2>1 DEF ResolveIssue, L!CanResolveIssue
    <2> DEFINE t == L!ResolveIssue([task EXCEPT !.activeIssue = NoIssue])
    <2>3. [task EXCEPT !.activeIssue = NoIssue] \in TaskRow
      BY <1>0 DEF TaskRow, NoIssue
    <2>4. t \in TaskRow /\ t.activity = "available" /\ t.activeIssue = NoIssue
      BY <1>0, <2>3, LifecycleType, Zenon DEF L!ResolveIssue, TaskRow
    <2>5. Persist(t)
      BY <2>1 DEF ResolveIssue
    <2> HIDE DEF t
    <2>6. task'.activity = "available" /\ task'.activeIssue = NoIssue
      BY <1>0, <2>4, <2>5, PersistFields
    <2> QED
      BY <2>1, <2>2, <2>6, ResolvedInv DEF ResolveIssue
  <1>5. CASE CancelTask(r)
    <2>1. ASSUME NEW t \in TaskRow, Persist(L!Cancel(t))
          PROVE  task'.activity = L!NoActivity /\ task'.activeIssue = t.activeIssue
      <3>1. /\ L!Cancel(t) \in TaskRow
            /\ L!Cancel(t).activity = L!NoActivity
            /\ L!Cancel(t).activeIssue = t.activeIssue
        BY LifecycleType, Zenon DEF L!Cancel, TaskRow
      <3> QED
        BY <1>0, <2>1, <3>1, PersistFields
    <2>2. CASE /\ task.activity = "working"
               /\ \E c \in ActiveClaims : EndClaim(c, "task_cancelled")
               /\ UNCHANGED threads
               /\ Persist(L!Cancel(task))
      <3>1. PICK c \in ActiveClaims : EndClaim(c, "task_cancelled")
        BY <2>2, Zenon
      <3>2. ActiveClaims = {c} /\ task.activeIssue = NoIssue
        BY <2>2, <3>1 DEF WorkflowInv, WorkingIffOneActiveClaim, BlockedByOneOpenIssue
      <3>3. task'.activity = L!NoActivity /\ task'.activeIssue = NoIssue
        BY <1>0, <2>1, <2>2, <3>2
      <3> QED
        BY <2>2, <3>1, <3>2, <3>3, EndingInv
           DEF EndClaim, L!TaskClaimOutcome, L!NoActivity
    <2>3. CASE /\ task.activity = "needs_resolution"
               /\ ResolveThread(task.activeIssue)
               /\ UNCHANGED claims
               /\ Persist(L!Cancel([task EXCEPT !.activeIssue = NoIssue]))
      <3>1. /\ [task EXCEPT !.activeIssue = NoIssue] \in TaskRow
            /\ [task EXCEPT !.activeIssue = NoIssue].activeIssue = NoIssue
        BY <1>0 DEF TaskRow, NoIssue
      <3>2. task'.activity = L!NoActivity /\ task'.activeIssue = NoIssue
        BY <2>1, <2>3, <3>1, ZenonT(40)
      <3> QED
        BY <2>3, <3>2, ResolvedInv DEF L!NoActivity
    <2>4. CASE /\ task.activity \notin {"working", "needs_resolution"}
               /\ UNCHANGED <<claims, threads>>
               /\ Persist(L!Cancel(task))
      BY <1>0, <2>1, <2>4, IdleTaskInv DEF L!NoActivity
    <2> QED
      BY <1>5, <2>2, <2>3, <2>4 DEF CancelTask
  <1>6. CASE \E archived \in BOOLEAN : SetArchived(r, archived)
    <2>1. PICK archived \in BOOLEAN : SetArchived(r, archived)
      BY <1>6
    <2>2. /\ task'.phase = task.phase /\ task'.activity = task.activity
          /\ task'.activeIssue = task.activeIssue /\ task'.archived = archived
      BY <1>0, <2>1 DEF SetArchived, TaskRow
    <2>3. UNCHANGED <<claims, threads>>
      BY <2>1 DEF SetArchived
    <2>4. ArchivedIsIdle'
      BY <2>1, <2>2 DEF SetArchived, WorkflowInv, ArchivedIsIdle
    <2> QED
      BY <2>2, <2>3, <2>4, Zenon
         DEF WorkflowInv, WorkingIffOneActiveClaim, BlockedByOneOpenIssue, ActiveClaims,
             L!RequireWorkingStage
  <1> QED
    BY <1>1, <1>2, <1>3, <1>4, <1>5, <1>6 DEF TaskCommand

\* Edits of criteria do not touch ownership, Issues or the archive flag.
LEMMA CriterionCommandInv ==
    ASSUME WorkflowInv, TypeOK', NEW r \in Clients, CriterionCommand(r)
    PROVE  WorkflowInv'
  <1>1. IncrementVersion /\ UNCHANGED <<claims, threads>>
    BY Zenon DEF CriterionCommand, CreateTaskCriterion, UpdateCriterion, RemoveCriterion
  <1>2. /\ task'.phase = task.phase /\ task'.activity = task.activity
        /\ task'.activeIssue = task.activeIssue /\ task'.archived = task.archived
    BY <1>1 DEF IncrementVersion, WorkflowInv, TypeOK, TaskRow
  <1> QED
    BY <1>1, <1>2, WorkflowFrame

\* Every step of the workflow keeps the workflow invariant.
LEMMA WorkflowStep ==
    ASSUME WorkflowInv, [Next]_vars
    PROVE  WorkflowInv'
  <1>0. TypeOK'
    BY NextTypeOK DEF WorkflowInv
  <1>1. CASE \E r \in Clients : Read(r) \/ TaskCommand(r) \/ ClaimCommand(r)
                                \/ CriterionCommand(r)
    BY <1>0, <1>1, ReadInv, TaskCommandInv, ClaimCommandInv, CriterionCommandInv, Zenon
  <1>2. CASE AdvanceTime \/ UNCHANGED vars
    BY <1>0, <1>2, WorkflowFrame DEF AdvanceTime, vars
  <1> QED
    BY <1>1, <1>2 DEF Next

\* A freshly created Task satisfies the workflow invariant.
LEMMA InitWorkflowInv == Init => WorkflowInv
  <1> SUFFICES ASSUME Init PROVE WorkflowInv
    OBVIOUS
  <1>1. TypeOK
    BY InitTypeOK
  <1>2. task.activity = "none" /\ task.activeIssue = 0 /\ ~task.archived
        /\ Len(claims) = 0 /\ Len(threads) = 0
    BY DEF Init, InitialTask, NoIssue, L!NoActivity
  <1> QED
    BY <1>1, <1>2
       DEF WorkflowInv, WorkingIffOneActiveClaim, BlockedByOneOpenIssue, ArchivedIsIdle,
           ActiveClaims, NoIssue

\* Ownership is exclusive and in step with the Task row, a blocked Task has one
\* open Issue, and an archived Task is idle: in every reachable state, for any
\* number of clients and principals, without the help of database constraints.
THEOREM WorkflowSafety ==
    Spec => [](WorkingIffOneActiveClaim /\ BlockedByOneOpenIssue /\ ArchivedIsIdle)
  <1>1. Init => WorkflowInv
    BY InitWorkflowInv
  <1>2. WorkflowInv /\ [Next]_vars => WorkflowInv'
    BY WorkflowStep
  <1>3. WorkflowInv => WorkingIffOneActiveClaim /\ BlockedByOneOpenIssue /\ ArchivedIsIdle
    BY DEF WorkflowInv
  <1> QED
    BY <1>1, <1>2, <1>3, PTL DEF Spec

\* A Task waits for a resolution exactly while one of its Issue Threads is open.
COROLLARY IssuesBlock == Spec => []BlockedByOneOpenIssue
  BY WorkflowSafety, PTL

\* An archived Task is nobody's work: SetArchived and Claim exclude each other.
COROLLARY ArchivedTasksAreIdle == Spec => []ArchivedIsIdle
  BY WorkflowSafety, PTL

-----------------------------------------------------------------------------
(* Optimistic concurrency.  IfMatchMeansUnchanged says nothing of a request   *)
(* whose version is no longer current, so it is not inductive: it needs that  *)
(* what a request has seen is never newer than the Task.                      *)

SeenIsPast ==
    \A r \in Clients : client[r].step # "idle" =>
      /\ client[r].seen.version <= task.version
      /\ client[r].seen.version = task.version =>
           /\ client[r].seen = task
           /\ client[r].fresh => client[r].listed = criteria

\* A step that changes the Task row, its criteria or its code changes counts a
\* new version of the Task.
LEMMA ChangesAreCounted ==
    ASSUME TypeOK, [Next]_vars
    PROVE  \/ UNCHANGED <<task, criteria, linked>>
           \/ task'.version = task.version + 1
  <1>0. task \in TaskRow
    BY DEF TypeOK
  <1>1. ASSUME NEW t \in TaskRow, Persist(t)
        PROVE  task'.version = task.version + 1
    BY <1>1, PersistFields
  <1>2. ASSUME IncrementVersion
        PROVE  task'.version = task.version + 1
    BY <1>0, <1>2 DEF IncrementVersion, TaskRow
  <1>3. [task EXCEPT !.activeIssue = NoIssue] \in TaskRow
    BY <1>0 DEF TaskRow, NoIssue
  <1>4. ASSUME NEW r \in Clients, Read(r)
        PROVE  UNCHANGED <<task, criteria, linked>> \/ task'.version = task.version + 1
    <2>1. CASE ExpireDueClaim(r)
      BY <1>0, <1>1, <2>1, LifecycleType DEF ExpireDueClaim
    <2>2. CASE ~ExpireDueClaim(r)
      BY <1>4, <2>2, Zenon DEF Read, GetTask, ListTaskCriteria, PrepareCompletion, ClaimCommandTarget, Abandon
    <2> QED
      BY <2>1, <2>2
  <1>5. ASSUME NEW r \in Clients, TaskCommand(r)
        PROVE  task'.version = task.version + 1
    <2>1. CASE (\E unfinished \in BOOLEAN : MarkReady(r, unfinished)) \/ WithdrawReadiness(r)
      BY <1>0, <1>1, <2>1, LifecycleType, Zenon DEF MarkReady, WithdrawReadiness
    <2>2. CASE \E at \in 0..now : Claim(r, at)
      BY <1>0, <1>1, <2>2, LifecycleType DEF Claim
    <2>3. CASE \E i \in 1..Len(threads), v \in 1..2 : ResolveIssue(r, i, v)
      BY <1>1, <1>3, <2>3, LifecycleType DEF ResolveIssue
    <2>4. CASE CancelTask(r)
      BY <1>0, <1>1, <1>3, <2>4, LifecycleType DEF CancelTask
    <2>5. CASE \E archived \in BOOLEAN : SetArchived(r, archived)
      BY <1>0, <2>5, Zenon DEF SetArchived, TaskRow
    <2> QED
      BY <1>5, <2>1, <2>2, <2>3, <2>4, <2>5 DEF TaskCommand
  <1>6. ASSUME NEW r \in Clients, ClaimCommand(r)
        PROVE  UNCHANGED <<task, criteria, linked>> \/ task'.version = task.version + 1
    <2>1. CASE ReleaseClaim(r) \/ RequestChanges(r) \/ CompleteExecution(r)
               \/ \E unfinished \in BOOLEAN : AcceptTask(r, unfinished)
      BY <1>0, <1>1, <2>1, LifecycleType, Zenon
         DEF ReleaseClaim, RequestChanges, CompleteExecution, AcceptTask, FinishClaim
    <2>2. CASE RequestResolution(r)
      <3>1. L!RequestResolution(task) \in TaskRow /\ Len(threads) + 1 \in Nat
        BY <1>0, LifecycleType DEF TypeOK
      <3>2. [L!RequestResolution(task) EXCEPT !.activeIssue = Len(threads) + 1] \in TaskRow
        BY <3>1 DEF TaskRow
      <3> QED
        BY <1>1, <2>2, <3>2 DEF RequestResolution, FinishClaim
    <2>3. CASE RecordWorkSubmission(r) \/ RecordClaimProgress(r)
               \/ \E k \in Criteria, o \in Outcomes : RecordAcceptanceCheck(r, k, o)
      BY <2>3, ZenonT(40) DEF RecordWorkSubmission, RecordClaimProgress, RecordAcceptanceCheck
    <2>4. CASE \E change \in CodeChanges : \/ LinkCodeChange(r, change)
                                           \/ UnlinkCodeChange(r, change)
      BY <1>0, <1>1, <2>4, ZenonT(40) DEF LinkCodeChange, UnlinkCodeChange, ChangeLinks
    <2> QED
      BY <1>6, <2>1, <2>2, <2>3, <2>4 DEF ClaimCommand
  <1>7. ASSUME NEW r \in Clients, CriterionCommand(r)
        PROVE  task'.version = task.version + 1
    BY <1>2, <1>7, Zenon
       DEF CriterionCommand, CreateTaskCriterion, UpdateCriterion, RemoveCriterion
  <1>8. CASE AdvanceTime \/ UNCHANGED vars
    BY <1>8 DEF AdvanceTime, vars
  <1> QED
    BY <1>4, <1>5, <1>6, <1>7, <1>8 DEF Next

\* A request forgets what it has seen, keeps it, or has just read.
LEMMA RequestsRemember ==
    ASSUME TypeOK, [Next]_vars, NEW r \in Clients
    PROVE  \/ client'[r].step = "idle"
           \/ /\ client[r].step # "idle" /\ client'[r].seen = client[r].seen
              /\ client'[r].fresh = client[r].fresh /\ client'[r].listed = client[r].listed
           \/ /\ client[r].step # "idle" /\ client'[r].seen = client[r].seen
              /\ client'[r].listed = criteria /\ UNCHANGED <<task, criteria>>
           \/ client'[r].seen = task /\ ~client'[r].fresh /\ UNCHANGED <<task, criteria>>
  <1>0. client \in [Clients -> ClientType] /\ client[r] \in ClientType
    BY DEF TypeOK
  <1> DEFINE Goal == \/ client'[r].step = "idle"
                     \/ /\ client[r].step # "idle" /\ client'[r].seen = client[r].seen
                        /\ client'[r].fresh = client[r].fresh /\ client'[r].listed = client[r].listed
                     \/ /\ client[r].step # "idle" /\ client'[r].seen = client[r].seen
                        /\ client'[r].listed = criteria /\ UNCHANGED <<task, criteria>>
                     \/ client'[r].seen = task /\ ~client'[r].fresh /\ UNCHANGED <<task, criteria>>
  <1>1. ASSUME UNCHANGED client
        PROVE  Goal
    BY <1>1, Zenon
  <1>2. ASSUME NEW q \in Clients, EndRequest(q)
        PROVE  Goal
    <2>1. client'[r] = IF r = q THEN Idle(Principal(q)) ELSE client[r]
      BY <1>0, <1>2 DEF EndRequest
    <2>2. Idle(Principal(q)).step = "idle"
      BY DEF Idle
    <2> QED
      BY <2>1, <2>2, Zenon
  <1>3. ASSUME NEW q \in Clients, Read(q)
        PROVE  Goal
    <2>1. CASE GetTask(q)
      <3>1. UNCHANGED <<task, criteria>> /\ client'[r] = IF r = q THEN [client[r] EXCEPT !.step = "seen", !.seen = task,
                                                                         !.at = now, !.fresh = FALSE] ELSE client[r]
        BY <1>0, <2>1 DEF GetTask
      <3> QED
        BY <1>0, <3>1 DEF ClientType
    <2>5. CASE ListTaskCriteria(q)
      <3>1. UNCHANGED <<task, criteria>> /\ client'[r] = IF r = q THEN [client[r] EXCEPT !.listed = criteria,
                                                                         !.fresh = (client[r].step = "seen")] ELSE client[r]
        BY <1>0, <2>5 DEF ListTaskCriteria
      <3> QED
        BY <1>0, <3>1 DEF ClientType
    <2>2. CASE PrepareCompletion(q)
      BY <1>0, <2>2 DEF PrepareCompletion, ClientType
    <2>3. CASE \E c \in 1..Len(claims) : ClaimCommandTarget(q, c)
      BY <1>0, <2>3, SMTT(30) DEF ClaimCommandTarget, ClientType
    <2>4. CASE ExpireDueClaim(q) \/ Abandon(q)
      BY <1>1, <1>2, <2>4 DEF ExpireDueClaim, Abandon
    <2> QED
      BY <1>3, <2>1, <2>2, <2>3, <2>4, <2>5, Zenon DEF Read
  <1>4. ASSUME NEW q \in Clients, TaskCommand(q)
        PROVE  Goal
    BY <1>2, <1>4, Zenon DEF TaskCommand, MarkReady, WithdrawReadiness, Claim, ResolveIssue,
                      CancelTask, SetArchived
  <1>5. ASSUME NEW q \in Clients, ClaimCommand(q)
        PROVE  Goal
    BY <1>2, <1>5, Zenon DEF ClaimCommand, ReleaseClaim, RequestChanges, RequestResolution,
                      CompleteExecution, AcceptTask, FinishClaim, RecordWorkSubmission,
                      RecordClaimProgress, RecordAcceptanceCheck, LinkCodeChange,
                      UnlinkCodeChange, ChangeLinks
  <1>6. ASSUME NEW q \in Clients, CriterionCommand(q)
        PROVE  Goal
    BY <1>2, <1>6, Zenon DEF CriterionCommand, CreateTaskCriterion, UpdateCriterion, RemoveCriterion
  <1>7. CASE AdvanceTime \/ UNCHANGED vars
    BY <1>1, <1>7, Zenon DEF AdvanceTime, vars
  <1> QED
    BY <1>3, <1>4, <1>5, <1>6, <1>7, Zenon DEF Next

\* No step lets a client's remembered version overtake the Task.
LEMMA SeenStep ==
    ASSUME TypeOK, SeenIsPast, [Next]_vars
    PROVE  SeenIsPast'
  <1> SUFFICES ASSUME NEW r \in Clients, client'[r].step # "idle"
               PROVE  /\ client'[r].seen.version <= task'.version
                      /\ client'[r].seen.version = task'.version =>
                           /\ client'[r].seen = task'
                           /\ client'[r].fresh => client'[r].listed = criteria'
    BY DEF SeenIsPast
  <1>0. task.version \in Nat /\ client[r].seen.version \in Nat
    BY Zenon DEF TypeOK, TaskRow, ClientType
  <1>1. CASE /\ client[r].step # "idle" /\ client'[r].seen = client[r].seen
             /\ client'[r].fresh = client[r].fresh /\ client'[r].listed = client[r].listed
    <2>1. CASE UNCHANGED <<task, criteria, linked>>
      BY <1>1, <2>1, Zenon DEF SeenIsPast
    <2>2. CASE task'.version = task.version + 1
      BY <1>0, <1>1, <2>2 DEF SeenIsPast
    <2> QED
      BY <2>1, <2>2, ChangesAreCounted, Zenon
  <1>2. CASE /\ client[r].step # "idle" /\ client'[r].seen = client[r].seen
             /\ client'[r].listed = criteria /\ UNCHANGED <<task, criteria>>
    BY <1>2, Zenon DEF SeenIsPast
  <1>3. CASE client'[r].seen = task /\ ~client'[r].fresh /\ UNCHANGED <<task, criteria>>
    BY <1>0, <1>3
  <1> QED
    BY <1>1, <1>2, <1>3, RequestsRemember, Zenon

\* Optimistic concurrency is sound for any number of clients: a request whose
\* If-Match names the current version has seen the current Task, and criteria
\* listed after the Task was read are the current ones.
THEOREM IfMatchIsSound == Spec => []IfMatchMeansUnchanged
  <1>1. Init => TypeOK /\ SeenIsPast
    <2>1. \A a \in Actors : Idle(a).step = "idle"
      BY Zenon DEF Idle
    <2>2. Init => \A r \in Clients : client[r].step = "idle"
      BY <2>1 DEF Init
    <2> QED
      BY <2>2, InitTypeOK, Zenon DEF SeenIsPast
  <1>2. TypeOK /\ SeenIsPast /\ [Next]_vars => TypeOK' /\ SeenIsPast'
    BY NextTypeOK, SeenStep
  <1>3. TypeOK /\ SeenIsPast => IfMatchMeansUnchanged
    BY DEF SeenIsPast, IfMatchMeansUnchanged, IfMatch
  <1> QED
    BY <1>1, <1>2, <1>3, PTL DEF Spec

-----------------------------------------------------------------------------
(* Refinement: every step of the workflow is a step of StageOwnership.        *)

Holder == IF ActiveClaims = {} THEN NoActor
          ELSE claims[CHOOSE c \in ActiveClaims : TRUE].owner

Deadline == IF ActiveClaims = {} THEN 0
            ELSE claims[CHOOSE c \in ActiveClaims : TRUE].expiresAt

Closed == L!Terminal(task.phase)

\* The holder StageOwnership sees is the actor of the one active Claim.
LEMMA HolderOfOne ==
    ASSUME NEW c, ActiveClaims = {c}
    PROVE  Holder = claims[c].owner /\ Deadline = claims[c].expiresAt
  <1>1. (CHOOSE d \in ActiveClaims : TRUE) = c
    OBVIOUS
  <1>2. ActiveClaims # {}
    OBVIOUS
  <1> QED
    BY <1>1, <1>2 DEF Holder, Deadline

\* The same in the next state.
LEMMA HolderOfOneNext ==
    ASSUME NEW c, ActiveClaims' = {c}
    PROVE  Holder' = claims'[c].owner /\ Deadline' = claims'[c].expiresAt
  <1>1. (CHOOSE d \in ActiveClaims' : TRUE) = c
    OBVIOUS
  <1>2. ActiveClaims' # {}
    BY Zenon
  <1> QED
    BY <1>1, <1>2 DEF Holder, Deadline

\* The steps of StageOwnership over the refinement mapping.
LEMMA OwnershipSteps ==
    /\ Ownership!Take <=> /\ ~Closed
                          /\ Holder = NoActor \/ (Holder # NoActor /\ Deadline <= now)
                          /\ audit' \in Actors /\ Holder' = audit'
                          /\ Deadline' \in 0..(now + ClaimLifetime)
                          /\ UNCHANGED <<Closed, now>>
    /\ Ownership!Finish <=> /\ Holder # NoActor /\ audit' = Holder
                            /\ Holder' = NoActor /\ Deadline' = 0
                            /\ Closed' \in BOOLEAN /\ UNCHANGED now
    /\ Ownership!Lapse <=> /\ Holder # NoActor /\ Deadline <= now
                           /\ audit' \in Actors
                           /\ Holder' = NoActor /\ Deadline' = 0
                           /\ UNCHANGED <<Closed, now>>
    /\ Ownership!Close <=> /\ ~Closed
                           /\ audit' \in Actors
                           /\ Holder' = NoActor /\ Deadline' = 0
                           /\ Closed' = TRUE /\ UNCHANGED now
    /\ Ownership!Act <=> /\ audit' \in Actors
                         /\ UNCHANGED <<Holder, Deadline, Closed, now>>
    /\ Ownership!Tick <=> now' = now + 1 /\ UNCHANGED <<Holder, Deadline, Closed, audit>>
BY Zenon DEF Ownership!Take, Ownership!Lapsed, Ownership!Finish, Ownership!Lapse,
       Ownership!Close, Ownership!Act, Ownership!Tick, Holder, Deadline, Closed

\* A step that leaves the Claims alone and neither ends nor reopens the Task only
\* records who acted.
LEMMA ActStep ==
    ASSUME TypeOK', UNCHANGED <<claims, now>>, Closed' = Closed
    PROVE  Ownership!Act
  <1>1. Holder' = Holder /\ Deadline' = Deadline
    BY SMTT(30) DEF Holder, Deadline, ActiveClaims
  <1> QED
    BY <1>1, OwnershipSteps, Zenon DEF TypeOK

\* A Task that is not working has no holder after the step.
LEMMA UnownedNext ==
    ASSUME WorkflowInv', task'.activity # "working"
    PROVE  Holder' = NoActor /\ Deadline' = 0
BY Zenon DEF WorkflowInv, WorkingIffOneActiveClaim, Holder, Deadline

\* finishClaim: the stage is given up by the actor that owns it.
LEMMA FinishStep ==
    ASSUME WorkflowInv, WorkflowInv', NEW r \in Clients, NEW outcome,
           NEW t \in TaskRow, ClaimStillOwned(r), FinishClaim(r, outcome, t),
           t.activity # "working", UNCHANGED now
    PROVE  Ownership!Finish
  <1>1. ActiveClaims = {client[r].claim}
    BY OwnedIsActive, Zenon
  <1>2. Holder = Principal(r)
    BY <1>1, HolderOfOne, Zenon DEF ClaimStillOwned
  <1>3. Holder # NoActor /\ audit' = Holder
    BY <1>2, PrincipalType, ConstantsAssumption DEF FinishClaim, Audit, WorkflowInv
  <1>4. task'.activity # "working"
    BY PersistFields DEF FinishClaim, WorkflowInv
  <1>5. Holder' = NoActor /\ Deadline' = 0
    BY <1>4, UnownedNext
  <1>6. Closed' \in BOOLEAN
    BY DEF Closed, L!Terminal
  <1> QED
    BY <1>3, <1>5, <1>6, OwnershipSteps

\* Claiming maps to acquiring the stage, or to a takeover after the deadline.
LEMMA ClaimStep ==
    ASSUME WorkflowInv, WorkflowInv', NEW r \in Clients, NEW at \in 0..now, Claim(r, at)
    PROVE  Ownership!Take
  <1>0. /\ TypeOK /\ task \in TaskRow /\ at \in Nat /\ now \in Nat /\ at <= now
        /\ Len(claims) \in Nat
    BY DEF WorkflowInv, TypeOK
  <1>1. audit' = Principal(r) /\ Principal(r) \in Actors /\ UNCHANGED now
    BY <1>0, PrincipalType, Zenon DEF Claim, Audit
  <1> DEFINE new == NewTaskStageClaim(task, r, at)
  <1>2. /\ new \in TaskStageClaim /\ new.status = "active" /\ new.owner = Principal(r)
        /\ new.expiresAt = at + ClaimLifetime
    BY <1>0, NewClaimType, Zenon DEF NewTaskStageClaim
  <1>3. new.expiresAt \in 0..(now + ClaimLifetime)
    BY <1>0, <1>2, ConstantsAssumption
  <1> HIDE DEF new
  <1>4. ASSUME ActiveClaims' = {Len(claims) + 1}, claims'[Len(claims) + 1] = new
        PROVE  Holder' = audit' /\ Deadline' \in 0..(now + ClaimLifetime)
    BY <1>1, <1>2, <1>3, <1>4, HolderOfOneNext, Zenon
  <1>5. CASE /\ L!CanClaim(task)
             /\ claims' = Append(claims, new)
             /\ Persist(L!Claim(task))
    <2>1. task.activity # "working" /\ task.phase \in {"ready", "in_progress", "in_review"}
      BY <1>5, Zenon DEF L!CanClaim, L!Claimable, L!NoActivity, L!Active
    <2>2. ActiveClaims = {}
      BY <2>1 DEF WorkflowInv, WorkingIffOneActiveClaim
    <2>3. Holder = NoActor
      BY <2>2 DEF Holder
    <2>4. ~Closed /\ Closed' = Closed
      <3>1. L!Claim(task) \in TaskRow /\ L!Claim(task).phase = L!ClaimedPhase(task)
        BY <1>0, LifecycleType, Zenon DEF L!Claim, TaskRow
      <3>2. task'.phase = L!ClaimedPhase(task)
        BY <1>0, <1>5, <3>1, PersistFields
      <3> QED
        BY <2>1, <3>2 DEF Closed, L!Terminal, L!ClaimedPhase
    <2>5. ActiveClaims' = {Len(claims) + 1} /\ claims'[Len(claims) + 1] = new
      BY <1>0, <1>2, <1>5, <2>2, ActiveAfterClaim, Zenon
    <2> QED
      BY <1>1, <1>4, <2>3, <2>4, <2>5, OwnershipSteps, Zenon
  <1>6. ASSUME NEW c \in DueClaims(at),
               L!RequireWorkingStage(task, claims[c].stage),
               claims' = Append(EndedClaims(c, "deadline_elapsed"), new),
               Persist(L!Claim(L!Release(task)))
        PROVE  Ownership!Take
    <2>1. /\ task.activity = "working" /\ task.phase \in {"in_progress", "in_review"}
          /\ c \in ActiveClaims /\ claims[c].expiresAt <= at
      BY <1>6, Zenon DEF DueClaims, L!RequireWorkingStage, L!Active
    <2>2. ActiveClaims = {c}
      BY <2>1, Zenon DEF WorkflowInv, WorkingIffOneActiveClaim
    <2>3. claims[c] \in TaskStageClaim
      BY <1>0, <2>1 DEF TypeOK, ActiveClaims
    <2>4. Holder # NoActor /\ Deadline <= now
      <3>1. Holder = claims[c].owner /\ Deadline = claims[c].expiresAt
        BY <2>2, HolderOfOne
      <3>2. claims[c].owner \in Actors /\ claims[c].expiresAt \in Nat
        BY <2>3 DEF TaskStageClaim
      <3> QED
        BY <1>0, <2>1, <3>1, <3>2, ConstantsAssumption
    <2>5. ~Closed /\ Closed' = Closed
      <3>1. L!Release(task) \in TaskRow /\ L!Claim(L!Release(task)) \in TaskRow
        BY <1>0, LifecycleType
      <3>2. L!Claim(L!Release(task)).phase = task.phase
        BY <1>0, <2>1 DEF L!Claim, L!ClaimedPhase, L!Release, TaskRow
      <3>3. task'.phase = task.phase
        BY <1>0, <1>6, <3>1, <3>2, PersistFields, Zenon
      <3> QED
        BY <2>1, <3>3 DEF Closed, L!Terminal
    <2>6. ActiveClaims' = {Len(claims) + 1} /\ claims'[Len(claims) + 1] = new
      BY <1>0, <1>2, <1>6, <2>2, ActiveAfterTakeover, Zenon
    <2> QED
      BY <1>1, <1>4, <2>4, <2>5, <2>6, OwnershipSteps, Zenon
  <1> QED
    BY <1>5, <1>6, Zenon DEF Claim, new

\* Reading maps to an expiry of the ownership or to a stutter.
LEMMA ReadStep ==
    ASSUME WorkflowInv, WorkflowInv', NEW r \in Clients, Read(r)
    PROVE  Ownership!Lapse \/ Ownership!Act
  <1>1. CASE ExpireDueClaim(r)
    <2>1. PICK c \in DueClaims(now) : EndClaim(c, "deadline_elapsed")
      BY <1>1 DEF ExpireDueClaim
    <2>2. c \in ActiveClaims /\ task.activity = "working" /\ claims[c].expiresAt <= now
      BY Zenon DEF DueClaims
    <2>3. ActiveClaims = {c}
      BY <2>2, Zenon DEF WorkflowInv, WorkingIffOneActiveClaim
    <2>4. claims[c] \in TaskStageClaim
      BY <2>2 DEF WorkflowInv, TypeOK, ActiveClaims
    <2>5. Holder # NoActor /\ Deadline <= now
      BY <2>2, <2>3, <2>4, HolderOfOne, ConstantsAssumption DEF TaskStageClaim
    <2>6. /\ TypeOK /\ task \in TaskRow /\ L!Release(task) \in TaskRow
          /\ L!Release(task).phase = task.phase /\ L!Release(task).activity = "available"
      BY LifecycleType, Zenon DEF WorkflowInv, TypeOK, L!Release, TaskRow
    <2>7. task'.phase = task.phase /\ task'.activity = "available"
      BY <1>1, <2>6, PersistFields DEF ExpireDueClaim
    <2>8. Holder' = NoActor /\ Deadline' = 0
      BY <2>7, UnownedNext
    <2> QED
      BY <1>1, <2>5, <2>6, <2>7, <2>8, AuditType, OwnershipSteps, Zenon DEF ExpireDueClaim, Closed
  <1>2. CASE UNCHANGED <<task, claims, now>>
    BY <1>2, ActStep DEF Closed, WorkflowInv
  <1> QED
    BY <1>1, <1>2, Zenon DEF Read, GetTask, ListTaskCriteria, PrepareCompletion, ClaimCommandTarget, Abandon

\* Task commands map to the end of the Task or to a stutter.
LEMMA TaskCommandStep ==
    ASSUME WorkflowInv, WorkflowInv', NEW r \in Clients, TaskCommand(r)
    PROVE  Ownership!Take \/ Ownership!Close \/ Ownership!Act
  <1>0. TypeOK /\ TypeOK' /\ task \in TaskRow
    BY DEF WorkflowInv, TypeOK
  <1> USE DEF Closed, L!Terminal
  <1>1. CASE \E unfinished \in BOOLEAN : MarkReady(r, unfinished)
    <2>1. L!MarkReady(task) \in TaskRow /\ L!MarkReady(task).phase = "ready"
      BY <1>0, LifecycleType, Zenon DEF L!MarkReady, TaskRow
    <2>2. task.phase = "backlog" /\ task'.phase = "ready"
      BY <1>0, <1>1, <2>1, PersistFields DEF MarkReady, L!CanMarkReady
    <2> QED
      BY <1>0, <1>1, <2>2, ActStep DEF MarkReady
  <1>2. CASE WithdrawReadiness(r)
    <2>1. /\ L!WithdrawReadiness(task) \in TaskRow
          /\ L!WithdrawReadiness(task).phase = "backlog"
      BY <1>0, LifecycleType, Zenon DEF L!WithdrawReadiness, TaskRow
    <2>2. task.phase = "ready" /\ task'.phase = "backlog"
      BY <1>0, <1>2, <2>1, PersistFields DEF WithdrawReadiness, L!CanWithdrawReadiness
    <2> QED
      BY <1>0, <1>2, <2>2, ActStep DEF WithdrawReadiness
  <1>3. CASE \E at \in 0..now : Claim(r, at)
    BY <1>3, ClaimStep
  <1>4. CASE \E i \in 1..Len(threads), v \in 1..2 : ResolveIssue(r, i, v)
    <2>1. PICK i \in 1..Len(threads), v \in 1..2 : ResolveIssue(r, i, v)
      BY <1>4
    <2> DEFINE t == L!ResolveIssue([task EXCEPT !.activeIssue = NoIssue])
    <2>2. [task EXCEPT !.activeIssue = NoIssue] \in TaskRow
      BY <1>0 DEF TaskRow, NoIssue
    <2>3. t \in TaskRow /\ t.phase = task.phase
      BY <1>0, <2>2, LifecycleType, Zenon DEF L!ResolveIssue, TaskRow
    <2>4. Persist(t)
      BY <2>1, Zenon DEF ResolveIssue
    <2> HIDE DEF t
    <2>5. task'.phase = task.phase
      BY <1>0, <2>3, <2>4, PersistFields
    <2> QED
      BY <1>0, <2>1, <2>5, ActStep DEF ResolveIssue
  <1>5. CASE CancelTask(r)
    <2>1. ASSUME NEW t \in TaskRow, Persist(L!Cancel(t))
          PROVE  task'.phase = "cancelled" /\ task'.activity = "none"
      <3>1. /\ L!Cancel(t) \in TaskRow
            /\ L!Cancel(t).phase = "cancelled" /\ L!Cancel(t).activity = "none"
        BY LifecycleType, Zenon DEF L!Cancel, TaskRow, L!NoActivity
      <3> QED
        BY <1>0, <2>1, <3>1, PersistFields
    <2>2. [task EXCEPT !.activeIssue = NoIssue] \in TaskRow
      BY <1>0 DEF TaskRow, NoIssue
    <2>3. task'.phase = "cancelled" /\ task'.activity = "none"
      BY <1>0, <1>5, <2>1, <2>2 DEF CancelTask
    <2>4. Holder' = NoActor /\ Deadline' = 0
      BY <2>3, UnownedNext
    <2>5. ~Closed
      BY <1>5 DEF CancelTask, L!CanCancel
    <2> QED
      BY <1>0, <1>5, <2>3, <2>4, <2>5, AuditType, OwnershipSteps, Zenon DEF CancelTask
  <1>6. CASE \E archived \in BOOLEAN : SetArchived(r, archived)
    <2>1. task'.phase = task.phase
      BY <1>0, <1>6 DEF SetArchived, TaskRow
    <2> QED
      BY <1>0, <1>6, <2>1, ActStep DEF SetArchived
  <1> QED
    BY <1>1, <1>2, <1>3, <1>4, <1>5, <1>6, Zenon DEF TaskCommand

\* The owner's commands map to giving the stage up or to a stutter.
LEMMA ClaimCommandStep ==
    ASSUME WorkflowInv, WorkflowInv', NEW r \in Clients, ClaimCommand(r)
    PROVE  Ownership!Finish \/ Ownership!Act
  <1>0. TypeOK /\ TypeOK' /\ task \in TaskRow
    BY Zenon DEF WorkflowInv, TypeOK
  <1>1. CASE ReleaseClaim(r)
    <2>1. L!Release(task) \in TaskRow /\ L!Release(task).activity = "available"
      BY <1>0, LifecycleType, Zenon DEF L!Release, TaskRow
    <2> QED
      BY <1>1, <2>1, FinishStep DEF ReleaseClaim, OwnedClaim
  <1>2. CASE RequestChanges(r)
    <2>1. /\ L!RequestChanges(task) \in TaskRow
          /\ L!RequestChanges(task).activity = "available"
      BY <1>0, LifecycleType, Zenon DEF L!RequestChanges, TaskRow
    <2> QED
      BY <1>2, <2>1, FinishStep DEF RequestChanges, OwnedClaim
  <1>3. CASE RequestResolution(r)
    <2> DEFINE t == [L!RequestResolution(task) EXCEPT !.activeIssue = Len(threads) + 1]
    <2>1. L!RequestResolution(task) \in TaskRow /\ Len(threads) + 1 \in Nat
      BY <1>0, LifecycleType DEF TypeOK
    <2>2. t \in TaskRow /\ t.activity = "needs_resolution"
      BY <1>0, <2>1, Zenon DEF TaskRow, L!RequestResolution
    <2>3. FinishClaim(r, "needs_resolution", t)
      BY <1>3 DEF RequestResolution
    <2> HIDE DEF t
    <2> QED
      BY <1>3, <2>2, <2>3, FinishStep, Zenon DEF RequestResolution, OwnedClaim
  <1>4. CASE CompleteExecution(r)
    <2>1. /\ L!CompleteExecution(task) \in TaskRow
          /\ L!CompleteExecution(task).activity = "available"
      BY <1>0, LifecycleType, Zenon DEF L!CompleteExecution, TaskRow
    <2> QED
      BY <1>4, <2>1, FinishStep, Zenon DEF CompleteExecution, OwnedClaim
  <1>5. CASE \E unfinished \in BOOLEAN : AcceptTask(r, unfinished)
    <2>1. L!Accept(task) \in TaskRow /\ L!Accept(task).activity = "none"
      BY <1>0, LifecycleType, ZenonT(40) DEF L!Accept, TaskRow, L!NoActivity
    <2> QED
      BY <1>5, <2>1, FinishStep, Zenon DEF AcceptTask, OwnedClaim
  <1>6. CASE RecordWorkSubmission(r) \/ RecordClaimProgress(r)
             \/ \E k \in Criteria, o \in Outcomes : RecordAcceptanceCheck(r, k, o)
    BY <1>0, <1>6, ActStep, Zenon
       DEF RecordWorkSubmission, RecordClaimProgress, RecordAcceptanceCheck, Closed
  <1>7. CASE \E change \in CodeChanges : \/ LinkCodeChange(r, change)
                                         \/ UnlinkCodeChange(r, change)
    BY <1>0, <1>7, PersistFields, ActStep, Zenon
       DEF LinkCodeChange, UnlinkCodeChange, ChangeLinks, Closed
  <1> QED
    BY <1>1, <1>2, <1>3, <1>4, <1>5, <1>6, <1>7, Zenon DEF ClaimCommand

\* Every step of the workflow is a step of StageOwnership.
LEMMA OwnershipStep ==
    ASSUME WorkflowInv, WorkflowInv', [Next]_vars
    PROVE  [Ownership!OwnershipNext]_(Ownership!ownershipVars)
  <1> USE DEF Ownership!OwnershipNext
  <1>1. CASE \E r \in Clients : Read(r) \/ TaskCommand(r) \/ ClaimCommand(r)
    BY <1>1, ReadStep, TaskCommandStep, ClaimCommandStep
  <1>2. CASE \E r \in Clients : CriterionCommand(r)
    <2>1. IncrementVersion /\ UNCHANGED <<claims, now>>
      BY <1>2, Zenon DEF CriterionCommand, CreateTaskCriterion, UpdateCriterion, RemoveCriterion
    <2>2. Closed' = Closed
      BY <2>1, Zenon DEF IncrementVersion, WorkflowInv, TypeOK, TaskRow, Closed
    <2> QED
      BY <2>1, <2>2, ActStep DEF WorkflowInv
  <1>3. CASE AdvanceTime
    <2>1. Holder' = Holder /\ Deadline' = Deadline
      BY <1>3 DEF AdvanceTime, Holder, Deadline, ActiveClaims
    <2>2. Closed' = Closed
      BY <1>3 DEF AdvanceTime, Closed
    <2>3. now' = now + 1 /\ audit' = audit
      BY <1>3 DEF AdvanceTime
    <2>4. Ownership!Tick
      BY <2>1, <2>2, <2>3, OwnershipSteps, Zenon
    <2> QED
      BY <2>4, Zenon
  <1>4. CASE UNCHANGED vars
    BY <1>4 DEF vars, Ownership!ownershipVars, ActiveClaims
  <1> QED
    BY <1>1, <1>2, <1>3, <1>4, Zenon DEF Next

\* The workflow implements StageOwnership for every instance: a stage changes
\* hands only when its owner finishes, its deadline has passed, or the Task ends.
THEOREM OwnershipRefinement == Spec => ImplementsStageOwnership
  <1>1. Init => WorkflowInv
    BY InitWorkflowInv
  <1>2. WorkflowInv /\ [Next]_vars => WorkflowInv'
    BY WorkflowStep, Zenon
  <1>3. Init => Ownership!OwnershipInit
    BY DEF Init, InitialTask, ActiveClaims, Ownership!OwnershipInit, L!Terminal
  <1>4. WorkflowInv /\ WorkflowInv' /\ [Next]_vars
          => [Ownership!OwnershipNext]_(Ownership!ownershipVars)
    BY OwnershipStep, Zenon
  <1> QED
    BY <1>1, <1>2, <1>3, <1>4, PTL DEF Spec, ImplementsStageOwnership, Ownership!OwnershipSpec

-----------------------------------------------------------------------------
(* What a step does to the Task row.  A command that only moves the Task through *)
(* its phases, one that records, and the one that delivers are told apart once. *)

Reviewed == {"in_review", "done"}

\* What a step that records and delivers nothing may do to the Task row: it keeps the
\* cycle, leaves a finished Task finished, enters no review, and accepts the Task only
\* out of a satisfied review.
QuietRow ==
    /\ task'.reviewCycle = task.reviewCycle
    /\ L!Terminal(task.phase) => task'.phase = task.phase
    /\ task'.phase \in Reviewed => task.phase \in Reviewed /\ UNCHANGED linked
    /\ task'.phase = "done" => \/ task.phase = "done"
                               \/ task.phase = "in_review" /\ UnsatisfiedCriteria = {}

QuietStep == QuietRow /\ UNCHANGED delivery

\* A step that persists t is quiet when t is.
LEMMA QuietOfPersist ==
    ASSUME TypeOK, NEW t \in TaskRow, Persist(t), t.reviewCycle = task.reviewCycle,
           L!Terminal(task.phase) => t.phase = task.phase,
           t.phase \in Reviewed => task.phase \in Reviewed /\ UNCHANGED linked,
           t.phase = "done" => \/ task.phase = "done"
                               \/ task.phase = "in_review" /\ UnsatisfiedCriteria = {}
    PROVE  QuietRow
  <1>1. task'.phase = t.phase /\ task'.reviewCycle = t.reviewCycle
    BY PersistFields
  <1> QED
    BY <1>1, Zenon DEF QuietRow

\* So is a step that leaves the row and the code changes alone, or edits criteria.
LEMMA QuietFrame ==
    ASSUME TypeOK, UNCHANGED linked, UNCHANGED task \/ IncrementVersion
    PROVE  QuietRow
BY Zenon DEF TypeOK, QuietRow, Reviewed, IncrementVersion, TaskRow

\* Reading, with the lazy expiry of a due Claim, is quiet.
LEMMA QuietRead ==
    ASSUME WorkflowInv, NEW r \in Clients, Read(r)
    PROVE  QuietStep
  <1>0. TypeOK /\ task \in TaskRow
    BY DEF WorkflowInv, TypeOK
  <1>1. /\ L!Release(task) \in TaskRow
        /\ L!Release(task).phase = task.phase
        /\ L!Release(task).reviewCycle = task.reviewCycle
    BY <1>0, LifecycleType, Zenon DEF L!Release, TaskRow
  <1>2. /\ UNCHANGED task \/ Persist(L!Release(task))
        /\ UNCHANGED linked /\ UNCHANGED delivery
    BY Zenon DEF Read, GetTask, ListTaskCriteria, PrepareCompletion, ClaimCommandTarget, Abandon, ExpireDueClaim,
                 delivery
  <1>3. QuietRow
    BY <1>0, <1>1, <1>2, QuietFrame, QuietOfPersist, Zenon DEF Reviewed
  <1> QED
    BY <1>2, <1>3, Zenon DEF QuietStep

\* The commands on the Task are quiet: none starts or ends a review.
LEMMA QuietTaskCommand ==
    ASSUME WorkflowInv, NEW r \in Clients, TaskCommand(r)
    PROVE  QuietStep
  <1>0. TypeOK /\ task \in TaskRow
    BY DEF WorkflowInv, TypeOK
  <1>1. UNCHANGED linked /\ UNCHANGED delivery
    BY Zenon DEF TaskCommand, MarkReady, WithdrawReadiness, Claim, ResolveIssue, CancelTask,
                 SetArchived, delivery
  <1>2. ASSUME NEW t \in TaskRow, Persist(t), t.reviewCycle = task.reviewCycle,
               L!Terminal(task.phase) \/ t.phase \in Reviewed => t.phase = task.phase
        PROVE  QuietRow
    BY <1>0, <1>1, <1>2, QuietOfPersist, Zenon DEF Reviewed
  <1>3. CASE \E unfinished \in BOOLEAN : MarkReady(r, unfinished)
    <2>1. /\ L!MarkReady(task) \in TaskRow
          /\ L!MarkReady(task).reviewCycle = task.reviewCycle
          /\ L!MarkReady(task).phase \notin Reviewed
      BY <1>0, LifecycleType, Zenon DEF L!MarkReady, TaskRow, Reviewed
    <2> QED
      BY <1>1, <1>2, <1>3, <2>1, Zenon DEF MarkReady, L!CanMarkReady, L!Terminal, QuietStep
  <1>4. CASE WithdrawReadiness(r)
    <2>1. /\ L!WithdrawReadiness(task) \in TaskRow
          /\ L!WithdrawReadiness(task).reviewCycle = task.reviewCycle
          /\ L!WithdrawReadiness(task).phase \notin Reviewed
      BY <1>0, LifecycleType, Zenon DEF L!WithdrawReadiness, TaskRow, Reviewed
    <2> QED
      BY <1>1, <1>2, <1>4, <2>1, Zenon
         DEF WithdrawReadiness, L!CanWithdrawReadiness, L!Terminal, QuietStep
  <1>5. CASE \E at \in 0..now : Claim(r, at)
    <2>1. /\ L!Claim(task) \in TaskRow /\ L!Claim(L!Release(task)) \in TaskRow
          /\ L!Release(task) \in TaskRow
      BY <1>0, LifecycleType, Zenon
    <2>2. /\ L!Claim(task).reviewCycle = task.reviewCycle
          /\ L!Claim(task).phase \in {task.phase, "in_progress"}
      BY <1>0, Zenon DEF L!Claim, L!ClaimedPhase, TaskRow
    <2>3. /\ L!Claim(L!Release(task)).reviewCycle = task.reviewCycle
          /\ L!Claim(L!Release(task)).phase \in {task.phase, "in_progress"}
      BY <1>0, <2>1, Zenon DEF L!Claim, L!ClaimedPhase, L!Release, TaskRow
    <2>4. Persist(L!Claim(task)) \/ Persist(L!Claim(L!Release(task)))
      BY <1>5, Zenon DEF Claim
    <2>5. L!Release(task).phase = task.phase
      BY <1>0 DEF L!Release, TaskRow
    <2>6. ~L!Terminal(task.phase)
      BY <1>5, <2>5, Zenon DEF Claim, L!CanClaim, L!Claimable, L!Active, L!Terminal
    <2> QED
      BY <1>1, <1>2, <2>1, <2>2, <2>3, <2>4, <2>6, Zenon DEF QuietStep, Reviewed
  <1>6. CASE \E i \in 1..Len(threads), v \in 1..2 : ResolveIssue(r, i, v)
    <2> DEFINE t == L!ResolveIssue([task EXCEPT !.activeIssue = NoIssue])
    <2>1. [task EXCEPT !.activeIssue = NoIssue] \in TaskRow
      BY <1>0 DEF TaskRow, NoIssue
    <2>2. t \in TaskRow /\ t.reviewCycle = task.reviewCycle /\ t.phase = task.phase
      BY <1>0, <2>1, LifecycleType, Zenon DEF L!ResolveIssue, TaskRow
    <2>3. Persist(t)
      BY <1>6 DEF ResolveIssue
    <2> HIDE DEF t
    <2> QED
      BY <1>1, <1>2, <2>2, <2>3, Zenon DEF QuietStep
  <1>7. CASE CancelTask(r)
    <2>0. ~L!Terminal(task.phase)
      BY <1>7 DEF CancelTask, L!CanCancel
    <2>1. ASSUME NEW t \in TaskRow, t.reviewCycle = task.reviewCycle, Persist(L!Cancel(t))
          PROVE  QuietRow
      <3>1. /\ L!Cancel(t) \in TaskRow /\ L!Cancel(t).reviewCycle = task.reviewCycle
            /\ L!Cancel(t).phase \notin Reviewed
        BY <2>1, LifecycleType, Zenon DEF L!Cancel, TaskRow, Reviewed
      <3> QED
        BY <1>2, <2>0, <2>1, <3>1, Zenon
    <2>2. /\ [task EXCEPT !.activeIssue = NoIssue] \in TaskRow
          /\ [task EXCEPT !.activeIssue = NoIssue].reviewCycle = task.reviewCycle
      BY <1>0 DEF TaskRow, NoIssue
    <2>3. \/ Persist(L!Cancel(task))
          \/ Persist(L!Cancel([task EXCEPT !.activeIssue = NoIssue]))
      BY <1>7, Zenon DEF CancelTask
    <2> QED
      BY <1>0, <1>1, <2>1, <2>2, <2>3, Zenon DEF QuietStep
  <1>8. CASE \E archived \in BOOLEAN : SetArchived(r, archived)
    <2>1. task'.phase = task.phase /\ task'.reviewCycle = task.reviewCycle
      BY <1>0, <1>8, Zenon DEF SetArchived, TaskRow
    <2> QED
      BY <1>1, <2>1 DEF QuietStep, QuietRow, Reviewed
  <1> QED
    BY <1>3, <1>4, <1>5, <1>6, <1>7, <1>8, Zenon DEF TaskCommand

\* The commands of a Claim's owner that neither record nor deliver are quiet, and
\* AcceptTask is the one that finishes the Task.
LEMMA QuietClaimCommand ==
    ASSUME WorkflowInv, NEW r \in Clients,
           \/ ReleaseClaim(r) \/ RequestChanges(r) \/ RequestResolution(r)
           \/ \E unfinished \in BOOLEAN : AcceptTask(r, unfinished)
           \/ \E change \in CodeChanges : \/ LinkCodeChange(r, change)
                                          \/ UnlinkCodeChange(r, change)
    PROVE  QuietStep
  <1>0. TypeOK /\ task \in TaskRow
    BY DEF WorkflowInv, TypeOK
  <1>1. UNCHANGED delivery
    BY Zenon DEF ReleaseClaim, RequestChanges, RequestResolution, AcceptTask, LinkCodeChange,
           UnlinkCodeChange, ChangeLinks
  <1>7. ~L!Terminal(task.phase)
    BY OwnedIsActive, Zenon
       DEF ReleaseClaim, RequestChanges, RequestResolution, AcceptTask, LinkCodeChange,
           UnlinkCodeChange, ChangeLinks, OwnedClaim, L!RequireWorkingStage, L!Active, L!Terminal
  <1>2. CASE ReleaseClaim(r)
    <2>1. /\ L!Release(task) \in TaskRow /\ L!Release(task).phase = task.phase
          /\ L!Release(task).reviewCycle = task.reviewCycle
      BY <1>0, LifecycleType, Zenon DEF L!Release, TaskRow
    <2>2. Persist(L!Release(task)) /\ UNCHANGED linked
      BY <1>2, Zenon DEF ReleaseClaim, FinishClaim
    <2> QED
      BY <1>0, <1>1, <1>7, <2>1, <2>2, QuietOfPersist, Zenon DEF Reviewed, QuietStep
  <1>3. CASE RequestChanges(r)
    <2>1. /\ L!RequestChanges(task) \in TaskRow /\ L!RequestChanges(task).phase = "in_progress"
          /\ L!RequestChanges(task).reviewCycle = task.reviewCycle
      BY <1>0, LifecycleType, Zenon DEF L!RequestChanges, TaskRow
    <2>2. Persist(L!RequestChanges(task))
      BY <1>3 DEF RequestChanges, FinishClaim
    <2> QED
      BY <1>0, <1>1, <1>7, <2>1, <2>2, QuietOfPersist, Zenon DEF Reviewed, QuietStep
  <1>4. CASE RequestResolution(r)
    <2> DEFINE t == [L!RequestResolution(task) EXCEPT !.activeIssue = Len(threads) + 1]
    <2>1. L!RequestResolution(task) \in TaskRow /\ Len(threads) + 1 \in Nat
      BY <1>0, LifecycleType DEF TypeOK
    <2>2. t \in TaskRow /\ t.phase = task.phase /\ t.reviewCycle = task.reviewCycle
      BY <1>0, <2>1, Zenon DEF TaskRow, L!RequestResolution
    <2>3. Persist(t) /\ UNCHANGED linked
      BY <1>4, Zenon DEF RequestResolution, FinishClaim
    <2> HIDE DEF t
    <2> QED
      BY <1>0, <1>1, <1>7, <2>2, <2>3, QuietOfPersist, Zenon DEF Reviewed, QuietStep
  <1>5. CASE \E unfinished \in BOOLEAN : AcceptTask(r, unfinished)
    <2>1. /\ L!Accept(task) \in TaskRow /\ L!Accept(task).phase = "done"
          /\ L!Accept(task).reviewCycle = task.reviewCycle
      BY <1>0, LifecycleType, Zenon DEF L!Accept, TaskRow
    <2>2. /\ Persist(L!Accept(task)) /\ UNCHANGED linked /\ UnsatisfiedCriteria = {}
          /\ L!RequireWorkingStage(task, "review")
      BY <1>5 DEF AcceptTask, FinishClaim
    <2>3. task.phase = "in_review"
      BY <2>2, Zenon DEF L!RequireWorkingStage, L!ExpectedStage
    <2> QED
      BY <1>0, <1>1, <1>7, <2>1, <2>2, <2>3, QuietOfPersist DEF Reviewed, QuietStep
  <1>6. CASE \E change \in CodeChanges : \/ LinkCodeChange(r, change)
                                         \/ UnlinkCodeChange(r, change)
    <2>1. Persist(task) /\ task.phase = "in_progress"
      BY <1>6, Zenon DEF LinkCodeChange, UnlinkCodeChange, ChangeLinks
    <2> QED
      BY <1>0, <1>1, <1>7, <2>1, QuietOfPersist DEF Reviewed, QuietStep
  <1> QED
    BY <1>2, <1>3, <1>4, <1>5, <1>6, Zenon

\* CompleteExecution takes a Task in progress into the review of the next cycle.
LEMMA CompletionRow ==
    ASSUME TypeOK, NEW r \in Clients, CompleteExecution(r)
    PROVE  /\ task.phase = "in_progress"
           /\ task'.phase = "in_review" /\ task'.activity = "available"
           /\ task'.reviewCycle = task.reviewCycle + 1
  <1>1. task \in TaskRow /\ L!CompleteExecution(task) \in TaskRow
    BY LifecycleType DEF TypeOK
  <1>2. /\ L!CompleteExecution(task).phase = "in_review"
        /\ L!CompleteExecution(task).activity = "available"
        /\ L!CompleteExecution(task).reviewCycle = task.reviewCycle + 1
    BY <1>1, Zenon DEF L!CompleteExecution, TaskRow
  <1>3. Persist(L!CompleteExecution(task)) /\ L!RequireWorkingStage(task, "execution")
    BY DEF CompleteExecution, FinishClaim
  <1>4. task.phase = "in_progress"
    BY <1>3 DEF L!RequireWorkingStage, L!ExpectedStage, L!Active
  <1> QED
    BY <1>1, <1>2, <1>3, <1>4, PersistFields, Zenon

\* Every step is quiet, records an Item or a check, or delivers.
LEMMA StepKinds ==
    ASSUME WorkflowInv, [Next]_vars
    PROVE  \/ QuietStep
           \/ \E r \in Clients :
                \/ CompleteExecution(r) \/ RecordWorkSubmission(r) \/ RecordClaimProgress(r)
                \/ \E k \in Criteria, o \in Outcomes : RecordAcceptanceCheck(r, k, o)
  <1>0. TypeOK
    BY DEF WorkflowInv
  <1>1. CASE \E r \in Clients : Read(r) \/ TaskCommand(r)
    BY <1>1, QuietRead, QuietTaskCommand
  <1>2. CASE \E r \in Clients : ClaimCommand(r)
    BY <1>2, QuietClaimCommand, Zenon DEF ClaimCommand
  <1>3. CASE \/ AdvanceTime \/ UNCHANGED vars
             \/ \E r \in Clients : CriterionCommand(r)
    <2>1. /\ UNCHANGED linked /\ UNCHANGED delivery
          /\ UNCHANGED task \/ IncrementVersion
      BY <1>3, Zenon DEF AdvanceTime, vars, delivery, CriterionCommand, CreateTaskCriterion,
                  UpdateCriterion, RemoveCriterion
    <2> QED
      BY <1>0, <2>1, QuietFrame DEF QuietStep
  <1> QED
    BY <1>1, <1>2, <1>3, Zenon DEF Next

-----------------------------------------------------------------------------
(* History is append-only.                                                    *)

\* Claims that are not active are untouched by ending one and by appending one.
LEMMA EndedClaimsKept ==
    ASSUME TypeOK,
           \/ UNCHANGED claims
           \/ \E c \in ActiveClaims, outcome \in L!TaskClaimOutcome :
                claims' = EndedClaims(c, outcome)
           \/ \E new \in TaskStageClaim : claims' = Append(claims, new)
           \/ \E c \in ActiveClaims, new \in TaskStageClaim :
                claims' = Append(EndedClaims(c, "deadline_elapsed"), new)
    PROVE  \A d \in 1..Len(claims) : claims[d].status # "active" => claims'[d] = claims[d]
  <1>0. claims \in Seq(TaskStageClaim) /\ Len(claims) \in Nat
        /\ "deadline_elapsed" \in L!TaskClaimOutcome
    BY DEF TypeOK, L!TaskClaimOutcome
  <1> SUFFICES ASSUME NEW d \in 1..Len(claims), claims[d].status # "active"
               PROVE  claims'[d] = claims[d]
    BY Zenon
  <1>1. ASSUME NEW c \in ActiveClaims, NEW outcome \in L!TaskClaimOutcome
        PROVE  /\ EndedClaims(c, outcome)[d] = claims[d]
               /\ EndedClaims(c, outcome) \in Seq(TaskStageClaim)
               /\ Len(EndedClaims(c, outcome)) = Len(claims)
    <2>1. d # c
      BY Zenon DEF ActiveClaims
    <2> QED
      BY <2>1, EndedClaimsType, Zenon
  <1>2. ASSUME NEW s \in Seq(TaskStageClaim), Len(s) = Len(claims), s[d] = claims[d],
               NEW new \in TaskStageClaim
        PROVE  Append(s, new)[d] = claims[d]
    BY <1>0, <1>2, SMTT(30)
  <1> QED
    BY <1>0, <1>1, <1>2, Zenon

\* How a step may change the Claims.
LEMMA ClaimsStep ==
    ASSUME TypeOK, [Next]_vars
    PROVE  \/ UNCHANGED claims
           \/ \E c \in ActiveClaims, outcome \in L!TaskClaimOutcome :
                claims' = EndedClaims(c, outcome)
           \/ \E new \in TaskStageClaim : claims' = Append(claims, new)
           \/ \E c \in ActiveClaims, new \in TaskStageClaim :
                claims' = Append(EndedClaims(c, "deadline_elapsed"), new)
  <1> USE DEF L!TaskClaimOutcome
  <1>1. ASSUME NEW c, NEW outcome \in L!TaskClaimOutcome, EndClaim(c, outcome),
               c \in ActiveClaims
        PROVE  \E d \in ActiveClaims, o \in L!TaskClaimOutcome : claims' = EndedClaims(d, o)
    BY <1>1 DEF EndClaim
  <1>2. ASSUME NEW r \in Clients, Read(r)
        PROVE  \/ UNCHANGED claims
               \/ \E c \in ActiveClaims, outcome \in L!TaskClaimOutcome :
                    claims' = EndedClaims(c, outcome)
    BY <1>1, <1>2, Zenon DEF Read, GetTask, ListTaskCriteria, PrepareCompletion, ClaimCommandTarget, Abandon,
                      ExpireDueClaim, DueClaims
  <1>3. ASSUME NEW r \in Clients, NEW at \in 0..now, Claim(r, at)
        PROVE  \/ \E new \in TaskStageClaim : claims' = Append(claims, new)
               \/ \E c \in ActiveClaims, new \in TaskStageClaim :
                    claims' = Append(EndedClaims(c, "deadline_elapsed"), new)
    <2>1. NewTaskStageClaim(task, r, at) \in TaskStageClaim
      BY NewClaimType DEF TypeOK
    <2> QED
      BY <1>3, <2>1, Zenon DEF Claim, DueClaims
  <1>4. ASSUME NEW r \in Clients, TaskCommand(r), ~\E at \in 0..now : Claim(r, at)
        PROVE  \/ UNCHANGED claims
               \/ \E c \in ActiveClaims, outcome \in L!TaskClaimOutcome :
                    claims' = EndedClaims(c, outcome)
    BY <1>1, <1>4, ZenonT(40)
       DEF TaskCommand, MarkReady, WithdrawReadiness, ResolveIssue, CancelTask,
           SetArchived
  <1>5. ASSUME NEW r \in Clients, ClaimCommand(r)
        PROVE  \/ UNCHANGED claims
               \/ \E c \in ActiveClaims, outcome \in L!TaskClaimOutcome :
                    claims' = EndedClaims(c, outcome)
    BY <1>1, <1>5, ZenonT(40)
       DEF ClaimCommand, ReleaseClaim, RequestChanges, RequestResolution,
           CompleteExecution, AcceptTask, FinishClaim, OwnedClaim, ClaimStillOwned,
           RecordWorkSubmission, RecordClaimProgress, RecordAcceptanceCheck,
           LinkCodeChange, UnlinkCodeChange, ChangeLinks
  <1>6. ASSUME NEW r \in Clients, CriterionCommand(r)
        PROVE  UNCHANGED claims
    BY <1>6, Zenon DEF CriterionCommand, CreateTaskCriterion, UpdateCriterion, RemoveCriterion
  <1>7. CASE AdvanceTime \/ UNCHANGED vars
    BY <1>7 DEF AdvanceTime, vars
  <1> QED
    BY <1>2, <1>3, <1>4, <1>5, <1>6, <1>7, Zenon DEF Next

\* No step reopens a finished Task, lowers the cycle or rewrites an ended Claim.
LEMMA HistoryStep ==
    ASSUME WorkflowInv, [Next]_vars
    PROVE  HistoryIsFinalStep
  <1>0. TypeOK /\ task \in TaskRow /\ task.reviewCycle \in Nat
    BY Zenon DEF WorkflowInv, TypeOK, TaskRow
  <1>1. /\ L!Terminal(task.phase) => task'.phase = task.phase
        /\ task'.reviewCycle >= task.reviewCycle
    <2>1. CASE QuietStep
      BY <1>0, <2>1 DEF QuietStep, QuietRow
    <2>2. CASE \E r \in Clients : CompleteExecution(r)
      <3>1. ~L!Terminal(task.phase) /\ task'.reviewCycle = task.reviewCycle + 1
        BY <1>0, <2>2, CompletionRow, Zenon DEF L!Terminal
      <3> QED
        BY <1>0, <3>1
    <2>3. CASE UNCHANGED task
      BY <1>0, <2>3
    <2> QED
      BY <2>1, <2>2, <2>3, StepKinds, Zenon
         DEF RecordWorkSubmission, RecordClaimProgress, RecordAcceptanceCheck
  <1> QED
    BY <1>1, ClaimsStep, EndedClaimsKept, <1>0, Zenon DEF HistoryIsFinalStep

\* History is append-only for every instance.
THEOREM HistoryTheorem == Spec => HistoryIsFinal
  <1>1. Init => WorkflowInv
    BY InitWorkflowInv
  <1>2. WorkflowInv /\ [Next]_vars => WorkflowInv'
    BY WorkflowStep
  <1>3. WorkflowInv /\ [Next]_vars => [HistoryIsFinalStep]_vars
    BY HistoryStep, Zenon
  <1> QED
    BY <1>1, <1>2, <1>3, PTL DEF Spec, HistoryIsFinal

-----------------------------------------------------------------------------
(* Delivery and review.  What is recorded is attributed to Claims and review  *)
(* cycles; the properties rest on which Claims and cycles these can be.       *)

\* Whatever is recorded names a Claim of the Task, a check no later cycle than the
\* current one, and an acceptance check a review Claim.
Attributed ==
    /\ \A i \in items : i.claim \in 1..Len(claims)
    /\ \A h \in checks : /\ h.claim \in 1..Len(claims)
                         /\ h.cycle <= task.reviewCycle
                         /\ h.purpose = "acceptance" => claims[h.claim].stage = "review"
    /\ \A n \in 1..Len(completions) : completions[n].claim \in 1..Len(claims)

\* The active Claim has recorded for the cycle it works on, and a review Claim is
\* younger than the latest delivery.
ActiveWork ==
    \A c \in ActiveClaims :
      /\ \A i \in items : i.claim = c =>
            i.cycle = task.reviewCycle + ExecutionCycleOffset(claims[c].stage)
      /\ \A h \in checks : h.claim = c => h.cycle = task.reviewCycle
      /\ claims[c].stage = "review" =>
            Len(completions) > 0 /\ completions[Len(completions)].claim < c

\* An acceptance check judges a delivery that was complete when its Claim began.
ReviewsFollowDelivery ==
    \A h \in checks : h.purpose = "acceptance" =>
      h.cycle \in 1..Len(completions) /\ completions[h.cycle].claim < h.claim

\* The inductive invariant, on top of WorkflowInv.
DeliveryInv ==
    /\ Attributed /\ ActiveWork /\ ReviewsFollowDelivery
    /\ ClaimWorksOnOneCycle /\ DeliveryIsComplete /\ ReviewedCodeIsDelivered

\* Claims are appended and ended, never restaged or revived.
LEMMA ClaimRowsKept ==
    ASSUME TypeOK, [Next]_vars
    PROVE  /\ Len(claims) \in Nat /\ Len(claims') \in Nat /\ Len(claims) <= Len(claims')
           /\ \A d \in 1..Len(claims) : /\ d \in 1..Len(claims')
                                        /\ claims'[d].stage = claims[d].stage
           /\ ActiveClaims' \subseteq ActiveClaims \cup {Len(claims) + 1}
           /\ ActiveClaims \subseteq 1..Len(claims)
  <1> DEFINE Kept(s) == /\ s \in Seq(TaskStageClaim) /\ Len(s) = Len(claims)
                        /\ \A d \in 1..Len(claims) :
                             /\ s[d].stage = claims[d].stage
                             /\ s[d].status = "active" => claims[d].status = "active"
  <1>0. claims \in Seq(TaskStageClaim) /\ Len(claims) \in Nat
        /\ "deadline_elapsed" \in L!TaskClaimOutcome /\ Kept(claims)
    BY DEF TypeOK, L!TaskClaimOutcome
  <1>1. ASSUME NEW c \in ActiveClaims, NEW outcome \in L!TaskClaimOutcome
        PROVE  Kept(EndedClaims(c, outcome))
    <2> DEFINE s == EndedClaims(c, outcome)
    <2>1. /\ s \in Seq(TaskStageClaim) /\ Len(s) = Len(claims)
          /\ \A d \in 1..Len(claims) : d # c => s[d] = claims[d]
          /\ s[c].status # "active"
      BY EndedClaimsType, Zenon
    <2>2. c \in 1..Len(claims) /\ claims[c] \in TaskStageClaim
      BY <1>0 DEF ActiveClaims
    <2>3. s[c] = Completed(claims[c], outcome)
      BY <1>0, <2>2 DEF EndedClaims
    <2>4. s[c].stage = claims[c].stage
      BY <2>2, <2>3, Zenon DEF Completed, TaskStageClaim
    <2> HIDE DEF s
    <2>5. ASSUME NEW d \in 1..Len(claims)
          PROVE  /\ s[d].stage = claims[d].stage
                 /\ s[d].status = "active" => claims[d].status = "active"
      BY <2>1, <2>4, Zenon
    <2> QED
      BY <2>1, <2>5, Zenon DEF s
  <1>2. ASSUME NEW s, Kept(s), claims' = s \/ \E new \in TaskStageClaim : claims' = Append(s, new)
        PROVE  /\ Len(claims') \in {Len(claims), Len(claims) + 1}
               /\ \A d \in 1..Len(claims) : claims'[d] = s[d]
    BY <1>0, <1>2
  <1>3. \E s : Kept(s) /\ (claims' = s \/ \E new \in TaskStageClaim : claims' = Append(s, new))
    <2> HIDE DEF Kept
    <2> QED
      BY <1>0, <1>1, ClaimsStep, Zenon
  <1>4. PICK s : Kept(s) /\ (claims' = s \/ \E new \in TaskStageClaim : claims' = Append(s, new))
    BY <1>3, Zenon
  <1>5. /\ Len(claims') \in {Len(claims), Len(claims) + 1}
        /\ \A d \in 1..Len(claims) : claims'[d] = s[d]
    BY <1>2, <1>4, Zenon
  <1>6. \A d \in 1..Len(claims) : /\ claims'[d].stage = claims[d].stage
                                  /\ claims'[d].status = "active" => claims[d].status = "active"
    BY <1>4, <1>5, Zenon
  <1> QED
    BY <1>0, <1>5, <1>6, SMTT(30) DEF ActiveClaims

\* The types the arguments below need.
LEMMA DeliveryTypes ==
    ASSUME TypeOK
    PROVE  /\ task.reviewCycle \in Nat /\ Len(claims) \in Nat /\ Len(completions) \in Nat
           /\ completions \in Seq(ExecutionCompleted)
           /\ \A n \in 1..Len(completions) : completions[n].claim \in Nat
           /\ \A i \in items : i.claim \in Nat /\ i.cycle \in Nat
           /\ \A h \in checks : h.claim \in Nat /\ h.cycle \in Nat
           /\ \A c \in 1..Len(claims) : claims[c].stage \in {"execution", "review"}
  <1>1. \A n \in 1..Len(completions) : completions[n] \in ExecutionCompleted
    BY DEF TypeOK
  <1>2. \A c \in 1..Len(claims) : claims[c] \in TaskStageClaim
    BY DEF TypeOK
  <1>3. \A c \in 1..Len(claims) : claims[c].stage \in {"execution", "review"}
    BY <1>2 DEF TaskStageClaim, L!TaskClaimStage
  <1>4. \A n \in 1..Len(completions) : completions[n].claim \in Nat
    BY <1>1, Zenon DEF ExecutionCompleted
  <1> QED
    BY <1>3, <1>4 DEF TypeOK, TaskRow, DeliveryItem, AcceptanceCheck

\* A quiet step keeps the delivery invariant: a review Claim begins only in review,
\* where something was delivered through an older Claim.
LEMMA DeliveryQuiet ==
    ASSUME WorkflowInv, WorkflowInv', DeliveryInv, [Next]_vars, QuietStep
    PROVE  DeliveryInv'
  <1>0. TypeOK /\ UNCHANGED <<checks, items, completions>> /\ QuietRow
    BY Zenon DEF WorkflowInv, QuietStep, delivery
  <1>1. /\ Len(claims) \in Nat /\ Len(claims') \in Nat /\ Len(claims) <= Len(claims')
        /\ \A d \in 1..Len(claims) : /\ d \in 1..Len(claims')
                                     /\ claims'[d].stage = claims[d].stage
        /\ ActiveClaims' \subseteq ActiveClaims \cup {Len(claims) + 1}
        /\ ActiveClaims \subseteq 1..Len(claims)
    BY <1>0, ClaimRowsKept, Zenon
  <1>2. /\ task.reviewCycle \in Nat /\ Len(completions) \in Nat
        /\ completions \in Seq(ExecutionCompleted)
        /\ \A n \in 1..Len(completions) : completions[n].claim \in Nat
    BY <1>0, DeliveryTypes, Zenon
  <1>3. task'.reviewCycle = task.reviewCycle
    BY <1>0 DEF QuietRow
  <1>4. Attributed'
    BY <1>0, <1>1, <1>3, Zenon DEF DeliveryInv, Attributed
  <1>5. ActiveWork'
    <2> SUFFICES ASSUME NEW c \in ActiveClaims'
                 PROVE  /\ \A i \in items : i.claim = c =>
                              i.cycle = task.reviewCycle + ExecutionCycleOffset(claims'[c].stage)
                        /\ \A h \in checks : h.claim = c => h.cycle = task.reviewCycle
                        /\ claims'[c].stage = "review" =>
                              Len(completions) > 0 /\ completions[Len(completions)].claim < c
      BY <1>0, <1>3, Zenon DEF ActiveWork, ExecutionCycleOffset
    <2>1. CASE c \in ActiveClaims
      BY <1>1, <2>1 DEF DeliveryInv, ActiveWork
    <2>2. CASE c = Len(claims) + 1
      <3>1. (\A i \in items : i.claim # c) /\ (\A h \in checks : h.claim # c)
        BY <1>1, <2>2 DEF DeliveryInv, Attributed
      <3>2. ASSUME claims'[c].stage = "review"
            PROVE  Len(completions) > 0 /\ completions[Len(completions)].claim < c
        <4>1. L!RequireWorkingStage(task', claims'[c].stage)
          BY DEF WorkflowInv, WorkingIffOneActiveClaim
        <4>2. task'.phase = "in_review"
          BY <3>2, <4>1, Zenon DEF L!RequireWorkingStage, L!ExpectedStage
        <4>3. task.phase \in Reviewed
          BY <1>0, <4>2, Zenon DEF QuietRow, Reviewed
        <4>4. completions # <<>>
          BY <4>3, Zenon DEF DeliveryInv, ReviewedCodeIsDelivered, Reviewed
        <4>5. Len(completions) > 0
          BY <1>2, <4>4
        <4> QED
          BY <1>1, <1>2, <2>2, <4>5 DEF DeliveryInv, Attributed
      <3> QED
        BY <3>1, <3>2, Zenon
    <2> QED
      BY <1>1, <2>1, <2>2, Zenon
  <1>6. ReviewsFollowDelivery'
    BY <1>0 DEF DeliveryInv, ReviewsFollowDelivery
  <1>7. ClaimWorksOnOneCycle'
    <2> SUFFICES ASSUME NEW c \in 1..Len(claims')
                 PROVE  /\ \A i, j \in items : (i.claim = c /\ j.claim = c) => i.cycle = j.cycle
                        /\ \A i \in items, h \in checks : (i.claim = c /\ h.claim = c)
                             => i.cycle = IF claims'[c].stage = "execution"
                                          THEN h.cycle + 1 ELSE h.cycle
      BY <1>0, Zenon DEF ClaimWorksOnOneCycle
    <2>1. CASE c \in 1..Len(claims)
      BY <1>1, <2>1 DEF DeliveryInv, ClaimWorksOnOneCycle
    <2>2. CASE c \notin 1..Len(claims)
      BY <2>2, Zenon DEF DeliveryInv, Attributed
    <2> QED
      BY <2>1, <2>2, Zenon
  <1>8. DeliveryIsComplete'
    BY <1>0, <1>3, Zenon DEF DeliveryInv, DeliveryIsComplete
  <1>9. ReviewedCodeIsDelivered'
    BY <1>0 DEF DeliveryInv, ReviewedCodeIsDelivered, QuietRow, Reviewed
  <1> QED
    BY <1>4, <1>5, <1>6, <1>7, <1>8, <1>9, Zenon DEF DeliveryInv

\* What the active Claim has recorded, with the cycle its stage works on spelled out.
LEMMA CycleWorkedOn ==
    ASSUME WorkflowInv, DeliveryInv, NEW c \in ActiveClaims
    PROVE  /\ task.reviewCycle + ExecutionCycleOffset(claims[c].stage) =
                IF claims[c].stage = "execution" THEN task.reviewCycle + 1 ELSE task.reviewCycle
           /\ \A i \in items : i.claim = c =>
                i.cycle = task.reviewCycle + ExecutionCycleOffset(claims[c].stage)
           /\ \A h \in checks : h.claim = c => h.cycle = task.reviewCycle
  <1>1. task.reviewCycle \in Nat
    BY DeliveryTypes, Zenon DEF WorkflowInv
  <1>2. task.reviewCycle + ExecutionCycleOffset(claims[c].stage) =
          IF claims[c].stage = "execution" THEN task.reviewCycle + 1 ELSE task.reviewCycle
    BY <1>1 DEF ExecutionCycleOffset
  <1> QED
    BY <1>2, Zenon DEF DeliveryInv, ActiveWork

\* insertDeliveryWorkflowItem keeps the delivery invariant when the active Claim records
\* for the cycle it works on, and a submission for the next cycle.
LEMMA DeliveryOfItem ==
    ASSUME WorkflowInv, DeliveryInv, NEW kind, NEW c \in ActiveClaims, NEW cycle,
           cycle = task.reviewCycle + ExecutionCycleOffset(claims[c].stage),
           kind = "work_submission" => cycle = task.reviewCycle + 1,
           InsertDeliveryItem(kind, c, cycle),
           UNCHANGED <<task, claims, checks, completions, linked>>
    PROVE  DeliveryInv'
  <1> DEFINE new == [kind |-> kind, claim |-> c, cycle |-> cycle]
  <1>1. new.kind = kind /\ new.claim = c /\ new.cycle = cycle /\ items' = items \cup {new}
    BY Zenon DEF InsertDeliveryItem
  <1> HIDE DEF new
  <1>2. c \in 1..Len(claims) /\ ActiveClaims' = ActiveClaims /\ TypeOK
    BY DEF ActiveClaims, WorkflowInv
  <1>3. /\ task.reviewCycle \in Nat /\ Len(completions) \in Nat
        /\ claims[c].stage \in {"execution", "review"}
    BY <1>2, DeliveryTypes, Zenon
  <1>4. Attributed'
    BY <1>1, <1>2, Zenon DEF DeliveryInv, Attributed
  <1>5. ActiveWork'
    <2>1. \A d \in ActiveClaims : \A i \in items' : i.claim = d =>
             i.cycle = task.reviewCycle + ExecutionCycleOffset(claims[d].stage)
      BY <1>1, Zenon DEF DeliveryInv, ActiveWork
    <2>2. \A d \in ActiveClaims :
             /\ \A h \in checks : h.claim = d => h.cycle = task.reviewCycle
             /\ claims[d].stage = "review" =>
                  Len(completions) > 0 /\ completions[Len(completions)].claim < d
      BY Zenon DEF DeliveryInv, ActiveWork
    <2> QED
      BY <1>2, <2>1, <2>2, Zenon DEF ActiveWork, ExecutionCycleOffset
  <1>6. ReviewsFollowDelivery'
    BY Zenon DEF DeliveryInv, ReviewsFollowDelivery
  <1>7. ClaimWorksOnOneCycle'
    <2>1. /\ \A i \in items : i.claim = c => i.cycle = cycle
          /\ \A h \in checks : h.claim = c =>
               cycle = IF claims[c].stage = "execution" THEN h.cycle + 1 ELSE h.cycle
      BY CycleWorkedOn, Zenon
    <2> SUFFICES ASSUME NEW d \in 1..Len(claims)
                 PROVE  /\ \A i, j \in items' : (i.claim = d /\ j.claim = d) => i.cycle = j.cycle
                        /\ \A i \in items', h \in checks : (i.claim = d /\ h.claim = d)
                             => i.cycle = IF claims[d].stage = "execution"
                                          THEN h.cycle + 1 ELSE h.cycle
      BY DEF ClaimWorksOnOneCycle
    <2>2. /\ \A i, j \in items : (i.claim = d /\ j.claim = d) => i.cycle = j.cycle
          /\ \A i \in items, h \in checks : (i.claim = d /\ h.claim = d)
               => i.cycle = IF claims[d].stage = "execution" THEN h.cycle + 1 ELSE h.cycle
      BY DEF DeliveryInv, ClaimWorksOnOneCycle
    <2> QED
      BY <1>1, <2>1, <2>2, Zenon
  <1>8. DeliveryIsComplete'
    <2>1. Len(completions) = task.reviewCycle
      BY Zenon DEF DeliveryInv, DeliveryIsComplete
    <2>2. \A n \in 1..Len(completions) :
             {i \in items' : i.kind = "work_submission" /\ i.cycle = n}
               = {i \in items : i.kind = "work_submission" /\ i.cycle = n}
      BY <1>1, <1>3, <2>1
    <2> QED
      BY <2>1, <2>2, Zenon DEF DeliveryInv, DeliveryIsComplete
  <1>9. ReviewedCodeIsDelivered'
    BY DEF DeliveryInv, ReviewedCodeIsDelivered
  <1> QED
    BY <1>4, <1>5, <1>6, <1>7, <1>8, <1>9, Zenon DEF DeliveryInv

\* RecordAcceptanceCheck keeps the delivery invariant: the check is of the current
\* cycle, so no completion listed it, and an acceptance check is of a review.
LEMMA DeliveryOfCheck ==
    ASSUME WorkflowInv, DeliveryInv, NEW r \in Clients, NEW k \in Criteria, NEW o \in Outcomes,
           RecordAcceptanceCheck(r, k, o)
    PROVE  DeliveryInv'
  <1> DEFINE c == client[r].claim
             new == [criterion |-> k, revision |-> criteria[k].revision, outcome |-> o,
                     purpose |-> IF claims[c].stage = "execution"
                                 THEN "execution_verification" ELSE "acceptance",
                     claim |-> c, cycle |-> task.reviewCycle]
  <1>1. /\ checks' = checks \cup {new} /\ new.claim = c /\ new.cycle = task.reviewCycle
        /\ new.purpose = IF claims[c].stage = "execution"
                         THEN "execution_verification" ELSE "acceptance"
    BY Zenon DEF RecordAcceptanceCheck
  <1>2. c \in ActiveClaims /\ UNCHANGED <<task, claims, items, completions, linked>>
    BY Zenon DEF RecordAcceptanceCheck, OwnedClaim, ClaimStillOwned
  <1>3. c \in 1..Len(claims) /\ ActiveClaims' = ActiveClaims /\ TypeOK
    BY <1>2, Zenon DEF ActiveClaims, WorkflowInv
  <1> HIDE DEF c, new
  <1>4. /\ task.reviewCycle \in Nat /\ Len(completions) \in Nat
        /\ claims[c].stage \in {"execution", "review"}
    BY <1>3, DeliveryTypes, Zenon
  <1>5. Len(completions) = task.reviewCycle
    BY Zenon DEF DeliveryInv, DeliveryIsComplete
  <1>6. Attributed'
    <2>1. task.reviewCycle <= task.reviewCycle
      BY <1>4
    <2>2. new.purpose = "acceptance" => claims[c].stage = "review"
      BY <1>1, <1>4, Zenon
    <2>3. \A h \in checks' : /\ h.claim \in 1..Len(claims)
                             /\ h.cycle <= task.reviewCycle
                             /\ h.purpose = "acceptance" => claims[h.claim].stage = "review"
      BY <1>1, <1>3, <2>1, <2>2, Zenon DEF DeliveryInv, Attributed
    <2> QED
      BY <1>2, <2>3, Zenon DEF DeliveryInv, Attributed
  <1>7. ActiveWork'
    <2>1. \A d \in ActiveClaims : \A h \in checks' : h.claim = d => h.cycle = task.reviewCycle
      BY <1>1 DEF DeliveryInv, ActiveWork
    <2>2. \A d \in ActiveClaims :
             /\ \A i \in items : i.claim = d =>
                  i.cycle = task.reviewCycle + ExecutionCycleOffset(claims[d].stage)
             /\ claims[d].stage = "review" =>
                  Len(completions) > 0 /\ completions[Len(completions)].claim < d
      BY Zenon DEF DeliveryInv, ActiveWork
    <2> QED
      BY <1>2, <1>3, <2>1, <2>2, Zenon DEF ActiveWork, ExecutionCycleOffset
  <1>8. ReviewsFollowDelivery'
    <2>1. new.purpose = "acceptance" =>
            new.cycle \in 1..Len(completions) /\ completions[new.cycle].claim < new.claim
      <3>1. claims[c].stage = "review" =>
              Len(completions) > 0 /\ completions[Len(completions)].claim < c
        BY <1>2, Zenon DEF DeliveryInv, ActiveWork
      <3>2. new.purpose = "acceptance" => claims[c].stage = "review"
        BY <1>1, <1>4, Zenon
      <3>3. Len(completions) > 0 => Len(completions) \in 1..Len(completions)
        BY <1>4
      <3> QED
        BY <1>1, <1>5, <3>1, <3>2, <3>3, Zenon
    <2> QED
      BY <1>1, <1>2, <2>1, Zenon DEF DeliveryInv, ReviewsFollowDelivery
  <1>9. ClaimWorksOnOneCycle'
    <2>1. \A i \in items : i.claim = c =>
            i.cycle = IF claims[c].stage = "execution" THEN new.cycle + 1 ELSE new.cycle
      BY <1>1, <1>2, CycleWorkedOn, Zenon
    <2> SUFFICES ASSUME NEW d \in 1..Len(claims)
                 PROVE  /\ \A i, j \in items : (i.claim = d /\ j.claim = d) => i.cycle = j.cycle
                        /\ \A i \in items, h \in checks' : (i.claim = d /\ h.claim = d)
                             => i.cycle = IF claims[d].stage = "execution"
                                          THEN h.cycle + 1 ELSE h.cycle
      BY <1>2 DEF ClaimWorksOnOneCycle
    <2>2. /\ \A i, j \in items : (i.claim = d /\ j.claim = d) => i.cycle = j.cycle
          /\ \A i \in items, h \in checks : (i.claim = d /\ h.claim = d)
               => i.cycle = IF claims[d].stage = "execution" THEN h.cycle + 1 ELSE h.cycle
      BY DEF DeliveryInv, ClaimWorksOnOneCycle
    <2> QED
      BY <1>1, <2>1, <2>2, Zenon
  <1>10. DeliveryIsComplete'
    <2>1. \A n \in 1..Len(completions) :
             {h \in checks' : h.purpose = "execution_verification" /\ h.cycle = n - 1}
               = {h \in checks : h.purpose = "execution_verification" /\ h.cycle = n - 1}
      BY <1>1, <1>4, <1>5
    <2> QED
      BY <1>2, <2>1, Zenon DEF DeliveryInv, DeliveryIsComplete
  <1>11. ReviewedCodeIsDelivered'
    BY <1>2, Zenon DEF DeliveryInv, ReviewedCodeIsDelivered
  <1> QED
    BY <1>6, <1>7, <1>8, <1>9, <1>10, <1>11, Zenon DEF DeliveryInv

\* What executionCompletionPayload collects and CompleteExecution appends.
LEMMA CompletionPayload ==
    ASSUME NEW r \in Clients, CompleteExecution(r)
    PROVE  \E p : /\ completions' = Append(completions, p)
                  /\ p.claim = client[r].claim /\ p.cycle = task.reviewCycle + 1
                  /\ p.codeChanges = linked
                  /\ p.submissions = {i \in items : i.kind = "work_submission"
                                                    /\ i.cycle = task.reviewCycle + 1}
                  /\ p.checks = {h \in checks : h.purpose = "execution_verification"
                                                /\ h.cycle = (task.reviewCycle + 1) - 1}
  <1> DEFINE p == ExecutionCompletionPayload(client[r].claim, task.reviewCycle + 1, linked)
  <1>1. completions' = Append(completions, p)
    BY Zenon DEF CompleteExecution
  <1>2. p.claim = client[r].claim /\ p.cycle = task.reviewCycle + 1 /\ p.codeChanges = linked
    BY Zenon DEF ExecutionCompletionPayload
  <1>3. p.submissions = {i \in items : i.kind = "work_submission" /\ i.cycle = task.reviewCycle + 1}
    BY Zenon DEF ExecutionCompletionPayload
  <1>4. p.checks = {h \in checks : h.purpose = "execution_verification"
                                  /\ h.cycle = (task.reviewCycle + 1) - 1}
    BY Zenon DEF ExecutionCompletionPayload
  <1> HIDE DEF p
  <1> WITNESS p
  <1> QED
    BY <1>1, <1>2, <1>3, <1>4, Zenon

\* CompleteExecution keeps the delivery invariant: the payload it collects is what was
\* recorded for the new cycle, and the links it lists are still the links.
LEMMA DeliveryOfCompletion ==
    ASSUME WorkflowInv, WorkflowInv', DeliveryInv, [Next]_vars, NEW r \in Clients,
           CompleteExecution(r)
    PROVE  DeliveryInv'
  <1> DEFINE c == client[r].claim
  <1>0. TypeOK /\ task \in TaskRow /\ TypeOK'
    BY Zenon DEF WorkflowInv, TypeOK
  <1>1. /\ UNCHANGED <<checks, items, linked>> /\ c \in ActiveClaims
    BY Zenon DEF CompleteExecution, OwnedClaim, ClaimStillOwned
  <1>2. PICK new :
          /\ completions' = Append(completions, new)
          /\ new.claim = c /\ new.cycle = task.reviewCycle + 1 /\ new.codeChanges = linked
          /\ new.submissions = {i \in items : i.kind = "work_submission"
                                              /\ i.cycle = task.reviewCycle + 1}
          /\ new.checks = {h \in checks : h.purpose = "execution_verification"
                                          /\ h.cycle = (task.reviewCycle + 1) - 1}
    BY CompletionPayload, Zenon
  <1>3. /\ Len(claims) \in Nat /\ Len(claims') \in Nat /\ Len(claims) <= Len(claims')
        /\ \A d \in 1..Len(claims) : /\ d \in 1..Len(claims')
                                     /\ claims'[d].stage = claims[d].stage
        /\ ActiveClaims \subseteq 1..Len(claims)
    BY <1>0, ClaimRowsKept, Zenon
  <1> HIDE DEF c
  <1>4. /\ task.reviewCycle \in Nat /\ Len(completions) \in Nat
        /\ completions \in Seq(ExecutionCompleted)
    BY <1>0, DeliveryTypes, Zenon
  <1>5. task'.reviewCycle = task.reviewCycle + 1 /\ task'.activity = "available"
    BY <1>0, CompletionRow, Zenon
  <1>6. ActiveClaims' = {}
    BY <1>5 DEF WorkflowInv, WorkingIffOneActiveClaim
  <1>7. completions' \in Seq(ExecutionCompleted)
    BY <1>0, Zenon DEF TypeOK
  <1>8. /\ Len(completions') = Len(completions) + 1
        /\ completions'[Len(completions) + 1] = new
        /\ \A n \in 1..Len(completions) : completions'[n] = completions[n]
    <2>1. \A n \in 1..Len(completions) : completions'[n] = completions[n]
      BY <1>2, <1>4
    <2> QED
      BY <1>2, <1>4, <2>1
  <1>9. Len(completions) = task.reviewCycle
    BY DEF DeliveryInv, DeliveryIsComplete
  <1>10. Attributed'
    <2>1. \A n \in 1..Len(completions') : completions'[n].claim \in 1..Len(claims')
      <3>1. \A n \in 1..Len(completions) : completions[n].claim \in 1..Len(claims)
        BY Zenon DEF DeliveryInv, Attributed
      <3>2. new.claim \in 1..Len(claims)
        BY <1>1, <1>2, <1>3, Zenon
      <3>3. \A n \in 1..Len(completions') : n \in 1..Len(completions) \/ n = Len(completions) + 1
        BY <1>4, <1>8
      <3> QED
        BY <1>3, <1>8, <3>1, <3>2, <3>3, Zenon
    <2>2. \A h \in checks : h.cycle <= task'.reviewCycle
      <3>1. \A h \in checks : h.cycle \in Nat /\ h.cycle <= task.reviewCycle
        BY <1>0, DeliveryTypes, Zenon DEF DeliveryInv, Attributed
      <3> QED
        BY <1>4, <1>5, <3>1
    <2> QED
      BY <1>1, <1>3, <2>1, <2>2, Zenon DEF DeliveryInv, Attributed
  <1>11. ActiveWork'
    BY <1>6, Zenon DEF ActiveWork
  <1>12. ReviewsFollowDelivery'
    <2>1. \A n \in 1..Len(completions) : n \in 1..Len(completions')
      BY <1>4, <1>8
    <2> QED
      BY <1>1, <1>8, <2>1, Zenon DEF DeliveryInv, ReviewsFollowDelivery
  <1>13. ClaimWorksOnOneCycle'
    <2> SUFFICES ASSUME NEW d \in 1..Len(claims')
                 PROVE  /\ \A i, j \in items : (i.claim = d /\ j.claim = d) => i.cycle = j.cycle
                        /\ \A i \in items, h \in checks : (i.claim = d /\ h.claim = d)
                             => i.cycle = IF claims'[d].stage = "execution"
                                          THEN h.cycle + 1 ELSE h.cycle
      BY <1>1, Zenon DEF ClaimWorksOnOneCycle
    <2>1. CASE d \in 1..Len(claims)
      <3>1. claims'[d].stage = claims[d].stage
        BY <1>3, <2>1, Zenon
      <3> QED
        BY <2>1, <3>1, ZenonT(30) DEF DeliveryInv, ClaimWorksOnOneCycle
    <2>2. CASE d \notin 1..Len(claims)
      BY <2>2 DEF DeliveryInv, Attributed
    <2> QED
      BY <2>1, <2>2
  <1>14. DeliveryIsComplete'
    <2>1. ASSUME NEW n \in 1..Len(completions')
          PROVE  /\ completions'[n].cycle = n
                 /\ completions'[n].submissions =
                      {i \in items : i.kind = "work_submission" /\ i.cycle = n}
                 /\ completions'[n].checks =
                      {h \in checks : h.purpose = "execution_verification" /\ h.cycle = n - 1}
      <3>1. CASE n \in 1..Len(completions)
        <4>1. /\ completions[n].cycle = n
              /\ completions[n].submissions =
                   {i \in items : i.kind = "work_submission" /\ i.cycle = n}
              /\ completions[n].checks =
                   {h \in checks : h.purpose = "execution_verification" /\ h.cycle = n - 1}
          BY <3>1, Zenon DEF DeliveryInv, DeliveryIsComplete
        <4>2. completions'[n] = completions[n]
          BY <1>8, <3>1, Zenon
        <4> QED
          BY <4>1, <4>2, Zenon
      <3>2. CASE n = Len(completions) + 1
        BY <1>2, <1>8, <1>9, <3>2, ZenonT(30)
      <3> QED
        BY <1>4, <1>8, <3>1, <3>2
    <2> QED
      BY <1>1, <1>5, <1>8, <1>9, <2>1, Zenon DEF DeliveryIsComplete
  <1>15. ReviewedCodeIsDelivered'
    <2>1. completions' # <<>>
      BY <1>4, <1>7, <1>8
    <2> QED
      BY <1>1, <1>2, <1>8, <2>1 DEF ReviewedCodeIsDelivered
  <1> QED
    BY <1>10, <1>11, <1>12, <1>13, <1>14, <1>15 DEF DeliveryInv

\* Every step keeps the delivery invariant.
LEMMA DeliveryStep ==
    ASSUME WorkflowInv, DeliveryInv, [Next]_vars
    PROVE  DeliveryInv'
  <1>0. WorkflowInv'
    BY WorkflowStep
  <1>1. CASE QuietStep
    BY <1>0, <1>1, DeliveryQuiet
  <1>2. ASSUME NEW r \in Clients, RecordWorkSubmission(r)
        PROVE  DeliveryInv'
    <2>1. /\ client[r].claim \in ActiveClaims /\ claims[client[r].claim].stage = "execution"
          /\ InsertDeliveryItem("work_submission", client[r].claim, task.reviewCycle + 1)
          /\ UNCHANGED <<task, claims, checks, completions, linked>>
      BY <1>2, Zenon DEF RecordWorkSubmission, OwnedClaim, ClaimStillOwned
    <2>2. ExecutionCycleOffset(claims[client[r].claim].stage) = 1
      BY <2>1 DEF ExecutionCycleOffset
    <2> QED
      BY <2>1, <2>2, DeliveryOfItem, Zenon
  <1>3. ASSUME NEW r \in Clients, RecordClaimProgress(r)
        PROVE  DeliveryInv'
    <2>1. /\ client[r].claim \in ActiveClaims
          /\ InsertDeliveryItem("progress", client[r].claim,
               task.reviewCycle + ExecutionCycleOffset(claims[client[r].claim].stage))
          /\ UNCHANGED <<task, claims, checks, completions, linked>>
      BY <1>3, Zenon DEF RecordClaimProgress
    <2> QED
      BY <2>1, DeliveryOfItem, Zenon
  <1>4. ASSUME NEW r \in Clients, CompleteExecution(r)
        PROVE  DeliveryInv'
    BY <1>0, <1>4, DeliveryOfCompletion, Zenon
  <1> QED
    BY <1>1, <1>2, <1>3, <1>4, DeliveryOfCheck, StepKinds, Zenon

\* A freshly created Task satisfies the delivery invariant.
LEMMA InitDeliveryInv == Init => DeliveryInv
  <1> SUFFICES ASSUME Init PROVE DeliveryInv
    BY Zenon
  <1>1. /\ task.phase = "backlog" /\ task.reviewCycle = 0 /\ Len(claims) = 0
        /\ items = {} /\ checks = {} /\ Len(completions) = 0
    BY Zenon DEF Init, InitialTask
  <1>2. Attributed /\ ActiveWork /\ ReviewsFollowDelivery
    BY <1>1 DEF Attributed, ActiveWork, ReviewsFollowDelivery, ActiveClaims
  <1>3. ClaimWorksOnOneCycle /\ DeliveryIsComplete /\ ReviewedCodeIsDelivered
    BY <1>1 DEF ClaimWorksOnOneCycle, DeliveryIsComplete, ReviewedCodeIsDelivered
  <1> QED
    BY <1>2, <1>3 DEF DeliveryInv

\* The delivery invariant holds in every reachable state.
LEMMA DeliveryInvariant == Spec => [](WorkflowInv /\ DeliveryInv)
  <1>1. Init => WorkflowInv /\ DeliveryInv
    BY InitWorkflowInv, InitDeliveryInv
  <1>2. WorkflowInv /\ DeliveryInv /\ [Next]_vars => WorkflowInv' /\ DeliveryInv'
    BY WorkflowStep, DeliveryStep
  <1> QED
    BY <1>1, <1>2, PTL DEF Spec

\* Everything recorded through a Claim counts for the one review cycle it works on, however
\* the requests of its owner and its expiry interleave.
THEOREM ClaimsWorkOnOneCycle == Spec => []ClaimWorksOnOneCycle
  <1>1. WorkflowInv /\ DeliveryInv => ClaimWorksOnOneCycle
    BY DEF DeliveryInv
  <1> QED
    BY <1>1, DeliveryInvariant, PTL

\* executionCompletionPayload loses nothing and counts nothing twice: the completion of
\* each cycle lists exactly its submissions and execution checks, in every later state too.
THEOREM DeliveriesAreComplete == Spec => []DeliveryIsComplete
  <1>1. WorkflowInv /\ DeliveryInv => DeliveryIsComplete
    BY DEF DeliveryInv
  <1> QED
    BY <1>1, DeliveryInvariant, PTL

\* PrepareCompletion reads the links before the transaction of CompleteExecution, and yet a
\* Task in review or done is linked to exactly the code changes its completion lists.
THEOREM ReviewSeesWhatWasDelivered == Spec => []ReviewedCodeIsDelivered
  <1>1. WorkflowInv /\ DeliveryInv => ReviewedCodeIsDelivered
    BY DEF DeliveryInv
  <1> QED
    BY <1>1, DeliveryInvariant, PTL

\* AcceptTask finds, for every active criterion, a check made through a review Claim that
\* is younger than the Claim that delivered the cycle.
LEMMA AcceptedStep ==
    ASSUME WorkflowInv, DeliveryInv, [Next]_vars
    PROVE  AcceptedAfreshStep
  <1> SUFFICES ASSUME task.phase # "done", task'.phase = "done"
               PROVE  /\ completions # <<>>
                      /\ \A k \in Criteria : criteria[k].state = "active" =>
                           \E h \in checks :
                             /\ h.criterion = k /\ h.revision = criteria[k].revision
                             /\ h.outcome \in {"passed", "waived"}
                             /\ claims[h.claim].stage = "review"
                             /\ h.claim > completions[Len(completions)].claim
    BY Zenon DEF AcceptedAfreshStep
  <1>0. TypeOK /\ task \in TaskRow
    BY DEF WorkflowInv, TypeOK
  <1>1. task.phase = "in_review" /\ UnsatisfiedCriteria = {}
    <2>1. CASE QuietStep
      BY <2>1 DEF QuietStep, QuietRow
    <2>2. ASSUME NEW r \in Clients, CompleteExecution(r)
          PROVE  FALSE
      BY <1>0, <2>2, CompletionRow
    <2>3. ASSUME UNCHANGED task
          PROVE  FALSE
      BY <2>3, Zenon
    <2> QED
      BY <2>1, <2>2, <2>3, StepKinds, Zenon
         DEF RecordWorkSubmission, RecordClaimProgress, RecordAcceptanceCheck
  <1>2. completions # <<>> /\ Len(completions) = task.reviewCycle
    BY <1>1 DEF DeliveryInv, ReviewedCodeIsDelivered, DeliveryIsComplete
  <1>3. ASSUME NEW k \in Criteria, criteria[k].state = "active"
        PROVE  \E h \in checks :
                 /\ h.criterion = k /\ h.revision = criteria[k].revision
                 /\ h.outcome \in {"passed", "waived"}
                 /\ claims[h.claim].stage = "review"
                 /\ h.claim > completions[Len(completions)].claim
    <2>1. PICK h \in checks : /\ h.criterion = k /\ h.revision = criteria[k].revision
                              /\ h.purpose = "acceptance" /\ h.cycle = task.reviewCycle
                              /\ L!Satisfies(h.outcome)
      BY <1>1, <1>3, Zenon DEF UnsatisfiedCriteria
    <2>2. claims[h.claim].stage = "review"
      BY <2>1, Zenon DEF DeliveryInv, Attributed
    <2>3. h.cycle \in 1..Len(completions) /\ completions[h.cycle].claim < h.claim
      BY <2>1, Zenon DEF DeliveryInv, ReviewsFollowDelivery
    <2>4. h.claim > completions[Len(completions)].claim
      BY <1>0, <1>2, <2>1, <2>3, DeliveryTypes
    <2> QED
      BY <2>1, <2>2, <2>4, Zenon DEF L!Satisfies
  <1> QED
    BY <1>2, <1>3, Zenon

\* No Task is accepted on stale checks: of an earlier cycle, of an earlier wording of a
\* criterion, or made by an executor.
THEOREM AcceptanceIsFresh == Spec => AcceptedAfresh
  <1>1. WorkflowInv /\ DeliveryInv /\ [Next]_vars => [AcceptedAfreshStep]_vars
    BY AcceptedStep
  <1> QED
    BY <1>1, DeliveryInvariant, PTL DEF Spec, AcceptedAfresh
=============================================================================
