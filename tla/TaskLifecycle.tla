---------------------------- MODULE TaskLifecycle ----------------------------
(***************************************************************************)
(* The domain rules of a Task: which lifecycle transition is allowed in    *)
(* which phase and activity, and how a stage Claim ends.                   *)
(*                                                                         *)
(* Models internal/domain/task_lifecycle.go and task_stage_claim.go.  A    *)
(* Go method that validates and then assigns is a pair here: CanX is the   *)
(* condition under which it returns nil, X the value it leaves behind.     *)
(* Every operator takes a record t with (at least) the fields phase,       *)
(* activity, reviewCycle and archived.                                     *)
(***************************************************************************)
EXTENDS Naturals

TaskPhase == {"backlog", "ready", "in_progress", "in_review", "done", "cancelled"}

\* The empty activity of an inactive phase (NULL in the tasks row).
NoActivity == "none"

TaskActivityState == {"available", "working", "needs_resolution"}

TaskClaimStage == {"execution", "review"}

Active(phase) == phase \in {"in_progress", "in_review"}

Terminal(phase) == phase \in {"done", "cancelled"}

\* TaskLifecycle.Validate: exactly the active phases carry an activity.
Valid(t) ==
    IF Active(t.phase) THEN t.activity \in TaskActivityState
                       ELSE t.activity = NoActivity

\* The stage whose Claim may act in a phase.
ExpectedStage(phase) == IF phase = "in_review" THEN "review" ELSE "execution"

RequireWorkingStage(t, stage) ==
    /\ t.activity = "working"
    /\ Active(t.phase)
    /\ stage = ExpectedStage(t.phase)

-----------------------------------------------------------------------------
CanMarkReady(t, unfinishedDependencies) ==
    /\ t.phase = "backlog" /\ t.activity = NoActivity
    /\ ~t.archived
    /\ ~unfinishedDependencies

MarkReady(t) == [t EXCEPT !.phase = "ready"]

CanWithdrawReadiness(t) == t.phase = "ready" /\ t.activity = NoActivity

WithdrawReadiness(t) == [t EXCEPT !.phase = "backlog"]

Claimable(t) ==
    \/ t.phase = "ready" /\ t.activity = NoActivity
    \/ Active(t.phase) /\ t.activity = "available"

CanClaim(t) == ~t.archived /\ Claimable(t)

\* The phase a Claim works in: claiming a ready Task starts its execution.
ClaimedPhase(t) == IF t.phase = "ready" THEN "in_progress" ELSE t.phase

Claim(t) == [t EXCEPT !.phase = ClaimedPhase(t), !.activity = "working"]

ClaimStage(t) == ExpectedStage(ClaimedPhase(t))

Release(t) == [t EXCEPT !.activity = "available"]

RequestResolution(t) == [t EXCEPT !.activity = "needs_resolution"]

CanResolveIssue(t) == Active(t.phase) /\ t.activity = "needs_resolution"

ResolveIssue(t) == [t EXCEPT !.activity = "available"]

CompleteExecution(t) ==
    [t EXCEPT !.phase = "in_review", !.activity = "available",
              !.reviewCycle = t.reviewCycle + 1]

RequestChanges(t) == [t EXCEPT !.phase = "in_progress", !.activity = "available"]

Accept(t) == [t EXCEPT !.phase = "done", !.activity = NoActivity]

\* Mutant of CanCancel: a finished Task may be cancelled.
CanCancelFinished(t) == Valid(t)

CanCancel(t) == ~Terminal(t.phase) /\ Valid(t)

Cancel(t) == [t EXCEPT !.phase = "cancelled", !.activity = NoActivity]

-----------------------------------------------------------------------------
\* How a stage Claim may end.
TaskClaimOutcome ==
    {"execution_completed", "task_accepted", "changes_requested",
     "needs_resolution", "voluntarily_released", "deadline_elapsed",
     "task_cancelled"}

StageClaimStatus == {"active", "completed", "released", "expired", "cancelled"}

\* The terminal status TaskStageClaim.Complete derives from an outcome.
CompletedStatus(outcome) ==
    CASE outcome \in {"execution_completed", "task_accepted", "changes_requested"}
                                                                  -> "completed"
      [] outcome \in {"needs_resolution", "voluntarily_released"} -> "released"
      [] outcome = "deadline_elapsed"                             -> "expired"
      [] OTHER                                                    -> "cancelled"

StageAcceptsOutcome(stage, outcome) ==
    \/ outcome \in {"needs_resolution", "voluntarily_released",
                    "deadline_elapsed", "task_cancelled"}
    \/ stage = "execution" /\ outcome = "execution_completed"
    \/ stage = "review" /\ outcome \in {"task_accepted", "changes_requested"}

\* AcceptanceOutcome.Satisfies
AcceptanceOutcome == {"passed", "failed", "unable", "waived"}

Satisfies(outcome) == outcome \in {"passed", "waived"}
=============================================================================
