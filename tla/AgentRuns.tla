----------------------------- MODULE AgentRuns -----------------------------
(***************************************************************************)
(* The life of one Agent Run, from the chat message that creates it to the *)
(* reply that reports its outcome: internal/store/agent_store.go, the      *)
(* worker loops of internal/agent/runtime/worker.go, the tools of          *)
(* internal/agent/tools and the ingress of internal/agent/ingress.  Every  *)
(* statement names its Run by id, so Runs do not interact and one is       *)
(* enough.  What the language model does is arbitrary: it may call tools   *)
(* in any order, at once or not at all, and choose again on every attempt. *)
(*                                                                         *)
(* Times are reduced to what they decide: a lease may lapse under a worker *)
(* that still works (a paused process), a question may expire, and a day   *)
(* in which nobody works on the Run ends the API's memory of the           *)
(* idempotency key.  Messages are reduced to their deduplication keys,     *)
(* Tasks to numbers, answers to the round of the question.                 *)
(*                                                                         *)
(* The workers are the loops of one process, pactline-agent-1 to -N.  A    *)
(* process that replaces another gives its loops the same names, which is  *)
(* outside this model: two loops of one name would both own the lease.     *)
(***************************************************************************)
EXTENDS Naturals

CONSTANTS
    Workers,                   \* the agent loops, restarted after a crash
    NoWorker,
    MaxClarificationRounds,
    maxRunAttempts,
    MaxClaims,                 \* bound: how often the Run is claimed
    MaxTasks                   \* bound: Tasks the API creates for the Run

ASSUME AgentConstants ==
    /\ NoWorker \notin Workers
    /\ MaxClarificationRounds \in Nat
    /\ maxRunAttempts \in Nat \ {0}
    /\ MaxClaims \in Nat \ {0}
    /\ maxRunAttempts <= MaxClaims
    /\ MaxTasks \in Nat

Rounds == 1..MaxClarificationRounds
Tasks == 1..MaxTasks
Terminal == {"succeeded", "failed", "cancelled"}
Question(n) == <<"clarification", n>>
Report(status) == <<status, 0>>
Messages == {Question(n) : n \in Rounds} \cup {Report(s) : s \in Terminal}   \* the deduplication keys

VARIABLES
    run,         \* the row of agent_runs
    input,       \* the row of agent_run_inputs; pending = the round answered
    checkpoint,  \* agent_run_checkpoints: the attempt that saved it, or 0
    worker,      \* per loop: what executeRun holds in memory
    outbox,      \* agent_message_outbox, by deduplication key
    receipt,     \* the Task the success message names, 0 for a plain answer
    tasks,       \* Tasks the API has created for the Run so far
    key          \* the live idempotency record of create_task: its Task, or 0

vars == <<run, input, checkpoint, worker, outbox, receipt, tasks, key>>

Phases == {"idle", "claimed", "working", "attaching", "saving", "saved",
           "waiting", "succeeded", "error"}

TypeOK ==
    /\ run \in [status : {"none", "queued", "running", "waiting_user"} \cup Terminal,
                owner : Workers \cup {NoWorker}, lapsed : BOOLEAN,
                attempts : 0..MaxClaims, rounds : 0..MaxClarificationRounds,
                message : {"none", "pending", "bound"}, expired : BOOLEAN,
                interrupt : 0..MaxClaims, task : 0..MaxTasks]
    /\ input \in [kept : BOOLEAN, pending : 0..MaxClarificationRounds]
    /\ checkpoint \in 0..MaxClaims
    /\ worker \in [Workers -> [phase : Phases, attempt : 0..MaxClaims,
                               rounds : 0..MaxClarificationRounds,
                               answer : 0..MaxClarificationRounds,
                               asked : BOOLEAN, got : 0..MaxTasks, made : 0..MaxTasks,
                               responded : BOOLEAN, said : 0..MaxTasks,
                               retryable : BOOLEAN]]
    /\ outbox \in [Messages -> {"none", "pending", "shown", "delivered"}]
    /\ receipt \in 0..MaxTasks
    /\ tasks \in 0..MaxTasks
    /\ key \in 0..MaxTasks

Idle == [phase |-> "idle", attempt |-> 0, rounds |-> 0, answer |-> 0, asked |-> FALSE,
         got |-> 0, made |-> 0, responded |-> FALSE, said |-> 0, retryable |-> FALSE]

Init ==
    /\ run = [status |-> "none", owner |-> NoWorker, lapsed |-> FALSE, attempts |-> 0,
              rounds |-> 0, message |-> "none", expired |-> FALSE, interrupt |-> 0,
              task |-> 0]
    /\ input = [kept |-> FALSE, pending |-> 0]
    /\ checkpoint = 0
    /\ worker = [w \in Workers |-> Idle]
    /\ outbox = [m \in Messages |-> "none"]
    /\ receipt = 0 /\ tasks = 0 /\ key = 0

Owns(w) == run.status = "running" /\ run.owner = w
WorkerSet(w, local) == worker' = [worker EXCEPT ![w] = local]
At(w, phase) == [worker[w] EXCEPT !.phase = phase]
Failed(w, retryable) == [worker[w] EXCEPT !.phase = "error", !.retryable = retryable]

\* The receipt invoke makes up itself for a Task created without a usable
\* response.  It has no summary, unlike every response the tool accepts.
MadeUpReceipt(w) == [worker[w] EXCEPT !.phase = "succeeded", !.responded = FALSE]

\* insertOutbox: ON CONFLICT (deduplication_key) DO NOTHING.
Enqueue(m) == outbox' = [outbox EXCEPT ![m] = IF @ = "none" THEN "pending" ELSE @]

(***************************************************************************)
(* Ingress and the claim of a Run.                                         *)
(***************************************************************************)

\* The Run and its input in one transaction.  A second delivery of the
\* message meets the unique provider identity and changes nothing.
CreateRunWithInput ==
    /\ run.status = "none"
    /\ run' = [run EXCEPT !.status = "queued"]
    /\ input' = [kept |-> TRUE, pending |-> 0]

Accept ==
    /\ CreateRunWithInput
    /\ UNCHANGED <<checkpoint, worker, outbox, receipt, tasks, key>>

\* Mutant: a Run whose lease has lapsed is not claimed again.
ClaimRunQueuedOnly(w) ==
    /\ worker[w].phase = "idle"
    /\ run.status = "queued"
    /\ run.attempts < MaxClaims
    /\ run' = [run EXCEPT !.status = "running", !.owner = w, !.lapsed = FALSE, !.attempts = @ + 1]
    /\ WorkerSet(w, [Idle EXCEPT !.phase = "claimed", !.attempt = run.attempts + 1,
                                 !.rounds = run.rounds])
    /\ UNCHANGED <<input, checkpoint, outbox, receipt, tasks, key>>

ClaimRun(w) ==
    /\ worker[w].phase = "idle"
    /\ run.status = "queued" \/ (run.status = "running" /\ run.lapsed)
    /\ run.attempts < MaxClaims
    /\ run' = [run EXCEPT !.status = "running", !.owner = w, !.lapsed = FALSE, !.attempts = @ + 1]
    /\ WorkerSet(w, [Idle EXCEPT !.phase = "claimed", !.attempt = run.attempts + 1,
                                 !.rounds = run.rounds])
    /\ UNCHANGED <<input, checkpoint, outbox, receipt, tasks, key>>

\* lease_expires_at passes, also while the worker is alive but not renewing.
LeaseLapses ==
    /\ run.status = "running" /\ ~run.lapsed
    /\ run.attempts < MaxClaims
    /\ run' = [run EXCEPT !.lapsed = TRUE]
    /\ UNCHANGED <<input, checkpoint, worker, outbox, receipt, tasks, key>>

Invoking == {"claimed", "working", "attaching", "saving", "saved"}

\* renewLease: the renewal finds the lease lapsed or taken and cancels the
\* invocation; whatever it returns, executeRun joins the lease error to it.
RenewFails(w) ==
    /\ worker[w].phase \in Invoking
    /\ ~Owns(w) \/ run.lapsed
    /\ WorkerSet(w, Failed(w, TRUE))
    /\ UNCHANGED <<run, input, checkpoint, outbox, receipt, tasks, key>>

\* The process dies, or the store refuses the worker's last write and the
\* error is only logged: the loop starts over without the Run.
WorkerStops(w) ==
    /\ worker[w].phase # "idle"
    /\ run.attempts < MaxClaims
    /\ WorkerSet(w, Idle)
    /\ UNCHANGED <<run, input, checkpoint, outbox, receipt, tasks, key>>

(***************************************************************************)
(* invoke: one execution of the model and its tools.                       *)
(***************************************************************************)

\* GetRunInput, then ResumeWithParams on the checkpoint when an answer is
\* stored, or a fresh Query from the command.
LoadInput(w) ==
    /\ worker[w].phase = "claimed"
    /\ WorkerSet(w, IF input.kept /\ (input.pending # 0 => run.interrupt # 0 /\ checkpoint # 0)
                    THEN [worker[w] EXCEPT !.phase = "working", !.answer = input.pending]
                    ELSE Failed(w, TRUE))
    /\ UNCHANGED <<run, input, checkpoint, outbox, receipt, tasks, key>>

\* drainEvents returns an error: a tool, the model or the store failed.  A
\* Task this invocation created makes it a success all the same, and a response
\* selected before is not looked at.
ToolFails(w) ==
    /\ worker[w].phase \in {"working", "attaching", "saving"}
    /\ \E retryable \in BOOLEAN :
          WorkerSet(w, IF worker[w].made = 0 THEN Failed(w, retryable) ELSE MadeUpReceipt(w))
    /\ UNCHANGED <<run, input, checkpoint, outbox, receipt, tasks, key>>

\* The input cannot be read or decrypted, the model client cannot be built, or
\* clearing the answer fails after the event stream has ended.
InvokeFails(w) ==
    /\ \/ worker[w].phase = "claimed" /\ \E retryable \in BOOLEAN : WorkerSet(w, Failed(w, retryable))
       \/ worker[w].phase = "saved" /\ worker[w].answer # 0 /\ WorkerSet(w, Failed(w, TRUE))
    /\ UNCHANGED <<run, input, checkpoint, outbox, receipt, tasks, key>>

\* Once the Run has its Task, only the receipt of it may be selected.
requireMutationReceipt(named) == run.task # 0 => named = run.task

\* respond with ask_user_question.  Other tool calls of the same model
\* message run beside it.
AskUser(w) ==
    /\ worker[w].phase \in {"working", "attaching"}
    /\ ~worker[w].asked
    /\ requireMutationReceipt(0)
    /\ WorkerSet(w, [worker[w] EXCEPT !.asked = TRUE])
    /\ UNCHANGED <<run, input, checkpoint, outbox, receipt, tasks, key>>

\* Mutant: the Run is not asked which Task it recorded.
compatibleEvidenceUnattached(named) == named # 0 => named \in 1..tasks

\* Evidence of a created Task must be the Task recorded on the Run; an
\* answer to a question (named = 0) needs none.
compatibleEvidence(named) == named # 0 => named = run.task

\* respond: one selection per invocation.
Respond(w) ==
    /\ worker[w].phase \in {"working", "attaching"}
    /\ ~worker[w].responded
    /\ \E named \in 0..MaxTasks :
          /\ requireMutationReceipt(named) /\ compatibleEvidence(named)
          /\ WorkerSet(w, [worker[w] EXCEPT !.responded = TRUE, !.said = named])
    /\ UNCHANGED <<run, input, checkpoint, outbox, receipt, tasks, key>>

\* create_task's request: the API answers with the Task of the key while it
\* remembers the key, and creates one otherwise.  The answer may be lost.
CreateTask(w) ==
    /\ worker[w].phase = "working" /\ ~worker[w].responded
    /\ \/ key # 0 /\ UNCHANGED <<tasks, key>>
       \/ key = 0 /\ tasks < MaxTasks /\ tasks' = tasks + 1 /\ key' = tasks + 1
    /\ \/ WorkerSet(w, [worker[w] EXCEPT !.phase = "attaching", !.got = key'])
       \/ worker[w].made = 0 /\ WorkerSet(w, Failed(w, TRUE))
    /\ UNCHANGED <<run, input, checkpoint, outbox, receipt>>

\* A day passes while nobody executes the Run (it waits for the user, or the
\* process is down): the idempotency record is no longer honoured.
KeyExpires ==
    /\ key # 0
    /\ \A w \in Workers : worker[w].phase = "idle"
    /\ key' = 0
    /\ UNCHANGED <<run, input, checkpoint, worker, outbox, receipt, tasks>>

\* Mutant: AND created_task_id IS NULL is missing.
AttachTaskOverwrites(w) ==
    /\ worker[w].phase = "attaching"
    /\ run' = IF Owns(w) THEN [run EXCEPT !.task = worker[w].got] ELSE run
    /\ WorkerSet(w, [worker[w] EXCEPT !.phase = "working", !.made = worker[w].got])
    /\ UNCHANGED <<input, checkpoint, outbox, receipt, tasks, key>>

\* AttachTask and the comparison with the Task already recorded.
AttachTask(w) ==
    /\ worker[w].phase = "attaching"
    /\ run' = IF Owns(w) /\ run.task = 0 THEN [run EXCEPT !.task = worker[w].got] ELSE run
    /\ WorkerSet(w, CASE run'.task = worker[w].got ->
                             [worker[w] EXCEPT !.phase = "working", !.made = worker[w].got]
                      [] run'.task # worker[w].got /\ worker[w].made # 0 -> MadeUpReceipt(w)
                      [] OTHER -> Failed(w, run'.task = 0))
    /\ UNCHANGED <<input, checkpoint, outbox, receipt, tasks, key>>

\* The event stream ends.  An interrupted execution saves its checkpoint first.
DrainEvents(w) ==
    /\ worker[w].phase = "working"
    /\ WorkerSet(w, At(w, IF worker[w].asked THEN "saving" ELSE "saved"))
    /\ UNCHANGED <<run, input, checkpoint, outbox, receipt, tasks, key>>

SaveCheckpoint(w) ==
    /\ worker[w].phase = "saving"
    /\ checkpoint' = worker[w].attempt
    /\ WorkerSet(w, At(w, "saved"))
    /\ UNCHANGED <<run, input, outbox, receipt, tasks, key>>

\* The outcome of invoke: a question, the selected response, the Task it
\* created without selecting one, or errNoAgentOutcome.
Outcome(w) ==
    CASE worker[w].asked -> At(w, "waiting")
      [] ~worker[w].asked /\ worker[w].responded -> At(w, "succeeded")
      [] ~worker[w].asked /\ ~worker[w].responded /\ worker[w].made # 0 -> MadeUpReceipt(w)
      [] OTHER -> Failed(w, FALSE)

\* ClearPendingResumeInput, which names the Run and not its owner, comes
\* before the outcome is stored.
ClearPendingResumeInput(w) ==
    /\ worker[w].phase = "saved"
    /\ input' = IF worker[w].answer # 0 THEN [kept |-> input.kept, pending |-> 0] ELSE input
    /\ WorkerSet(w, Outcome(w))
    /\ UNCHANGED <<run, checkpoint, outbox, receipt, tasks, key>>

(***************************************************************************)
(* executeRun stores the outcome.                                          *)
(***************************************************************************)

\* Mutant: WaitForUser does not count the rounds.
MarkRunWaitingUnlimited(w) ==
    /\ worker[w].phase = "waiting"
    /\ IF Owns(w)
       THEN /\ run' = [run EXCEPT !.status = "waiting_user", !.owner = NoWorker, !.lapsed = FALSE,
                                  !.rounds = @ + 1, !.message = "pending", !.expired = FALSE,
                                  !.interrupt = worker[w].attempt]
            /\ Enqueue(Question(worker[w].rounds + 1))
            /\ WorkerSet(w, Idle)
       ELSE /\ WorkerSet(w, Failed(w, TRUE))
            /\ UNCHANGED <<run, outbox>>
    /\ UNCHANGED <<input, checkpoint, receipt, tasks, key>>

MarkRunWaiting(w) ==
    /\ worker[w].phase = "waiting"
    /\ IF Owns(w) /\ run.rounds < MaxClarificationRounds
       THEN /\ run' = [run EXCEPT !.status = "waiting_user", !.owner = NoWorker, !.lapsed = FALSE,
                                  !.rounds = @ + 1, !.message = "pending", !.expired = FALSE,
                                  !.interrupt = worker[w].attempt]
            /\ Enqueue(Question(worker[w].rounds + 1))
            /\ WorkerSet(w, Idle)
       ELSE /\ WorkerSet(w, Failed(w, ~Owns(w)))
            /\ UNCHANGED <<run, outbox>>
    /\ UNCHANGED <<input, checkpoint, receipt, tasks, key>>

\* FinishRun, and the same clean-up in CancelExpiredClarification.
Finish(status, named) ==
    /\ run' = [run EXCEPT !.status = status, !.owner = NoWorker, !.lapsed = FALSE,
                          !.message = "none", !.expired = FALSE, !.interrupt = 0]
    /\ checkpoint' = 0
    /\ input' = [kept |-> FALSE, pending |-> 0]
    /\ Enqueue(Report(status))
    /\ receipt' = named

\* Mutant: AND status='running' AND lease_owner=$2 is missing.
FinishRunUnowned(w) ==
    /\ worker[w].phase = "succeeded"
    /\ Finish("succeeded", worker[w].said)
    /\ WorkerSet(w, Idle)
    /\ UNCHANGED <<tasks, key>>

RetryRun ==
    /\ run' = [run EXCEPT !.status = "queued", !.owner = NoWorker, !.lapsed = FALSE]
    /\ UNCHANGED <<input, checkpoint, outbox, receipt>>

\* The decision is on the attempt count the Run was claimed with.
RetryOrFail(w, retryable) ==
    IF retryable /\ worker[w].attempt < maxRunAttempts THEN RetryRun ELSE Finish("failed", 0)

\* Renderer.Response takes the response that respond selected, which has its
\* summary or message, and refuses a receipt that has none.
Renderable(w) == worker[w].responded

\* A response that cannot be rendered is an error that is retried.
FinishRun(w) ==
    /\ worker[w].phase = "succeeded"
    /\ IF ~Owns(w) THEN UNCHANGED <<run, input, checkpoint, outbox, receipt>>
       ELSE IF Renderable(w) THEN Finish("succeeded", worker[w].said)
       ELSE RetryOrFail(w, TRUE)
    /\ WorkerSet(w, Idle)
    /\ UNCHANGED <<tasks, key>>

handleRunError(w) ==
    /\ worker[w].phase = "error"
    /\ IF ~Owns(w) THEN UNCHANGED <<run, input, checkpoint, outbox, receipt>>
       ELSE RetryOrFail(w, worker[w].retryable)
    /\ WorkerSet(w, Idle)
    /\ UNCHANGED <<tasks, key>>

(***************************************************************************)
(* The outbox loop, the user, the expiry loop.                             *)
(***************************************************************************)

\* Pending, failed, or claimed under a lease that has lapsed: in the single
\* outbox loop these differ only in when the row is due.
ClaimOutbox(m) == outbox[m] = "pending"

\* The provider shows the message once per key; a failed reply leaves the row
\* to be claimed again.
deliverOutbox(m) ==
    /\ ClaimOutbox(m)
    /\ outbox' = [outbox EXCEPT ![m] = "shown"]
    /\ UNCHANGED <<run, input, checkpoint, worker, receipt, tasks, key>>

\* Mutant: the Run is not told under which id its question was shown.
MarkOutboxDeliveredUnbound(m) ==
    /\ outbox[m] = "shown"
    /\ outbox' = [outbox EXCEPT ![m] = "delivered"]
    /\ UNCHANGED <<run, input, checkpoint, worker, receipt, tasks, key>>

\* MarkOutboxDelivered, which also tells the Run under which message id its
\* question was shown.
MarkOutboxDelivered(m) ==
    /\ outbox[m] = "shown"
    /\ outbox' = [outbox EXCEPT ![m] = "delivered"]
    /\ run' = IF run.status = "waiting_user" /\ m = Question(run.rounds) /\ run.message = "pending"
              THEN [run EXCEPT !.message = "bound"] ELSE run
    /\ UNCHANGED <<input, checkpoint, worker, receipt, tasks, key>>

FindWaitingRunByClarification == run.status = "waiting_user" /\ run.message = "bound"

ResumeWaitingRunWithInput ==
    /\ ~run.expired
    /\ run' = [run EXCEPT !.status = "queued", !.message = "none", !.expired = FALSE]
    /\ input' = [kept |-> input.kept, pending |-> run.rounds]

\* The initiating user replies to the question.  A reply by someone else, to
\* an earlier question, or before the question is bound changes nothing.
tryResume ==
    /\ FindWaitingRunByClarification
    /\ run.attempts < MaxClaims
    /\ ResumeWaitingRunWithInput
    /\ UNCHANGED <<checkpoint, worker, outbox, receipt, tasks, key>>

ClarificationExpires ==
    /\ run.status = "waiting_user" /\ ~run.expired
    /\ run' = [run EXCEPT !.expired = TRUE]
    /\ UNCHANGED <<input, checkpoint, worker, outbox, receipt, tasks, key>>

CancelExpiredClarification ==
    /\ run.status = "waiting_user" /\ run.expired
    /\ Finish("cancelled", 0)

\* The list is read before the transaction, which checks the Run again.
expireClarifications ==
    /\ CancelExpiredClarification
    /\ UNCHANGED <<worker, tasks, key>>

executeRun(w) ==
    \/ LoadInput(w) \/ InvokeFails(w) \/ ToolFails(w) \/ AskUser(w) \/ Respond(w)
    \/ CreateTask(w) \/ AttachTask(w) \/ DrainEvents(w) \/ SaveCheckpoint(w)
    \/ ClearPendingResumeInput(w) \/ MarkRunWaiting(w) \/ FinishRun(w) \/ handleRunError(w)

Next ==
    \/ Accept \/ LeaseLapses \/ KeyExpires
    \/ \E w \in Workers : ClaimRun(w) \/ RenewFails(w) \/ WorkerStops(w) \/ executeRun(w)
    \/ \E m \in Messages : deliverOutbox(m) \/ MarkOutboxDelivered(m)
    \/ tryResume \/ ClarificationExpires \/ expireClarifications

Spec == Init /\ [][Next]_vars

\* The loops of Worker.Run poll for ever, an execution ends by itself or by
\* ExecutionTimeout, leases and questions expire with time, and the provider
\* accepts a reply that is retried often enough.  Nobody has to write or
\* answer a message, and nothing has to fail.
Fairness ==
    /\ WF_vars(\E w \in Workers : ClaimRun(w))
    /\ WF_vars(LeaseLapses) /\ WF_vars(ClarificationExpires) /\ WF_vars(expireClarifications)
    /\ \A w \in Workers :
          /\ WF_vars(LoadInput(w)) /\ WF_vars(DrainEvents(w) \/ ToolFails(w))
          /\ WF_vars(SaveCheckpoint(w)) /\ WF_vars(ClearPendingResumeInput(w))
          /\ WF_vars(MarkRunWaiting(w)) /\ WF_vars(FinishRun(w)) /\ WF_vars(handleRunError(w))
    /\ \A m \in Messages : WF_vars(deliverOutbox(m)) /\ WF_vars(MarkOutboxDelivered(m))

FairSpec == Spec /\ Fairness

(***************************************************************************)
(* Properties.                                                             *)
(***************************************************************************)

\* The chat learns exactly one outcome and it is the one the row records: a
\* terminal message is in the outbox if and only if the Run ended that way,
\* however many workers raced to finish, fail, retry or expire it.
OneOutcomeIsReported ==
    \A s \in Terminal : outbox[Report(s)] # "none" <=> run.status = s

\* A Run that waits can be answered and resumed: the question of its current
\* round is in the outbox, is bound as soon as it is marked delivered, and
\* the command and a checkpoint are still stored.  The latter holds as well
\* while an accepted answer waits for a worker.
WaitingRunCanBeAnswered ==
    /\ run.status = "waiting_user" =>
          /\ run.message = "pending" <=> outbox[Question(run.rounds)] \in {"pending", "shown"}
          /\ run.message = "bound" <=> outbox[Question(run.rounds)] = "delivered"
    /\ run.status = "waiting_user" \/ (run.status # "none" /\ input.pending # 0) =>
          input.kept /\ checkpoint # 0 /\ run.interrupt # 0

\* The success message names the Task recorded on the Run, which the API did
\* create, even when workers created or replayed it at the same time.
ReceiptNamesTheTask == receipt # 0 => receipt = run.task /\ receipt \in 1..tasks

\* A Run never leaves a terminal state, never forgets or exchanges its Task,
\* and counts attempts and rounds upwards (AttachTask, FinishRun, ClaimRun).
RunIsNotRewritten ==
    [][/\ run.status \in Terminal => run' = run
       /\ run.task # 0 => run'.task = run.task
       /\ run'.rounds >= run.rounds
       /\ run'.attempts >= run.attempts]_vars

\* Every Run is answered in the end: whatever fails, whoever stops and
\* whether or not the user replies, an accepted command leads to one of the
\* terminal messages being delivered.
EveryRunIsReported ==
    run.status # "none" ~> \E s \in Terminal : outbox[Report(s)] = "delivered"

\* "A resumed Run survives a process restart": a worker that starts on a Run
\* whose question was answered works with that answer.
ResumedRunSurvivesRestart ==
    \A w \in Workers : worker[w].phase = "working" => worker[w].answer = worker[w].rounds

\* "If a Task mutation is already durably successful but the model omits or
\* malforms the final task_created response, the Harness emits the verified Task
\* receipt itself": the owner of a Run that ended its execution with a Task in
\* hand does not put the Run back into the queue or end it as failed.
VerifiedReceiptIsEmitted ==
    [][\A w \in Workers : worker[w].phase = "succeeded" /\ worker[w].made # 0 /\ Owns(w) =>
          run'.status \in {"running", "succeeded"}]_vars
=============================================================================
