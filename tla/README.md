# Pactline in TLA+

Pactline is a Go HTTP API over PostgreSQL and RabbitMQ in which people and agents
work on Tasks. This directory holds TLA+ models of its stateful parts, TLC
configurations that check them on small instances, and TLAPS proofs of the
properties that matter most. File names and line numbers refer to the repository;
`PROJECT.json` maps every definition that models code to the lines it models.

Contents: [the system](#the-system), [the models](#the-models),
[the runs](#the-runs), [bounds](#bounds), [fairness](#fairness),
[the proofs](#the-proofs), [what is only model-checked](#what-is-only-model-checked),
[findings](#findings), [what is not modelled](#what-is-not-modelled),
[plan](#plan), [how to run it](#how-to-run-it).

## The system

One API process (`docs/operations/deployment.md` documents a single replica) serves
HTTP requests and runs background loops: the outbox relay, the message consumers,
maintenance, attachment cleanup and the agent workers. A replacement process may
overlap the old one. All state is in PostgreSQL; transactions run at READ COMMITTED
and most of them start by locking the row they decide on (`SELECT ... FOR UPDATE`).
What makes the system hard is therefore less the inside of a transaction than what
lies *between* transactions: values a request read earlier, several transactions
that make up one operation, and processes that stop between two of them.

### Inventory

| Part | State | Operations that change it | Interacts with | What is hard |
|---|---|---|---|---|
| Task workflow (`store/task_workflow_store.go`, `task_claim_commands.go`, `task_stage_claim_store.go`, `domain/task_lifecycle.go`) | Task row (version, phase, activity, review cycle, active Issue), stage Claims, Issue Threads, Items | ready, withdraw, claim, release, complete, accept, request changes, block, resolve, cancel, archive, expire | criteria, code changes, Threads, Project access | two rows per command; lapsed Claims noticed by whoever comes next; commands that act on a Claim read before the lock |
| Acceptance criteria and checks | criteria with revision and version, checks with purpose and cycle | create, edit, archive, delete, check | Task version, completion, acceptance | rewording makes checks stale; a check belongs to a cycle |
| Code changes and delivery | links of a Task, observed provider state | link, unlink, refresh | completion, repositories, GitHub/GitLab | collected from the provider *before* the completing transaction |
| Task fields and relations (`store/task_store.go`) | parent, dependencies, schedule, Milestone, Project | create, update, move, archive | Projects, Milestones, workflow | cycles through concurrent edits, schedule shifts of a subtree |
| Idempotency keys (`api/idempotency.go`, `store/idempotency_store.go`) | one record per key | claim, complete, release, expire | every Bearer mutation, agent tools | the record names no owner; crash between effect and completion |
| Event outbox, relay, consumers (`application/outbox_relay.go`, `messaging/`) | outbox rows, broker queues, consumption inbox | enqueue, claim batch, publish, mark, consume, retry, dead-letter | Comments and access decisions write events | leases that lapse during a batch; unknown outcomes; redelivery |
| Agent Runs and tools (`store/agent_store.go`, `agent/runtime`, `agent/tools`, `agent/ingress`) | Run row, input, checkpoint, message outbox, tool ledger | accept, claim, ask, answer, expire, attach Task, finish, retry, deliver | the HTTP API with idempotency keys, the chat provider | overlapping workers, restarts between statements, lost answers |
| Identity, sessions, access (`identity/`, `access/`, `store/identity_store.go`, `store/access_store.go`) | users, invitations and links, authorization states, sessions, impersonation | invite, rotate, revoke, authorize, login, bootstrap, decide, deactivate, impersonate, log out | Lark, event outbox | decisions made on earlier reads; callbacks that arrive twice |
| API tokens and delegation | personal tokens, signed agent credentials | issue, revoke, verify owner | identity, idempotency | a revoked owner with a live token |
| Projects, memberships, Milestones | Project row and version, roles, Milestones | create, edit, archive, reopen, add, remove, change role | every write below a Project | the last administrator; writes racing an archive |
| Threads, messages, Comments | Threads, Items, Comments with versions, mentions | open, reply, edit, delete | workflow (Issues), events | resolved Issue Threads; versioned edits |
| Attachments | upload sessions, attachment rows, stored objects | start, upload, complete, delete, clean up | object store, maintenance | objects without rows and rows without objects |
| Repositories | connections, credentials, bindings | connect, rotate, validate, disable, bind, unbind | code changes, providers | validation results that arrive after a rotation |
| Maintenance (`application/maintenance.go`) | none of its own | delete expired keys, audit rows, Run content | all tables with retention | a sweep racing a live row |
| Rate limit, labels, profiles, audits, conversations, prompts, evaluation, CLI, provider clients, generated code | see [below](#what-is-not-modelled) | | | |

## The models

| Module | Models | Role |
|---|---|---|
| `TaskLifecycle` | `internal/domain` rules of phases, activities and Claims | pure operators, used by `TaskWorkflow` |
| `TaskWorkflow` | the command transactions of one Task and the requests around them | component |
| `StageOwnership` | what a Claim promises: one owner until it lets go, its deadline passes or the Task ends | abstract specification, implemented by `TaskWorkflow` |
| `MCTaskWorkflow` | – | constants of the `TaskWorkflow` runs |
| `Idempotency` | middleware and table of the idempotency keys | component |
| `EventDelivery` | outbox, relay, RabbitMQ topology, both consumers | component |
| `AgentRuns` | one Agent Run: ingress, store, worker loops, tools, message outbox | component |
| `Accounts` | invitations, authorization, login, decisions, sessions, impersonation, token owners | component |
| `TaskRelations`, `MCTaskRelations` | creation and update of Tasks: parents, dependencies, Milestones, lock by lock | component, constants of its run |
| `Projects` | admission, lifecycle, members, Milestones and their criteria of one Project | component |
| `Repositories`, `MCRepositories` | Repository Connections and bindings, composed with `Projects` | component, symmetry of its run |
| `Attachments` | upload sessions, objects, attachment rows, cleanup loop of one Task | component |
| `TaskWorkflowProofs`, `IdempotencyProofs`, `EventDeliveryProofs`, `AgentRunsProofs`, `AccountsProofs`, `TaskRelationsProofs`, `RepositoriesProofs`, `AttachmentsProofs` | – | theorems |

### TaskWorkflow

One Task with its Claims, Issue Threads, criteria, checks, Items and code change links. A
command transaction takes the Task's row lock first, so it is one step. A request is not:
`GetTask` reads the Task (the ETag that becomes If-Match), `ListTaskCriteria` its criteria
in a request of its own, before or after it (the page asks for both at once,
`web/src/components/tasks/TaskDetail.tsx:122`), `PrepareCompletion` collects the code
changes a completion will list, and `ClaimCommandTarget` reads the Claim a command names.
`client[r]` keeps those reads with the principal of the client, which is any actor, and
the transaction may follow any number of other steps later. A refused command, a lost
connection and a crash all leave the tables as they were; `Abandon` stands for the three.
Claims lapse by the clock: `Claim` itself ends a lapsed Claim and takes over, and
`ExpireDueClaim` is the reader that notices one. Texts and rendering are left out.
Dependencies, children and the parent appear as a Boolean input of the commands that ask
about them, since nothing in this module changes them.

### Idempotency

A key stands for user, credential, method, route pattern and key value; a message
is a key, the content that enters the fingerprint, and the target its path names.
`Claim`'s transaction has five outcomes (acquired, reused, in progress, replay,
failed), then the handler runs, then `Complete` or `Release` is called under the
request's own context. `Crash` may come between any two of these, and store calls
may fail. A call that reports an error although it took effect leaves the table as
the successful call does, which is among the behaviours too: an acquired claim whose
request is lost, or a completed one.

### EventDelivery

A row of the outbox is claimed in a batch with a lease, published with a confirm, and
marked. Both marks and confirms can be lost; a lease can lapse while its batch is still
being published, so two relays may work on one row. A copy in the broker is ready,
unacknowledged, or in the retry queue, and counts how often it was rejected. Each process
has one consumer loop per queue. `ConnectionLost` gives a copy back to the queue while the
loop that had it goes on: that loop may still send and record, and only its
acknowledgement has no effect any more. RabbitMQ is external: it is modelled by what
`messaging/rabbitmq.go` declares (durable queues, a retry queue with a TTL, a dead-letter
queue).

### AgentRuns

Every statement of the agent store names its Run by id, so one Run is enough. Its status,
owner, lease, attempts, rounds, question and Task are one record; the input, the
checkpoint and the outbox are separate tables and separate transactions. What the language
model does is arbitrary: in every attempt it may call tools in any order or not at all,
and give a final response or none. The API's idempotency record of `create_task` appears
as `key`, which a day in which nobody works on the Run may end.

### Accounts

One Administrator and some Members. Each transaction locks the row it decides on
and is one step; `req[r]` is what a request has read before. Clock readings become
facts the environment decides (an invitation, an authorization or a session is
over), and so does the answer of Lark, grace windows included.

### TaskRelations

Several Tasks of one Project. A transaction locks its own Task for update and the
parent and dependencies it names for share, one lock at a time, sees what others have
committed, and becomes visible after the deferred triggers have run. Two of them
overlap at every point the locks allow. `AcceptTask` and `CommitAcceptance` are the
acceptance of a Task, which counts its unfinished children and dependencies first and
commits later; every other command of the workflow that closes a Task is one step.

### Projects and Repositories

One Project. A request is admitted on the membership and archive flag it reads
(`RequireProject`), and its transaction comes any number of steps later; there it compares
a version and does not ask again. That version is whatever number the client put into
If-Match (`parseIfMatch`), not necessarily one it has read; `request[r]` keeps it, what
was read, and whether the two agree (`read`). The initial states are a Project with a
past: any roles with an administrator among them (its creator became one), any Milestones
with satisfied criteria or none, archived if no Milestone is open, and no unfinished Task.
`Repositories` extends `Projects`: binding a Connection is a command of the Project, and
both change its version. The provider calls of `Validate` and `Bind` lie between two
steps. `Rotate` is one step because it takes its own credential along and only its version
can be old.

### Attachments

Rows and objects change apart. A completion inspects the object (`InspectUpload`) and
makes the row later (`CompleteUploadSession`); `RunOnce` claims, deletes and marks in
separate steps, each of which may fail, and `AbortRun` may end it anywhere. Content a
client sends when its upload is over or being completed is not looked at again by the
code; the history variable `strayed` sets such sessions apart, and with them the race of
a client that replaces content which is being completed.

## The runs

| Run | Configuration | Shows | States |
|---|---|---|---|
| `commands` | two clients of one principal or of two, a clock, a criterion, a code change | one owner per stage (`WorkingIffOneActiveClaim`), one open Issue (`BlockedByOneOpenIssue`), no work on archived Tasks (`ArchivedIsIdle`), an If-Match that vouches for the Task and for criteria listed after it (`IfMatchMeansUnchanged`), the code under review is the code that was delivered (`ReviewedCodeIsDelivered`) although it was collected before the transaction, and the workflow implements `StageOwnership` (`ImplementsStageOwnership`) | 1 531 733 |
| `review` | one client, one criterion, up to eleven versions | completions list exactly what their cycle delivered (`DeliveryIsComplete`), a Claim works on one cycle (`ClaimWorksOnOneCycle`), a Task is accepted on checks of this cycle's review and of the current wording (`AcceptedAfresh`), finished work is not rewritten (`HistoryIsFinal`) | 4 802 460 |
| `idempotency` | three requests on one key, two contents | one execution of a key at a time (`ExclusiveExecution`), one answer per key (`OneAnswerPerKey`), no mutation made twice (`MutationNotDuplicated`), and no key blocked for good (`ClaimedKeyIsFreed`) | 883 338 |
| `idempotency_targets` | two requests, two targets | **violation** of `ReplayIsOfTheSameTarget`: a replay may answer for another target | |
| `events` | an event of either kind, one relay, two DM consumers | no event is lost (`NoEventLost`), the record of a DM stops its sending but for a consumer that had asked before (`ConsumedOnceSent`), and every event is consumed or dead-lettered in the end (`EveryEventSettles`) | 30 223 |
| `agent_runs` | two workers, two rounds | one outcome is recorded and reported (`OneOutcomeIsReported`), a waiting Run can be answered (`WaitingRunCanBeAnswered`), the receipt names the recorded Task (`ReceiptNamesTheTask`), what is recorded of a Run is not rewritten (`RunIsNotRewritten`), every Run is reported (`EveryRunIsReported`) | 172 606 |
| `agent_answer` | one worker | **violation** of `ResumedRunSurvivesRestart`: a restart loses an accepted answer | |
| `agent_receipt` | one worker | **violation** of `VerifiedReceiptIsEmitted`: a Run that created its Task is retried and fails for want of a final response | |
| `accounts` | a Member, the Administrator, two requests | a closed account has no live session (`InactiveUserHasNoSession`), a link admits once (`LinkAdmitsOnce`), a callback opens one session (`OneSessionPerAuthorization`), approval is final (`ApprovalIsFinal`), only Members are impersonated (`ImpersonatedIsMember`) | 1 204 310 |
| `relations` | three Tasks, two transactions at a time, two changes, at most one dependency before | the hierarchy is sound (`HierarchyIsSound`), no dependency cycle of up to three Tasks (`NoShortDependencyCycle`), an acceptance commits without an unfinished child or dependency (`AcceptanceStands`) | 871 435 |
| `projects` | two users, two requests, a Milestone with a criterion, a Task, a Connection | an administrator remains (`ProjectHasAdmin`), an archived Project gets no open Milestone (`ArchivedIsSettled`) and a command is committed only while it would be admitted (`CommitMatchesAdmission`), both for clients that send a version they have read; bound Connections are active (`BoundConnectionIsActive`), validations are of the stored credential (`ValidationIsOfStoredCredential`) | 3 220 316 |
| `attachments` | two uploads, two completions, room for one attachment | rows and objects stay together (`ContentFollowsRow`), the limit holds (`AttachmentLimit`), deleted content is removed in the end (`DeletedIsCleaned`) | 146 931 |

Every property of a passing run has a mutant in `PROJECT.json`: a variant of one
mapped definition with a plausible mistake (a dropped guard, an update of one row
instead of two, a cycle off by one) under which TLC finds the property violated.
The variants stand next to the definitions they change, and no action uses them.

All configurations but that of `attachments` say `CHECK_DEADLOCK FALSE`, for one of two
reasons: a finished Task, Run or event is a legitimate end, or a bounded table (versions,
invitations, sessions, requests) is used up. Progress is stated by the liveness properties
instead.

## Bounds

All bounds are constants whose comment says so. They limit how long a behaviour is,
never what a step does.

- `MaxVersion` 6 with two clients is enough for ready, claim, completion, a review
  Claim and one more change, or for expiry and takeover, block and resolve, to
  interleave with a request that saw an older version. Links are made by the owner of a
  Claim, so one that comes between the collection of the changes and the completion needs
  two clients of one principal; takeover needs two principals; the initial states have
  both. Three clients (two of one principal, one of another) passed without criteria
  (7 602 989 states) and, up to version 5, with one (7 430 349).
- `review` has one client: its properties are about long sequences of commands.
  `MaxVersion` 11 is enough for two full review cycles: ready, claim, complete, review
  claim, request changes, claim again, complete, review again, accept, with a criterion
  edit in between. What racing clients add to it is covered by the theorems, which hold
  for any number of them.
- `MaxItems` bounds claimed Items; two separate a submission of the first cycle from
  one of the second. `ClaimLifetime` 1 and `MaxTime` 1 let a Claim lapse and be
  taken over.
- Three requests let a key be claimed, crash, expire and be claimed again while a
  third retries. `Retention` 2, `ClaimUntil` 2 and `MaxTime` 5 let a claim made at the last
  moment still run out, which `ClaimedKeyIsFreed` needs.
- One relay, one event (`MaxEvents`, of either kind) and one copy keep the liveness check
  of `events` small; the copy is still handed to the second DM consumer while the first
  works on it. Overlapping relays and any number of copies are covered by the theorems.
  Also passed: two events and one DM consumer, liveness included (140 308 states); the
  safety properties with two events and two DM consumers (2 263 128), and with two relays,
  two copies and two DM consumers of one event (1 040 435). `maxDeliveryTries` keeps the
  code's comparison at a smaller number (the code's is a constant as well), reached within
  the run.
- `MaxClaims` is above `maxRunAttempts`, so the attempt limit is met before the
  bound. The run also passed with `MaxClaims` 4 (1 070 744 states).
- `MaxFlows` 2 and `MaxSessions` 2 let a callback repeat while another login is open.
  The run also passed with `MaxFlows` 3 (about 18 million states).
- Three Tasks are the most `NoShortDependencyCycle` speaks of. Two changes let two
  transactions meet; the relation they both depend on is one of the initial states (no
  Task in work and nothing related, or Tasks in work with at most one dependency). Also
  passed: three changes from Tasks without relations (4 685 026 states), two changes with
  a stored dependency whatever the phase (1 213 822), and three changes from any mix of
  absent, new and started Tasks (7 586 097).
- `MaxVersion` 3 in `projects` is two commits of one Project after its past, which is
  what one request needs to overtake another. An If-Match may name the version read or a
  later one at which something can still be committed; older ones and those beyond the
  bound are refused whatever happens. `MaxConnectionVersion` 2 is one rotation
  under a validation. `Administrators` is empty: platform Administrators only pass
  `RequireProject` more often, and the proofs cover them.
- Room for one attachment and two sessions let both be opened before either is completed.

## Fairness

`TaskWorkflow`, `TaskRelations`, `Repositories` and `Accounts` have safety properties only
and assume no fairness.

- `Idempotency`: weak fairness of the handler, of the store call after it, of the
  clock and of the maintenance loop (`maintenance.go` runs every ten minutes). Nothing
  makes a crashed request go on. The clock does not pass the retention of a request
  that still executes: handlers take seconds and the retention is 24 hours. This
  last assumption is also part of the safety results; without it `Complete` of an
  outlived claim could meet a later one.
- `EventDelivery`: the relay and consumer loops go on (weak), a lease or backoff ends
  (weak), and what is tried again and again without end succeeds some time (strong:
  publishing to a broker that accepts it, and the store calls of each consumer, which
  crashes may interrupt). A ready copy is taken by some consumer, not by each. Nothing is
  assumed of the provider: a card that is always refused ends in the dead-letter queue.
- `AgentRuns`: weak fairness of the polling loops, of each step of a worker (the
  execution timeout ends an execution), of leases and questions running out, and of
  message delivery. Crashes are limited by `MaxClaims`. Users need never answer.
- `Attachments`: `Run` calls `RunOnce` every minute, and five minutes after an attempt a row
  is due again (weak). A deletion and its mark may fail, and a run may stop, any number
  of times, but not for ever at the same place (strong). Nothing is assumed of clients.

## The proofs

Proved with TLAPS for all values of the constants that satisfy the named `ASSUME`s. Every
safety property that a passing run checks is also a theorem. Each inductive
invariant named below was also checked by TLC on the instance of its component's run.

**TaskWorkflowProofs** (assumes `ConstantsAssumption`: no actor is the "nobody" value, the
lifetime is positive, the bounds are numbers).

- `TypeCorrect`: `Spec => []TypeOK`, which is inductive as it stands.
- `WorkflowSafety`: `WorkingIffOneActiveClaim`, `BlockedByOneOpenIssue` and
  `ArchivedIsIdle`. The inductive invariant `WorkflowInv` is their conjunction with the
  types. A command that ends a Claim needs the first to know that no other Claim
  is left active, and blocking and resolving need the second to know which Threads
  are open; the lock makes each of them see both rows together.
- `IfMatchIsSound`: `IfMatchMeansUnchanged`. It says nothing of a request whose version
  is out of date, and such a request could become current again if versions went
  back. `SeenIsPast` adds that what a request saw is never newer than the Task; the
  lemma `ChangesAreCounted` says every change of the row, the criteria or the links
  counts a version. Criteria that were listed before the ETag are not covered, by the
  property or by the code.
- `OwnershipRefinement`: `Spec => Ownership!OwnershipSpec`. Each step maps to an
  acquisition, an ending, a closing, a tick or a stutter; `WorkflowInv` makes the mapping
  (the one active Claim) well defined.
- `IssuesBlock` and `ArchivedTasksAreIdle`: the two conjuncts on their own.
- `HistoryTheorem`: `HistoryIsFinal`. The steps are sorted by what they do to the Task row
  (`StepKinds`): most leave what was delivered alone, `CompleteExecution` counts a cycle,
  and three record something.
- `ClaimsWorkOnOneCycle`, `DeliveriesAreComplete`, `ReviewSeesWhatWasDelivered` and
  `AcceptanceIsFresh`: from `DeliveryInv`, on top of `WorkflowInv`. A completion lists what
  is attributed to the cycle it closes, so later records must not be attributed to it:
  `ActiveWork` says that the active Claim records for the cycle it works on, and
  `Attributed` that nothing names a Claim or a cycle that is still to come.
  `ReviewsFollowDelivery` says that an acceptance check judges a delivery older than its
  Claim, which is what makes the checks `Accept` counts fresh. `DeliveryInv` was
  checked on both instances (4 802 460 and 1 531 733 states).

**IdempotencyProofs** (assumes `IdempotencyConstants`). `IdempotencyTypes`, and
`ExecutionIsExclusive`, `AnswersAgree`, `MutationsAreNotDuplicated` from `IdempotencyInv`
(883 338 states).
The table does not say whose claim a processing record is, and `Complete` and `Release`
act on whatever record they find. The invariant supplies the missing link: while a
request executes, and after it settled until its retention is over, the record of
its key is the one that request inserted (`OwnClaim`, `Retained`), so executions of one
key are apart (`Apart`).

**EventDeliveryProofs** (assumes `DeliveryConstants`). `DeliveryTypes`, `EventsAreNotLost`
and `ConsumptionIsSound` from `DeliveryInv` (30 223 states). A relay marks a row published
some time after the confirm, when the copy may long have been consumed; `RelayOK` says
that an event a relay holds a confirm for is in a queue or settled. A consumer settles the
copy it holds: `HoldersDiffer` says that no other consumer holds the same one, and
`ConsumerOK` that what a consumer is about to record has been sent. A consumer that asked
`WasConsumed` before another recorded may still send (`messaging/rabbitmq.go:264`,
`:298`); `SingleConsumerSendsOnce` shows that with one DM consumer, the documented single
replica (`docs/operations/deployment.md:25`) without overlap, nothing sends after the
record (`NobodyAsks`).

**AgentRunsProofs** (assumes `AgentConstants`: "nobody" is no worker, the bounds are
numbers, a Run may be claimed as often as it may be attempted). `TypesHold`,
`OutcomesAreReportedOnce`, `WaitingStaysAnswerable`, `ReceiptsNameTheTask` and
`RunsAreNotRewritten` from `Inv` (172 606 states). A worker whose lease lapsed goes on
until it notices, so it must be known what of its memory is still true: `WorkerSound` says
that the Tasks it holds are the Run's whoever owns the Run, that its count of rounds is
the Run's while it owns it, and that a worker which is about to wait has left a checkpoint
or the Run has ended. `InputIsKept` and `QuestionsInOrder` say that a Run that is not over
has its command, and that no question of a later round was ever written, so the unique key
of a message never hides a new question.

**AccountsProofs** (assumes `AccountConstants`: the Administrator is no Member, "nobody"
is neither, the bounds are numbers). `TypesHold`, `ClosedAccountsHaveNoSession`,
`LinksAdmitOnce`, `OneSessionPerTrip`, `OnlyMembersAreViewed` and `ApprovalStaysFinal`
from `Inv` (1 204 310 states). A request acts on what it read before: `OwnGrounds` says
what of that lasts (the authorization it spent has opened no session, the session it was
served under is in the table, the Member it views is approved), and `OneReturn` that no
two callbacks come back with one authorization. `SessionsHaveOrigin` ties each session to
a spent authorization, `AcceptedIsBound` each accepted invitation to an account.

**TaskRelationsProofs** (assumes `NoTaskAssumption`: "no Task" is none of the Tasks).
`HierarchyStaysSound`, `NoShortCycleIsEverClosed` and `AcceptancesStand` from `Inv` (871
435 states). A transaction locks rows one after the other and tests what it is going to
write before it has all of them. `Locks` says that exclusive locks exclude, `Prepared` and
`ChecksHold` that a test stays true for the rows that are locked: a dependency that was
found unreachable stays at least three steps away, a parent keeps its place, and a Task
without children gets none. That is where the bound of three comes from; a longer path
runs through rows nobody has locked. `AcceptanceHolds` says that what an acceptance
counted stays closed: a Task is given a child or a dependency only under its lock, which
the acceptance has, and closed Tasks stay closed.

**RepositoriesProofs** (assumes `ItemAssumption`: ids of criteria and Connections differ,
and `BoundAssumption`). `ProjectsKeepAnAdmin`, `ArchivesStaySettled`, `BindingsAreSafe`,
`ValidationIsCurrent` and `AdmissionsStayGood` from `Inv` (3 220 316 states). No
transaction asks again for what its admission read, so the properties need to know that it
is still true: `RequestsHold` says that a request which sent the version it had read, and
finds it current, belongs to a user who still has the right, and a write to a Project that
is not archived, because roles and archive flag change only with the version. Nothing is
known of a request that sent a version still to come. `ChecksHold` says the same of a
validation and the credential it took along. The steps are first sorted by what they
change (`StepKinds`), then each conjunct is shown once per kind.

**AttachmentsProofs** (assumes `AttachmentConstants`: "no session" is none, the limit is a
number). `ContentStaysWithRow` and `LimitIsKept` from `Inv` (146 931 states). Rows and
objects change in different places: `InspectionsHold` says that what a completion found is
still there while its session is pending, and that refused content is of a session that no
completion made into an attachment, so deleting it hurts none; `CleanupHolds` says that
the loop holds only rows that are over, and that the object it deleted is gone. The limit
rests on the count taken again under the Task's lock.

## What is only model-checked

- Liveness (`ClaimedKeyIsFreed`, `EveryEventSettles`, `EveryRunIsReported`,
  `DeletedIsCleaned`): fairness and `ENABLED` are out of the prover's reach.
- The three findings, which are counterexamples.

No module uses recursion, so nothing depends on induction over data.

## Findings

1. **A key is replayed across resources** (`idempotency_targets`). The fingerprint covers
   the route *pattern*, query, media type and body (`internal/api/idempotency.go:201`), not
   the path's parameter values. The same key and body sent to another Task are taken
   for a repetition, answered with the first Task's response, and not carried out.
   `docs/operations/agent-api.md:153` promises a replay for the same request only.
2. **An accepted answer is lost in a restart** (`agent_answer`). `invoke` deletes the stored
   answer (`internal/agent/runtime/worker.go:406`) in a statement of its own before the
   outcome is stored. A process that stops in between leaves a Run that starts again
   from the original command, against "A resumed Run survives a process restart"
   (`docs/superpowers/specs/2026-07-30-first-party-agent-harness.md:591`).
3. **A Task's receipt is refused** (`agent_receipt`). When the model omits or malforms its
   final response after `create_task`, `invoke` builds a `task_created` response from the
   recorded Task (`internal/agent/runtime/worker.go:393`, `:424`; "using verified
   receipt"), without a summary. The renderer refuses a `task_created` response that has
   none (`internal/agent/reply/render.go:30`), and `executeRun` treats that as an error of
   the Run (`worker.go:245`): the Run is retried and, when its attempts are used up, fails
   although its Task exists. The same document, lines 370-373, says that "the Harness
   emits the verified Task receipt itself".

### Other disagreements with the docs

No configuration here states these; each was met while modelling.

- `docs/product-model.md:105` says "Dependencies are directed, cycle-free". A cycle of
  four Tasks is possible: with B on C and D on A stored, updates that add A on B and C on
  D lock no Task in common, and neither sees the other's edge, in
  `validateDependencyAssignments` or in the deferred trigger. TLC finds it in
  `TaskRelations` from a state with those two dependencies, with two requests and two
  changes. `NoShortDependencyCycle` is what the locks do guarantee.
- `docs/product-model.md:107-108` says "An unfinished dependency does not prevent work from
  starting"; `MarkReady` (`internal/domain/task_lifecycle.go:123`) refuses such a Task, and
  work starts with the Claim of a ready Task.
- `internal/store/task_store.go:1154-1158` says "a completed parent cannot receive an
  unfinished child", but it tests the status of the older mechanism, which the workflow
  never changes: a parent that is done can receive one. `docs/product-model.md:103`, "A
  parent cannot complete while a child remains unfinished", does hold
  (`AcceptanceStands`).
- `docs/superpowers/specs/2026-07-30-first-party-agent-harness.md:593-594` excludes
  duplicate Tasks. `create_task` (`internal/agent/tools/tools.go:778`) calls the API
  before it looks at the Run, so once an answer is lost the idempotency key is the only
  guard, and the API keeps it for a day.
- `docs/product-model.md:278-280` keeps If-Match explicit "because the server cannot infer
  which Task definition version the caller evaluated". The page asks for the Task and its
  criteria at the same time; criteria that are answered first may be older than the ETag,
  and a decision made on them goes through.
- `docs/product-model.md:31-32` says "Archived Projects remain readable but reject ordinary
  writes." They are refused at admission only: commands on Tasks and criteria compare
  other versions than the Project's, so one admitted earlier may commit after the
  Project was archived (or after its user was removed). `WriteTask` and `ChangeCriterion`
  of `Projects` have these steps.

### Limits of what holds

- `ProjectHasAdmin` speaks of the role. Deactivating an account looks at no Project, so
  the administrator that remains may be one whose account is closed.
- `ArchivedIsSettled` and `CommitMatchesAdmission` speak of clients that send a version
  they have read. The code accepts any integer as If-Match and compares it in the
  transaction only.
- `ConsumedOnceSent` lets a DM be sent twice by consumers of overlapping processes that both
  asked before either recorded.
- The workers of `AgentRuns` are those of one process, each with a lease owner name of its
  own. Workers of overlapping processes share their names (`cmd/server/main.go:426`), so one
  whose lease lapsed may take its namesake's lease for its own; nothing here is about them.
- `WaitingRunCanBeAnswered` shows that a waiting Run has a checkpoint, not that it is the
  one of its question: `SaveCheckpoint` names no owner.
- `DeletedIsCleaned` is about rows of the configured storage provider. Rows of a former one
  stay due, and the oldest fifty of a run come first.
- A reopened Milestone may be active without a criterion.
- The object of an expired upload session has one attempt at deletion, and none when
  the completion itself marks the session as expired.
- A rejected delivery counts as a try even if only the database was unavailable, and
  an impersonation started during a logout stays open in the audit trail without effect.

## What is not modelled

- Schedules and their shifts, Threads other than Issues, Comments: dates and texts that no
  guard of the workflow reads. A new Comment also counts a Task version and writes events;
  `EventDelivery` takes those from anywhere. A message edit looks at an Issue Thread
  without locking it; no later step depends on the message.
- The refresh of a code change: the answer that arrives last is stored, and a completion
  whose own refresh fails copies the last confirmed fields under the status of the failure.
- Objects of a storage provider that is no longer configured; repositories that are
  renamed or replaced at their provider.
- Provider grace windows and credential refresh: the environment's choice in `Accounts`.
- Rate limit: a token bucket behind a mutex, on real time.
- Labels, profiles, agent conversations: single-statement reads and writes of rows
  nothing else depends on. Audits: rows that decide nothing.
- Provider clients: answers chosen by the environment where they are used.
- Prompts, artifacts, evaluation: text for and from a language model.
- The command line client (a sequential user of the API), generated code, the
  preserved bounty mechanism and `task_claim_store.go`, which nothing constructs.

About 158 000 of the roughly 206 000 lines of Go are generated decoders, encoders and
routing; `PROJECT.json` maps about 10 000 of the other 48 700.

## Plan

Next modules: Threads and Comments with the events they write (composed with
`EventDelivery` through its `insertEvent`); the refresh of code changes with answers out of
order; a timed revalidation of sessions and tokens against the provider.

Next theorems: the types of `TaskRelations`, `Repositories` and `Attachments`, which are
part of their inductive invariants and could be stated on their own; what the deferred
triggers of `TaskRelations` add to the locks.

## How to run it

    tlc -workers 2 -config MCTaskWorkflow_commands.cfg MCTaskWorkflow
    tlc -workers 2 -config Accounts_entry.cfg Accounts
    tlapm TaskWorkflowProofs.tla

Each run takes a few minutes at most. From nothing a proof module takes one to four
minutes and `TaskWorkflowProofs` about eight. tlapm slows down with the number of
obligations it has handled; leaves that name `Zenon` or `SMTT(30)` do so because the
default order of the provers would waste or exceed their time there.
