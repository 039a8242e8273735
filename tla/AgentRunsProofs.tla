-------------------------- MODULE AgentRunsProofs --------------------------
(***************************************************************************)
(* Proofs of the safety properties of AgentRuns, for any number of workers *)
(* and any bounds.                                                         *)
(*                                                                         *)
(* A worker that has lost its lease goes on with what it holds in memory   *)
(* until it notices.  WorkerSound says what of that is still true of the   *)
(* Run whoever owns it now, and what only while the worker owns it.        *)
(***************************************************************************)
EXTENDS AgentRuns, TLAPS

\* What worker w holds in memory is true of the Run.
WorkerSound(w) ==
    /\ worker[w].phase # "idle" => worker[w].attempt # 0
    /\ worker[w].phase # "idle" /\ Owns(w) => worker[w].rounds = run.rounds
    /\ worker[w].phase = "waiting" \/ (worker[w].phase = "saved" /\ worker[w].asked)
          => checkpoint # 0 \/ run.status \in Terminal
    /\ worker[w].made # 0 => worker[w].made = run.task
    /\ worker[w].said # 0 => worker[w].said = run.task
    /\ worker[w].got <= tasks

\* The command is stored until the Run ends.
InputIsKept == run.status \in {"queued", "running", "waiting_user"} => input.kept

\* Questions of later rounds have not been asked, and a Run that waits has asked one.
QuestionsInOrder ==
    /\ \A n \in Rounds : n > run.rounds => outbox[Question(n)] = "none"
    /\ run.status = "waiting_user" => run.rounds \in Rounds

\* Every Task that is named was created.
TasksAreMade == run.task <= tasks /\ key <= tasks

\* The inductive invariant.
Inv ==
    /\ TypeOK /\ InputIsKept /\ QuestionsInOrder /\ TasksAreMade
    /\ \A w \in Workers : WorkerSound(w)
    /\ OneOutcomeIsReported /\ WaitingRunCanBeAnswered /\ ReceiptNamesTheTask

-----------------------------------------------------------------------------
(* Rows and keys. *)

RunRows ==
    [status : {"none", "queued", "running", "waiting_user"} \cup Terminal,
     owner : Workers \cup {NoWorker}, lapsed : BOOLEAN,
     attempts : 0..MaxClaims, rounds : 0..MaxClarificationRounds,
     message : {"none", "pending", "bound"}, expired : BOOLEAN,
     interrupt : 0..MaxClaims, task : 0..MaxTasks]

WorkerRows ==
    [phase : Phases, attempt : 0..MaxClaims, rounds : 0..MaxClarificationRounds,
     answer : 0..MaxClarificationRounds, asked : BOOLEAN, got : 0..MaxTasks, made : 0..MaxTasks,
     responded : BOOLEAN, said : 0..MaxTasks, retryable : BOOLEAN]

Places == {"none", "pending", "shown", "delivered"}

\* The variables, as TypeOK gives them.
LEMMA Shapes ==
    ASSUME TypeOK
    PROVE  /\ run \in RunRows /\ worker \in [Workers -> WorkerRows]
           /\ \A w \in Workers : worker[w] \in WorkerRows
           /\ input \in [kept : BOOLEAN, pending : 0..MaxClarificationRounds]
           /\ checkpoint \in 0..MaxClaims /\ outbox \in [Messages -> Places]
           /\ receipt \in 0..MaxTasks /\ tasks \in 0..MaxTasks /\ key \in 0..MaxTasks
  BY DEF TypeOK, RunRows, WorkerRows, Places

\* TypeOK, from the same facts.
LEMMA Shaped ==
    ASSUME run \in RunRows, worker \in [Workers -> WorkerRows],
           input \in [kept : BOOLEAN, pending : 0..MaxClarificationRounds],
           checkpoint \in 0..MaxClaims, outbox \in [Messages -> Places],
           receipt \in 0..MaxTasks, tasks \in 0..MaxTasks, key \in 0..MaxTasks
    PROVE  TypeOK
  BY DEF TypeOK, RunRows, WorkerRows, Places

\* Deduplication keys of different messages differ.
LEMMA Keys ==
    /\ \A s \in Terminal : Report(s) \in Messages
    /\ \A n \in Rounds : Question(n) \in Messages
    /\ \A s \in Terminal : \A n : Report(s) # Question(n)
    /\ \A s, t : Report(s) = Report(t) => s = t
    /\ \A m, n : Question(m) = Question(n) => m = n
  BY DEF Report, Question, Messages, Terminal

\* A worker without a Run holds nothing.
LEMMA IdleRow ==
    /\ Idle \in WorkerRows /\ Idle.phase = "idle" /\ Idle.made = 0 /\ Idle.said = 0 /\ Idle.got = 0
  BY AgentConstants DEF Idle, WorkerRows, Phases

\* A step that changes the memory of one worker alone.
LEMMA OneWorker ==
    ASSUME Inv, NEW w \in Workers, NEW new \in WorkerRows, worker' = [worker EXCEPT ![w] = new],
           UNCHANGED <<run, input, checkpoint, outbox, receipt, tasks, key>>,
           WorkerSound(w)'
    PROVE  Inv'
  <1>1. worker' \in [Workers -> WorkerRows] /\ \A v \in Workers \ {w} : worker'[v] = worker[v]
    BY Shapes DEF Inv
  <1>2. TypeOK'
    BY <1>1, Shapes DEF Inv, TypeOK, WorkerRows
  <1>3. /\ InputIsKept' /\ QuestionsInOrder' /\ TasksAreMade'
        /\ OneOutcomeIsReported' /\ WaitingRunCanBeAnswered' /\ ReceiptNamesTheTask'
    BY DEF Inv, InputIsKept, QuestionsInOrder, TasksAreMade, OneOutcomeIsReported,
           WaitingRunCanBeAnswered, ReceiptNamesTheTask
  <1>4. ASSUME NEW v \in Workers \ {w} PROVE WorkerSound(v)'
    BY <1>1 DEF Inv, WorkerSound, Owns
  <1> QED
    BY <1>2, <1>3, <1>4 DEF Inv

\* The worker goes on with its Run, names no Task but that of the Run, and has not yet
\* saved the checkpoint of a question it asked.
LEMMA GoesOn ==
    ASSUME Inv, NEW w \in Workers, NEW new \in WorkerRows, worker' = [worker EXCEPT ![w] = new],
           UNCHANGED <<run, input, checkpoint, outbox, receipt, tasks, key>>,
           worker[w].phase # "idle", new.attempt = worker[w].attempt, new.rounds = worker[w].rounds,
           new.made = worker[w].made, new.got = worker[w].got,
           new.said # 0 => new.said = run.task,
           new.phase = "waiting" \/ (new.phase = "saved" /\ new.asked)
              => worker[w].phase = "saved" /\ worker[w].asked
    PROVE  Inv'
  <1>1. worker'[w] = new /\ WorkerSound(w)
    BY Shapes DEF Inv
  <1>2. WorkerSound(w)'
    BY <1>1 DEF WorkerSound, Owns
  <1> QED
    BY <1>2, OneWorker, Zenon

\* A worker that stops.
LEMMA StopStep ==
    ASSUME Inv, NEW w \in Workers, WorkerStops(w)
    PROVE  Inv'
  <1>1. worker' = [worker EXCEPT ![w] = Idle]
    BY DEF WorkerStops, WorkerSet
  <1>2. worker'[w] = Idle
    BY <1>1, Shapes DEF Inv
  <1>3. WorkerSound(w)'
    BY <1>2, IdleRow, Shapes DEF WorkerSound, Inv, WorkerStops
  <1> QED
    BY <1>1, <1>3, IdleRow, OneWorker, Zenon DEF WorkerStops

\* A worker that gives up keeps what it knows.
LEMMA FailStep ==
    ASSUME Inv, NEW w \in Workers, NEW flag \in BOOLEAN, WorkerSet(w, Failed(w, flag)),
           worker[w].phase # "idle",
           UNCHANGED <<run, input, checkpoint, outbox, receipt, tasks, key>>
    PROVE  Inv'
  <1> DEFINE new == [worker[w] EXCEPT !.phase = "error", !.retryable = flag]
  <1>1. worker[w] \in WorkerRows /\ WorkerSound(w) /\ 0 \in 0..MaxTasks
    BY Shapes, AgentConstants DEF Inv
  <1>2. /\ new \in WorkerRows /\ new.phase = "error" /\ new.attempt = worker[w].attempt
        /\ new.rounds = worker[w].rounds /\ new.made = worker[w].made /\ new.got = worker[w].got
        /\ new.said = worker[w].said
    <2>1. "error" \in Phases
      BY DEF Phases
    <2> QED
      BY <1>1, <2>1, Zenon DEF WorkerRows
  <1>3. worker' = [worker EXCEPT ![w] = new]
    BY DEF WorkerSet, Failed
  <1> HIDE DEF new
  <1> QED
    BY <1>1, <1>2, <1>3, GoesOn, Zenon DEF WorkerSound

\* A worker that makes up the receipt of its Task forgets the response it selected.
LEMMA MadeUpStep ==
    ASSUME Inv, NEW w \in Workers, worker[w].phase # "idle",
           WorkerSet(w, MadeUpReceipt(w)),
           UNCHANGED <<run, input, checkpoint, outbox, receipt, tasks, key>>
    PROVE  Inv'
  <1> DEFINE new == [worker[w] EXCEPT !.phase = "succeeded", !.responded = FALSE]
  <1>1. worker[w] \in WorkerRows /\ WorkerSound(w) /\ worker[w].made \in 0..MaxTasks
    BY Shapes DEF Inv, WorkerRows
  <1>2. /\ new \in WorkerRows /\ new.phase = "succeeded" /\ new.attempt = worker[w].attempt
        /\ new.rounds = worker[w].rounds /\ new.made = worker[w].made /\ new.got = worker[w].got
        /\ new.said = worker[w].said
    <2>1. "succeeded" \in Phases
      BY DEF Phases
    <2> QED
      BY <1>1, <2>1, Zenon DEF WorkerRows
  <1>3. worker' = [worker EXCEPT ![w] = new]
    BY DEF WorkerSet, MadeUpReceipt
  <1> HIDE DEF new
  <1> QED
    BY <1>1, <1>2, <1>3, GoesOn, Zenon DEF WorkerSound

\* A worker that moves to its next phase, but not on to a question it has not saved.
LEMMA MoveStep ==
    ASSUME Inv, NEW w \in Workers, NEW phase \in Phases, worker[w].phase # "idle",
           phase = "waiting" \/ (phase = "saved" /\ worker[w].asked)
              => worker[w].phase = "saved" /\ worker[w].asked,
           WorkerSet(w, At(w, phase)),
           UNCHANGED <<run, input, checkpoint, outbox, receipt, tasks, key>>
    PROVE  Inv'
  <1> DEFINE new == [worker[w] EXCEPT !.phase = phase]
  <1>1. worker[w] \in WorkerRows /\ WorkerSound(w) /\ 0 \in 0..MaxTasks
    BY Shapes, AgentConstants DEF Inv
  <1>2. /\ new \in WorkerRows /\ new.phase = phase /\ new.attempt = worker[w].attempt
        /\ new.rounds = worker[w].rounds /\ new.made = worker[w].made /\ new.got = worker[w].got
        /\ new.said = worker[w].said /\ new.asked = worker[w].asked
    BY <1>1 DEF WorkerRows
  <1>3. worker' = [worker EXCEPT ![w] = new]
    BY DEF WorkerSet, At
  <1> HIDE DEF new
  <1> QED
    BY <1>1, <1>2, <1>3, GoesOn, Zenon DEF WorkerSound

\* LoadInput, AskUser and Respond note something and go on.
LEMMA NoteStep ==
    ASSUME Inv, NEW w \in Workers, LoadInput(w) \/ AskUser(w) \/ Respond(w)
    PROVE  Inv'
  <1>0. worker[w] \in WorkerRows /\ WorkerSound(w)
    BY Shapes DEF Inv
  <1>1. CASE LoadInput(w)
    <2>1. worker[w].phase # "idle" /\ UNCHANGED <<run, input, checkpoint, outbox, receipt, tasks, key>>
      BY <1>1 DEF LoadInput
    <2>2. CASE WorkerSet(w, Failed(w, TRUE))
      BY <2>1, <2>2, FailStep, Zenon
    <2>3. CASE WorkerSet(w, [worker[w] EXCEPT !.phase = "working", !.answer = input.pending])
      <3> DEFINE new == [worker[w] EXCEPT !.phase = "working", !.answer = input.pending]
      <3>1. input.pending \in 0..MaxClarificationRounds /\ "working" \in Phases
        BY Shapes DEF Inv, Phases
      <3>2. /\ new \in WorkerRows /\ new.phase = "working" /\ new.attempt = worker[w].attempt
            /\ new.rounds = worker[w].rounds /\ new.made = worker[w].made
            /\ new.got = worker[w].got /\ new.said = worker[w].said
        BY <1>0, <3>1, Zenon DEF WorkerRows
      <3>3. worker' = [worker EXCEPT ![w] = new]
        BY <2>3 DEF WorkerSet
      <3> HIDE DEF new
      <3> QED
        BY <1>0, <2>1, <3>2, <3>3, GoesOn, Zenon DEF WorkerSound
    <2> QED
      BY <1>1, <2>2, <2>3, Zenon DEF LoadInput
  <1>2. CASE AskUser(w)
    <2> DEFINE new == [worker[w] EXCEPT !.asked = TRUE]
    <2>1. /\ new \in WorkerRows /\ new.phase = worker[w].phase /\ new.attempt = worker[w].attempt
          /\ new.rounds = worker[w].rounds /\ new.made = worker[w].made
          /\ new.got = worker[w].got /\ new.said = worker[w].said
      BY <1>0, Zenon DEF WorkerRows
    <2>2. worker' = [worker EXCEPT ![w] = new]
      BY <1>2 DEF AskUser, WorkerSet
    <2>3. /\ worker[w].phase \in {"working", "attaching"}
          /\ UNCHANGED <<run, input, checkpoint, outbox, receipt, tasks, key>>
      BY <1>2 DEF AskUser
    <2> HIDE DEF new
    <2> QED
      BY <1>0, <2>1, <2>2, <2>3, GoesOn, Zenon DEF WorkerSound
  <1>3. CASE Respond(w)
    <2>1. PICK named \in 0..MaxTasks :
            /\ compatibleEvidence(named)
            /\ WorkerSet(w, [worker[w] EXCEPT !.responded = TRUE, !.said = named])
      BY <1>3, Zenon DEF Respond
    <2> DEFINE new == [worker[w] EXCEPT !.responded = TRUE, !.said = named]
    <2>2. /\ new \in WorkerRows /\ new.phase = worker[w].phase /\ new.attempt = worker[w].attempt
          /\ new.rounds = worker[w].rounds /\ new.made = worker[w].made
          /\ new.got = worker[w].got /\ new.said = named
      BY <1>0, Zenon DEF WorkerRows
    <2>3. worker' = [worker EXCEPT ![w] = new]
      BY <2>1 DEF WorkerSet
    <2>4. /\ worker[w].phase \in {"working", "attaching"}
          /\ UNCHANGED <<run, input, checkpoint, outbox, receipt, tasks, key>>
      BY <1>3, Zenon DEF Respond
    <2> HIDE DEF new
    <2> QED
      BY <2>1, <2>2, <2>3, <2>4, GoesOn, Zenon DEF compatibleEvidence
  <1> QED
    BY <1>1, <1>2, <1>3

\* The other steps of a worker that touch its memory alone.
LEMMA LocalStep ==
    ASSUME Inv, NEW w \in Workers,
           RenewFails(w) \/ ToolFails(w) \/ InvokeFails(w) \/ DrainEvents(w)
    PROVE  Inv'
  <1>1. CASE RenewFails(w)
    BY <1>1, FailStep, Zenon DEF RenewFails, Invoking
  <1>2. CASE ToolFails(w)
    BY <1>2, FailStep, MadeUpStep, Zenon DEF ToolFails
  <1>3. CASE InvokeFails(w)
    BY <1>3, FailStep, Zenon DEF InvokeFails
  <1>4. CASE DrainEvents(w)
    <2>1. worker[w].phase = "working" /\ UNCHANGED <<run, input, checkpoint, outbox, receipt, tasks, key>>
      BY <1>4 DEF DrainEvents
    <2>2. "saving" \in Phases /\ "saved" \in Phases
      BY DEF Phases
    <2>3. CASE worker[w].asked
      <3>1. WorkerSet(w, At(w, "saving"))
        BY <1>4, <2>3 DEF DrainEvents
      <3> QED
        BY <2>1, <2>2, <3>1, MoveStep
    <2>4. CASE ~worker[w].asked
      <3>1. WorkerSet(w, At(w, "saved"))
        BY <1>4, <2>4 DEF DrainEvents
      <3> QED
        BY <2>1, <2>2, <2>4, <3>1, MoveStep
    <2> QED
      BY <2>3, <2>4
  <1> QED
    BY <1>1, <1>2, <1>3, <1>4

-----------------------------------------------------------------------------
(* The steps that change rows. *)

\* What a worker knows stays true while nobody else becomes the owner in its place, the
\* checkpoint is dropped only when the Run ends, and the Task of the Run is not exchanged.
LEMMA MemoryHolds ==
    ASSUME Inv, NEW v \in Workers, worker'[v] = worker[v],
           Owns(v)' => Owns(v) /\ run'.rounds = run.rounds,
           checkpoint # 0 \/ run.status \in Terminal => checkpoint' # 0 \/ run'.status \in Terminal,
           run.task # 0 => run'.task = run.task,
           tasks <= tasks', tasks' \in Nat
    PROVE  WorkerSound(v)'
  <1>1. WorkerSound(v) /\ worker[v].got \in Nat /\ tasks \in Nat
    BY Shapes, AgentConstants DEF Inv, WorkerRows
  <1>2. (worker[v].got <= tasks)'
    BY <1>1 DEF WorkerSound
  <1>3. /\ worker'[v].made # 0 => worker'[v].made = run'.task
        /\ worker'[v].said # 0 => worker'[v].said = run'.task
    BY <1>1 DEF WorkerSound
  <1> QED
    BY <1>1, <1>2, <1>3 DEF WorkerSound

\* An idle worker knows nothing that could be wrong.
LEMMA IdleSound ==
    ASSUME NEW v \in Workers, worker'[v] = Idle, tasks' \in Nat
    PROVE  WorkerSound(v)'
  BY IdleRow DEF WorkerSound

\* A Run that ends is reported once, with the Task it has recorded.
LEMMA FinishStep ==
    ASSUME Inv, NEW status \in Terminal, run.status \in {"running", "waiting_user"},
           NEW named \in 0..MaxTasks, named # 0 => named = run.task, Finish(status, named),
           UNCHANGED <<tasks, key>>, worker' \in [Workers -> WorkerRows],
           \A v \in Workers : worker'[v] = worker[v] \/ worker'[v] = Idle
    PROVE  Inv'
  <1>0. /\ run \in RunRows /\ outbox \in [Messages -> Places] /\ tasks \in Nat
        /\ 0 \in 0..MaxClaims /\ 0 \in 0..MaxClarificationRounds
    BY Shapes, AgentConstants DEF Inv
  <1>1. /\ run' \in RunRows /\ run'.status = status /\ run'.rounds = run.rounds
        /\ run'.task = run.task
    BY <1>0, Zenon DEF Finish, RunRows
  <1>2. /\ checkpoint' = 0 /\ input' = [kept |-> FALSE, pending |-> 0] /\ receipt' = named
        /\ outbox' = [outbox EXCEPT ![Report(status)] = IF @ = "none" THEN "pending" ELSE @]
    BY DEF Finish, Enqueue
  <1>3. \A s \in Terminal : outbox[Report(s)] = "none"
    BY DEF Inv, OneOutcomeIsReported, Terminal
  <1>4. /\ outbox' \in [Messages -> Places] /\ outbox'[Report(status)] = "pending"
        /\ \A m \in Messages : m # Report(status) => outbox'[m] = outbox[m]
    BY <1>0, <1>2, <1>3, Keys, Zenon DEF Places
  <1>5. TypeOK'
    <2>1. input' \in [kept : BOOLEAN, pending : 0..MaxClarificationRounds]
      BY <1>0, <1>2
    <2> QED
      BY <1>0, <1>1, <1>2, <1>4, <2>1, Shapes, Shaped DEF Inv, TypeOK, RunRows, WorkerRows, Places
  <1>6. InputIsKept' /\ TasksAreMade'
    BY <1>1 DEF Inv, InputIsKept, TasksAreMade, Terminal
  <1>7. QuestionsInOrder'
    BY <1>1, <1>4, Keys DEF Inv, QuestionsInOrder, Terminal
  <1>8. OneOutcomeIsReported'
    BY <1>1, <1>3, <1>4, Keys DEF OneOutcomeIsReported
  <1>9. WaitingRunCanBeAnswered'
    BY <1>1, <1>2 DEF WaitingRunCanBeAnswered, Terminal
  <1>10. ReceiptNamesTheTask'
    BY <1>0, <1>1, <1>2 DEF ReceiptNamesTheTask, Inv, TasksAreMade
  <1>11. ASSUME NEW v \in Workers PROVE WorkerSound(v)'
    <2>1. ~Owns(v)'
      BY <1>1 DEF Owns, Terminal
    <2>2. CASE worker'[v] = worker[v]
      BY <1>0, <1>1, <2>1, <2>2, MemoryHolds
    <2>3. CASE worker'[v] = Idle
      BY <1>0, <2>3, IdleSound
    <2> QED
      BY <2>2, <2>3
  <1> QED
    BY <1>5, <1>6, <1>7, <1>8, <1>9, <1>10, <1>11 DEF Inv

\* A step within the life of a Run that reports nothing and counts no round.
LEMMA RunMoves ==
    ASSUME Inv, run' \in RunRows, UNCHANGED <<checkpoint, outbox, receipt, tasks, key>>,
           input' \in [kept : BOOLEAN, pending : 0..MaxClarificationRounds],
           worker' \in [Workers -> WorkerRows],
           run.status \notin Terminal, run'.status \notin Terminal,
           run'.status = "waiting_user" => run.status = "waiting_user",
           run'.rounds = run.rounds, run'.task = run.task,
           InputIsKept', WaitingRunCanBeAnswered',
           \A v \in Workers : WorkerSound(v)'
    PROVE  Inv'
  <1>1. TypeOK'
    BY Shapes DEF Inv, TypeOK, RunRows, WorkerRows, Places
  <1>2. QuestionsInOrder' /\ TasksAreMade' /\ ReceiptNamesTheTask'
    BY Zenon DEF Inv, QuestionsInOrder, TasksAreMade, ReceiptNamesTheTask
  <1>3. OneOutcomeIsReported'
    BY DEF Inv, OneOutcomeIsReported
  <1> QED
    BY <1>1, <1>2, <1>3 DEF Inv

\* Accept, LeaseLapses, tryResume and ClarificationExpires change the Run behind the
\* workers' backs, but not what they know of it.
LEMMA RunStep ==
    ASSUME Inv, Accept \/ LeaseLapses \/ tryResume \/ ClarificationExpires
    PROVE  Inv'
  <1>0. /\ run \in RunRows /\ worker \in [Workers -> WorkerRows] /\ tasks \in Nat
        /\ input \in [kept : BOOLEAN, pending : 0..MaxClarificationRounds]
        /\ 0 \in 0..MaxClarificationRounds
    BY Shapes, AgentConstants DEF Inv
  <1>1. UNCHANGED <<checkpoint, worker, outbox, receipt, tasks, key>>
    BY DEF Accept, LeaseLapses, tryResume, ClarificationExpires
  <1>2. /\ run' \in RunRows /\ run'.rounds = run.rounds /\ run'.task = run.task
        /\ run'.interrupt = run.interrupt /\ run'.owner = run.owner
    <2>1. CASE Accept
      BY <1>0, <2>1 DEF Accept, CreateRunWithInput, RunRows
    <2>2. CASE LeaseLapses
      BY <1>0, <2>2, Zenon DEF LeaseLapses, RunRows
    <2>3. CASE tryResume
      BY <1>0, <2>3, Zenon DEF tryResume, ResumeWaitingRunWithInput, RunRows
    <2>4. CASE ClarificationExpires
      BY <1>0, <2>4, Zenon DEF ClarificationExpires, RunRows
    <2> QED
      BY <2>1, <2>2, <2>3, <2>4
  <1>3. /\ run.status \notin Terminal /\ run'.status \notin Terminal
        /\ run'.status = "waiting_user" => run.status = "waiting_user" /\ run'.message = run.message
                                           /\ input' = input
        /\ run'.status = "running" => run.status = "running"
        /\ input' \in [kept : BOOLEAN, pending : 0..MaxClarificationRounds]
        /\ InputIsKept'
    <2>1. CASE Accept
      BY <1>0, <2>1 DEF Accept, CreateRunWithInput, RunRows, Terminal, InputIsKept
    <2>2. CASE LeaseLapses
      BY <1>0, <2>2 DEF LeaseLapses, RunRows, Terminal, Inv, InputIsKept
    <2>3. CASE tryResume
      BY <1>0, <2>3 DEF tryResume, ResumeWaitingRunWithInput, FindWaitingRunByClarification, RunRows,
                        Terminal, Inv, InputIsKept
    <2>4. CASE ClarificationExpires
      BY <1>0, <2>4 DEF ClarificationExpires, RunRows, Terminal, Inv, InputIsKept
    <2> QED
      BY <2>1, <2>2, <2>3, <2>4
  <1>4. WaitingRunCanBeAnswered'
    <2>1. WaitingRunCanBeAnswered
      BY DEF Inv
    <2>2. CASE Accept
      <3>1. input'.pending = 0 /\ run'.status = "queued"
        BY <1>0, <2>2 DEF Accept, CreateRunWithInput, RunRows
      <3> QED
        BY <3>1 DEF WaitingRunCanBeAnswered
    <2>3. CASE LeaseLapses \/ ClarificationExpires
      <3>1. input' = input /\ run'.status = run.status /\ run'.message = run.message
        BY <1>0, <2>3 DEF LeaseLapses, ClarificationExpires, RunRows
      <3> QED
        BY <1>1, <1>2, <2>1, <3>1 DEF WaitingRunCanBeAnswered
    <2>4. CASE tryResume
      <3>1. run'.status = "queued" /\ run.status = "waiting_user" /\ input'.kept = input.kept
        BY <1>0, <2>4 DEF tryResume, ResumeWaitingRunWithInput, FindWaitingRunByClarification, RunRows
      <3> QED
        BY <1>1, <1>2, <2>1, <3>1 DEF WaitingRunCanBeAnswered
    <2> QED
      BY <2>2, <2>3, <2>4
  <1>5. ASSUME NEW v \in Workers PROVE WorkerSound(v)'
    <2>1. worker'[v] = worker[v] /\ (Owns(v)' => Owns(v))
      BY <1>1, <1>2, <1>3 DEF Owns
    <2> QED
      BY <1>0, <1>1, <1>2, <1>3, <2>1, MemoryHolds
  <1> QED
    BY <1>0, <1>1, <1>2, <1>3, <1>4, <1>5, RunMoves

\* The claim gives the worker the rounds of the Run; the one who had it before has lost it.
LEMMA ClaimStep ==
    ASSUME Inv, NEW w \in Workers, ClaimRun(w)
    PROVE  Inv'
  <1>0. /\ run \in RunRows /\ worker \in [Workers -> WorkerRows] /\ tasks \in Nat
        /\ run.attempts \in 0..MaxClaims /\ run.attempts + 1 \in 0..MaxClaims
        /\ run.rounds \in 0..MaxClarificationRounds /\ run.attempts + 1 # 0
    BY Shapes, AgentConstants DEF Inv, RunRows, ClaimRun
  <1> DEFINE new == [Idle EXCEPT !.phase = "claimed", !.attempt = run.attempts + 1, !.rounds = run.rounds]
  <1>1. /\ new \in WorkerRows /\ new.phase = "claimed" /\ new.attempt = run.attempts + 1
        /\ new.rounds = run.rounds /\ new.made = 0 /\ new.said = 0 /\ new.got = 0
    BY <1>0, IdleRow, Zenon DEF WorkerRows, Phases
  <1>2. /\ run' \in RunRows /\ run'.rounds = run.rounds /\ run'.task = run.task
        /\ run'.interrupt = run.interrupt /\ run'.owner = w /\ run'.status = "running"
        /\ run.status \in {"queued", "running"}
    BY <1>0, Zenon DEF ClaimRun, RunRows
  <1>3. worker' = [worker EXCEPT ![w] = new] /\ UNCHANGED <<input, checkpoint, outbox, receipt, tasks, key>>
    BY DEF ClaimRun, WorkerSet
  <1> HIDE DEF new
  <1>4. /\ worker' \in [Workers -> WorkerRows] /\ worker'[w] = new
        /\ \A v \in Workers \ {w} : worker'[v] = worker[v]
    BY <1>0, <1>1, <1>3
  <1>5. WorkerSound(w)'
    BY <1>0, <1>1, <1>2, <1>3, <1>4 DEF WorkerSound
  <1>6. ASSUME NEW v \in Workers \ {w} PROVE WorkerSound(v)'
    <2>1. ~Owns(v)'
      BY <1>2 DEF Owns
    <2>2. run.status \notin Terminal
      BY <1>2 DEF Terminal
    <2> QED
      BY <1>0, <1>2, <1>3, <1>4, <2>1, <2>2, MemoryHolds
  <1>7. InputIsKept'
    BY <1>2, <1>3 DEF Inv, InputIsKept
  <1>8. WaitingRunCanBeAnswered'
    BY <1>2, <1>3 DEF Inv, WaitingRunCanBeAnswered
  <1>9. run.status \notin Terminal /\ run'.status \notin Terminal
    BY <1>2 DEF Terminal
  <1>10. input' \in [kept : BOOLEAN, pending : 0..MaxClarificationRounds]
    BY <1>3, Shapes DEF Inv
  <1> QED
    BY <1>2, <1>3, <1>4, <1>5, <1>6, <1>7, <1>8, <1>9, <1>10, RunMoves

\* The outcome of an error: the Run is queued again, or it ends.
LEMMA ErrorStep ==
    ASSUME Inv, NEW w \in Workers, handleRunError(w) \/ FinishRun(w)
    PROVE  Inv'
  <1>0. /\ run \in RunRows /\ worker \in [Workers -> WorkerRows] /\ tasks \in Nat
        /\ 0 \in 0..MaxTasks /\ worker[w] \in WorkerRows /\ worker[w].said \in 0..MaxTasks
        /\ input \in [kept : BOOLEAN, pending : 0..MaxClarificationRounds]
    BY Shapes, AgentConstants DEF Inv, WorkerRows
  <1>1. worker' = [worker EXCEPT ![w] = Idle] /\ UNCHANGED <<tasks, key>>
    BY DEF handleRunError, FinishRun, WorkerSet
  <1>2. /\ worker' \in [Workers -> WorkerRows] /\ worker'[w] = Idle
        /\ \A v \in Workers \ {w} : worker'[v] = worker[v]
    BY <1>0, <1>1, IdleRow
  <1>3. CASE UNCHANGED <<run, input, checkpoint, outbox, receipt>>
    <2>1. WorkerSound(w)'
      BY <1>0, <1>1, <1>2, IdleSound
    <2> QED
      BY <1>1, <1>3, <2>1, IdleRow, OneWorker, Zenon
  <1>4. CASE Owns(w) /\ RetryRun
    <2>1. /\ run' \in RunRows /\ run'.rounds = run.rounds /\ run'.task = run.task
          /\ run'.interrupt = run.interrupt /\ run'.status = "queued" /\ run.status = "running"
      BY <1>0, <1>4, AgentConstants, Zenon DEF RetryRun, Owns, RunRows
    <2>2. UNCHANGED <<input, checkpoint, outbox, receipt>>
      BY <1>4 DEF RetryRun
    <2>3. run.status \notin Terminal /\ run'.status \notin Terminal
      BY <2>1 DEF Terminal
    <2>4. \A v \in Workers : ~Owns(v)'
      BY <2>1 DEF Owns
    <2>5. \A v \in Workers : WorkerSound(v)'
      BY <1>0, <1>1, <1>2, <2>1, <2>2, <2>3, <2>4, MemoryHolds, IdleSound
    <2>6. InputIsKept' /\ WaitingRunCanBeAnswered'
      BY <2>1, <2>2 DEF Inv, InputIsKept, WaitingRunCanBeAnswered
    <2> QED
      BY <1>0, <1>1, <1>2, <2>1, <2>2, <2>3, <2>5, <2>6, RunMoves
  <1>5. CASE Owns(w) /\ Finish("failed", 0)
    BY <1>0, <1>1, <1>2, <1>5, FinishStep DEF Owns, Terminal
  <1>6. CASE Owns(w) /\ Finish("succeeded", worker[w].said)
    <2>1. worker[w].said # 0 => worker[w].said = run.task
      BY DEF Inv, WorkerSound
    <2> QED
      BY <1>0, <1>1, <1>2, <1>6, <2>1, FinishStep DEF Owns, Terminal
  <1> QED
    BY <1>3, <1>4, <1>5, <1>6 DEF handleRunError, FinishRun, RetryOrFail, Renderable

\* A question that nobody answered in time ends the Run.
LEMMA ExpireStep ==
    ASSUME Inv, expireClarifications
    PROVE  Inv'
  <1>1. /\ run.status = "waiting_user" /\ Finish("cancelled", 0) /\ UNCHANGED <<worker, tasks, key>>
    BY DEF expireClarifications, CancelExpiredClarification
  <1>2. worker' \in [Workers -> WorkerRows] /\ \A v \in Workers : worker'[v] = worker[v]
    BY <1>1, Shapes DEF Inv
  <1>3. 0 \in 0..MaxTasks
    BY AgentConstants
  <1> QED
    BY <1>1, <1>2, <1>3, FinishStep DEF Terminal

\* A Task the API creates or replays is within the count of those it created.
LEMMA CreateTaskStep ==
    ASSUME Inv, NEW w \in Workers, CreateTask(w)
    PROVE  Inv'
  <1>0. /\ worker \in [Workers -> WorkerRows] /\ worker[w] \in WorkerRows /\ WorkerSound(w)
        /\ tasks \in 0..MaxTasks /\ key \in 0..MaxTasks /\ key <= tasks /\ run.task <= tasks
        /\ MaxTasks \in Nat /\ worker[w].got \in 0..MaxTasks /\ worker[w].got <= tasks
        /\ run.task \in 0..MaxTasks /\ receipt \in 0..MaxTasks
    BY Shapes, AgentConstants DEF Inv, TasksAreMade, WorkerRows, WorkerSound, RunRows
  <1>1. /\ tasks' \in 0..MaxTasks /\ key' \in 0..MaxTasks /\ key' <= tasks' /\ tasks <= tasks'
        /\ run.task <= tasks' /\ worker[w].got <= tasks' /\ tasks' \in Nat
    BY <1>0 DEF CreateTask
  <1>2. UNCHANGED <<run, input, checkpoint, outbox, receipt>> /\ worker[w].phase = "working"
    BY DEF CreateTask
  <1>3. PICK new \in WorkerRows :
          /\ worker' = [worker EXCEPT ![w] = new]
          /\ new.phase \in {"attaching", "error"} /\ new.attempt = worker[w].attempt
          /\ new.rounds = worker[w].rounds /\ new.made = worker[w].made /\ new.said = worker[w].said
          /\ new.got \in {key', worker[w].got}
    <2>1. CASE WorkerSet(w, [worker[w] EXCEPT !.phase = "attaching", !.got = key'])
      <3> DEFINE row == [worker[w] EXCEPT !.phase = "attaching", !.got = key']
      <3>1. /\ row \in WorkerRows /\ row.phase = "attaching" /\ row.attempt = worker[w].attempt
            /\ row.rounds = worker[w].rounds /\ row.made = worker[w].made
            /\ row.said = worker[w].said /\ row.got = key'
        BY <1>0, <1>1, Zenon DEF WorkerRows, Phases
      <3>2. worker' = [worker EXCEPT ![w] = row]
        BY <2>1 DEF WorkerSet
      <3> HIDE DEF row
      <3> QED
        BY <3>1, <3>2, Zenon
    <2>2. CASE WorkerSet(w, Failed(w, TRUE))
      <3> DEFINE row == [worker[w] EXCEPT !.phase = "error", !.retryable = TRUE]
      <3>1. /\ row \in WorkerRows /\ row.phase = "error" /\ row.attempt = worker[w].attempt
            /\ row.rounds = worker[w].rounds /\ row.made = worker[w].made
            /\ row.said = worker[w].said /\ row.got = worker[w].got
        BY <1>0, Zenon DEF WorkerRows, Phases
      <3>2. worker' = [worker EXCEPT ![w] = row]
        BY <2>2 DEF WorkerSet, Failed
      <3> HIDE DEF row
      <3> QED
        BY <3>1, <3>2, Zenon
    <2> QED
      BY <2>1, <2>2, Zenon DEF CreateTask
  <1>4. /\ worker' \in [Workers -> WorkerRows] /\ worker'[w] = new
        /\ \A v \in Workers \ {w} : worker'[v] = worker[v]
    BY <1>0, <1>3, Zenon
  <1>5. WorkerSound(w)'
    <2>1. new.got <= tasks'
      BY <1>1, <1>3
    <2> QED
      BY <1>0, <1>2, <1>3, <1>4, <2>1, Zenon DEF WorkerSound, Owns
  <1>6. ASSUME NEW v \in Workers \ {w} PROVE WorkerSound(v)'
    <2>1. Owns(v)' => Owns(v)
      BY <1>2, Zenon DEF Owns
    <2> QED
      BY <1>1, <1>2, <1>4, <2>1, MemoryHolds
  <1>7. TypeOK'
    BY <1>1, <1>2, <1>4, Shapes, Zenon DEF Inv, TypeOK, WorkerRows
  <1>8. InputIsKept' /\ QuestionsInOrder' /\ OneOutcomeIsReported' /\ WaitingRunCanBeAnswered'
    BY <1>2 DEF Inv, InputIsKept, QuestionsInOrder, OneOutcomeIsReported, WaitingRunCanBeAnswered
  <1>9. TasksAreMade'
    BY <1>1, <1>2 DEF TasksAreMade
  <1>10. ReceiptNamesTheTask'
    BY <1>0, <1>1, <1>2 DEF Inv, ReceiptNamesTheTask
  <1> QED
    BY <1>5, <1>6, <1>7, <1>8, <1>9, <1>10 DEF Inv

\* The API forgets the key.
LEMMA KeyStep ==
    ASSUME Inv, KeyExpires
    PROVE  Inv'
  <1>1. key' = 0 /\ UNCHANGED <<run, input, checkpoint, worker, outbox, receipt, tasks>>
    BY DEF KeyExpires
  <1>2. TypeOK' /\ TasksAreMade'
    BY <1>1, AgentConstants, Shapes DEF Inv, TypeOK, TasksAreMade
  <1>3. /\ InputIsKept' /\ QuestionsInOrder' /\ OneOutcomeIsReported' /\ WaitingRunCanBeAnswered'
        /\ ReceiptNamesTheTask'
    BY <1>1 DEF Inv, InputIsKept, QuestionsInOrder, OneOutcomeIsReported, WaitingRunCanBeAnswered,
                ReceiptNamesTheTask
  <1>4. \A v \in Workers : WorkerSound(v)'
    BY <1>1 DEF Inv, WorkerSound, Owns
  <1> QED
    BY <1>2, <1>3, <1>4 DEF Inv

\* The Task is recorded by the owner and once; whoever finds another Task recorded does not
\* name its own.
LEMMA AttachStep ==
    ASSUME Inv, NEW w \in Workers, AttachTask(w)
    PROVE  Inv'
  <1>0. /\ worker \in [Workers -> WorkerRows] /\ worker[w] \in WorkerRows /\ WorkerSound(w)
        /\ run \in RunRows /\ tasks \in 0..MaxTasks /\ MaxTasks \in Nat
        /\ worker[w].got \in 0..MaxTasks /\ worker[w].got <= tasks
    BY Shapes, AgentConstants DEF Inv, WorkerRows, WorkerSound
  <1>1. /\ run' \in RunRows /\ run'.status = run.status /\ run'.owner = run.owner
        /\ run'.rounds = run.rounds /\ run'.message = run.message /\ run'.interrupt = run.interrupt
        /\ run'.task \in {run.task, worker[w].got} /\ (run.task # 0 => run'.task = run.task)
    BY <1>0 DEF AttachTask, RunRows
  <1>2. /\ UNCHANGED <<input, checkpoint, outbox, receipt, tasks, key>>
        /\ worker[w].phase = "attaching"
    BY DEF AttachTask
  <1>3. PICK new \in WorkerRows :
          /\ worker' = [worker EXCEPT ![w] = new]
          /\ new.phase \in {"working", "succeeded", "error"} /\ new.attempt = worker[w].attempt
          /\ new.rounds = worker[w].rounds /\ new.got = worker[w].got
          /\ new.made = worker[w].made \/ new.made = run'.task
          /\ new.said = worker[w].said
    <2>1. CASE run'.task = worker[w].got
      <3> DEFINE row == [worker[w] EXCEPT !.phase = "working", !.made = worker[w].got]
      <3>1. /\ row \in WorkerRows /\ row.phase = "working" /\ row.attempt = worker[w].attempt
            /\ row.rounds = worker[w].rounds /\ row.made = run'.task
            /\ row.said = worker[w].said /\ row.got = worker[w].got
        BY <1>0, <2>1, Zenon DEF WorkerRows, Phases
      <3>2. worker' = [worker EXCEPT ![w] = row]
        BY <2>1, Zenon DEF AttachTask, WorkerSet
      <3> HIDE DEF row
      <3> QED
        BY <3>1, <3>2, Zenon
    <2>2. CASE run'.task # worker[w].got /\ worker[w].made # 0
      <3> DEFINE row == [worker[w] EXCEPT !.phase = "succeeded", !.responded = FALSE]
      <3>1. /\ row \in WorkerRows /\ row.phase = "succeeded" /\ row.attempt = worker[w].attempt
            /\ row.rounds = worker[w].rounds /\ row.made = worker[w].made
            /\ row.said = worker[w].said /\ row.got = worker[w].got
        BY <1>0, Zenon DEF WorkerRows, Phases
      <3>2. worker' = [worker EXCEPT ![w] = row]
        BY <2>2 DEF AttachTask, WorkerSet, MadeUpReceipt
      <3> HIDE DEF row
      <3> QED
        BY <3>1, <3>2, Zenon
    <2>3. CASE run'.task # worker[w].got /\ worker[w].made = 0
      <3> DEFINE row == [worker[w] EXCEPT !.phase = "error", !.retryable = (run'.task = 0)]
      <3>1. /\ row \in WorkerRows /\ row.phase = "error" /\ row.attempt = worker[w].attempt
            /\ row.rounds = worker[w].rounds /\ row.made = worker[w].made
            /\ row.said = worker[w].said /\ row.got = worker[w].got
        BY <1>0, Zenon DEF WorkerRows, Phases
      <3>2. worker' = [worker EXCEPT ![w] = row]
        BY <2>3 DEF AttachTask, WorkerSet, Failed
      <3> HIDE DEF row
      <3> QED
        BY <3>1, <3>2, Zenon
    <2> QED
      BY <2>1, <2>2, <2>3
  <1>4. /\ worker' \in [Workers -> WorkerRows] /\ worker'[w] = new
        /\ \A v \in Workers \ {w} : worker'[v] = worker[v]
    BY <1>0, <1>3
  <1>5. \A v \in Workers : Owns(v)' <=> Owns(v)
    BY <1>1, Zenon DEF Owns
  <1>6. WorkerSound(w)'
    <2>1. /\ new.made # 0 => new.made = run'.task
          /\ new.said # 0 => new.said = run'.task
      BY <1>0, <1>1, <1>3 DEF WorkerSound
    <2> QED
      BY <1>0, <1>1, <1>2, <1>3, <1>4, <1>5, <2>1, Zenon DEF WorkerSound
  <1>7. ASSUME NEW v \in Workers \ {w} PROVE WorkerSound(v)'
    <2>1. tasks <= tasks' /\ tasks' \in Nat
      BY <1>0, <1>2
    <2> QED
      BY <1>1, <1>2, <1>4, <1>5, <2>1, MemoryHolds
  <1>8. TypeOK'
    BY <1>1, <1>2, <1>4, Shapes, Zenon DEF Inv, TypeOK, WorkerRows, RunRows
  <1>9. InputIsKept' /\ QuestionsInOrder'
    BY <1>1, <1>2, ZenonT(30) DEF Inv, InputIsKept, QuestionsInOrder
  <1>10. OneOutcomeIsReported' /\ WaitingRunCanBeAnswered'
    BY <1>1, <1>2 DEF Inv, OneOutcomeIsReported, WaitingRunCanBeAnswered
  <1>11. TasksAreMade'
    BY <1>0, <1>1, <1>2 DEF Inv, TasksAreMade
  <1>12. ReceiptNamesTheTask'
    BY <1>0, <1>1, <1>2 DEF Inv, ReceiptNamesTheTask
  <1> QED
    BY <1>6, <1>7, <1>8, <1>9, <1>10, <1>11, <1>12 DEF Inv

\* The checkpoint is that of an attempt, so it is there.
LEMMA SaveStep ==
    ASSUME Inv, NEW w \in Workers, SaveCheckpoint(w)
    PROVE  Inv'
  <1>0. /\ worker \in [Workers -> WorkerRows] /\ worker[w] \in WorkerRows /\ WorkerSound(w)
        /\ tasks \in Nat /\ worker[w].attempt \in 0..MaxClaims
    BY Shapes, AgentConstants DEF Inv, WorkerRows
  <1>1. /\ UNCHANGED <<run, input, outbox, receipt, tasks, key>> /\ worker[w].phase = "saving"
        /\ checkpoint' = worker[w].attempt
    BY Zenon DEF SaveCheckpoint
  <1>2. checkpoint' # 0 /\ checkpoint' \in 0..MaxClaims
    BY <1>0, <1>1 DEF WorkerSound
  <1> DEFINE new == [worker[w] EXCEPT !.phase = "saved"]
  <1>3. /\ new \in WorkerRows /\ new.phase = "saved" /\ new.attempt = worker[w].attempt
        /\ new.rounds = worker[w].rounds /\ new.made = worker[w].made
        /\ new.said = worker[w].said /\ new.got = worker[w].got
    BY <1>0 DEF WorkerRows, Phases
  <1>4. worker' = [worker EXCEPT ![w] = new]
    BY DEF SaveCheckpoint, WorkerSet, At
  <1> HIDE DEF new
  <1>5. /\ worker' \in [Workers -> WorkerRows] /\ worker'[w] = new
        /\ \A v \in Workers \ {w} : worker'[v] = worker[v]
    BY <1>0, <1>3, <1>4, Zenon
  <1>6. WorkerSound(w)'
    BY <1>0, <1>1, <1>2, <1>3, <1>5 DEF WorkerSound, Owns
  <1>7. ASSUME NEW v \in Workers \ {w} PROVE WorkerSound(v)'
    <2>1. Owns(v)' => Owns(v)
      BY <1>1, Zenon DEF Owns
    <2> QED
      BY <1>0, <1>1, <1>2, <1>5, <2>1, MemoryHolds
  <1>8. TypeOK'
    BY <1>1, <1>2, <1>5, Shapes, Zenon DEF Inv, TypeOK, WorkerRows
  <1>9. InputIsKept' /\ QuestionsInOrder' /\ OneOutcomeIsReported' /\ TasksAreMade' /\ ReceiptNamesTheTask'
    BY <1>1 DEF Inv, InputIsKept, QuestionsInOrder, OneOutcomeIsReported, TasksAreMade, ReceiptNamesTheTask
  <1>10. WaitingRunCanBeAnswered'
    BY <1>1, <1>2 DEF Inv, WaitingRunCanBeAnswered
  <1> QED
    BY <1>6, <1>7, <1>8, <1>9, <1>10 DEF Inv

\* An answer that was used is cleared; a question waits only if its checkpoint was saved.
LEMMA ClearStep ==
    ASSUME Inv, NEW w \in Workers, ClearPendingResumeInput(w)
    PROVE  Inv'
  <1>0. /\ worker \in [Workers -> WorkerRows] /\ worker[w] \in WorkerRows /\ WorkerSound(w)
        /\ tasks \in Nat /\ worker[w].asked \in BOOLEAN /\ worker[w].responded \in BOOLEAN
        /\ input \in [kept : BOOLEAN, pending : 0..MaxClarificationRounds]
        /\ 0 \in 0..MaxClarificationRounds
    BY Shapes, AgentConstants DEF Inv, WorkerRows
  <1>1. UNCHANGED <<run, checkpoint, outbox, receipt, tasks, key>> /\ worker[w].phase = "saved"
    BY DEF ClearPendingResumeInput
  <1>2. /\ input' \in [kept : BOOLEAN, pending : 0..MaxClarificationRounds]
        /\ input'.kept = input.kept /\ (input'.pending # 0 => input.pending # 0)
    BY <1>0, Zenon DEF ClearPendingResumeInput
  <1>3. PICK new \in WorkerRows :
          /\ worker' = [worker EXCEPT ![w] = new]
          /\ new.phase \in {"waiting", "succeeded", "error"} /\ new.attempt = worker[w].attempt
          /\ new.rounds = worker[w].rounds /\ new.got = worker[w].got /\ new.made = worker[w].made
          /\ new.said = worker[w].said
          /\ new.phase = "waiting" => worker[w].asked
    <2>1. CASE worker[w].asked
      <3> DEFINE row == [worker[w] EXCEPT !.phase = "waiting"]
      <3>1. /\ row \in WorkerRows /\ row.phase = "waiting" /\ row.attempt = worker[w].attempt
            /\ row.rounds = worker[w].rounds /\ row.made = worker[w].made
            /\ row.said = worker[w].said /\ row.got = worker[w].got
        BY <1>0 DEF WorkerRows, Phases
      <3>2. worker' = [worker EXCEPT ![w] = row]
        BY <2>1 DEF ClearPendingResumeInput, WorkerSet, Outcome, At
      <3> HIDE DEF row
      <3> QED
        BY <2>1, <3>1, <3>2, Zenon
    <2>2. CASE ~worker[w].asked /\ worker[w].responded
      <3> DEFINE row == [worker[w] EXCEPT !.phase = "succeeded"]
      <3>1. /\ row \in WorkerRows /\ row.phase = "succeeded" /\ row.attempt = worker[w].attempt
            /\ row.rounds = worker[w].rounds /\ row.made = worker[w].made
            /\ row.said = worker[w].said /\ row.got = worker[w].got
        BY <1>0 DEF WorkerRows, Phases
      <3>2. worker' = [worker EXCEPT ![w] = row]
        BY <2>2 DEF ClearPendingResumeInput, WorkerSet, Outcome, At
      <3> HIDE DEF row
      <3> QED
        BY <3>1, <3>2, Zenon
    <2>3. CASE ~worker[w].asked /\ ~worker[w].responded /\ worker[w].made # 0
      <3> DEFINE row == [worker[w] EXCEPT !.phase = "succeeded", !.responded = FALSE]
      <3>1. /\ row \in WorkerRows /\ row.phase = "succeeded" /\ row.attempt = worker[w].attempt
            /\ row.rounds = worker[w].rounds /\ row.made = worker[w].made
            /\ row.said = worker[w].said /\ row.got = worker[w].got
        BY <1>0, Zenon DEF WorkerRows, Phases
      <3>2. worker' = [worker EXCEPT ![w] = row]
        BY <2>3 DEF ClearPendingResumeInput, WorkerSet, Outcome, MadeUpReceipt
      <3> HIDE DEF row
      <3> QED
        BY <3>1, <3>2, Zenon
    <2>4. CASE ~worker[w].asked /\ ~worker[w].responded /\ worker[w].made = 0
      <3> DEFINE row == [worker[w] EXCEPT !.phase = "error", !.retryable = FALSE]
      <3>1. /\ row \in WorkerRows /\ row.phase = "error" /\ row.attempt = worker[w].attempt
            /\ row.rounds = worker[w].rounds /\ row.made = worker[w].made
            /\ row.said = worker[w].said /\ row.got = worker[w].got
        BY <1>0, Zenon DEF WorkerRows, Phases
      <3>2. worker' = [worker EXCEPT ![w] = row]
        BY <2>4 DEF ClearPendingResumeInput, WorkerSet, Outcome, Failed
      <3> HIDE DEF row
      <3> QED
        BY <3>1, <3>2, Zenon
    <2> QED
      BY <1>0, <2>1, <2>2, <2>3, <2>4
  <1>4. /\ worker' \in [Workers -> WorkerRows] /\ worker'[w] = new
        /\ \A v \in Workers \ {w} : worker'[v] = worker[v]
    BY <1>0, <1>3, Zenon
  <1>5. WorkerSound(w)'
    BY <1>0, <1>1, <1>3, <1>4 DEF WorkerSound, Owns
  <1>6. ASSUME NEW v \in Workers \ {w} PROVE WorkerSound(v)'
    <2>1. Owns(v)' => Owns(v)
      BY <1>1, Zenon DEF Owns
    <2> QED
      BY <1>0, <1>1, <1>4, <2>1, MemoryHolds
  <1>7. TypeOK'
    BY <1>1, <1>2, <1>4, Shapes, Zenon DEF Inv, TypeOK, WorkerRows
  <1>8. InputIsKept' /\ QuestionsInOrder' /\ OneOutcomeIsReported' /\ TasksAreMade' /\ ReceiptNamesTheTask'
    BY <1>1, <1>2 DEF Inv, InputIsKept, QuestionsInOrder, OneOutcomeIsReported, TasksAreMade, ReceiptNamesTheTask
  <1>9. WaitingRunCanBeAnswered'
    BY <1>1, <1>2 DEF Inv, WaitingRunCanBeAnswered
  <1> QED
    BY <1>5, <1>6, <1>7, <1>8, <1>9 DEF Inv

\* The question of the next round was not asked before, and what an answer needs is stored.
LEMMA WaitStep ==
    ASSUME Inv, NEW w \in Workers, MarkRunWaiting(w)
    PROVE  Inv'
  <1>0. /\ worker \in [Workers -> WorkerRows] /\ worker[w] \in WorkerRows /\ WorkerSound(w)
        /\ tasks \in Nat /\ run \in RunRows /\ outbox \in [Messages -> Places]
        /\ worker[w].attempt \in 0..MaxClaims /\ worker[w].phase = "waiting"
        /\ UNCHANGED <<input, checkpoint, receipt, tasks, key>>
    BY Shapes, AgentConstants DEF Inv, WorkerRows, MarkRunWaiting
  <1>1. CASE ~(Owns(w) /\ run.rounds < MaxClarificationRounds)
    BY <1>0, <1>1, FailStep, Zenon DEF MarkRunWaiting
  <1>2. CASE Owns(w) /\ run.rounds < MaxClarificationRounds
    <2> DEFINE n == run.rounds + 1
    <2>1. /\ n \in Rounds /\ n \in 0..MaxClarificationRounds /\ n > run.rounds
          /\ \A m \in Rounds : m > n => m > run.rounds /\ m # n
      BY <1>0, <1>2, AgentConstants DEF RunRows, Rounds
    <2>2. worker[w].rounds = run.rounds /\ worker[w].attempt # 0
      BY <1>0, <1>2 DEF WorkerSound
    <2>3. /\ run' \in RunRows /\ run'.status = "waiting_user" /\ run'.rounds = n
          /\ run'.message = "pending" /\ run'.interrupt # 0 /\ run'.task = run.task
      <3>1. run' = [run EXCEPT !.status = "waiting_user", !.owner = NoWorker, !.lapsed = FALSE,
                               !.rounds = n, !.message = "pending", !.expired = FALSE,
                               !.interrupt = worker[w].attempt]
        BY <1>2 DEF MarkRunWaiting
      <3> HIDE DEF n
      <3> QED
        BY <1>0, <2>1, <2>2, <3>1, Zenon DEF RunRows
    <2>4. /\ outbox' = [outbox EXCEPT ![Question(n)] = IF @ = "none" THEN "pending" ELSE @]
          /\ worker' = [worker EXCEPT ![w] = Idle]
      BY <1>2, <2>2 DEF MarkRunWaiting, Enqueue, WorkerSet
    <2>5. outbox[Question(n)] = "none"
      BY <2>1 DEF Inv, QuestionsInOrder
    <2> HIDE DEF n
    <2>6. /\ outbox' \in [Messages -> Places] /\ outbox'[Question(n)] = "pending"
          /\ \A m \in Messages : m # Question(n) => outbox'[m] = outbox[m]
      BY <1>0, <2>1, <2>4, <2>5, Keys DEF Places
    <2>7. /\ worker' \in [Workers -> WorkerRows] /\ worker'[w] = Idle
          /\ \A v \in Workers \ {w} : worker'[v] = worker[v]
      BY <1>0, <2>4, IdleRow
    <2>8. run.status = "running" /\ run.status \notin Terminal
      BY <1>2, Zenon DEF Owns, Terminal
    <2>9. checkpoint # 0 /\ input.kept
      BY <1>0, <2>8 DEF WorkerSound, Inv, InputIsKept
    <2>10. ASSUME NEW v \in Workers PROVE WorkerSound(v)'
      <3>1. ~Owns(v)'
        BY <2>3 DEF Owns
      <3>2. CASE v = w
        BY <1>0, <2>7, <3>2, IdleSound
      <3>3. CASE v # w
        BY <1>0, <2>3, <2>7, <2>9, <3>1, <3>3, MemoryHolds, SMTT(30)
      <3> QED
        BY <3>2, <3>3
    <2>11. TypeOK'
      BY <1>0, <2>3, <2>6, <2>7, Shapes, Zenon DEF Inv, TypeOK, WorkerRows, RunRows, Places
    <2>12. QuestionsInOrder'
      BY <2>1, <2>3, <2>6, Keys, SMTT(30) DEF Inv, QuestionsInOrder
    <2>13. OneOutcomeIsReported'
      BY <2>1, <2>3, <2>6, <2>8, Keys DEF Inv, OneOutcomeIsReported, Terminal
    <2>14. InputIsKept' /\ WaitingRunCanBeAnswered'
      BY <1>0, <2>3, <2>6, <2>9 DEF InputIsKept, WaitingRunCanBeAnswered
    <2>15. TasksAreMade' /\ ReceiptNamesTheTask'
      BY <1>0, <2>3 DEF Inv, TasksAreMade, ReceiptNamesTheTask
    <2> QED
      BY <2>10, <2>11, <2>12, <2>13, <2>14, <2>15 DEF Inv
  <1> QED
    BY <1>1, <1>2

\* A message moves from pending to shown to delivered; the question of the Run is bound with
\* its delivery.
LEMMA OutboxStep ==
    ASSUME Inv, NEW m \in Messages, deliverOutbox(m) \/ MarkOutboxDelivered(m)
    PROVE  Inv'
  <1>0. /\ run \in RunRows /\ outbox \in [Messages -> Places] /\ tasks \in Nat
        /\ UNCHANGED <<input, checkpoint, worker, receipt, tasks, key>>
    BY Shapes DEF Inv, deliverOutbox, MarkOutboxDelivered
  <1>1. /\ outbox' \in [Messages -> Places] /\ outbox[m] # "none" /\ outbox'[m] # "none"
        /\ \A k \in Messages : k # m => outbox'[k] = outbox[k]
    BY <1>0 DEF deliverOutbox, MarkOutboxDelivered, ClaimOutbox, Places
  <1>2. /\ run' \in RunRows /\ run'.status = run.status /\ run'.owner = run.owner
        /\ run'.rounds = run.rounds /\ run'.interrupt = run.interrupt /\ run'.task = run.task
    BY <1>0 DEF deliverOutbox, MarkOutboxDelivered, RunRows
  <1>3. \A v \in Workers : WorkerSound(v)'
    BY <1>0, <1>2, Zenon DEF Inv, WorkerSound, Owns
  <1>4. TypeOK'
    BY <1>0, <1>1, <1>2, Shapes, Zenon DEF Inv, TypeOK, RunRows, Places
  <1>5. QuestionsInOrder'
    BY <1>1, <1>2, Keys DEF Inv, QuestionsInOrder
  <1>6. OneOutcomeIsReported'
    BY <1>1, <1>2, Keys DEF Inv, OneOutcomeIsReported
  <1>7. InputIsKept' /\ TasksAreMade' /\ ReceiptNamesTheTask'
    BY <1>0, <1>2 DEF Inv, InputIsKept, TasksAreMade, ReceiptNamesTheTask
  <1>8. WaitingRunCanBeAnswered'
    <2>1. ASSUME run.status = "waiting_user"
          PROVE  /\ run'.message = "pending" <=> outbox'[Question(run.rounds)] \in {"pending", "shown"}
                 /\ run'.message = "bound" <=> outbox'[Question(run.rounds)] = "delivered"
      <3>1. Question(run.rounds) \in Messages
        BY <2>1, Keys DEF Inv, QuestionsInOrder
      <3>2. /\ run.message = "pending" <=> outbox[Question(run.rounds)] \in {"pending", "shown"}
            /\ run.message = "bound" <=> outbox[Question(run.rounds)] = "delivered"
        BY <2>1 DEF Inv, WaitingRunCanBeAnswered
      <3>3. CASE m # Question(run.rounds)
        <4>1. run'.message = run.message
          BY <3>3 DEF deliverOutbox, MarkOutboxDelivered
        <4> QED
          BY <1>1, <3>1, <3>2, <3>3, <4>1
      <3>4. CASE m = Question(run.rounds) /\ deliverOutbox(m)
        BY <1>0, <3>2, <3>4 DEF deliverOutbox, ClaimOutbox
      <3>5. CASE m = Question(run.rounds) /\ MarkOutboxDelivered(m)
        <4>1. outbox'[m] = "delivered" /\ outbox[m] = "shown"
          BY <1>0, <3>5 DEF MarkOutboxDelivered
        <4>2. run'.message = "bound"
          BY <1>0, <2>1, <3>2, <3>5, <4>1 DEF MarkOutboxDelivered, RunRows
        <4> QED
          BY <3>5, <4>1, <4>2
      <3> QED
        BY <3>3, <3>4, <3>5
    <2>2. run.status = "waiting_user" \/ (run.status # "none" /\ input.pending # 0) =>
             input.kept /\ checkpoint # 0 /\ run.interrupt # 0
      BY DEF Inv, WaitingRunCanBeAnswered
    <2> QED
      BY <1>0, <1>2, <2>1, <2>2 DEF WaitingRunCanBeAnswered
  <1> QED
    BY <1>3, <1>4, <1>5, <1>6, <1>7, <1>8 DEF Inv

-----------------------------------------------------------------------------
(* The theorems. *)

\* The invariant holds before the message arrives.
LEMMA InvInit == Init => Inv
  <1> SUFFICES ASSUME Init PROVE Inv
    OBVIOUS
  <1>0. 0 \in 0..MaxClaims /\ 0 \in 0..MaxClarificationRounds /\ 0 \in 0..MaxTasks
    BY AgentConstants
  <1>1. /\ run \in RunRows /\ run.status = "none" /\ run.rounds = 0 /\ run.task = 0
    BY <1>0, Zenon DEF Init, RunRows
  <1>2. /\ input \in [kept : BOOLEAN, pending : 0..MaxClarificationRounds]
        /\ checkpoint = 0 /\ receipt = 0 /\ tasks = 0 /\ key = 0
        /\ worker \in [Workers -> WorkerRows] /\ \A w \in Workers : worker[w] = Idle
        /\ outbox \in [Messages -> Places] /\ \A m \in Messages : outbox[m] = "none"
    BY <1>0, IdleRow DEF Init, Places
  <1>3. TypeOK
    BY <1>0, <1>1, <1>2, Shaped
  <1>4. InputIsKept /\ QuestionsInOrder /\ TasksAreMade
    BY <1>1, <1>2, Keys DEF InputIsKept, QuestionsInOrder, TasksAreMade
  <1>5. OneOutcomeIsReported /\ WaitingRunCanBeAnswered /\ ReceiptNamesTheTask
    <2>1. \A s \in Terminal : outbox[Report(s)] = "none" /\ run.status # s
      BY <1>1, <1>2, Keys DEF Terminal
    <2> QED
      BY <1>1, <1>2, <2>1 DEF OneOutcomeIsReported, WaitingRunCanBeAnswered, ReceiptNamesTheTask
  <1>6. ASSUME NEW w \in Workers PROVE WorkerSound(w)
    <2>1. /\ worker[w].phase = "idle" /\ worker[w].made = 0 /\ worker[w].said = 0 /\ worker[w].got = 0
          /\ tasks = 0
      BY <1>2, IdleRow
    <2> QED
      BY <2>1 DEF WorkerSound
  <1> QED
    BY <1>3, <1>4, <1>5, <1>6 DEF Inv

\* Every step of Next, of whichever loop, preserves the invariant.
LEMMA InvStep == Inv /\ [Next]_vars => Inv'
  <1> SUFFICES ASSUME Inv, [Next]_vars PROVE Inv'
    OBVIOUS
  <1>1. ASSUME NEW w \in Workers, executeRun(w) PROVE Inv'
    <2>1. CASE LoadInput(w) \/ AskUser(w) \/ Respond(w)
      BY <2>1, NoteStep
    <2>2. CASE InvokeFails(w) \/ ToolFails(w) \/ DrainEvents(w)
      BY <2>2, LocalStep
    <2>3. CASE FinishRun(w) \/ handleRunError(w)
      BY <2>3, ErrorStep
    <2> QED
      BY <1>1, <2>1, <2>2, <2>3, CreateTaskStep, AttachStep, SaveStep, ClearStep, WaitStep DEF executeRun
  <1>2. ASSUME NEW w \in Workers, ClaimRun(w) \/ RenewFails(w) \/ WorkerStops(w) PROVE Inv'
    BY <1>2, ClaimStep, LocalStep, StopStep
  <1>3. CASE UNCHANGED vars
    <2>1. UNCHANGED <<run, input, checkpoint, worker, outbox, receipt, tasks, key>>
      BY <1>3, Zenon DEF vars
    <2>2. TypeOK'
      BY <2>1 DEF Inv, TypeOK
    <2>3. /\ InputIsKept' /\ QuestionsInOrder' /\ TasksAreMade'
          /\ OneOutcomeIsReported' /\ WaitingRunCanBeAnswered' /\ ReceiptNamesTheTask'
      BY <2>1, Zenon DEF Inv, InputIsKept, QuestionsInOrder, TasksAreMade, OneOutcomeIsReported,
                  WaitingRunCanBeAnswered, ReceiptNamesTheTask
    <2>4. \A w \in Workers : WorkerSound(w)'
      BY <2>1 DEF Inv, WorkerSound, Owns
    <2> QED
      BY <2>2, <2>3, <2>4 DEF Inv
  <1> QED
    BY <1>1, <1>2, <1>3, RunStep, KeyStep, OutboxStep, ExpireStep DEF Next

\* The inductive invariant holds in every reachable state.
LEMMA InvAlways == Spec => []Inv
  BY InvInit, InvStep, PTL DEF Spec

\* Every row and every worker's memory keeps its type.
THEOREM TypesHold == Spec => []TypeOK
  <1>1. Inv => TypeOK
    BY DEF Inv
  <1> QED
    BY <1>1, InvAlways, PTL

\* The chat learns exactly the outcome the Run records (FinishRun, CancelExpiredClarification).
THEOREM OutcomesAreReportedOnce == Spec => []OneOutcomeIsReported
  <1>1. Inv => OneOutcomeIsReported
    BY DEF Inv
  <1> QED
    BY <1>1, InvAlways, PTL

\* A Run that waits has its question in the outbox and its input and checkpoint stored
\* (MarkRunWaiting, MarkOutboxDelivered, ResumeWaitingRunWithInput).
THEOREM WaitingStaysAnswerable == Spec => []WaitingRunCanBeAnswered
  <1>1. Inv => WaitingRunCanBeAnswered
    BY DEF Inv
  <1> QED
    BY <1>1, InvAlways, PTL

\* The success message names the Task the Run recorded (AttachTask, FinishRun).
THEOREM ReceiptsNameTheTask == Spec => []ReceiptNamesTheTask
  <1>1. Inv => ReceiptNamesTheTask
    BY DEF Inv
  <1> QED
    BY <1>1, InvAlways, PTL

\* What no step does to the row of the Run.
NotRewritten ==
    /\ run.status \in Terminal => run' = run
    /\ run.task # 0 => run'.task = run.task
    /\ run'.rounds >= run.rounds
    /\ run'.attempts >= run.attempts

\* A step that leaves the row alone rewrites nothing.
LEMMA SameRow ==
    ASSUME Inv, run' = run
    PROVE  NotRewritten
  <1>1. run.rounds \in Nat /\ run.attempts \in Nat
    BY Shapes, AgentConstants DEF Inv, RunRows
  <1> QED
    BY <1>1 DEF NotRewritten

\* Accept, the claim, the loss of a lease, a retry, an answer, a question and its delivery and
\* expiry change a Run that has not ended, and neither its Task nor, downwards, its counters.
LEMMA LiveRow ==
    ASSUME Inv, run.status \notin Terminal, run'.task = run.task,
           run'.rounds = run.rounds \/ run'.rounds = run.rounds + 1,
           run'.attempts = run.attempts \/ run'.attempts = run.attempts + 1
    PROVE  NotRewritten
  <1>1. run.rounds \in Nat /\ run.attempts \in Nat
    BY Shapes, AgentConstants DEF Inv, RunRows
  <1> QED
    BY <1>1 DEF NotRewritten

\* The steps that are not a worker's.
LEMMA OthersRewriteNothing ==
    ASSUME Inv,
           \/ Accept \/ LeaseLapses \/ KeyExpires \/ tryResume \/ ClarificationExpires
           \/ expireClarifications
           \/ \E m \in Messages : deliverOutbox(m) \/ MarkOutboxDelivered(m)
    PROVE  NotRewritten
  <1>0. run \in RunRows
    BY Shapes DEF Inv
  <1>1. CASE Accept
    BY <1>0, <1>1, LiveRow DEF Accept, CreateRunWithInput, RunRows, Terminal
  <1>2. CASE LeaseLapses
    BY <1>0, <1>2, LiveRow DEF LeaseLapses, RunRows, Terminal
  <1>3. CASE KeyExpires
    BY <1>3, SameRow DEF KeyExpires
  <1>4. CASE tryResume
    BY <1>0, <1>4, LiveRow DEF tryResume, FindWaitingRunByClarification, ResumeWaitingRunWithInput,
                               RunRows, Terminal
  <1>5. CASE ClarificationExpires
    BY <1>0, <1>5, LiveRow DEF ClarificationExpires, RunRows, Terminal
  <1>6. CASE expireClarifications
    BY <1>0, <1>6, LiveRow DEF expireClarifications, CancelExpiredClarification, Finish, RunRows, Terminal
  <1>7. ASSUME NEW m \in Messages, deliverOutbox(m) PROVE NotRewritten
    BY <1>7, SameRow DEF deliverOutbox
  <1>8. ASSUME NEW m \in Messages, MarkOutboxDelivered(m) PROVE NotRewritten
    <2>1. CASE run' = run
      BY <2>1, SameRow
    <2>2. CASE run.status = "waiting_user" /\ run' = [run EXCEPT !.message = "bound"]
      BY <1>0, <2>2, LiveRow DEF RunRows, Terminal
    <2> QED
      BY <1>8, <2>1, <2>2 DEF MarkOutboxDelivered
  <1> QED
    BY <1>1, <1>2, <1>3, <1>4, <1>5, <1>6, <1>7, <1>8

\* The steps of a worker: only the owner writes the row, and the Task only when there is none.
LEMMA WorkersRewriteNothing ==
    ASSUME Inv, NEW w \in Workers, ClaimRun(w) \/ RenewFails(w) \/ WorkerStops(w) \/ executeRun(w)
    PROVE  NotRewritten
  <1>0. run \in RunRows
    BY Shapes DEF Inv
  <1>1. CASE ClaimRun(w)
    BY <1>0, <1>1, LiveRow, Zenon DEF ClaimRun, RunRows, Terminal
  <1>2. CASE RenewFails(w) \/ WorkerStops(w)
    BY <1>2, SameRow, Zenon DEF RenewFails, WorkerStops
  <1>3. CASE executeRun(w)
    <2>1. CASE LoadInput(w) \/ InvokeFails(w) \/ ToolFails(w) \/ AskUser(w) \/ Respond(w)
      BY <2>1, SameRow, Zenon DEF LoadInput, InvokeFails, ToolFails, AskUser, Respond
    <2>2. CASE CreateTask(w) \/ DrainEvents(w) \/ SaveCheckpoint(w) \/ ClearPendingResumeInput(w)
      BY <2>2, SameRow, Zenon DEF CreateTask, DrainEvents, SaveCheckpoint, ClearPendingResumeInput
    <2>3. CASE AttachTask(w)
      <3>1. CASE run' = run
        BY <3>1, SameRow
      <3>2. CASE Owns(w) /\ run.task = 0 /\ run' = [run EXCEPT !.task = worker[w].got]
        <4>1. /\ run.status \notin Terminal /\ run'.rounds = run.rounds
              /\ run'.attempts = run.attempts /\ run.rounds \in Nat /\ run.attempts \in Nat
          BY <1>0, <3>2, AgentConstants DEF Owns, RunRows, Terminal
        <4> QED
          BY <3>2, <4>1 DEF NotRewritten
      <3> QED
        BY <2>3, <3>1, <3>2 DEF AttachTask
    <2>4. CASE MarkRunWaiting(w)
      <3>1. CASE run' = run
        BY <3>1, SameRow
      <3>2. CASE Owns(w) /\ run' = [run EXCEPT !.status = "waiting_user", !.owner = NoWorker,
                                               !.lapsed = FALSE, !.rounds = @ + 1,
                                               !.message = "pending", !.expired = FALSE,
                                               !.interrupt = worker[w].attempt]
        BY <1>0, <3>2, LiveRow, Zenon DEF Owns, RunRows, Terminal
      <3> QED
        BY <2>4, <3>1, <3>2 DEF MarkRunWaiting
    <2>5. CASE FinishRun(w) \/ handleRunError(w)
      <3>1. CASE run' = run
        BY <3>1, SameRow
      <3>2. CASE Owns(w) /\ RetryRun
        BY <1>0, <3>2, LiveRow DEF RetryRun, Owns, RunRows, Terminal
      <3>3. ASSUME NEW status, NEW named, Owns(w), Finish(status, named) PROVE NotRewritten
        BY <1>0, <3>3, LiveRow DEF Finish, Owns, RunRows, Terminal
      <3> QED
        BY <2>5, <3>1, <3>2, <3>3 DEF FinishRun, handleRunError, RetryOrFail, Renderable
    <2> QED
      BY <1>3, <2>1, <2>2, <2>3, <2>4, <2>5 DEF executeRun
  <1> QED
    BY <1>1, <1>2, <1>3

\* A Run never leaves a terminal state, keeps the Task it recorded and counts upwards
\* (AttachTask, FinishRun, ClaimRun), whichever workers still believe they own it.
THEOREM RunsAreNotRewritten == Spec => RunIsNotRewritten
  <1>1. Inv /\ [Next]_vars => [NotRewritten]_vars
    BY OthersRewriteNothing, WorkersRewriteNothing DEF Next
  <1> QED
    BY <1>1, InvAlways, PTL DEF Spec, RunIsNotRewritten, NotRewritten

=============================================================================
