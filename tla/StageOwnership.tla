--------------------------- MODULE StageOwnership ---------------------------
(***************************************************************************)
(* What a stage Claim promises, without saying how: at most one actor owns *)
(* the current stage of a Task; ownership is given up by its owner, lapses *)
(* at its deadline, or ends when the Task is closed; nobody else can end   *)
(* it, and a closed Task is never owned again.                             *)
(*                                                                         *)
(* The promise is stated in docs/product-model.md ("exactly one active     *)
(* Claim owns the phase", "Claims expire after seven days") and kept by    *)
(* the transactions of internal/store/task_workflow_store.go, which        *)
(* TaskWorkflow models and shows to implement this specification.          *)
(***************************************************************************)
EXTENDS Naturals

CONSTANTS Actors, NoActor, Lifetime

VARIABLES
    holder,    \* the actor that owns the stage, or NoActor
    deadline,  \* when that ownership lapses (0 without a holder)
    closed,    \* the Task is done or cancelled
    by,        \* the actor of the latest recorded event
    clock

ownershipVars == <<holder, deadline, closed, by, clock>>

OwnershipInit ==
    /\ holder = NoActor
    /\ deadline = 0
    /\ closed = FALSE
    /\ by \in Actors
    /\ clock = 0

Lapsed == holder # NoActor /\ deadline <= clock

\* A free or lapsed stage is taken by the acting actor for at most Lifetime.
Take ==
    /\ ~closed
    /\ holder = NoActor \/ Lapsed
    /\ by' \in Actors
    /\ holder' = by'
    /\ deadline' \in 0..(clock + Lifetime)
    /\ UNCHANGED <<closed, clock>>

\* The owner gives the stage up, which may close the Task.
Finish ==
    /\ holder # NoActor
    /\ by' = holder
    /\ holder' = NoActor /\ deadline' = 0
    /\ closed' \in BOOLEAN
    /\ UNCHANGED clock

Lapse ==
    /\ Lapsed
    /\ by' \in Actors
    /\ holder' = NoActor /\ deadline' = 0
    /\ UNCHANGED <<closed, clock>>

\* Any actor may close the Task, owned or not.
Close ==
    /\ ~closed
    /\ by' \in Actors
    /\ holder' = NoActor /\ deadline' = 0
    /\ closed' = TRUE
    /\ UNCHANGED clock

\* Work that leaves ownership alone.
Act ==
    /\ by' \in Actors
    /\ UNCHANGED <<holder, deadline, closed, clock>>

Tick ==
    /\ clock' = clock + 1
    /\ UNCHANGED <<holder, deadline, closed, by>>

OwnershipNext == Take \/ Finish \/ Lapse \/ Close \/ Act \/ Tick

OwnershipSpec == OwnershipInit /\ [][OwnershipNext]_ownershipVars
=============================================================================
