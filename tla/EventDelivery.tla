---------------------------- MODULE EventDelivery ----------------------------
(***************************************************************************)
(* Application events, from the outbox row committed with a state change   *)
(* (internal/store/event_writer.go) through the relay of                   *)
(* internal/application/outbox_relay.go and the RabbitMQ topology of       *)
(* internal/messaging/rabbitmq.go to the consumers: the no-op ones for     *)
(* comment events and those that send Lark DMs for access events.  Every   *)
(* process runs one of each kind, and a process may overlap the one it     *)
(* replaces.                                                               *)
(*                                                                         *)
(* Relays and consumers crash, publishing and store calls fail with or     *)
(* without having had their effect, leases lapse while a batch is still    *)
(* being published, and the broker redelivers what is not acknowledged,    *)
(* also while a consumer that lost its connection still works on it.       *)
(* Times appear only as "the row's next attempt is due": lease and backoff *)
(* may end at any moment, since one batch may take longer than its lease.  *)
(***************************************************************************)
EXTENDS Naturals, FiniteSets

CONSTANTS
    Events,
    DirectMessages,    \* the Events routed to the Lark DM queue
    Relays,            \* relay loops, overlapping when a process is replaced
    NoopConsumers,     \* consumer loops of the no-op queue, one per process
    DMConsumers,       \* consumer loops of the Lark DM queue, one per process
    NoEvent,
    maxDeliveryTries,
    MaxEvents,         \* bound: events inserted in one behaviour
    MaxCopies          \* bound: copies of one event the broker holds at a time

Consumers == NoopConsumers \cup DMConsumers

ASSUME DeliveryConstants ==
    /\ DirectMessages \subseteq Events
    /\ NoopConsumers \cap DMConsumers = {}
    /\ NoEvent \notin Events
    /\ maxDeliveryTries \in Nat \ {0}
    /\ MaxEvents \in Nat
    /\ MaxCopies \in Nat \ {0}

VARIABLES
    outbox,    \* outbox_events: status, and whether next_attempt_at has come
    relay,     \* per relay: claimed events, the one at work and how it went
    broker,    \* per event, its durable copies: where each is, how often rejected
    dead,      \* events with a copy in the dead-letter queue
    consumer,  \* per consumer loop: the delivery at work
    consumed,  \* message_consumptions (of the queue's consumer name)
    sends      \* DM requests the provider accepted, counted up to 2

vars == <<outbox, relay, broker, dead, consumer, consumed, sends>>

Copies == 1..MaxCopies
AtMost(bound, n) == IF n < bound THEN n ELSE bound
NoCopy == 0

\* Rejections of one delivery, counted up to the last that makes a difference.
Rejections == 0..(maxDeliveryTries - 1)

\* The bindings of the two queues, as the loops that consume what is routed there.
ConsumersOf(e) == IF e \in DirectMessages THEN DMConsumers ELSE NoopConsumers

TypeOK ==
    /\ outbox \in [Events -> [status : {"absent", "pending", "publishing", "published"}, due : BOOLEAN]]
    /\ relay \in [Relays -> [batch : SUBSET Events, event : Events \cup {NoEvent},
                             result : {"none", "confirmed", "failed"}]]
    /\ broker \in [Events -> [Copies -> [place : {"free", "ready", "unacked", "retry"},
                                         deaths : Rejections]]]
    /\ dead \subseteq Events
    /\ consumer \in [Consumers -> [event : Events \cup {NoEvent}, copy : Copies \cup {NoCopy},
                                   deaths : Rejections,
                                   stage : {"idle", "taken", "new", "sent", "dying", "done"}]]
    /\ consumed \subseteq Events
    /\ sends \in [Events -> 0..2]

IdleRelay == [batch |-> {}, event |-> NoEvent, result |-> "none"]
FreeCopy == [place |-> "free", deaths |-> 0]
IdleConsumer == [event |-> NoEvent, copy |-> NoCopy, deaths |-> 0, stage |-> "idle"]

Init ==
    /\ outbox = [e \in Events |-> [status |-> "absent", due |-> FALSE]]
    /\ relay = [i \in Relays |-> IdleRelay]
    /\ broker = [e \in Events |-> [c \in Copies |-> FreeCopy]]
    /\ dead = {}
    /\ consumer = [k \in Consumers |-> IdleConsumer]
    /\ consumed = {}
    /\ sends = [e \in Events |-> 0]

------------------------------------------------------------------------------
(* The outbox and its relay *)

Enqueued(e) == outbox[e].status # "absent"

\* insertEvent, in the transaction of the change it reports; a dedupe_key that
\* is already there adds nothing.
insertEvent(e) ==
    /\ outbox[e].status = "absent"
    /\ Cardinality({f \in Events : Enqueued(f)}) < MaxEvents
    /\ outbox' = [outbox EXCEPT ![e] = [status |-> "pending", due |-> TRUE]]
    /\ UNCHANGED <<relay, broker, dead, consumer, consumed, sends>>

\* The backoff of a failed row or the 30 second lease of a claimed one ends.
NextAttemptComes(e) ==
    /\ outbox[e].status \in {"pending", "publishing"} /\ ~outbox[e].due
    /\ outbox' = [outbox EXCEPT ![e] = [status |-> @.status, due |-> TRUE]]
    /\ UNCHANGED <<relay, broker, dead, consumer, consumed, sends>>

ClaimBatch(i) ==
    LET candidates == {e \in Events : outbox[e].status \in {"pending", "publishing"} /\ outbox[e].due}
    IN  /\ relay[i] = IdleRelay
        /\ candidates # {}
        /\ outbox' = [e \in Events |-> IF e \in candidates THEN [status |-> "publishing", due |-> FALSE]
                                       ELSE outbox[e]]
        /\ relay' = [relay EXCEPT ![i] = [batch |-> candidates, event |-> NoEvent, result |-> "none"]]
        /\ UNCHANGED <<broker, dead, consumer, consumed, sends>>

Put(e, c, place, deaths) ==
    broker' = [broker EXCEPT ![e][c] = [place |-> place, deaths |-> deaths]]

\* A persistent copy enters the queue the event's type is bound to.
Routed(e) ==
    \E c \in Copies :
        /\ broker[e][c].place = "free"
        /\ \A d \in 1..(c - 1) : broker[e][d].place # "free"
        /\ Put(e, c, "ready", 0)

\* Publish fails before the broker has the message, after it has it (timeout,
\* connection lost before the confirm), or the broker confirms.
Publish(i, e) ==
    /\ e \in relay[i].batch /\ relay[i].event = NoEvent
    /\ \/ /\ Routed(e)
          /\ \E result \in {"confirmed", "failed"} :
               relay' = [relay EXCEPT ![i] = [batch |-> @.batch, event |-> e, result |-> result]]
       \/ /\ relay' = [relay EXCEPT ![i] = [batch |-> @.batch, event |-> e, result |-> "failed"]]
          /\ UNCHANGED broker
    /\ UNCHANGED <<outbox, dead, consumer, consumed, sends>>

NextOfBatch(i) ==
    relay' = [relay EXCEPT ![i] = [batch |-> @.batch \ {@.event}, event |-> NoEvent, result |-> "none"]]

\* Mutant of MarkPublished: the row is marked once the message is handed over.
MarkPublishedUnconfirmed(i) ==
    /\ relay[i].event # NoEvent
    /\ outbox' = [outbox EXCEPT ![relay[i].event] = [status |-> "published", due |-> FALSE]]
    /\ NextOfBatch(i)
    /\ UNCHANGED <<broker, dead, consumer, consumed, sends>>

\* By id alone, whatever the row's status and whoever claimed it last.
MarkPublished(i) ==
    /\ relay[i].result = "confirmed"
    /\ outbox' = [outbox EXCEPT ![relay[i].event] = [status |-> "published", due |-> FALSE]]
    /\ NextOfBatch(i)
    /\ UNCHANGED <<broker, dead, consumer, consumed, sends>>

\* By id alone, too: a row another relay has published becomes pending again.
MarkFailed(i) ==
    /\ relay[i].result = "failed"
    /\ outbox' = [outbox EXCEPT ![relay[i].event] = [status |-> "pending", due |-> FALSE]]
    /\ NextOfBatch(i)
    /\ UNCHANGED <<broker, dead, consumer, consumed, sends>>

\* The process dies, or a Mark call fails and PublishPending gives up the batch.
RelayStops(i) ==
    /\ relay[i] # IdleRelay
    /\ relay' = [relay EXCEPT ![i] = IdleRelay]
    /\ UNCHANGED <<outbox, broker, dead, consumer, consumed, sends>>

------------------------------------------------------------------------------
(* The consumers *)

Current(k) == consumer[k].event

\* deliveryAttempt, from the headers the delivery came with.
Deaths(k) == consumer[k].deaths

\* The queue is not consumed exclusively: any idle loop may get the copy.
Take(k, e, c) ==
    /\ k \in ConsumersOf(e)
    /\ consumer[k].stage = "idle"
    /\ broker[e][c].place = "ready"
    /\ Put(e, c, "unacked", broker[e][c].deaths)
    /\ consumer' = [consumer EXCEPT ![k] = [event |-> e, copy |-> c, deaths |-> broker[e][c].deaths,
                                            stage |-> "taken"]]
    /\ UNCHANGED <<outbox, relay, dead, consumed, sends>>

At(k, stage) == consumer[k].stage = stage
Advance(k, stage) == consumer' = [consumer EXCEPT ![k].stage = stage]

\* The delivery is still this loop's: its connection is the one it came over.
Holds(k) == consumer[k].copy # NoCopy

\* The loop is through with its delivery.  An Ack or Nack on a lost connection
\* fails and leaves the copy to the broker; the loop connects again.
Return(k, place, deaths) ==
    /\ IF Holds(k) THEN Put(Current(k), consumer[k].copy, place, deaths) ELSE UNCHANGED broker
    /\ consumer' = [consumer EXCEPT ![k] = IdleConsumer]

Ack(k) == Return(k, "free", 0)

\* Nack without requeue: the DM queue dead-letters to the retry queue and counts
\* it in x-death.
NackToRetry(k) == Return(k, "retry", AtMost(maxDeliveryTries - 1, Deaths(k) + 1))

Requeue(k) == Return(k, "ready", Deaths(k))

\* ConsumeOnce and Ack of a no-op consumer.
ConsumeNoop(k) ==
    /\ At(k, "taken")
    /\ consumed' = consumed \cup {Current(k)}
    /\ Ack(k)
    /\ UNCHANGED <<outbox, relay, dead, sends>>

\* WasConsumed of a DM consumer.
AlreadyConsumed(k) ==
    /\ At(k, "taken")
    /\ Current(k) \in consumed
    /\ Ack(k)
    /\ UNCHANGED <<outbox, relay, dead, consumed, sends>>

\* Mutant of NotYetConsumed: WasConsumed is not asked.
NotAskedIfConsumed(k) ==
    /\ At(k, "taken")
    /\ Advance(k, "new")
    /\ UNCHANGED <<outbox, relay, broker, dead, consumed, sends>>

NotYetConsumed(k) ==
    /\ At(k, "taken")
    /\ Current(k) \notin consumed
    /\ Advance(k, "new")
    /\ UNCHANGED <<outbox, relay, broker, dead, consumed, sends>>

\* A store call fails: WasConsumed or MarkConsumed.
StoreFails(k) ==
    /\ At(k, "taken") \/ At(k, "sent")
    /\ NackToRetry(k)
    /\ UNCHANGED <<outbox, relay, dead, consumed, sends>>

\* The card is accepted by the provider.
CardSent(k) == sends' = [sends EXCEPT ![Current(k)] = AtMost(2, @ + 1)]

Handle(k) ==
    /\ At(k, "new")
    /\ CardSent(k)
    /\ Advance(k, "sent")
    /\ UNCHANGED <<outbox, relay, broker, dead, consumed>>

\* Mutant of HandleFails: the tries are not counted.
HandleFailsRetried(k) ==
    /\ At(k, "new")
    /\ CardSent(k) \/ UNCHANGED sends
    /\ NackToRetry(k)
    /\ UNCHANGED <<outbox, relay, dead, consumed>>

\* An error, possibly of a request the provider accepted: retried unless it is
\* final (a categorized provider refusal) or the tries are used up.
HandleFails(k) ==
    /\ At(k, "new")
    /\ CardSent(k) \/ UNCHANGED sends
    /\ \/ /\ Deaths(k) + 1 < maxDeliveryTries
          /\ NackToRetry(k)
       \/ /\ Advance(k, "dying")
          /\ UNCHANGED broker
    /\ UNCHANGED <<outbox, relay, dead, consumed>>

\* MarkConsumed of a DM consumer.
RecordConsumption(k) ==
    /\ At(k, "sent")
    /\ consumed' = consumed \cup {Current(k)}
    /\ Advance(k, "done")
    /\ UNCHANGED <<outbox, relay, broker, dead, sends>>

\* deadLetter: a confirmed copy for the dead queue, then the acknowledgement.
DeadLetter(k) ==
    /\ At(k, "dying")
    /\ dead' = dead \cup {Current(k)}
    /\ Advance(k, "done")
    /\ UNCHANGED <<outbox, relay, broker, consumed, sends>>

Done(k) ==
    /\ At(k, "done")
    /\ Ack(k)
    /\ UNCHANGED <<outbox, relay, dead, consumed, sends>>

\* The broker gives up the connection or the channel of a loop that is at work
\* (missed heartbeats, a network fault): the copy is ready for anyone, and the
\* loop goes on until an Ack or a Nack tells it.
ConnectionLost(k) ==
    /\ ~At(k, "idle") /\ Holds(k)
    /\ Put(Current(k), consumer[k].copy, "ready", Deaths(k))
    /\ consumer' = [consumer EXCEPT ![k].copy = NoCopy]
    /\ UNCHANGED <<outbox, relay, dead, consumed, sends>>

\* The process dies, a dead letter fails, or a no-op consumer's store call fails:
\* the broker delivers the copy again.
Redelivered(k) ==
    /\ ~At(k, "idle")
    /\ Requeue(k)
    /\ UNCHANGED <<outbox, relay, dead, consumed, sends>>

\* The 30 second TTL of the retry queue returns the copy to the DM queue.
RetryExpires(e, c) ==
    /\ broker[e][c].place = "retry"
    /\ Put(e, c, "ready", broker[e][c].deaths)
    /\ UNCHANGED <<outbox, relay, dead, consumer, consumed, sends>>

ConsumeLarkDM(k) ==
    \/ AlreadyConsumed(k) \/ NotYetConsumed(k) \/ StoreFails(k)
    \/ Handle(k) \/ HandleFails(k) \/ RecordConsumption(k) \/ DeadLetter(k) \/ Done(k)

Next ==
    \/ \E e \in Events : insertEvent(e) \/ NextAttemptComes(e)
    \/ \E i \in Relays : ClaimBatch(i) \/ MarkPublished(i) \/ MarkFailed(i) \/ RelayStops(i)
    \/ \E i \in Relays, e \in Events : Publish(i, e)
    \/ \E e \in Events, c \in Copies : RetryExpires(e, c) \/ \E k \in Consumers : Take(k, e, c)
    \/ \E k \in NoopConsumers : ConsumeNoop(k)
    \/ \E k \in DMConsumers : ConsumeLarkDM(k)
    \/ \E k \in Consumers : ConnectionLost(k) \/ Redelivered(k)

Spec == Init /\ [][Next]_vars

\* The loops go on and what is tried again and again succeeds some time, also in
\* asking the store and the provider before the connection is lost; nothing is
\* assumed of the provider's answer, and crashes may be repeated for ever.
Fairness ==
    /\ \A e \in Events :
         /\ WF_vars(NextAttemptComes(e))
         /\ SF_vars(\E i \in Relays : Publish(i, e) /\ Routed(e))
         /\ WF_vars(\E k \in Consumers, c \in Copies : Take(k, e, c))
         /\ \A c \in Copies : WF_vars(RetryExpires(e, c))
    /\ \A i \in Relays : WF_vars(\/ ClaimBatch(i) \/ MarkPublished(i) \/ MarkFailed(i)
                                 \/ \E e \in Events : Publish(i, e))
    /\ \A k \in NoopConsumers : SF_vars(ConsumeNoop(k))
    /\ \A k \in DMConsumers :
         /\ WF_vars(ConsumeLarkDM(k))
         /\ SF_vars(Holds(k) /\ (AlreadyConsumed(k) \/ NotYetConsumed(k)))
         /\ SF_vars(Holds(k) /\ (Handle(k) \/ HandleFails(k)))
         /\ SF_vars(RecordConsumption(k) \/ DeadLetter(k))

FairSpec == Spec /\ Fairness

------------------------------------------------------------------------------
(* Properties *)

InBroker(e) == \E c \in Copies : broker[e][c].place # "free"
Settled(e) == e \in consumed \/ e \in dead

\* An event is never lost between the outbox, the broker and its consumer: until
\* it is recorded as consumed or dead-lettered, the outbox still holds it for
\* publishing (PublishPending) or a durable copy exists, whatever crashed.
NoEventLost ==
    \A e \in Events : Enqueued(e) => \/ Settled(e)
                                     \/ outbox[e].status # "published"
                                     \/ InBroker(e)

\* The loops that found the event not consumed and may send its DM.
Asked(e) == {k \in DMConsumers : At(k, "new") /\ Current(k) = e}

\* A DM that is recorded as consumed has been accepted by the provider, and the
\* record stops the sending: only a loop that had asked WasConsumed before the
\* record may still send the event, once, although duplicates keep coming from
\* relays, redelivery and overlapping processes (ConsumeLarkDM).  A single
\* consumer is through with its own question when it records, and sends nothing.
ConsumedOnceSent ==
    [][\A e \in DirectMessages :
          /\ e \in consumed' => sends'[e] > 0
          /\ e \in consumed => /\ Asked(e)' \subseteq Asked(e)
                               /\ sends'[e] # sends[e] => Asked(e)' # Asked(e)]_vars

\* Every event is eventually consumed or put in the dead-letter queue for the
\* operator: repeated crashes, a stuck relay, lapsed leases and rejected
\* deliveries delay it, and a provider that always fails ends in the dead queue.
EveryEventSettles == \A e \in Events : Enqueued(e) ~> Settled(e)
==============================================================================
