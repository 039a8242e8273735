------------------------- MODULE EventDeliveryProofs -------------------------
(***************************************************************************)
(* For any number of events, relays, consumers and copies: no event is     *)
(* lost, and the consumption record of a DM stops its sending.             *)
(***************************************************************************)
EXTENDS EventDelivery, TLAPS

\* A relay works on events that are in the outbox; one it holds a confirm for
\* has reached a queue.
RelayOK(i) ==
    /\ \A e \in relay[i].batch : Enqueued(e)
    /\ relay[i].event # NoEvent => Enqueued(relay[i].event)
    /\ relay[i].result # "none" => relay[i].event # NoEvent
    /\ relay[i].result = "confirmed" => InBroker(relay[i].event) \/ Settled(relay[i].event)

\* A delivery at work is of an event of the loop's queue, it is an unacknowledged
\* copy as long as the connection lasts, and its stage tells what is known of the
\* event.
ConsumerOK(k) ==
    /\ Holds(k) => consumer[k].stage # "idle"
    /\ consumer[k].stage # "idle" =>
         /\ Current(k) \in Events
         /\ k \in ConsumersOf(Current(k))
         /\ Holds(k) => broker[Current(k)][consumer[k].copy].place = "unacked"
         /\ consumer[k].stage = "sent" => sends[Current(k)] > 0
         /\ consumer[k].stage = "done" => Settled(Current(k))

\* The broker has handed a copy to one loop at a time.
HoldersDiffer ==
    \A j, k \in Consumers :
        j # k /\ Holds(j) /\ Holds(k) =>
            Current(j) # Current(k) \/ consumer[j].copy # consumer[k].copy

ConsumedWasSent == \A e \in DirectMessages : e \in consumed => sends[e] > 0

DeliveryInv ==
    /\ TypeOK
    /\ \A i \in Relays : RelayOK(i)
    /\ \A k \in Consumers : ConsumerOK(k)
    /\ HoldersDiffer
    /\ ConsumedWasSent
    /\ NoEventLost

OutboxRows == [status : {"absent", "pending", "publishing", "published"}, due : BOOLEAN]
RelayRows == [batch : SUBSET Events, event : Events \cup {NoEvent}, result : {"none", "confirmed", "failed"}]
Rows == [place : {"free", "ready", "unacked", "retry"}, deaths : Rejections]

\* What Put does to the broker's copies, and to whether an event has one.
LEMMA PutFacts ==
    ASSUME TypeOK, NEW e \in Events, NEW c \in Copies,
           NEW place \in {"free", "ready", "unacked", "retry"}, NEW n \in Rejections,
           Put(e, c, place, n)
    PROVE  /\ broker' \in [Events -> [Copies -> Rows]]
           /\ broker'[e][c].place = place
           /\ \A f \in Events : \A d \in Copies : (f # e \/ d # c) => broker'[f][d] = broker[f][d]
           /\ \A f \in Events : f # e \/ place # "free" => (InBroker(f) => InBroker(f)')
  <1> DEFINE row == [place |-> place, deaths |-> n]
  <1>1. row \in Rows /\ row.place = place
    BY DEF Rows
  <1>2. broker \in [Events -> [Copies -> Rows]]
    BY DEF TypeOK, Rows
  <1> HIDE DEF row
  <1>3. broker' = [broker EXCEPT ![e] = [broker[e] EXCEPT ![c] = row]]
    BY DEF Put, row
  <1>4. [broker[e] EXCEPT ![c] = row] \in [Copies -> Rows]
    BY <1>1, <1>2
  <1>5. broker' \in [Events -> [Copies -> Rows]]
    BY <1>2, <1>3, <1>4
  <1>6. broker'[e] = [broker[e] EXCEPT ![c] = row] /\ \A f \in Events : f # e => broker'[f] = broker[f]
    BY <1>2, <1>3
  <1>7. broker'[e][c] = row /\ \A f \in Events : \A d \in Copies : (f # e \/ d # c) => broker'[f][d] = broker[f][d]
    BY <1>2, <1>6
  <1>8. \A f \in Events : f # e \/ place # "free" => (InBroker(f) => InBroker(f)')
    BY <1>1, <1>7 DEF InBroker
  <1> QED
    BY <1>1, <1>5, <1>7, <1>8

\* What an assignment to one relay's state does to all of them.
LEMMA RelaySet ==
    ASSUME TypeOK, NEW i \in Relays, NEW b \in SUBSET Events, NEW e \in Events \cup {NoEvent},
           NEW result \in {"none", "confirmed", "failed"},
           relay' = [relay EXCEPT ![i] = [batch |-> b, event |-> e, result |-> result]]
    PROVE  /\ relay'[i] = [batch |-> b, event |-> e, result |-> result]
           /\ \A j \in Relays : j # i => relay'[j] = relay[j]
           /\ relay' \in [Relays -> RelayRows]
  <1> DEFINE row == [batch |-> b, event |-> e, result |-> result]
  <1>1. row \in RelayRows
    BY DEF RelayRows
  <1>2. relay \in [Relays -> RelayRows]
    BY DEF TypeOK, RelayRows
  <1> HIDE DEF row
  <1>3. relay' = [relay EXCEPT ![i] = row]
    BY DEF row
  <1>4. relay'[i] = row /\ (\A j \in Relays : j # i => relay'[j] = relay[j]) /\ relay' \in [Relays -> RelayRows]
    BY <1>1, <1>2, <1>3
  <1> QED
    BY <1>4 DEF row

\* DeliveryInv holds before anything is enqueued.
LEMMA InitDelivery == Init => DeliveryInv
  <1> SUFFICES ASSUME Init PROVE DeliveryInv
    OBVIOUS
  <1> USE DEF Init, IdleRelay, IdleConsumer, FreeCopy
  <1>1. 1 \in Copies /\ 0 \in Rejections
    BY DeliveryConstants DEF Copies, Rejections
  <1>2. TypeOK
    BY <1>1 DEF TypeOK
  <1>3. \A i \in Relays : RelayOK(i)
    BY DEF RelayOK
  <1>4. (\A k \in Consumers : ConsumerOK(k)) /\ HoldersDiffer
    BY DEF ConsumerOK, HoldersDiffer, Holds
  <1> QED
    BY <1>2, <1>3, <1>4 DEF DeliveryInv, ConsumedWasSent, NoEventLost, Enqueued

------------------------------------------------------------------------------
(* Frames *)

\* What every step keeps of an event: it stays in the outbox, its record stays,
\* and its last copy goes only when it is settled.
EventKept(e) ==
    /\ Enqueued(e) => Enqueued(e)'
    /\ Settled(e) => Settled(e)'
    /\ InBroker(e) => InBroker(e)' \/ Settled(e)'

\* Relays are indifferent to steps that keep the events.
LEMMA RelaysKept ==
    ASSUME DeliveryInv, TypeOK', \A e \in Events : EventKept(e), NEW i \in Relays, relay'[i] = relay[i]
    PROVE  RelayOK(i)'
  <1>1. RelayOK(i) /\ relay[i].batch \subseteq Events /\ relay[i].event \in Events \cup {NoEvent}
    BY DEF DeliveryInv, TypeOK
  <1> QED
    BY <1>1 DEF RelayOK, EventKept

\* So is NoEventLost, when the outbox does not change.
LEMMA NothingLost ==
    ASSUME DeliveryInv, \A e \in Events : EventKept(e), outbox' = outbox
    PROVE  NoEventLost'
  BY DEF DeliveryInv, NoEventLost, EventKept, Enqueued

\* A loop is indifferent to steps that leave its delivery and the copy it holds
\* alone and take back no send.
LEMMA ConsumerKept ==
    ASSUME DeliveryInv, \A e \in Events : EventKept(e), NEW k \in Consumers, consumer'[k] = consumer[k],
           consumer[k].stage # "idle" =>
               /\ Holds(k) => broker'[Current(k)][consumer[k].copy].place = "unacked"
               /\ sends[Current(k)] > 0 => sends'[Current(k)] > 0
    PROVE  ConsumerOK(k)'
  <1>1. ConsumerOK(k)
    BY DEF DeliveryInv
  <1> QED
    BY <1>1 DEF ConsumerOK, Current, EventKept, ConsumersOf, Holds

\* All of them are indifferent to steps that change no loop, no unacknowledged
\* copy and no send.
LEMMA ConsumersKept ==
    ASSUME DeliveryInv, \A e \in Events : EventKept(e), UNCHANGED <<consumer, sends>>,
           \A f \in Events : \A d \in Copies : broker[f][d].place = "unacked" => broker'[f][d].place = "unacked"
    PROVE  (\A k \in Consumers : ConsumerOK(k)') /\ HoldersDiffer'
  <1>1. ASSUME NEW k \in Consumers PROVE ConsumerOK(k)'
    <2>1. ConsumerOK(k) /\ consumer[k].copy \in Copies \cup {NoCopy}
      BY Zenon DEF DeliveryInv, TypeOK
    <2> QED
      BY <2>1, ConsumerKept DEF ConsumerOK, Holds
  <1>2. HoldersDiffer'
    BY Zenon DEF DeliveryInv, HoldersDiffer, Holds, Current
  <1> QED
    BY <1>1, <1>2

\* A step of the outbox or of a relay that publishes nothing.
LEMMA OutboxFrame ==
    ASSUME DeliveryInv, TypeOK', UNCHANGED <<broker, dead, consumer, consumed, sends>>,
           \A e \in Events : Enqueued(e) => Enqueued(e)',
           \A i \in Relays : RelayOK(i)',
           NoEventLost'
    PROVE  DeliveryInv'
  <1>1. \A e \in Events : EventKept(e)
    BY Zenon DEF EventKept, Settled, InBroker
  <1>2. (\A k \in Consumers : ConsumerOK(k)') /\ HoldersDiffer'
    BY <1>1, ConsumersKept
  <1>3. ConsumedWasSent'
    BY DEF DeliveryInv, ConsumedWasSent
  <1> QED
    BY <1>2, <1>3 DEF DeliveryInv

\* insertEvent, NextAttemptComes and ClaimBatch leave the rows of the outbox to
\* be published.
LEMMA RowsKeepInv ==
    ASSUME DeliveryInv, NEW e \in Events, insertEvent(e) \/ NextAttemptComes(e)
    PROVE  DeliveryInv'
  <1>1. TypeOK
    BY DEF DeliveryInv
  <1>2. UNCHANGED <<relay, broker, dead, consumer, consumed, sends>>
    BY DEF insertEvent, NextAttemptComes
  <1>3. /\ outbox' \in [Events -> OutboxRows]
        /\ outbox'[e].status \in {"pending", "publishing"}
        /\ \A f \in Events : f # e => outbox'[f] = outbox[f]
    <2>1. outbox \in [Events -> OutboxRows]
      BY <1>1 DEF TypeOK, OutboxRows
    <2>2. PICK status \in {"pending", "publishing"} : outbox' = [outbox EXCEPT ![e] = [status |-> status, due |-> TRUE]]
      <3>1. CASE insertEvent(e)
        BY <3>1 DEF insertEvent
      <3>2. CASE NextAttemptComes(e)
        BY <3>2, Zenon DEF NextAttemptComes
      <3> QED
        BY <3>1, <3>2
    <2> DEFINE row == [status |-> status, due |-> TRUE]
    <2>3. row \in OutboxRows /\ row.status = status
      BY <2>2 DEF OutboxRows
    <2> HIDE DEF row
    <2>4. outbox' = [outbox EXCEPT ![e] = row]
      BY <2>2 DEF row
    <2> QED
      BY <2>1, <2>2, <2>3, <2>4, Zenon
  <1>4. TypeOK'
    BY <1>1, <1>2, <1>3 DEF TypeOK, OutboxRows
  <1>5. \A f \in Events : Enqueued(f) => Enqueued(f)'
    BY <1>3 DEF Enqueued
  <1>6. \A f \in Events : EventKept(f)
    BY <1>2, <1>5 DEF EventKept, Settled, InBroker
  <1>7. \A i \in Relays : RelayOK(i)'
    BY <1>2, <1>4, <1>6, RelaysKept
  <1>8. NoEventLost'
    BY <1>2, <1>3 DEF DeliveryInv, NoEventLost, Enqueued, Settled, InBroker
  <1> QED
    BY <1>2, <1>4, <1>5, <1>7, <1>8, OutboxFrame

\* ClaimBatch takes rows that are still to be published.
LEMMA ClaimKeepsInv ==
    ASSUME DeliveryInv, NEW i \in Relays, ClaimBatch(i)
    PROVE  DeliveryInv'
  <1> DEFINE candidates == {e \in Events : outbox[e].status \in {"pending", "publishing"} /\ outbox[e].due}
  <1>1. TypeOK
    BY DEF DeliveryInv
  <1>2. UNCHANGED <<broker, dead, consumer, consumed, sends>>
    BY DEF ClaimBatch
  <1>3. /\ outbox' \in [Events -> OutboxRows]
        /\ \A f \in Events : \/ outbox'[f] = outbox[f]
                             \/ outbox'[f].status = "publishing"
        /\ \A f \in candidates : outbox'[f].status = "publishing"
    <2> DEFINE row == [status |-> "publishing", due |-> FALSE]
    <2>1. outbox \in [Events -> OutboxRows]
      BY <1>1 DEF TypeOK, OutboxRows
    <2>2. row \in OutboxRows /\ row.status = "publishing"
      BY DEF OutboxRows
    <2>3. outbox' = [e \in Events |-> IF e \in candidates THEN row ELSE outbox[e]]
      BY DEF ClaimBatch
    <2> HIDE DEF row, candidates
    <2>4. \A f \in Events : outbox'[f] = IF f \in candidates THEN row ELSE outbox[f]
      BY <2>3
    <2>5. candidates \subseteq Events
      BY DEF candidates
    <2> QED
      BY <2>1, <2>2, <2>3, <2>4, <2>5
  <1>4. candidates \subseteq Events
    OBVIOUS
  <1>5. relay' = [relay EXCEPT ![i] = [batch |-> candidates, event |-> NoEvent, result |-> "none"]]
    BY DEF ClaimBatch
  <1> HIDE DEF candidates
  <1>11. /\ relay'[i] = [batch |-> candidates, event |-> NoEvent, result |-> "none"]
         /\ \A j \in Relays : j # i => relay'[j] = relay[j]
         /\ relay' \in [Relays -> RelayRows]
    BY <1>1, <1>4, <1>5, RelaySet, Zenon
  <1>6. TypeOK'
    BY <1>1, <1>2, <1>3, <1>11 DEF TypeOK, OutboxRows, RelayRows
  <1>7. \A f \in Events : EventKept(f)
    BY <1>2, <1>3 DEF EventKept, Settled, InBroker, Enqueued
  <1>8. RelayOK(i)'
    <2>1. \A e \in candidates : Enqueued(e)'
      BY <1>3 DEF Enqueued
    <2> QED
      BY <1>11, <2>1 DEF RelayOK
  <1>9. \A j \in Relays : RelayOK(j)'
    BY <1>6, <1>7, <1>8, <1>11, RelaysKept
  <1>10. NoEventLost'
    BY <1>2, <1>3 DEF DeliveryInv, NoEventLost, Enqueued, Settled, InBroker
  <1> QED
    BY <1>2, <1>6, <1>7, <1>9, <1>10, OutboxFrame DEF EventKept

\* The marks: a row becomes published only for an event that reached a queue.
LEMMA MarkKeepsInv ==
    ASSUME DeliveryInv, NEW i \in Relays, MarkPublished(i) \/ MarkFailed(i)
    PROVE  DeliveryInv'
  <1> DEFINE e == relay[i].event
  <1>1. TypeOK /\ RelayOK(i)
    BY DEF DeliveryInv
  <1>2. UNCHANGED <<broker, dead, consumer, consumed, sends>>
    BY DEF MarkPublished, MarkFailed
  <1>3. /\ relay[i].batch \in SUBSET Events /\ e \in Events /\ Enqueued(e)
        /\ relay[i].result = "confirmed" => InBroker(e) \/ Settled(e)
    BY <1>1 DEF TypeOK, RelayOK, MarkPublished, MarkFailed
  <1>4. relay' = [relay EXCEPT ![i] = [batch |-> relay[i].batch \ {e}, event |-> NoEvent, result |-> "none"]]
    BY DEF MarkPublished, MarkFailed, NextOfBatch
  <1> HIDE DEF e
  <1>5. PICK b \in SUBSET Events : b = relay[i].batch \ {e}
    BY <1>3, Zenon
  <1>6. /\ relay'[i] = [batch |-> b, event |-> NoEvent, result |-> "none"]
        /\ \A j \in Relays : j # i => relay'[j] = relay[j]
        /\ relay' \in [Relays -> RelayRows]
    BY <1>1, <1>4, <1>5, RelaySet, Zenon
  <1>7. PICK status \in {"pending", "published"} :
           /\ outbox' = [outbox EXCEPT ![e] = [status |-> status, due |-> FALSE]]
           /\ status = "published" => relay[i].result = "confirmed"
    BY DEF MarkPublished, MarkFailed, e
  <1>8. /\ outbox' \in [Events -> OutboxRows]
        /\ outbox'[e].status = status
        /\ \A f \in Events : f # e => outbox'[f] = outbox[f]
    <2> DEFINE row == [status |-> status, due |-> FALSE]
    <2>1. row \in OutboxRows /\ row.status = status
      BY <1>7 DEF OutboxRows
    <2>2. outbox \in [Events -> OutboxRows]
      BY <1>1 DEF TypeOK, OutboxRows
    <2> HIDE DEF row
    <2>3. outbox' = [outbox EXCEPT ![e] = row]
      BY <1>7 DEF row
    <2> QED
      BY <1>3, <2>1, <2>2, <2>3
  <1>9. TypeOK'
    BY <1>1, <1>2, <1>6, <1>8 DEF TypeOK, OutboxRows, RelayRows
  <1>10. \A f \in Events : EventKept(f)
    BY <1>2, <1>7, <1>8 DEF EventKept, Settled, InBroker, Enqueued
  <1>11. RelayOK(i)'
    <2>1. \A f \in b : Enqueued(f)'
      BY <1>1, <1>5, <1>10 DEF RelayOK, EventKept
    <2> QED
      BY <1>6, <2>1 DEF RelayOK
  <1>12. \A j \in Relays : RelayOK(j)'
    BY <1>6, <1>9, <1>10, <1>11, RelaysKept
  <1>13. NoEventLost'
    BY <1>2, <1>3, <1>7, <1>8 DEF DeliveryInv, NoEventLost, Enqueued, Settled, InBroker
  <1> QED
    BY <1>2, <1>9, <1>10, <1>12, <1>13, OutboxFrame DEF EventKept

\* A relay that stops leaves its rows to the next claim.
LEMMA StopKeepsInv ==
    ASSUME DeliveryInv, NEW i \in Relays, RelayStops(i)
    PROVE  DeliveryInv'
  <1>1. TypeOK
    BY DEF DeliveryInv
  <1>2. UNCHANGED <<outbox, broker, dead, consumer, consumed, sends>>
    BY DEF RelayStops
  <1>3. relay' = [relay EXCEPT ![i] = [batch |-> {}, event |-> NoEvent, result |-> "none"]]
    BY DEF RelayStops, IdleRelay
  <1>4. /\ relay'[i] = [batch |-> {}, event |-> NoEvent, result |-> "none"]
        /\ \A j \in Relays : j # i => relay'[j] = relay[j]
        /\ relay' \in [Relays -> RelayRows]
    BY <1>1, <1>3, RelaySet, Zenon
  <1>5. TypeOK'
    BY <1>1, <1>2, <1>4 DEF TypeOK, RelayRows
  <1>6. \A f \in Events : EventKept(f)
    BY <1>2 DEF EventKept, Settled, InBroker, Enqueued
  <1>7. \A j \in Relays : RelayOK(j)'
    <2>1. RelayOK(i)'
      BY <1>4 DEF RelayOK
    <2> QED
      BY <1>4, <1>5, <1>6, <2>1, RelaysKept
  <1> QED
    BY <1>2, <1>5, <1>6, <1>7, NothingLost, OutboxFrame DEF EventKept

\* Publish: a confirm means that a copy is in the queue.
LEMMA PublishKeepsInv ==
    ASSUME DeliveryInv, NEW i \in Relays, NEW e \in Events, Publish(i, e)
    PROVE  DeliveryInv'
  <1>1. TypeOK /\ RelayOK(i)
    BY DEF DeliveryInv
  <1>2. UNCHANGED <<outbox, dead, consumer, consumed, sends>> /\ e \in relay[i].batch
    BY DEF Publish
  <1>3. relay[i].batch \in SUBSET Events
    BY <1>1 DEF TypeOK
  <1>4. /\ broker' \in [Events -> [Copies -> Rows]]
        /\ \A f \in Events : InBroker(f) => InBroker(f)'
        /\ \A f \in Events : \A d \in Copies : broker[f][d].place = "unacked" => broker'[f][d].place = "unacked"
        /\ Routed(e) => InBroker(e)'
    <2>1. CASE Routed(e)
      <3>1. PICK c \in Copies : broker[e][c].place = "free" /\ Put(e, c, "ready", 0)
        BY <2>1 DEF Routed
      <3>2. 0 \in Rejections
        BY DeliveryConstants DEF Rejections
      <3>3. /\ broker' \in [Events -> [Copies -> Rows]]
            /\ broker'[e][c].place = "ready"
            /\ \A f \in Events : \A d \in Copies : (f # e \/ d # c) => broker'[f][d] = broker[f][d]
            /\ \A f \in Events : InBroker(f) => InBroker(f)'
        BY <1>1, <3>1, <3>2, PutFacts
      <3> QED
        BY <3>1, <3>3 DEF InBroker
    <2>2. CASE UNCHANGED broker /\ ~Routed(e)
      BY <1>1, <2>2 DEF TypeOK, Rows, InBroker
    <2> QED
      BY <2>1, <2>2 DEF Publish
  <1>5. PICK result \in {"confirmed", "failed"} :
           /\ relay' = [relay EXCEPT ![i] = [batch |-> relay[i].batch, event |-> e, result |-> result]]
           /\ result = "confirmed" => Routed(e)
    BY DEF Publish
  <1>6. /\ relay'[i] = [batch |-> relay[i].batch, event |-> e, result |-> result]
        /\ \A j \in Relays : j # i => relay'[j] = relay[j]
        /\ relay' \in [Relays -> RelayRows]
    BY <1>1, <1>3, <1>5, RelaySet, Zenon
  <1>7. TypeOK'
    BY <1>1, <1>2, <1>4, <1>6 DEF TypeOK, RelayRows, Rows
  <1>8. \A f \in Events : EventKept(f)
    BY <1>2, <1>4 DEF EventKept, Settled, Enqueued
  <1>9. \A j \in Relays : RelayOK(j)'
    <2>1. e # NoEvent
      BY DeliveryConstants
    <2>2. (\A f \in relay[i].batch : Enqueued(f)') /\ Enqueued(e)'
      BY <1>1, <1>2 DEF RelayOK, Enqueued
    <2>3. result = "confirmed" => InBroker(e)'
      BY <1>4, <1>5
    <2>4. RelayOK(i)'
      BY <1>6, <2>1, <2>2, <2>3 DEF RelayOK
    <2> QED
      BY <1>6, <1>7, <1>8, <2>4, RelaysKept
  <1>10. (\A k \in Consumers : ConsumerOK(k)') /\ HoldersDiffer'
    BY <1>2, <1>4, <1>8, ConsumersKept
  <1>11. ConsumedWasSent'
    BY <1>2, Zenon DEF DeliveryInv, ConsumedWasSent
  <1> QED
    BY <1>2, <1>7, <1>8, <1>9, <1>10, <1>11, NothingLost DEF DeliveryInv

------------------------------------------------------------------------------
(* The consumers *)

Stages == {"idle", "taken", "new", "sent", "dying", "done"}
Deliveries == [event : Events \cup {NoEvent}, copy : Copies \cup {NoCopy}, deaths : Rejections, stage : Stages]

\* What a step of loop k on event e must show: it leaves the copies the others
\* hold alone, gives up the event's last copy only when it is settled, and
\* records only what was sent.
LEMMA ConsumerStep ==
    ASSUME DeliveryInv, NEW k \in Consumers, NEW e \in Events,
           UNCHANGED <<outbox, relay>>,
           NEW delivery \in Deliveries, consumer' = [consumer EXCEPT ![k] = delivery],
           broker' \in [Events -> [Copies -> Rows]],
           \A p \in Consumers : p # k /\ consumer[p].stage # "idle" /\ Holds(p) =>
               broker'[Current(p)][consumer[p].copy].place = "unacked",
           \A f \in Events : InBroker(f) => InBroker(f)' \/ (f = e /\ Settled(e)'),
           consumed \subseteq consumed', consumed' \subseteq consumed \cup {e},
           dead \subseteq dead', dead' \subseteq Events,
           sends' \in [Events -> 0..2],
           \A f \in Events : sends[f] > 0 => sends'[f] > 0,
           e \in DirectMessages /\ e \in consumed' => sends'[e] > 0,
           ConsumerOK(k)', HoldersDiffer'
    PROVE  DeliveryInv'
  <1>1. TypeOK
    BY DEF DeliveryInv
  <1>2. consumer \in [Consumers -> Deliveries]
    BY <1>1, Zenon DEF TypeOK, Deliveries, Stages
  <1>3. consumer' \in [Consumers -> Deliveries] /\ \A p \in Consumers : p # k => consumer'[p] = consumer[p]
    BY <1>2
  <1>4. TypeOK'
    BY <1>1, <1>3 DEF TypeOK, Deliveries, Stages, Rows
  <1>5. \A f \in Events : EventKept(f)
    BY DEF EventKept, Settled, Enqueued
  <1>6. ASSUME NEW p \in Consumers, p # k PROVE ConsumerOK(p)'
    <2>1. ConsumerOK(p)
      BY DEF DeliveryInv
    <2>2. ASSUME consumer[p].stage # "idle"
          PROVE  /\ Holds(p) => broker'[Current(p)][consumer[p].copy].place = "unacked"
                 /\ sends[Current(p)] > 0 => sends'[Current(p)] > 0
      BY <1>6, <2>1, <2>2 DEF ConsumerOK
    <2> QED
      BY <1>3, <1>5, <1>6, <2>2, ConsumerKept
  <1>7. ConsumedWasSent'
    BY <1>1, DeliveryConstants, Zenon DEF DeliveryInv, ConsumedWasSent, TypeOK
  <1>8. \A i \in Relays : RelayOK(i)'
    BY <1>4, <1>5, RelaysKept
  <1> QED
    BY <1>4, <1>5, <1>6, <1>7, <1>8, NothingLost, Zenon DEF DeliveryInv

\* The facts a loop at work starts from.
LEMMA AtWork ==
    ASSUME DeliveryInv, NEW k \in Consumers, consumer[k].stage # "idle"
    PROVE  /\ Current(k) \in Events
           /\ k \in ConsumersOf(Current(k))
           /\ Holds(k) => consumer[k].copy \in Copies
           /\ Deaths(k) \in Rejections /\ 0 \in Rejections
           /\ AtMost(maxDeliveryTries - 1, Deaths(k) + 1) \in Rejections
           /\ k \in DMConsumers => Current(k) \in DirectMessages
           /\ k \in NoopConsumers => Current(k) \notin DirectMessages
  <1>1. TypeOK /\ ConsumerOK(k)
    BY DEF DeliveryInv
  <1>2. /\ Current(k) \in Events
        /\ k \in ConsumersOf(Current(k))
    BY <1>1 DEF ConsumerOK
  <1>3. Deaths(k) \in Rejections /\ (Holds(k) => consumer[k].copy \in Copies)
    BY <1>1 DEF TypeOK, Deaths, Holds
  <1>4. 0 \in Rejections /\ AtMost(maxDeliveryTries - 1, Deaths(k) + 1) \in Rejections
    BY <1>3, DeliveryConstants DEF AtMost, Rejections
  <1> QED
    BY <1>2, <1>3, <1>4, DeliveryConstants DEF ConsumersOf

\* A step of loop k that changes no copy but its own leaves the others theirs,
\* and the holders stay different when k keeps or drops its copy.
LEMMA OthersHold ==
    ASSUME DeliveryInv, NEW k \in Consumers, consumer[k].stage # "idle",
           \A f \in Events : \A d \in Copies :
               ~(Holds(k) /\ f = Current(k) /\ d = consumer[k].copy) => broker'[f][d] = broker[f][d],
           NEW delivery \in Deliveries, consumer' = [consumer EXCEPT ![k] = delivery],
           delivery.copy # NoCopy => delivery.event = Current(k) /\ delivery.copy = consumer[k].copy
    PROVE  /\ \A p \in Consumers : p # k /\ consumer[p].stage # "idle" /\ Holds(p) =>
                  broker'[Current(p)][consumer[p].copy].place = "unacked"
           /\ HoldersDiffer'
  <1>1. TypeOK /\ HoldersDiffer
    BY DEF DeliveryInv
  <1>2. ASSUME NEW p \in Consumers, p # k, consumer[p].stage # "idle", Holds(p)
        PROVE  broker'[Current(p)][consumer[p].copy].place = "unacked"
    <2>1. Current(p) \in Events /\ consumer[p].copy \in Copies
      BY <1>2, AtWork
    <2>2. broker[Current(p)][consumer[p].copy].place = "unacked"
      BY <1>2 DEF DeliveryInv, ConsumerOK
    <2>3. ~(Holds(k) /\ Current(p) = Current(k) /\ consumer[p].copy = consumer[k].copy)
      BY <1>1, <1>2 DEF HoldersDiffer
    <2> QED
      BY <2>1, <2>2, <2>3, Zenon
  <1>3. consumer'[k] = delivery /\ \A p \in Consumers : p # k => consumer'[p] = consumer[p]
    BY <1>1 DEF TypeOK
  <1>4. HoldersDiffer'
    BY <1>1, <1>3 DEF HoldersDiffer, Holds, Current
  <1> QED
    BY <1>2, <1>4

\* Giving the delivery back, or acknowledging one that is settled.
LEMMA GiveBack ==
    ASSUME DeliveryInv, NEW k \in Consumers, consumer[k].stage # "idle",
           NEW place \in {"free", "ready", "retry"}, NEW n \in Rejections,
           Return(k, place, n),
           UNCHANGED <<outbox, relay, dead>>,
           consumed \subseteq consumed', consumed' \subseteq consumed \cup {Current(k)},
           sends' \in [Events -> 0..2],
           \A f \in Events : sends[f] > 0 => sends'[f] > 0,
           Current(k) \in DirectMessages /\ Current(k) \in consumed' => sends'[Current(k)] > 0,
           place = "free" => Current(k) \in consumed' \cup dead'
    PROVE  DeliveryInv'
  <1>1. PICK e \in Events : e = Current(k)
    BY AtWork
  <1>2. TypeOK
    BY DEF DeliveryInv
  <1>3. /\ broker' \in [Events -> [Copies -> Rows]]
        /\ \A f \in Events : \A d \in Copies : ~(Holds(k) /\ f = e /\ d = consumer[k].copy) => broker'[f][d] = broker[f][d]
        /\ \A f \in Events : f # e \/ place # "free" => (InBroker(f) => InBroker(f)')
    <2>1. CASE Holds(k)
      <3>1. PICK c \in Copies : c = consumer[k].copy
        BY <2>1, AtWork
      <3>2. Put(e, c, place, n)
        BY <1>1, <2>1, <3>1 DEF Return
      <3> QED
        BY <1>2, <2>1, <3>1, <3>2, PutFacts
    <2>2. CASE ~Holds(k)
      <3>1. UNCHANGED broker
        BY <2>2 DEF Return
      <3> QED
        BY <1>2, <3>1 DEF TypeOK, Rows, InBroker
    <2> QED
      BY <2>1, <2>2
  <1>4. \A f \in Events : InBroker(f) => InBroker(f)' \/ (f = e /\ Settled(e)')
    <2>1. place = "free" => Settled(e)'
      BY <1>1 DEF Settled
    <2> QED
      BY <1>3, <2>1
  <1>5. IdleConsumer \in Deliveries /\ IdleConsumer.stage = "idle" /\ IdleConsumer.copy = NoCopy
    BY AtWork DEF IdleConsumer, Deliveries, Stages
  <1>6. consumer' = [consumer EXCEPT ![k] = IdleConsumer]
    BY DEF Return
  <1>7. ConsumerOK(k)'
    <2>1. consumer'[k] = IdleConsumer
      BY <1>2, <1>6 DEF TypeOK
    <2> QED
      BY <1>5, <2>1 DEF ConsumerOK, Holds
  <1>8. dead \subseteq dead' /\ dead' \subseteq Events
    BY <1>2 DEF TypeOK
  <1>9. /\ \A p \in Consumers : p # k /\ consumer[p].stage # "idle" /\ Holds(p) =>
               broker'[Current(p)][consumer[p].copy].place = "unacked"
        /\ HoldersDiffer'
    BY <1>1, <1>3, <1>5, <1>6, OthersHold, Zenon
  <1> QED
    BY <1>1, <1>3, <1>4, <1>5, <1>6, <1>7, <1>8, <1>9, ConsumerStep, ZenonT(30)

\* Going on with the same delivery, at the next stage or without its connection.
LEMMA MoveOn ==
    ASSUME DeliveryInv, NEW k \in Consumers, consumer[k].stage # "idle",
           NEW stage \in Stages \ {"idle"}, NEW c \in {consumer[k].copy, NoCopy},
           consumer' = [consumer EXCEPT ![k] = [event |-> Current(k), copy |-> c, deaths |-> Deaths(k), stage |-> stage]],
           UNCHANGED <<outbox, relay>>,
           \/ c = consumer[k].copy /\ UNCHANGED broker
           \/ c = NoCopy /\ Holds(k) /\ Put(Current(k), consumer[k].copy, "ready", Deaths(k)),
           consumed \subseteq consumed', consumed' \subseteq consumed \cup {Current(k)},
           dead \subseteq dead', dead' \subseteq Events,
           sends' \in [Events -> 0..2],
           \A f \in Events : sends[f] > 0 => sends'[f] > 0,
           Current(k) \in DirectMessages /\ Current(k) \in consumed' => sends'[Current(k)] > 0,
           stage = "sent" => sends'[Current(k)] > 0,
           stage = "done" => Current(k) \in consumed' \cup dead'
    PROVE  DeliveryInv'
  <1>1. PICK e \in Events : e = Current(k) /\ k \in ConsumersOf(e) /\ Deaths(k) \in Rejections
    BY AtWork
  <1>2. TypeOK
    BY DEF DeliveryInv
  <1>3. c \in Copies \cup {NoCopy}
    BY <1>2 DEF TypeOK
  <1> DEFINE delivery == [event |-> e, copy |-> c, deaths |-> Deaths(k), stage |-> stage]
  <1>4. consumer' = [consumer EXCEPT ![k] = delivery]
    BY <1>1
  <1>5. delivery \in Deliveries /\ delivery.event = e /\ delivery.copy = c /\ delivery.stage = stage
    BY <1>1, <1>3 DEF Deliveries
  <1> HIDE DEF delivery
  <1>6. consumer'[k] = delivery
    BY <1>2, <1>4, Zenon DEF TypeOK
  <1>7. /\ broker' \in [Events -> [Copies -> Rows]]
        /\ \A f \in Events : \A d \in Copies : ~(Holds(k) /\ f = e /\ d = consumer[k].copy) => broker'[f][d] = broker[f][d]
        /\ \A f \in Events : InBroker(f) => InBroker(f)'
        /\ c # NoCopy => UNCHANGED broker
    <2>1. CASE c = consumer[k].copy /\ UNCHANGED broker
      BY <1>2, <2>1 DEF TypeOK, Rows, InBroker
    <2>2. CASE c = NoCopy /\ Holds(k) /\ Put(Current(k), consumer[k].copy, "ready", Deaths(k))
      <3>1. PICK d \in Copies : d = consumer[k].copy
        BY <2>2, AtWork
      <3>2. Put(e, d, "ready", Deaths(k))
        BY <1>1, <2>2, <3>1
      <3> QED
        BY <1>1, <1>2, <2>2, <3>1, <3>2, PutFacts
    <2> QED
      BY <2>1, <2>2
  <1>8. c # NoCopy => broker'[e][c].place = "unacked"
    <2>1. c # NoCopy => c = consumer[k].copy /\ UNCHANGED broker
      BY <1>7
    <2> QED
      BY <1>1, <2>1 DEF DeliveryInv, ConsumerOK, Holds
  <1>9. ConsumerOK(k)'
    BY <1>1, <1>5, <1>6, <1>8 DEF ConsumerOK, Current, Settled, ConsumersOf, Holds
  <1>10. /\ \A p \in Consumers : p # k /\ consumer[p].stage # "idle" /\ Holds(p) =>
               broker'[Current(p)][consumer[p].copy].place = "unacked"
         /\ HoldersDiffer'
    <2>1. delivery.copy # NoCopy => delivery.event = Current(k) /\ delivery.copy = consumer[k].copy
      BY <1>1, <1>5
    <2>2. \A f \in Events : \A d \in Copies :
             ~(Holds(k) /\ f = Current(k) /\ d = consumer[k].copy) => broker'[f][d] = broker[f][d]
      BY <1>1, <1>7, Zenon
    <2> QED
      BY <1>4, <1>5, <2>1, <2>2, OthersHold, Zenon
  <1> QED
    BY <1>1, <1>4, <1>5, <1>7, <1>9, <1>10, ConsumerStep, ZenonT(30)

\* Advance, as MoveOn has it.
LEMMA AdvanceFacts ==
    ASSUME DeliveryInv, NEW k \in Consumers, NEW stage \in Stages, Advance(k, stage)
    PROVE  consumer' = [consumer EXCEPT ![k] = [event |-> Current(k), copy |-> consumer[k].copy,
                                                deaths |-> Deaths(k), stage |-> stage]]
  <1>1. consumer[k] \in Deliveries /\ consumer' = [consumer EXCEPT ![k] = [consumer[k] EXCEPT !.stage = stage]]
    BY DEF DeliveryInv, TypeOK, Deliveries, Stages, Advance
  <1>2. [consumer[k] EXCEPT !.stage = stage]
          = [event |-> Current(k), copy |-> consumer[k].copy, deaths |-> Deaths(k), stage |-> stage]
    BY <1>1 DEF Deliveries, Current, Deaths
  <1> QED
    BY <1>1, <1>2, Zenon

\* A no-op consumer records and acknowledges; any loop may have its delivery
\* handed out again, also behind its back.
LEMMA NoopKeepsInv ==
    ASSUME DeliveryInv, NEW k \in Consumers,
           (k \in NoopConsumers /\ ConsumeNoop(k)) \/ Redelivered(k) \/ ConnectionLost(k)
    PROVE  DeliveryInv'
  <1>1. TypeOK
    BY DEF DeliveryInv
  <1>2. consumer[k].stage # "idle" /\ consumer[k].stage \in Stages \ {"idle"}
    BY <1>1 DEF ConsumeNoop, Redelivered, ConnectionLost, At, TypeOK, Stages
  <1>3. /\ Current(k) \in Events /\ Deaths(k) \in Rejections /\ 0 \in Rejections
        /\ k \in NoopConsumers => Current(k) \notin DirectMessages
    BY <1>2, AtWork
  <1>4. CASE k \in NoopConsumers /\ ConsumeNoop(k)
    <2>1. UNCHANGED <<outbox, relay, dead, sends>> /\ consumed' = consumed \cup {Current(k)} /\ Return(k, "free", 0)
      BY <1>4 DEF ConsumeNoop, Ack
    <2>2. sends' \in [Events -> 0..2]
      BY <1>1, <2>1 DEF TypeOK
    <2> QED
      BY <1>2, <1>3, <1>4, <2>1, <2>2, GiveBack, Zenon
  <1>5. ASSUME Redelivered(k) \/ ConnectionLost(k)
        PROVE  /\ UNCHANGED <<outbox, relay, dead, consumed, sends>>
               /\ sends' \in [Events -> 0..2] /\ dead' \subseteq Events
               /\ Current(k) \in DirectMessages /\ Current(k) \in consumed' => sends'[Current(k)] > 0
    BY <1>1, <1>5 DEF Redelivered, ConnectionLost, TypeOK, DeliveryInv, ConsumedWasSent
  <1>6. CASE Redelivered(k)
    <2>1. Return(k, "ready", Deaths(k))
      BY <1>6 DEF Redelivered, Requeue
    <2> QED
      BY <1>2, <1>3, <1>5, <1>6, <2>1, GiveBack, Zenon
  <1>7. CASE ConnectionLost(k)
    <2>1. Holds(k) /\ Put(Current(k), consumer[k].copy, "ready", Deaths(k))
      BY <1>7 DEF ConnectionLost
    <2>2. consumer' = [consumer EXCEPT ![k] = [event |-> Current(k), copy |-> NoCopy, deaths |-> Deaths(k),
                                               stage |-> consumer[k].stage]]
      <3>1. consumer[k] \in Deliveries /\ consumer' = [consumer EXCEPT ![k] = [consumer[k] EXCEPT !.copy = NoCopy]]
        BY <1>1, <1>7 DEF TypeOK, Deliveries, Stages, ConnectionLost
      <3>2. [consumer[k] EXCEPT !.copy = NoCopy]
              = [event |-> Current(k), copy |-> NoCopy, deaths |-> Deaths(k), stage |-> consumer[k].stage]
        BY <3>1 DEF Deliveries, Current, Deaths
      <3> QED
        BY <3>1, <3>2, Zenon
    <2>3. /\ consumer[k].stage = "sent" => sends'[Current(k)] > 0
          /\ consumer[k].stage = "done" => Current(k) \in consumed' \cup dead'
      BY <1>2, <1>5, <1>7 DEF DeliveryInv, ConsumerOK, Settled
    <2> QED
      BY <1>2, <1>3, <1>5, <1>7, <2>1, <2>2, <2>3, MoveOn, ZenonT(30)
  <1> QED
    BY <1>4, <1>6, <1>7

\* Steps of a DM consumer that end its delivery.
LEMMA EndsKeepInv ==
    ASSUME DeliveryInv, NEW k \in Consumers, AlreadyConsumed(k) \/ StoreFails(k) \/ Done(k)
    PROVE  DeliveryInv'
  <1>1. TypeOK
    BY DEF DeliveryInv
  <1>2. consumer[k].stage # "idle"
    BY DEF AlreadyConsumed, StoreFails, Done, At
  <1>3. ConsumerOK(k)
    BY DEF DeliveryInv
  <1>4. PICK n \in Rejections : n = AtMost(maxDeliveryTries - 1, Deaths(k) + 1) /\ 0 \in Rejections
    BY <1>2, AtWork
  <1>5. /\ UNCHANGED <<outbox, relay, dead, consumed, sends>>
        /\ \/ Return(k, "retry", n)
           \/ Return(k, "free", 0) /\ Current(k) \in consumed \cup dead
    BY <1>2, <1>3, <1>4 DEF AlreadyConsumed, StoreFails, Done, Ack, NackToRetry, At, ConsumerOK, Settled
  <1>6. sends' \in [Events -> 0..2]
    BY <1>1, <1>5 DEF TypeOK
  <1>7. Current(k) \in DirectMessages /\ Current(k) \in consumed' => sends'[Current(k)] > 0
    BY <1>5 DEF DeliveryInv, ConsumedWasSent
  <1> QED
    BY <1>2, <1>4, <1>5, <1>6, <1>7, GiveBack, Zenon

\* CardSent counts for the current event only and leaves it counted.
LEMMA CardSentFacts ==
    ASSUME TypeOK, NEW k \in Consumers, Current(k) \in Events, CardSent(k) \/ UNCHANGED sends
    PROVE  /\ sends' \in [Events -> 0..2]
           /\ \A f \in Events : f # Current(k) => sends'[f] = sends[f]
           /\ \A f \in Events : sends[f] > 0 => sends'[f] > 0
           /\ CardSent(k) => sends'[Current(k)] > 0
  <1> DEFINE e == Current(k)
  <1>1. sends \in [Events -> 0..2]
    BY DEF TypeOK
  <1>2. AtMost(2, sends[e] + 1) \in 0..2 /\ AtMost(2, sends[e] + 1) > 0
    BY <1>1 DEF AtMost
  <1> QED
    BY <1>1, <1>2 DEF CardSent

\* Steps of a DM consumer that leave it at work, except HandleFails.
LEMMA StagesKeepInv ==
    ASSUME DeliveryInv, NEW k \in Consumers, NotYetConsumed(k) \/ Handle(k) \/ RecordConsumption(k) \/ DeadLetter(k)
    PROVE  DeliveryInv'
  <1>1. TypeOK
    BY DEF DeliveryInv
  <1>2. consumer[k].stage # "idle"
    BY DEF NotYetConsumed, Handle, RecordConsumption, DeadLetter, At
  <1>3. ConsumerOK(k)
    BY DEF DeliveryInv
  <1>4. Current(k) \in Events
    BY <1>2, AtWork
  <1>5. sends \in [Events -> 0..2] /\ dead \subseteq Events
    BY <1>1 DEF TypeOK
  <1>6. Current(k) \in DirectMessages /\ Current(k) \in consumed => sends[Current(k)] > 0
    BY DEF DeliveryInv, ConsumedWasSent
  <1>7. CASE NotYetConsumed(k)
    <2>1. Advance(k, "new") /\ UNCHANGED <<outbox, relay, broker, dead, consumed, sends>>
      BY <1>7 DEF NotYetConsumed
    <2> QED
      BY <1>2, <1>4, <1>5, <1>6, <2>1, AdvanceFacts, MoveOn DEF Stages
  <1>8. CASE Handle(k)
    <2>1. Advance(k, "sent") /\ UNCHANGED <<outbox, relay, broker, dead, consumed>> /\ CardSent(k)
      BY <1>8 DEF Handle
    <2>2. /\ sends' \in [Events -> 0..2]
          /\ \A f \in Events : sends[f] > 0 => sends'[f] > 0
          /\ sends'[Current(k)] > 0
      BY <1>1, <1>4, <2>1, CardSentFacts
    <2> QED
      BY <1>2, <1>4, <1>5, <2>1, <2>2, AdvanceFacts, MoveOn DEF Stages
  <1>9. CASE RecordConsumption(k)
    <2>1. /\ Advance(k, "done") /\ UNCHANGED <<outbox, relay, broker, dead, sends>>
          /\ consumed' = consumed \cup {Current(k)}
          /\ consumer[k].stage = "sent"
      BY <1>9 DEF RecordConsumption, At
    <2>2. sends[Current(k)] > 0
      BY <1>3, <2>1 DEF ConsumerOK
    <2> QED
      BY <1>2, <1>4, <1>5, <2>1, <2>2, AdvanceFacts, MoveOn DEF Stages
  <1>10. CASE DeadLetter(k)
    <2>1. /\ Advance(k, "done") /\ UNCHANGED <<outbox, relay, broker, consumed, sends>>
          /\ dead' = dead \cup {Current(k)}
      BY <1>10 DEF DeadLetter
    <2> QED
      BY <1>2, <1>4, <1>5, <1>6, <2>1, AdvanceFacts, MoveOn DEF Stages
  <1> QED
    BY <1>7, <1>8, <1>9, <1>10

\* A failed attempt goes to the retry queue or on to the dead letter.
LEMMA HandleFailsKeepsInv ==
    ASSUME DeliveryInv, NEW k \in Consumers, HandleFails(k)
    PROVE  DeliveryInv'
  <1>1. TypeOK
    BY DEF DeliveryInv
  <1>2. consumer[k].stage # "idle"
    BY DEF HandleFails, At
  <1>3. PICK n \in Rejections : n = AtMost(maxDeliveryTries - 1, Deaths(k) + 1)
    BY <1>2, AtWork
  <1>4. Current(k) \in Events
    BY <1>2, AtWork
  <1>5. /\ sends' \in [Events -> 0..2]
        /\ \A f \in Events : sends[f] > 0 => sends'[f] > 0
    BY <1>1, <1>4, CardSentFacts DEF HandleFails
  <1>6. dead \subseteq Events /\ UNCHANGED <<outbox, relay, dead, consumed>>
    BY <1>1 DEF TypeOK, HandleFails
  <1>7. Current(k) \in DirectMessages /\ Current(k) \in consumed' => sends'[Current(k)] > 0
    BY <1>4, <1>5, <1>6 DEF DeliveryInv, ConsumedWasSent
  <1>8. CASE NackToRetry(k)
    <2>1. Return(k, "retry", n)
      BY <1>3, <1>8 DEF NackToRetry
    <2> QED
      BY <1>2, <1>5, <1>6, <1>7, <2>1, GiveBack, Zenon
  <1>9. CASE Advance(k, "dying") /\ UNCHANGED broker
    BY <1>2, <1>5, <1>6, <1>7, <1>9, AdvanceFacts, MoveOn DEF Stages
  <1> QED
    BY <1>8, <1>9 DEF HandleFails

\* Take: the copy was ready, so no loop holds it.
LEMMA TakeKeepsInv ==
    ASSUME DeliveryInv, NEW k \in Consumers, NEW e \in Events, NEW c \in Copies, Take(k, e, c)
    PROVE  DeliveryInv'
  <1> DEFINE delivery == [event |-> e, copy |-> c, deaths |-> broker[e][c].deaths, stage |-> "taken"]
  <1>1. TypeOK
    BY DEF DeliveryInv
  <1>2. /\ k \in ConsumersOf(e) /\ broker[e][c].place = "ready"
        /\ Put(e, c, "unacked", broker[e][c].deaths)
        /\ consumer' = [consumer EXCEPT ![k] = delivery]
        /\ UNCHANGED <<outbox, relay, dead, consumed, sends>>
    BY DEF Take
  <1>3. broker[e][c].deaths \in Rejections /\ sends' \in [Events -> 0..2] /\ dead' \subseteq Events
    BY <1>1, <1>2 DEF TypeOK
  <1>4. delivery \in Deliveries /\ delivery.event = e /\ delivery.copy = c /\ delivery.stage = "taken"
    BY <1>3 DEF Deliveries, Stages
  <1>5. /\ broker' \in [Events -> [Copies -> Rows]]
        /\ broker'[e][c].place = "unacked"
        /\ \A f \in Events : \A d \in Copies : (f # e \/ d # c) => broker'[f][d] = broker[f][d]
        /\ \A f \in Events : InBroker(f) => InBroker(f)'
    BY <1>1, <1>2, <1>3, PutFacts
  <1> HIDE DEF delivery
  <1>6. consumer'[k] = delivery /\ \A p \in Consumers : p # k => consumer'[p] = consumer[p]
    BY <1>1, <1>2 DEF TypeOK
  <1>7. ConsumerOK(k)'
    BY <1>2, <1>4, <1>5, <1>6 DEF ConsumerOK, Current, ConsumersOf
  <1>8. e \in DirectMessages /\ e \in consumed' => sends'[e] > 0
    BY <1>2 DEF DeliveryInv, ConsumedWasSent
  <1>9. ASSUME NEW p \in Consumers, consumer[p].stage # "idle", Holds(p)
        PROVE  /\ Current(p) # e \/ consumer[p].copy # c
               /\ broker'[Current(p)][consumer[p].copy].place = "unacked"
    <2>1. Current(p) \in Events /\ consumer[p].copy \in Copies
      BY <1>9, AtWork
    <2>2. broker[Current(p)][consumer[p].copy].place = "unacked"
      BY <1>9 DEF DeliveryInv, ConsumerOK
    <2> QED
      BY <1>2, <1>5, <2>1, <2>2
  <1>10. HoldersDiffer'
    <2>1. \A p \in Consumers : Holds(p) => Current(p) # e \/ consumer[p].copy # c
      BY <1>9 DEF DeliveryInv, ConsumerOK
    <2> QED
      BY <1>4, <1>6, <2>1 DEF DeliveryInv, HoldersDiffer, Holds, Current
  <1> QED
    BY <1>2, <1>3, <1>4, <1>5, <1>7, <1>8, <1>9, <1>10, ConsumerStep, ZenonT(30)

\* A copy that comes back from the retry queue is no consumer's.
LEMMA RetryKeepsInv ==
    ASSUME DeliveryInv, NEW e \in Events, NEW c \in Copies, RetryExpires(e, c)
    PROVE  DeliveryInv'
  <1>1. TypeOK
    BY DEF DeliveryInv
  <1>2. /\ Put(e, c, "ready", broker[e][c].deaths) /\ broker[e][c].place = "retry"
        /\ UNCHANGED <<outbox, relay, dead, consumer, consumed, sends>>
    BY DEF RetryExpires
  <1>3. broker[e][c].deaths \in Rejections
    BY <1>1 DEF TypeOK
  <1>4. /\ broker' \in [Events -> [Copies -> Rows]]
        /\ \A f \in Events : \A d \in Copies : (f # e \/ d # c) => broker'[f][d] = broker[f][d]
        /\ \A f \in Events : InBroker(f) => InBroker(f)'
    BY <1>1, <1>2, <1>3, PutFacts
  <1>5. TypeOK'
    BY <1>1, <1>2, <1>4 DEF TypeOK, Rows
  <1>6. \A f \in Events : EventKept(f)
    BY <1>2, <1>4 DEF EventKept, Settled, Enqueued
  <1>7. \A i \in Relays : RelayOK(i)'
    BY <1>2, <1>5, <1>6, RelaysKept, Zenon
  <1>8. (\A k \in Consumers : ConsumerOK(k)') /\ HoldersDiffer'
    BY <1>2, <1>4, <1>6, ConsumersKept
  <1>9. ConsumedWasSent'
    BY <1>2 DEF DeliveryInv, ConsumedWasSent
  <1> QED
    BY <1>2, <1>5, <1>6, <1>7, <1>8, <1>9, NothingLost DEF DeliveryInv

\* Every step of relays, broker and consumers keeps DeliveryInv.
LEMMA NextDelivery == DeliveryInv /\ [Next]_vars => DeliveryInv'
  <1> SUFFICES ASSUME DeliveryInv, [Next]_vars PROVE DeliveryInv'
    OBVIOUS
  <1>1. CASE \E e \in Events : insertEvent(e) \/ NextAttemptComes(e)
    BY <1>1, RowsKeepInv
  <1>2. CASE \E i \in Relays : ClaimBatch(i) \/ MarkPublished(i) \/ MarkFailed(i) \/ RelayStops(i)
    BY <1>2, ClaimKeepsInv, MarkKeepsInv, StopKeepsInv
  <1>3. CASE \E i \in Relays, e \in Events : Publish(i, e)
    BY <1>3, PublishKeepsInv
  <1>4. CASE \E e \in Events, c \in Copies : RetryExpires(e, c) \/ \E k \in Consumers : Take(k, e, c)
    BY <1>4, TakeKeepsInv, RetryKeepsInv
  <1>5. CASE (\E k \in NoopConsumers : ConsumeNoop(k)) \/ \E k \in Consumers : ConnectionLost(k) \/ Redelivered(k)
    BY <1>5, NoopKeepsInv DEF Consumers
  <1>6. CASE \E k \in DMConsumers : ConsumeLarkDM(k)
    BY <1>6, EndsKeepInv, StagesKeepInv, HandleFailsKeepsInv DEF ConsumeLarkDM, Consumers
  <1>7. CASE UNCHANGED vars
    <2>1. UNCHANGED <<outbox, relay, broker, dead, consumer, consumed, sends>>
      BY <1>7 DEF vars
    <2>2. TypeOK'
      BY <2>1 DEF DeliveryInv, TypeOK
    <2>3. \A f \in Events : EventKept(f)
      BY <2>1 DEF EventKept, Settled, Enqueued, InBroker
    <2>4. \A i \in Relays : RelayOK(i)'
      BY <2>1, <2>2, <2>3, RelaysKept
    <2> QED
      BY <2>1, <2>2, <2>3, <2>4, NothingLost, OutboxFrame DEF EventKept
  <1> QED
    BY <1>1, <1>2, <1>3, <1>4, <1>5, <1>6, <1>7 DEF Next

------------------------------------------------------------------------------
(* Theorems *)

\* DeliveryInv is an invariant of relays, broker and consumers.
LEMMA DeliveryHolds == Spec => []DeliveryInv
  BY InitDelivery, NextDelivery, PTL DEF Spec

\* Every reachable state has the declared types.
THEOREM DeliveryTypes == Spec => []TypeOK
  <1>1. DeliveryInv => TypeOK
    BY DEF DeliveryInv
  <1> QED
    BY <1>1, DeliveryHolds, PTL

\* For any number of events, overlapping relays and copies: an event in the outbox
\* is recorded, dead-lettered, still to be published or in a queue, whatever
\* crashes and whichever relay's mark comes last.
THEOREM EventsAreNotLost == Spec => []NoEventLost
  <1>1. DeliveryInv => NoEventLost
    BY DEF DeliveryInv
  <1> QED
    BY <1>1, DeliveryHolds, PTL

\* A step of one loop, as the sending sees it: a loop enters stage "new" only with
\* an event that is not recorded, and sends only for its own event, on leaving it.
SendingStep(k, delivery) ==
    /\ consumer' = [consumer EXCEPT ![k] = delivery]
    /\ delivery.stage = "new" => \/ delivery.event \notin consumed
                                 \/ At(k, "new") /\ delivery.event = Current(k)
    /\ \/ UNCHANGED sends
       \/ /\ k \in DMConsumers /\ At(k, "new") /\ delivery.stage # "new"
          /\ \A f \in Events : f # Current(k) => sends'[f] = sends[f]

\* Every step is one, or changes neither loops nor sends.
LEMMA EveryStepIsSending ==
    ASSUME DeliveryInv, Next
    PROVE  UNCHANGED <<consumer, sends>> \/ \E k \in Consumers, delivery \in Deliveries : SendingStep(k, delivery)
  <1>1. TypeOK
    BY DEF DeliveryInv
  <1>2. IdleConsumer \in Deliveries /\ IdleConsumer.stage = "idle"
    BY DeliveryConstants DEF IdleConsumer, Deliveries, Stages, Rejections
  <1>3. CASE \/ \E e \in Events : insertEvent(e) \/ NextAttemptComes(e)
             \/ \E i \in Relays : ClaimBatch(i) \/ MarkPublished(i) \/ MarkFailed(i) \/ RelayStops(i)
             \/ \E i \in Relays, e \in Events : Publish(i, e)
             \/ \E e \in Events, c \in Copies : RetryExpires(e, c)
    BY <1>3, Zenon DEF insertEvent, NextAttemptComes, ClaimBatch, MarkPublished, MarkFailed, RelayStops, Publish, RetryExpires
  <1>4. CASE \E e \in Events, c \in Copies, k \in Consumers : Take(k, e, c)
    <2>1. PICK e \in Events, c \in Copies, k \in Consumers : Take(k, e, c)
      BY <1>4
    <2> DEFINE delivery == [event |-> e, copy |-> c, deaths |-> broker[e][c].deaths, stage |-> "taken"]
    <2>2. delivery \in Deliveries /\ delivery.stage = "taken"
      BY <1>1 DEF TypeOK, Deliveries, Stages
    <2>3. consumer' = [consumer EXCEPT ![k] = delivery] /\ UNCHANGED sends
      BY <2>1 DEF Take
    <2> HIDE DEF delivery
    <2> QED
      BY <2>2, <2>3 DEF SendingStep
  <1>5. ASSUME NEW k \in Consumers, Return(k, "free", 0) \/ Requeue(k) \/ NackToRetry(k), UNCHANGED sends
        PROVE  SendingStep(k, IdleConsumer)
    <2>1. consumer' = [consumer EXCEPT ![k] = IdleConsumer]
      BY <1>5 DEF Return, Requeue, NackToRetry
    <2> QED
      BY <1>2, <1>5, <2>1 DEF SendingStep
  <1>6. CASE \/ \E k \in NoopConsumers : ConsumeNoop(k)
             \/ \E k \in Consumers : Redelivered(k)
             \/ \E k \in DMConsumers : AlreadyConsumed(k) \/ StoreFails(k) \/ Done(k)
    <2>1. PICK k \in Consumers : (Return(k, "free", 0) \/ Requeue(k) \/ NackToRetry(k)) /\ UNCHANGED sends
      BY <1>6 DEF ConsumeNoop, Redelivered, AlreadyConsumed, StoreFails, Done, Ack, Consumers
    <2> QED
      BY <1>2, <1>5, <2>1, Zenon
  <1>7. CASE \E k \in Consumers : ConnectionLost(k)
    <2>1. PICK k \in Consumers : ConnectionLost(k)
      BY <1>7
    <2> DEFINE delivery == [consumer[k] EXCEPT !.copy = NoCopy]
    <2>2. delivery \in Deliveries /\ delivery.stage = consumer[k].stage /\ delivery.event = Current(k)
      BY <1>1 DEF TypeOK, Deliveries, Stages, Current
    <2>3. consumer' = [consumer EXCEPT ![k] = delivery] /\ UNCHANGED sends
      BY <2>1 DEF ConnectionLost
    <2> HIDE DEF delivery
    <2> QED
      BY <2>2, <2>3 DEF SendingStep, At
  <1>8. ASSUME NEW k \in Consumers, NEW stage \in Stages, Advance(k, stage)
        PROVE  \E delivery \in Deliveries : /\ consumer' = [consumer EXCEPT ![k] = delivery]
                                            /\ delivery.event = Current(k) /\ delivery.stage = stage
    <2> DEFINE delivery == [consumer[k] EXCEPT !.stage = stage]
    <2>1. delivery \in Deliveries /\ delivery.stage = stage /\ delivery.event = Current(k)
      BY <1>1 DEF TypeOK, Deliveries, Stages, Current
    <2>2. consumer' = [consumer EXCEPT ![k] = delivery]
      BY <1>8 DEF Advance
    <2> HIDE DEF delivery
    <2> QED
      BY <2>1, <2>2
  <1>9. CASE \E k \in DMConsumers : NotYetConsumed(k) \/ RecordConsumption(k) \/ DeadLetter(k)
    <2>1. PICK k \in Consumers, stage \in {"new", "done"} :
             Advance(k, stage) /\ UNCHANGED sends /\ (stage = "new" => Current(k) \notin consumed)
      BY <1>9 DEF NotYetConsumed, RecordConsumption, DeadLetter, Consumers
    <2>2. PICK delivery \in Deliveries : /\ consumer' = [consumer EXCEPT ![k] = delivery]
                                         /\ delivery.event = Current(k) /\ delivery.stage = stage
      BY <1>8, <2>1 DEF Stages
    <2> QED
      BY <2>1, <2>2 DEF SendingStep
  <1>10. CASE \E k \in DMConsumers : Handle(k) \/ HandleFails(k)
    <2>1. PICK k \in DMConsumers : Handle(k) \/ HandleFails(k)
      BY <1>10
    <2>2. k \in Consumers /\ At(k, "new")
      BY <2>1 DEF Handle, HandleFails, Consumers
    <2>3. Current(k) \in Events
      BY <2>2, AtWork DEF At
    <2>4. \A f \in Events : f # Current(k) => sends'[f] = sends[f]
      BY <1>1, <2>1, <2>2, <2>3, CardSentFacts DEF Handle, HandleFails
    <2>5. CASE NackToRetry(k)
      <3>1. consumer' = [consumer EXCEPT ![k] = IdleConsumer]
        BY <2>5 DEF NackToRetry, Return
      <3> QED
        BY <1>2, <2>1, <2>2, <2>4, <3>1 DEF SendingStep
    <2>6. CASE Advance(k, "sent") \/ Advance(k, "dying")
      <3>1. PICK delivery \in Deliveries : consumer' = [consumer EXCEPT ![k] = delivery] /\ delivery.stage # "new"
        BY <1>8, <2>2, <2>6 DEF Stages
      <3> QED
        BY <2>1, <2>2, <2>4, <3>1 DEF SendingStep
    <2> QED
      BY <2>1, <2>5, <2>6 DEF Handle, HandleFails
  <1> QED
    BY <1>3, <1>4, <1>6, <1>7, <1>9, <1>10 DEF Next, ConsumeLarkDM

\* After the record the loops that may send only become fewer, one per send.
LEMMA AskersAreUsedUp ==
    ASSUME DeliveryInv, Next, NEW e \in DirectMessages, e \in consumed
    PROVE  /\ Asked(e)' \subseteq Asked(e)
           /\ sends'[e] # sends[e] => Asked(e)' # Asked(e)
  <1>1. CASE UNCHANGED <<consumer, sends>>
    BY <1>1 DEF Asked, At, Current
  <1>2. CASE \E k \in Consumers, delivery \in Deliveries : SendingStep(k, delivery)
    <2>1. PICK k \in Consumers, delivery \in Deliveries : SendingStep(k, delivery)
      BY <1>2
    <2>2. consumer'[k] = delivery /\ \A p \in Consumers : p # k => consumer'[p] = consumer[p]
      BY <2>1 DEF DeliveryInv, TypeOK, SendingStep
    <2>3. DMConsumers \subseteq Consumers /\ e \in Events
      BY DeliveryConstants DEF Consumers
    <2>4. Asked(e)' \subseteq Asked(e)
      BY <2>1, <2>2, <2>3 DEF Asked, At, Current, SendingStep
    <2>5. ASSUME sends'[e] # sends[e] PROVE k \in Asked(e) /\ k \notin Asked(e)'
      <3>1. k \in DMConsumers /\ At(k, "new") /\ delivery.stage # "new" /\ Current(k) = e
        BY <2>1, <2>3, <2>5 DEF SendingStep
      <3> QED
        BY <2>2, <3>1 DEF Asked, At
    <2> QED
      BY <2>4, <2>5
  <1> QED
    BY <1>1, <1>2, EveryStepIsSending

\* A recorded DM was accepted by the provider, and after the record only loops that
\* had asked WasConsumed before it send, each once (ConsumeLarkDM).
THEOREM ConsumptionIsSound == Spec => ConsumedOnceSent
  <1> DEFINE Step == \A e \in DirectMessages :
                        /\ e \in consumed' => sends'[e] > 0
                        /\ e \in consumed => /\ Asked(e)' \subseteq Asked(e)
                                             /\ sends'[e] # sends[e] => Asked(e)' # Asked(e)
  <1>1. DeliveryInv /\ [Next]_vars => [Step]_vars
    <2> SUFFICES ASSUME DeliveryInv, Next PROVE Step
      OBVIOUS
    <2>1. DeliveryInv'
      BY NextDelivery
    <2>2. \A e \in DirectMessages : e \in consumed' => sends'[e] > 0
      BY <2>1, Zenon DEF DeliveryInv, ConsumedWasSent
    <2> QED
      BY <2>2, AskersAreUsedUp, Zenon
  <1> QED
    BY <1>1, DeliveryHolds, PTL DEF Spec, ConsumedOnceSent

\* With one process, the documented deployment, there is one DM loop: when it has
\* recorded an event it has no question open.
NobodyAsks == \A e \in DirectMessages : e \in consumed => Asked(e) = {}

\* The record ends the sending altogether.
NoSendAfterRecord == [][\A e \in DirectMessages : e \in consumed => sends'[e] = sends[e]]_vars

\* A single loop keeps NobodyAsks: it records at the end of its own delivery.
LEMMA NobodyAsksKept ==
    ASSUME \A j, k \in DMConsumers : j = k, DeliveryInv, NobodyAsks, Next
    PROVE  NobodyAsks'
  <1> SUFFICES ASSUME NEW e \in DirectMessages, e \in consumed' PROVE Asked(e)' = {}
    BY DEF NobodyAsks
  <1>1. CASE e \in consumed
    BY <1>1, AskersAreUsedUp DEF NobodyAsks
  <1>2. CASE e \notin consumed
    <2>1. \/ \E k \in NoopConsumers : ConsumeNoop(k)
          \/ \E k \in DMConsumers : RecordConsumption(k)
      BY <1>2, Zenon DEF Next, ConsumeLarkDM, insertEvent, NextAttemptComes, ClaimBatch, MarkPublished, MarkFailed,
         RelayStops, Publish, RetryExpires, Take, Redelivered, ConnectionLost, AlreadyConsumed, NotYetConsumed,
         StoreFails, Handle, HandleFails, DeadLetter, Done
    <2>2. ASSUME NEW k \in NoopConsumers, ConsumeNoop(k) PROVE FALSE
      <3>1. k \in Consumers /\ consumer[k].stage # "idle" /\ consumed' = consumed \cup {Current(k)}
        BY <2>2 DEF ConsumeNoop, At, Consumers
      <3>2. Current(k) \notin DirectMessages
        BY <3>1, AtWork
      <3> QED
        BY <1>2, <3>1, <3>2
    <2>3. ASSUME NEW k \in DMConsumers, RecordConsumption(k) PROVE Asked(e)' = {}
      <3>1. k \in Consumers /\ Advance(k, "done")
        BY <2>3 DEF RecordConsumption, Consumers
      <3>2. consumer'[k].stage = "done"
        BY <3>1 DEF DeliveryInv, TypeOK, Advance
      <3> QED
        BY <3>2 DEF Asked, At
    <2> QED
      BY <2>1, <2>2, <2>3
  <1> QED
    BY <1>1, <1>2

\* With a single DM consumer nothing sends an event after its record, whatever the
\* relays duplicate and the broker redelivers.
THEOREM SingleConsumerSendsOnce ==
    ASSUME \A j, k \in DMConsumers : j = k
    PROVE  Spec => NoSendAfterRecord
  <1> DEFINE Step == \A e \in DirectMessages : e \in consumed => sends'[e] = sends[e]
  <1>1. Init => NobodyAsks
    BY DEF Init, NobodyAsks
  <1>2. DeliveryInv /\ NobodyAsks /\ [Next]_vars => NobodyAsks'
    <2> SUFFICES ASSUME DeliveryInv, NobodyAsks, [Next]_vars PROVE NobodyAsks'
      OBVIOUS
    <2>1. CASE Next
      BY <2>1, NobodyAsksKept
    <2>2. CASE UNCHANGED vars
      BY <2>2 DEF vars, NobodyAsks, Asked, At, Current
    <2> QED
      BY <2>1, <2>2
  <1>3. DeliveryInv /\ NobodyAsks /\ [Next]_vars => [Step]_vars
    <2> SUFFICES ASSUME DeliveryInv, NobodyAsks, Next PROVE Step
      OBVIOUS
    <2> QED
      BY AskersAreUsedUp DEF NobodyAsks
  <1> QED
    BY <1>1, <1>2, <1>3, DeliveryHolds, PTL DEF Spec, NoSendAfterRecord
==============================================================================
