-------------------------- MODULE IdempotencyProofs --------------------------
(***************************************************************************)
(* The safety of Idempotency for any requests, keys, contents and          *)
(* retention.  The table does not name the owner of a claim, so the        *)
(* argument ties each request to the record of its key: while a request    *)
(* executes, and after its handler settled until its retention is over,    *)
(* the key's record is the one that request inserted.                      *)
(***************************************************************************)
EXTENDS Idempotency, TLAPS

KeyOf(r) == request[r].msg.key

\* An executing request owns the processing record of its key.
OwnClaim(r) ==
    Executing(r) =>
      /\ Claimed(KeyOf(r))
      /\ records[KeyOf(r)].expires = WindowEnd(r)
      /\ records[KeyOf(r)].body = Fingerprint(request[r].msg)
      /\ request[r].claimedAt <= now /\ now < WindowEnd(r)

\* The record of a settled request stays until its retention is over.
Retained(r) ==
    Settled(r) /\ now < WindowEnd(r) =>
      ~Absent(KeyOf(r)) /\ records[KeyOf(r)].expires = WindowEnd(r)

\* A completed record holds the answer of a settled request.
Recorded(k) ==
    records[k].state = "completed" =>
      LET q == records[k].by IN
      /\ q \in Requests
      /\ request[q].step \notin {"unsent", "running"}
      /\ KeyOf(q) = k
      /\ Settled(q)
      /\ records[k].body = Fingerprint(request[q].msg)
      /\ records[k].expires = WindowEnd(q)

\* Executions of one key follow each other, a retention apart once settled.
Apart(q, r) ==
    q # r /\ KeyOf(q) = KeyOf(r) =>
      /\ ~(Executing(q) /\ Executing(r))
      /\ Settled(q) /\ Executing(r) => WindowEnd(q) <= request[r].claimedAt
      /\ Settled(q) /\ Settled(r) =>
           WindowEnd(q) <= request[r].claimedAt \/ WindowEnd(r) <= request[q].claimedAt

\* A request's outcome says whether its mutation was committed.
Truthful(r) ==
    /\ request[r].step \in {"unsent", "running"} => request[r].outcome = "none"
    /\ request[r].step = "handled" => request[r].outcome # "none"
    /\ r \in effects => request[r].outcome \in {"2xx", "5xx"}
    /\ request[r].outcome = "2xx" => r \in effects

\* A response that was handed out is the response to the same content.
Attributed(r) ==
    LET q == request[r].by IN
    q # NoRequest =>
      /\ q \in Requests
      /\ request[q].step \notin {"unsent", "running"}
      /\ request[r].step \notin {"unsent", "running"}
      /\ Settled(q) => /\ KeyOf(q) = KeyOf(r)
                       /\ Fingerprint(request[q].msg) = Fingerprint(request[r].msg)
                       /\ request[r].claimedAt < WindowEnd(q)

IdempotencyInv ==
    /\ TypeOK
    /\ \A r \in Requests : OwnClaim(r) /\ Retained(r) /\ Truthful(r) /\ Attributed(r)
    /\ \A k \in Keys : Recorded(k)
    /\ \A q, r \in Requests : Apart(q, r)

\* The typed initial values of a record and of a request.
LEMMA DefaultsTyped ==
    /\ NoRecord \in [state : RecordStates, body : Bodies, expires : Nat,
                     by : Requests \cup {NoRequest}]
    /\ Unsent \in [step : Steps, msg : Messages, claimedAt : Nat, outcome : Outcomes,
                   answer : Answers, by : Requests \cup {NoRequest}]
<1>1. \E b \in Bodies : TRUE
  BY IdempotencyConstants
<1>2. (CHOOSE b \in Bodies : TRUE) \in Bodies
  BY <1>1
<1>3. \E m \in Messages : TRUE
  <2>1. PICK k \in Keys, b \in Bodies, t \in Targets : TRUE
    BY IdempotencyConstants
  <2>2. [key |-> k, body |-> b, target |-> t] \in Messages
    BY DEF Messages
  <2> QED BY <2>2
<1>4. (CHOOSE m \in Messages : TRUE) \in Messages
  BY <1>3
<1> QED
  BY <1>2, <1>4 DEF NoRecord, Unsent, RecordStates, Outcomes, Answers, Steps

\* Init establishes the types (the tables of internal/store start empty).
LEMMA InitTyped == Init => TypeOK
BY DefaultsTyped DEF Init, TypeOK

\* Answering a request keeps its row typed.
LEMMA AnswerTyped ==
    ASSUME TypeOK, NEW r \in Requests, NEW a \in Answers,
           NEW by \in Requests \cup {NoRequest}, Answer(r, a, by)
    PROVE  request' \in [Requests -> [step : Steps, msg : Messages, claimedAt : Nat,
                                      outcome : Outcomes, answer : Answers,
                                      by : Requests \cup {NoRequest}]]
<1> DEFINE Row == [step : Steps, msg : Messages, claimedAt : Nat, outcome : Outcomes,
                   answer : Answers, by : Requests \cup {NoRequest}]
<1>1. request \in [Requests -> Row]
  BY DEF TypeOK
<1>2. "answered" \in Steps
  BY DEF Steps
<1>3. [request[r] EXCEPT !.step = "answered", !.answer = a, !.by = by] \in Row
  BY <1>1, <1>2, Zenon
<1>4. request' = [request EXCEPT ![r] = [request[r] EXCEPT !.step = "answered", !.answer = a, !.by = by]]
  BY <1>1, Zenon DEF Answer
<1> QED
  BY <1>1, <1>3, <1>4

\* Every step of a request, of maintenance and of the clock keeps the types.
LEMMA NextTyped == TypeOK /\ [Next]_vars => TypeOK'
<1> SUFFICES ASSUME TypeOK, [Next]_vars PROVE TypeOK'
  OBVIOUS
<1> USE DefaultsTyped, IdempotencyConstants
<1>1. ASSUME NEW r \in Requests, NEW m \in Messages, ClaimAcquired(r, m) PROVE TypeOK'
  <2>1. now + Retention \in Nat
    BY DEF TypeOK
  <2>2. m.key \in Keys /\ m.body \in Bodies
    BY DEF Messages
  <2> QED
    BY <1>1, <2>1, <2>2 DEF ClaimAcquired, TypeOK, Fingerprint, RecordStates, Steps, Outcomes, Answers
<1>2. ASSUME NEW r \in Requests, NEW m \in Messages, ClaimReused(r, m) PROVE TypeOK'
  BY <1>2 DEF ClaimReused, Told, TypeOK, RecordStates, Steps, Outcomes, Answers
<1>3. ASSUME NEW r \in Requests, NEW m \in Messages, ClaimInProgress(r, m) PROVE TypeOK'
  BY <1>3 DEF ClaimInProgress, Told, TypeOK, RecordStates, Steps, Outcomes, Answers
<1>4. ASSUME NEW r \in Requests, NEW m \in Messages, ClaimReplay(r, m) PROVE TypeOK'
  <2>1. m.key \in Keys
    BY DEF Messages
  <2> QED
    BY <1>4, <2>1 DEF ClaimReplay, Told, TypeOK, RecordStates, Steps, Outcomes, Answers
<1>5. ASSUME NEW r \in Requests, NEW m \in Messages, ClaimFails(r, m) PROVE TypeOK'
  BY <1>5 DEF ClaimFails, Told, TypeOK, RecordStates, Steps, Outcomes, Answers
<1>6. ASSUME NEW r \in Requests, Handle(r) PROVE TypeOK'
  <2>1. PICK outcome \in {"2xx", "4xx", "5xx"} :
          /\ request' = [request EXCEPT ![r].step = "handled", ![r].outcome = outcome]
          /\ effects' \in {effects \cup {r}, effects}
    BY <1>6, Zenon DEF Handle
  <2>2. "handled" \in Steps /\ outcome \in Outcomes
    BY DEF Steps, Outcomes
  <2> QED
    BY <1>6, <2>1, <2>2, ZenonT(40) DEF Handle, TypeOK
<1>7. ASSUME NEW r \in Requests, Complete(r) PROVE TypeOK'
  <2>1. request[r].msg.key \in Keys
    BY DEF TypeOK, Messages
  <2> QED
    BY <1>7, <2>1, AnswerTyped DEF Complete, TypeOK, RecordStates, Answers
<1>8. ASSUME NEW r \in Requests, CompleteFails(r) PROVE TypeOK'
  BY <1>8, AnswerTyped DEF CompleteFails, TypeOK, Answers
<1>9. ASSUME NEW r \in Requests, Release(r) PROVE TypeOK'
  BY <1>9, AnswerTyped, Zenon DEF Release, TypeOK, Answers
<1>10. ASSUME NEW r \in Requests, ReleaseFails(r) PROVE TypeOK'
  BY <1>10, AnswerTyped DEF ReleaseFails, TypeOK, Answers
<1>11. ASSUME NEW r \in Requests, Crash(r) PROVE TypeOK'
  BY <1>11 DEF Crash, TypeOK, RecordStates, Steps, Outcomes, Answers
<1>12. CASE DeleteIdempotencyBefore
  BY <1>12 DEF DeleteIdempotencyBefore, TypeOK
<1>13. CASE Tick
  BY <1>13 DEF Tick, TypeOK
<1>14. CASE UNCHANGED vars
  BY <1>14 DEF vars, TypeOK
<1> QED
  BY <1>1, <1>2, <1>3, <1>4, <1>5, <1>6, <1>7, <1>8, <1>9, <1>10, <1>11, <1>12, <1>13, <1>14
     DEF Next, Claim, Finish

\* Every reachable state of the middleware and its table has the declared types.
THEOREM IdempotencyTypes == Spec => []TypeOK
BY InitTyped, NextTyped, PTL DEF Spec

------------------------------------------------------------------------------
(* The inductive invariant. *)

\* What one row of each table holds, for steps that look at a single row.
LEMMA RowTyped ==
    ASSUME TypeOK
    PROVE  /\ \A r \in Requests : /\ KeyOf(r) \in Keys
                                  /\ request[r].claimedAt \in Nat
                                  /\ WindowEnd(r) \in Nat
                                  /\ request[r].claimedAt < WindowEnd(r)
           /\ \A k \in Keys : records[k].expires \in Nat
           /\ now \in Nat
<1> USE IdempotencyConstants
<1>1. ASSUME NEW r \in Requests
      PROVE  KeyOf(r) \in Keys /\ request[r].claimedAt \in Nat
  BY DEF TypeOK, KeyOf, Messages
<1>2. \A k \in Keys : records[k].expires \in Nat
  BY DEF TypeOK
<1>3. now \in Nat
  BY DEF TypeOK
<1> QED
  BY <1>1, <1>2, <1>3 DEF WindowEnd

\* The empty table and the unsent requests satisfy the invariant.
LEMMA InitInv == Init => IdempotencyInv
<1> SUFFICES ASSUME Init PROVE IdempotencyInv
  OBVIOUS
<1>1. TypeOK
  BY InitTyped
<1>2. \A r \in Requests : /\ request[r].step = "unsent"
                          /\ request[r].outcome = "none"
                          /\ request[r].by = NoRequest
  BY DEF Init, Unsent
<1>3. \A k \in Keys : records[k].state = "absent"
  BY DEF Init, NoRecord
<1>4. effects = {}
  BY DEF Init
<1> QED
  BY <1>1, <1>2, <1>3, <1>4
     DEF IdempotencyInv, OwnClaim, Retained, Truthful, Attributed, Recorded, Apart, Executing, Settled

\* A request that is answered at once, without executing anything.
LEMMA ToldKeepsInv ==
    ASSUME IdempotencyInv, TypeOK', NEW r \in Requests, NEW m \in Messages, NEW a, NEW by,
           request[r].step = "unsent", Told(r, m, a, by), UNCHANGED <<records, effects, now>>,
           by # NoRequest => /\ Live(m.key)
                             /\ records[m.key].state = "completed"
                             /\ records[m.key].body = Fingerprint(m)
                             /\ by = records[m.key].by
    PROVE  IdempotencyInv'
<1> USE DEF Executing, Settled, KeyOf, WindowEnd, Claimed, Absent, Fingerprint
<1>1. \A q \in Requests : q # r => request'[q] = request[q]
  BY DEF Told, IdempotencyInv, TypeOK
<1>2. request'[r] = [step |-> "answered", msg |-> m, claimedAt |-> now,
                     outcome |-> "none", answer |-> a, by |-> by]
  BY DEF Told, IdempotencyInv, TypeOK
<1>3. m.key \in Keys
  BY DEF Messages
<1>4. \A q \in Requests : OwnClaim(q)' /\ Retained(q)' /\ Truthful(q)'
  BY <1>1, <1>2 DEF IdempotencyInv, OwnClaim, Retained, Truthful
<1>5. \A q, s \in Requests : Apart(q, s)'
  BY <1>1, <1>2 DEF IdempotencyInv, Apart
<1>6. \A k \in Keys : Recorded(k)'
  BY <1>1, <1>2 DEF IdempotencyInv, Recorded
<1>7. \A q \in Requests : q # r => Attributed(q)'
  BY <1>1, <1>2 DEF IdempotencyInv, Attributed
<1>8. Attributed(r)'
  <2>1. CASE by = NoRequest
    BY <1>2, <2>1 DEF Attributed
  <2>2. CASE by # NoRequest
    <3>1. Recorded(m.key)
      BY <1>3 DEF IdempotencyInv
    <3>2. /\ by \in Requests /\ by # r
          /\ request[by].step \notin {"unsent", "running"}
          /\ KeyOf(by) = m.key
          /\ Fingerprint(request[by].msg) = Fingerprint(m)
          /\ records[m.key].expires = WindowEnd(by)
      BY <2>2, <3>1 DEF Recorded
    <3> QED
      BY <1>1, <1>2, <2>2, <3>2 DEF Attributed, Live
  <2> QED BY <2>1, <2>2
<1> QED
  BY <1>4, <1>5, <1>6, <1>7, <1>8 DEF IdempotencyInv

\* A fresh claim: the key's earlier requests are all past their retention.
LEMMA AcquiredKeepsInv ==
    ASSUME IdempotencyInv, TypeOK', NEW r \in Requests, NEW m \in Messages, ClaimAcquired(r, m)
    PROVE  IdempotencyInv'
<1> USE DEF Executing, Settled, KeyOf, WindowEnd, Claimed, Absent, Fingerprint
<1>1. \A q \in Requests : q # r => request'[q] = request[q]
  BY DEF ClaimAcquired, IdempotencyInv, TypeOK
<1>2. request'[r] = [step |-> "running", msg |-> m, claimedAt |-> now,
                     outcome |-> "none", answer |-> "none", by |-> NoRequest]
  BY DEF ClaimAcquired, IdempotencyInv, TypeOK
<1>3. m.key \in Keys
  BY DEF Messages
<1>4. \A k \in Keys : k # m.key => records'[k] = records[k]
  BY DEF ClaimAcquired, IdempotencyInv, TypeOK
<1>5. records'[m.key] = [state |-> "processing", body |-> m.body,
                         expires |-> now + Retention, by |-> NoRequest]
  BY <1>3 DEF ClaimAcquired, IdempotencyInv, TypeOK
<1>6. now' = now /\ effects' = effects /\ request[r].step = "unsent"
  BY DEF ClaimAcquired, Arrives
<1>7. /\ \A q \in Requests : KeyOf(q) \in Keys /\ WindowEnd(q) \in Nat
      /\ now \in Nat /\ Retention \in Nat /\ now < now + Retention
      /\ \A k \in Keys : records[k].expires \in Nat
  BY RowTyped, IdempotencyConstants DEF IdempotencyInv
<1>8. \A q \in Requests : KeyOf(q) = m.key => ~Executing(q) /\ (Settled(q) => WindowEnd(q) <= now)
  <2> SUFFICES ASSUME NEW q \in Requests, KeyOf(q) = m.key
               PROVE  ~Executing(q) /\ (Settled(q) => WindowEnd(q) <= now)
    OBVIOUS
  <2>1. ~Live(m.key)
    BY DEF ClaimAcquired
  <2>2. OwnClaim(q) /\ Retained(q)
    BY Zenon DEF IdempotencyInv
  <2> QED
    BY <1>7, <2>1, <2>2 DEF OwnClaim, Retained, Live
<1>9. \A q \in Requests : OwnClaim(q)' /\ Retained(q)'
  BY <1>1, <1>2, <1>4, <1>5, <1>6, <1>7, <1>8, SMTT(30) DEF IdempotencyInv, OwnClaim, Retained
<1>10. \A q \in Requests : Truthful(q)' /\ Attributed(q)'
  BY <1>1, <1>2, <1>6 DEF IdempotencyInv, Truthful, Attributed
<1>11. \A k \in Keys : Recorded(k)'
  BY <1>1, <1>2, <1>4, <1>5, <1>6, SMTT(30) DEF IdempotencyInv, Recorded
<1>12. \A q, s \in Requests : Apart(q, s)'
  BY <1>1, <1>2, <1>8 DEF IdempotencyInv, Apart
<1> QED
  BY <1>9, <1>10, <1>11, <1>12 DEF IdempotencyInv

\* The handler returns: an executing request settles or fails.
LEMMA HandleKeepsInv ==
    ASSUME IdempotencyInv, TypeOK', NEW r \in Requests, Handle(r)
    PROVE  IdempotencyInv'
<1> USE DEF Executing, Settled, KeyOf, WindowEnd, Claimed, Absent, Fingerprint
<1>1. PICK outcome \in {"2xx", "4xx", "5xx"} :
        /\ request' = [request EXCEPT ![r].step = "handled", ![r].outcome = outcome]
        /\ \/ outcome \in {"2xx", "5xx"} /\ effects' = effects \cup {r}
           \/ outcome \in {"4xx", "5xx"} /\ effects' = effects
  BY Zenon DEF Handle
<1>2. \A q \in Requests : q # r => request'[q] = request[q]
  BY <1>1 DEF IdempotencyInv, TypeOK
<1>3. /\ request'[r].step = "handled" /\ request'[r].outcome = outcome
      /\ request'[r].msg = request[r].msg /\ request'[r].claimedAt = request[r].claimedAt
      /\ request'[r].by = request[r].by
  BY <1>1 DEF IdempotencyInv, TypeOK
<1>4. records' = records /\ now' = now /\ request[r].step = "running"
  BY DEF Handle
<1>5. OwnClaim(r) /\ Truthful(r) /\ Attributed(r)
  BY DEF IdempotencyInv
<1>6. \A q \in Requests : OwnClaim(q)' /\ Retained(q)'
  BY <1>2, <1>3, <1>4, <1>5, SMTT(30) DEF IdempotencyInv, OwnClaim, Retained
<1>7. \A q \in Requests : Truthful(q)' /\ Attributed(q)'
  <2>1. r \notin effects /\ request[r].by = NoRequest
    BY <1>4, <1>5 DEF Truthful, Attributed
  <2>2. \A q \in Requests : Attributed(q)'
    BY <1>2, <1>3, <1>4, <2>1 DEF IdempotencyInv, Attributed
  <2>3. Truthful(r)'
    BY <1>1, <1>3, <2>1 DEF Truthful
  <2>4. ASSUME NEW q \in Requests, q # r PROVE Truthful(q)'
    <3>1. q \in effects' <=> q \in effects
      BY <1>1, <2>4
    <3> QED
      BY <1>2, <2>4, <3>1 DEF IdempotencyInv, Truthful
  <2> QED
    BY <2>2, <2>3, <2>4
<1>8. \A k \in Keys : Recorded(k)'
  BY <1>2, <1>3, <1>4 DEF IdempotencyInv, Recorded
<1>9. \A q, s \in Requests : Apart(q, s)'
  BY <1>2, <1>3, <1>4 DEF IdempotencyInv, Apart
<1> QED
  BY <1>6, <1>7, <1>8, <1>9 DEF IdempotencyInv

\* An executing request that ends without touching the table.
LEMMA LeavesKeepsInv ==
    ASSUME IdempotencyInv, TypeOK', NEW r \in Requests,
           CompleteFails(r) \/ ReleaseFails(r) \/ Crash(r)
    PROVE  IdempotencyInv'
<1> USE DEF Executing, Settled, KeyOf, WindowEnd, Claimed, Absent, Fingerprint
<1>1. \A q \in Requests : q # r => request'[q] = request[q]
  BY DEF CompleteFails, ReleaseFails, Crash, Answer, IdempotencyInv, TypeOK
<1>2. /\ request'[r].outcome = request[r].outcome /\ request'[r].msg = request[r].msg
      /\ request'[r].claimedAt = request[r].claimedAt
      /\ request'[r].step \in {"answered", "lost"}
      /\ request'[r].by \in {request[r].by, NoRequest} \/ (request'[r].by = r /\ request[r].outcome = "5xx")
  <2>1. CASE CompleteFails(r)
    BY <2>1 DEF CompleteFails, Answer, IdempotencyInv, TypeOK
  <2>2. CASE ReleaseFails(r)
    BY <2>2 DEF ReleaseFails, Answer, IdempotencyInv, TypeOK
  <2>3. CASE Crash(r)
    BY <2>3 DEF Crash, IdempotencyInv, TypeOK
  <2> QED BY <2>1, <2>2, <2>3
<1>3. UNCHANGED <<records, effects, now>> /\ Executing(r)
  BY DEF CompleteFails, ReleaseFails, Crash
<1>4. NoRequest \notin Requests
  BY IdempotencyConstants, Zenon
<1>5. \A q \in Requests : OwnClaim(q)' /\ Retained(q)' /\ Truthful(q)'
  BY <1>1, <1>2, <1>3, SMTT(30) DEF IdempotencyInv, OwnClaim, Retained, Truthful
<1>6. \A q \in Requests : q # r => Attributed(q)'
  BY <1>1, <1>2, <1>3 DEF IdempotencyInv, Attributed
<1>7. Attributed(r)'
  <2>1. Attributed(r)
    BY DEF IdempotencyInv
  <2>2. CASE request'[r].by = request[r].by
    BY <1>1, <1>2, <2>1, <2>2 DEF Attributed
  <2>3. CASE request'[r].by = NoRequest
    BY <2>3 DEF Attributed
  <2>4. CASE request'[r].by = r /\ request[r].outcome = "5xx"
    BY <1>2, <2>4, Zenon DEF Attributed
  <2> QED BY <1>2, <2>2, <2>3, <2>4
<1>8. \A k \in Keys : Recorded(k)'
  BY <1>1, <1>2, <1>3 DEF IdempotencyInv, Recorded
<1>9. \A q, s \in Requests : Apart(q, s)'
  BY <1>1, <1>2, <1>3, SMTT(30) DEF IdempotencyInv, Apart
<1> QED
  BY <1>5, <1>6, <1>7, <1>8, <1>9 DEF IdempotencyInv

\* Complete turns the request's own claim into its answer.
LEMMA CompleteKeepsInv ==
    ASSUME IdempotencyInv, TypeOK', NEW r \in Requests, Complete(r)
    PROVE  IdempotencyInv'
<1> USE DEF Executing, Settled, KeyOf, WindowEnd, Claimed, Absent, Fingerprint
<1>1. \A q \in Requests : q # r => request'[q] = request[q]
  BY Zenon DEF Complete, Answer, IdempotencyInv, TypeOK
<1>2. /\ request'[r].outcome = request[r].outcome /\ request'[r].msg = request[r].msg
      /\ request'[r].claimedAt = request[r].claimedAt
      /\ request'[r].step = "answered" /\ request'[r].by = r
  BY DEF Complete, Answer, IdempotencyInv, TypeOK
<1>3. UNCHANGED <<effects, now>> /\ request[r].step = "handled" /\ Settled(r)
  <2>1. request[r].outcome \in {"2xx", "4xx", "5xx", "none"} /\ request[r].outcome # "5xx"
    BY DEF Complete, IdempotencyInv, TypeOK, Outcomes
  <2>2. request[r].step = "handled"
    BY DEF Complete
  <2>3. request[r].outcome # "none"
    BY <2>2 DEF IdempotencyInv, Truthful
  <2> QED BY <2>1, <2>2, <2>3 DEF Complete
<1>4. KeyOf(r) \in Keys
  BY RowTyped, Zenon DEF IdempotencyInv
<1>5. \A k \in Keys : k # KeyOf(r) => records'[k] = records[k]
  BY Zenon DEF Complete, IdempotencyInv, TypeOK
<1>6. /\ records'[KeyOf(r)].state = "completed" /\ records'[KeyOf(r)].by = r
      /\ records'[KeyOf(r)].body = records[KeyOf(r)].body
      /\ records'[KeyOf(r)].expires = records[KeyOf(r)].expires
  BY <1>4 DEF Complete, IdempotencyInv, TypeOK
<1>7. OwnClaim(r)
  BY DEF IdempotencyInv
<1>8. \A q \in Requests : q # r /\ KeyOf(q) = KeyOf(r) => ~Executing(q)
  BY <1>3 DEF IdempotencyInv, Apart
<1>9. \A q \in Requests : OwnClaim(q)'
  BY <1>1, <1>2, <1>3, <1>5, <1>8, RowTyped, SMTT(30) DEF IdempotencyInv, OwnClaim
<1>10. \A q \in Requests : Retained(q)'
  BY <1>1, <1>2, <1>3, <1>5, <1>6, RowTyped, SMTT(30) DEF IdempotencyInv, Retained
<1>11. \A q \in Requests : Truthful(q)'
  BY <1>1, <1>2, <1>3 DEF IdempotencyInv, Truthful
<1>12. \A q \in Requests : Attributed(q)'
  <2>1. Attributed(r)'
    BY <1>2, RowTyped, ZenonT(30) DEF Attributed, IdempotencyInv
  <2>2. ASSUME NEW q \in Requests, q # r PROVE Attributed(q)'
    BY <1>1, <1>2, <1>3, <2>2, SMTT(30) DEF IdempotencyInv, Attributed
  <2> QED BY <2>1, <2>2
<1>13. \A k \in Keys : Recorded(k)'
  <2>1. Recorded(KeyOf(r))'
    BY <1>2, <1>3, <1>6, <1>7 DEF Recorded, OwnClaim
  <2>2. ASSUME NEW k \in Keys, k # KeyOf(r) PROVE Recorded(k)'
    BY <1>1, <1>2, <1>5, <2>2, SMTT(30) DEF IdempotencyInv, Recorded
  <2> QED BY <1>2, <2>1, <2>2
<1>14. \A q, s \in Requests : Apart(q, s)'
  BY <1>1, <1>2, <1>3 DEF IdempotencyInv, Apart
<1> QED
  BY <1>9, <1>10, <1>11, <1>12, <1>13, <1>14 DEF IdempotencyInv

\* Release deletes the request's own claim, which no settled request needs.
LEMMA ReleaseKeepsInv ==
    ASSUME IdempotencyInv, TypeOK', NEW r \in Requests, Release(r)
    PROVE  IdempotencyInv'
<1> USE DEF Executing, Settled, KeyOf, WindowEnd, Claimed, Absent, Fingerprint
<1>1. \A q \in Requests : q # r => request'[q] = request[q]
  BY DEF Release, Answer, IdempotencyInv, TypeOK
<1>2. /\ request'[r].outcome = "5xx" /\ request[r].outcome = "5xx"
      /\ request'[r].msg = request[r].msg
      /\ request'[r].claimedAt = request[r].claimedAt
      /\ request'[r].step = "answered" /\ request'[r].by = r
  BY DEF Release, Answer, IdempotencyInv, TypeOK
<1>3. UNCHANGED <<effects, now>> /\ request[r].step = "handled"
  BY DEF Release
<1>4. KeyOf(r) \in Keys /\ OwnClaim(r)
  BY RowTyped DEF IdempotencyInv
<1>5. \A k \in Keys : k # KeyOf(r) => records'[k] = records[k]
  BY Zenon DEF Release, IdempotencyInv, TypeOK
<1>6. records'[KeyOf(r)].state = "absent"
  BY <1>3, <1>4 DEF Release, OwnClaim, NoRecord, IdempotencyInv, TypeOK
<1>7. \A q \in Requests : q # r /\ KeyOf(q) = KeyOf(r) =>
        ~Executing(q) /\ (Settled(q) => WindowEnd(q) <= now)
  <2> SUFFICES ASSUME NEW q \in Requests, q # r, KeyOf(q) = KeyOf(r)
               PROVE  ~Executing(q) /\ (Settled(q) => WindowEnd(q) <= now)
    OBVIOUS
  <2>1. Apart(q, r)
    BY DEF IdempotencyInv
  <2>2. Settled(q) => WindowEnd(q) <= request[r].claimedAt
    BY <1>3, <2>1 DEF Apart
  <2>3. request[r].claimedAt <= now
    BY <1>3, <1>4 DEF OwnClaim
  <2>4. WindowEnd(q) \in Nat /\ request[r].claimedAt \in Nat /\ now \in Nat
    BY RowTyped, Zenon DEF IdempotencyInv
  <2> QED
    BY <1>3, <2>1, <2>2, <2>3, <2>4 DEF Apart
<1>8. \A q \in Requests : OwnClaim(q)'
  BY <1>1, <1>2, <1>3, <1>5, <1>7, RowTyped, SMTT(30) DEF IdempotencyInv, OwnClaim
<1>9. \A q \in Requests : Retained(q)'
  BY <1>1, <1>2, <1>3, <1>5, <1>7, RowTyped, SMTT(30) DEF IdempotencyInv, Retained
<1>10. \A q \in Requests : Truthful(q)' /\ Attributed(q)'
  BY <1>1, <1>2, <1>3 DEF IdempotencyInv, Truthful, Attributed
<1>11. \A k \in Keys : Recorded(k)'
  BY <1>1, <1>2, <1>5, <1>6 DEF IdempotencyInv, Recorded
<1>12. \A q, s \in Requests : Apart(q, s)'
  BY <1>1, <1>2, <1>3 DEF IdempotencyInv, Apart
<1> QED
  BY <1>8, <1>9, <1>10, <1>11, <1>12 DEF IdempotencyInv

\* Maintenance only removes records nobody executes under and nobody relies on.
LEMMA DeleteKeepsInv ==
    ASSUME IdempotencyInv, TypeOK', DeleteIdempotencyBefore
    PROVE  IdempotencyInv'
<1> USE DEF Executing, Settled, KeyOf, WindowEnd, Claimed, Absent, Fingerprint
<1>1. UNCHANGED <<request, effects, now>>
  BY DEF DeleteIdempotencyBefore
<1>2. \A k \in Keys : \/ records'[k] = records[k]
                      \/ records[k].expires < now /\ records'[k].state = "absent"
  BY DEF DeleteIdempotencyBefore, NoRecord
<1>3. /\ \A r \in Requests : KeyOf(r) \in Keys /\ WindowEnd(r) \in Nat
      /\ \A k \in Keys : records[k].expires \in Nat
      /\ now \in Nat
  BY RowTyped DEF IdempotencyInv
<1>4. ASSUME NEW r \in Requests PROVE OwnClaim(r)' /\ Retained(r)'
  <2>1. OwnClaim(r) /\ Retained(r)
    BY Zenon DEF IdempotencyInv
  <2> QED
    BY <1>1, <1>2, <1>3, <2>1 DEF OwnClaim, Retained
<1>5. \A r \in Requests : Truthful(r)' /\ Attributed(r)'
  BY <1>1, Zenon DEF IdempotencyInv, Truthful, Attributed
<1>6. \A k \in Keys : Recorded(k)'
  BY <1>1, <1>2 DEF IdempotencyInv, Recorded
<1>7. \A q, s \in Requests : Apart(q, s)'
  BY <1>1 DEF IdempotencyInv, Apart
<1> QED
  BY <1>4, <1>5, <1>6, <1>7 DEF IdempotencyInv

\* Time passes: handlers stay within their retention, ended retentions stay ended.
LEMMA TickKeepsInv ==
    ASSUME IdempotencyInv, TypeOK', Tick
    PROVE  IdempotencyInv'
<1> USE DEF Executing, Settled, KeyOf, WindowEnd, Claimed, Absent, Fingerprint
<1>1. UNCHANGED <<records, request, effects>> /\ now' = now + 1
  BY DEF Tick
<1>2. now \in Nat /\ \A r \in Requests : WindowEnd(r) \in Nat /\ request[r].claimedAt \in Nat
  BY RowTyped DEF IdempotencyInv
<1>3. ASSUME NEW r \in Requests PROVE OwnClaim(r)' /\ Retained(r)'
  <2>1. OwnClaim(r) /\ Retained(r)
    BY DEF IdempotencyInv
  <2>2. Executing(r) => now + 1 < WindowEnd(r)
    BY Zenon DEF Tick
  <2> QED
    BY <1>1, <1>2, <2>1, <2>2 DEF OwnClaim, Retained
<1>4. /\ \A r \in Requests : Truthful(r)' /\ Attributed(r)'
      /\ \A k \in Keys : Recorded(k)'
      /\ \A q, s \in Requests : Apart(q, s)'
  BY <1>1 DEF IdempotencyInv, Truthful, Attributed, Recorded, Apart
<1> QED
  BY <1>3, <1>4 DEF IdempotencyInv

\* The invariant is inductive.
LEMMA NextInv == IdempotencyInv /\ [Next]_vars => IdempotencyInv'
<1> SUFFICES ASSUME IdempotencyInv, [Next]_vars PROVE IdempotencyInv'
  OBVIOUS
<1>1. TypeOK'
  BY NextTyped DEF IdempotencyInv
<1>2. ASSUME NEW r \in Requests, NEW m \in Messages, Claim(r, m) PROVE IdempotencyInv'
  <2>1. CASE ClaimAcquired(r, m)
    BY <1>1, <2>1, AcquiredKeepsInv
  <2>2. CASE ClaimReused(r, m)
    BY <1>1, <2>2, ToldKeepsInv DEF ClaimReused, Arrives
  <2>3. CASE ClaimInProgress(r, m)
    BY <1>1, <2>3, ToldKeepsInv DEF ClaimInProgress, Arrives
  <2>4. CASE ClaimReplay(r, m)
    BY <1>1, <2>4, ToldKeepsInv DEF ClaimReplay, Arrives
  <2>5. CASE ClaimFails(r, m)
    BY <1>1, <2>5, ToldKeepsInv DEF ClaimFails, Arrives
  <2> QED
    BY <1>2, <2>1, <2>2, <2>3, <2>4, <2>5 DEF Claim
<1>3. ASSUME NEW r \in Requests, Handle(r) \/ Finish(r) \/ Crash(r) PROVE IdempotencyInv'
  BY <1>1, <1>3, HandleKeepsInv, LeavesKeepsInv, CompleteKeepsInv, ReleaseKeepsInv DEF Finish
<1>4. CASE DeleteIdempotencyBefore
  BY <1>1, <1>4, DeleteKeepsInv
<1>5. CASE Tick
  BY <1>1, <1>5, TickKeepsInv, Zenon
<1>6. CASE UNCHANGED vars
  BY <1>1, <1>6
     DEF vars, IdempotencyInv, OwnClaim, Retained, Truthful, Attributed, Recorded, Apart,
         Executing, Settled, KeyOf, WindowEnd, Claimed, Absent, Fingerprint
<1> QED
  BY <1>2, <1>3, <1>4, <1>5, <1>6 DEF Next

\* The invariant holds in every reachable state.
LEMMA InvHolds == Spec => []IdempotencyInv
BY InitInv, NextInv, PTL DEF Spec

------------------------------------------------------------------------------
\* However many requests use a key, the handler runs for one of them at a time,
\* although Complete and Release address the key and not a claim of their own.
THEOREM ExecutionIsExclusive == Spec => []ExclusiveExecution
<1>1. IdempotencyInv => ExclusiveExecution
  BY DEF IdempotencyInv, Apart, ExclusiveExecution, SameKey, KeyOf
<1> QED
  BY <1>1, InvHolds, PTL

\* Within its retention a key has one answer, handed out first hand or replayed,
\* which belongs to the same content and tells whether the mutation was made.
THEOREM AnswersAgree == Spec => []OneAnswerPerKey
<1>1. IdempotencyInv => OneAnswerPerKey
  <2> SUFFICES ASSUME IdempotencyInv, NEW q \in Requests, NEW r \in Requests
               PROVE  LET p == request[q].by
                          s == request[r].by
                      IN  /\ p # NoRequest /\ Settled(p) =>
                               /\ SameKey(p, q)
                               /\ Fingerprint(request[p].msg) = Fingerprint(request[q].msg)
                               /\ (request[p].outcome = "2xx") = (p \in effects)
                               /\ request[q].claimedAt < WindowEnd(p)
                          /\ p # NoRequest /\ s # NoRequest /\ Settled(p) /\ Settled(s) /\ SameKey(q, r) =>
                               \/ p = s
                               \/ WindowEnd(p) <= request[s].claimedAt
                               \/ WindowEnd(s) <= request[p].claimedAt
    BY DEF OneAnswerPerKey
  <2> DEFINE p == request[q].by
             s == request[r].by
  <2>1. Attributed(q) /\ Attributed(r)
    BY Zenon DEF IdempotencyInv
  <2>2. ASSUME p # NoRequest, Settled(p)
        PROVE  /\ SameKey(p, q)
               /\ Fingerprint(request[p].msg) = Fingerprint(request[q].msg)
               /\ (request[p].outcome = "2xx") = (p \in effects)
               /\ request[q].claimedAt < WindowEnd(p)
    <3>1. p \in Requests
      BY <2>1, <2>2 DEF Attributed
    <3>2. Truthful(p)
      BY <3>1 DEF IdempotencyInv
    <3> QED
      BY <2>1, <2>2, <3>2 DEF Attributed, Truthful, Settled, SameKey, KeyOf
  <2>3. ASSUME p # NoRequest, s # NoRequest, Settled(p), Settled(s), SameKey(q, r), p # s
        PROVE  WindowEnd(p) <= request[s].claimedAt \/ WindowEnd(s) <= request[p].claimedAt
    <3>1. p \in Requests /\ s \in Requests /\ KeyOf(p) = KeyOf(s)
      BY <2>1, <2>3 DEF Attributed, SameKey, KeyOf
    <3>2. Apart(p, s)
      BY <3>1 DEF IdempotencyInv
    <3> QED
      BY <2>3, <3>1, <3>2 DEF Apart
  <2> QED
    BY <2>2, <2>3
<1> QED
  BY <1>1, InvHolds, PTL

\* A mutation is repeated under its key only after a server error or after the
\* retention: neither a crash nor a failing Complete lets a retry run it again.
THEOREM MutationsAreNotDuplicated == Spec => MutationNotDuplicated
<1> DEFINE Once == \A r \in effects' \ effects : \A q \in effects :
                     SameKey(q, r) => request[q].outcome = "5xx" \/ request[r].claimedAt >= WindowEnd(q)
<1>1. IdempotencyInv /\ [Next]_vars => [Once]_vars
  <2> SUFFICES ASSUME IdempotencyInv, [Next]_vars,
                      NEW r \in effects' \ effects, NEW q \in effects, SameKey(q, r)
               PROVE  request[q].outcome = "5xx" \/ request[r].claimedAt >= WindowEnd(q)
    OBVIOUS
  <2>1. PICK s \in Requests : Handle(s)
    BY Zenon DEF Next, vars, Claim, ClaimAcquired, ClaimReused, ClaimInProgress, ClaimReplay, ClaimFails,
           Finish, Complete, CompleteFails, Release, ReleaseFails, Crash, DeleteIdempotencyBefore, Tick
  <2>2. r = s /\ request[r].step = "running"
    BY <2>1 DEF Handle
  <2>3. q \in Requests /\ r \in Requests /\ q # r
    BY <2>1, <2>2 DEF IdempotencyInv, TypeOK
  <2>4. Truthful(q) /\ Apart(q, r)
    BY <2>3 DEF IdempotencyInv
  <2>5. WindowEnd(q) \in Nat /\ request[r].claimedAt \in Nat
    BY <2>3, RowTyped DEF IdempotencyInv
  <2> QED
    BY <2>2, <2>3, <2>4, <2>5 DEF Truthful, Apart, Settled, Executing, SameKey, KeyOf
<1> QED
  BY <1>1, InvHolds, PTL DEF Spec, MutationNotDuplicated
==============================================================================
