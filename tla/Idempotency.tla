----------------------------- MODULE Idempotency -----------------------------
(***************************************************************************)
(* Bearer mutations carry an Idempotency-Key.  The middleware of           *)
(* internal/api/idempotency.go claims the key in one transaction, runs the *)
(* handler, and then completes or releases the claim; the records are the  *)
(* table of internal/store/idempotency_store.go, which names no owner.     *)
(* A process may die, the client may go away (every store call runs under  *)
(* the request's context) and a store call may fail between any two steps. *)
(*                                                                         *)
(* A Key stands for (user, credential, method, route pattern, key value).  *)
(* A message is the key, the content that enters the fingerprint and the   *)
(* target its path names.                                                  *)
(***************************************************************************)
EXTENDS Naturals, FiniteSets

CONSTANTS
    Requests,    \* HTTP requests, each sent once
    Keys, Bodies, Targets,
    NoRequest,
    Retention,   \* IdempotencyRetention
    ClaimUntil,  \* bound: no request is sent after this time
    MaxTime      \* bound on the clock

ASSUME IdempotencyConstants ==
    /\ Retention \in Nat \ {0}
    /\ ClaimUntil \in Nat
    /\ MaxTime \in Nat
    /\ NoRequest \notin Requests
    /\ Keys # {} /\ Bodies # {} /\ Targets # {}

VARIABLES
    records,  \* the table: one record per key
    request,  \* per request: where it is, what it was told
    effects,  \* requests whose mutation is committed
    now

vars == <<records, request, effects, now>>

Messages == [key : Keys, body : Bodies, target : Targets]
RecordStates == {"absent", "processing", "completed"}
Outcomes == {"none", "2xx", "4xx", "5xx"}
Steps == {"unsent", "running", "handled", "answered", "lost"}
Answers == {"none", "own", "replay", "in_progress", "reused", "error"}

\* Method and route are part of the key; query, media type and body remain.
\* The values of the path's parameters enter neither.
Fingerprint(m) == m.body

Absent(k) == records[k].state = "absent"

\* A record that Claim's DELETE of the expired one leaves in place.
Live(k) == records[k].state # "absent" /\ records[k].expires > now

Executing(r) == request[r].step \in {"running", "handled"}

TypeOK ==
    /\ records \in [Keys -> [state : RecordStates, body : Bodies, expires : Nat,
                             by : Requests \cup {NoRequest}]]
    /\ request \in [Requests -> [step : Steps, msg : Messages, claimedAt : Nat,
                                 outcome : Outcomes, answer : Answers,
                                 by : Requests \cup {NoRequest}]]
    /\ effects \subseteq Requests
    /\ now \in Nat

NoRecord == [state |-> "absent", body |-> CHOOSE b \in Bodies : TRUE,
             expires |-> 0, by |-> NoRequest]

Unsent == [step |-> "unsent", msg |-> CHOOSE m \in Messages : TRUE, claimedAt |-> 0,
           outcome |-> "none", answer |-> "none", by |-> NoRequest]

Init ==
    /\ records = [k \in Keys |-> NoRecord]
    /\ request = [r \in Requests |-> Unsent]
    /\ effects = {}
    /\ now = 0

------------------------------------------------------------------------------
(* What a request is told. *)

Told(r, m, answer, by) ==
    request' = [request EXCEPT ![r] = [step |-> "answered", msg |-> m, claimedAt |-> now,
                                       outcome |-> "none", answer |-> answer, by |-> by]]

Arrives(r, m) ==
    /\ request[r].step = "unsent"
    /\ now <= ClaimUntil

(* Claim: delete the key's record if it has expired, insert a processing   *)
(* one unless a record is there, otherwise read it.  One transaction.      *)

\* Mutant of ClaimAcquired: a claim that is still processing is taken over.
ClaimAcquiredUnlessCompleted(r, m) ==
    /\ Arrives(r, m)
    /\ ~(Live(m.key) /\ records[m.key].state = "completed")
    /\ records' = [records EXCEPT ![m.key] =
                     [state |-> "processing", body |-> Fingerprint(m),
                      expires |-> now + Retention, by |-> NoRequest]]
    /\ request' = [request EXCEPT ![r] =
                     [step |-> "running", msg |-> m, claimedAt |-> now,
                      outcome |-> "none", answer |-> "none", by |-> NoRequest]]
    /\ UNCHANGED <<effects, now>>

ClaimAcquired(r, m) ==
    /\ Arrives(r, m)
    /\ ~Live(m.key)
    /\ records' = [records EXCEPT ![m.key] =
                     [state |-> "processing", body |-> Fingerprint(m),
                      expires |-> now + Retention, by |-> NoRequest]]
    /\ request' = [request EXCEPT ![r] =
                     [step |-> "running", msg |-> m, claimedAt |-> now,
                      outcome |-> "none", answer |-> "none", by |-> NoRequest]]
    /\ UNCHANGED <<effects, now>>

ClaimReused(r, m) ==
    /\ Arrives(r, m)
    /\ Live(m.key)
    /\ records[m.key].body # Fingerprint(m)
    /\ Told(r, m, "reused", NoRequest)
    /\ UNCHANGED <<records, effects, now>>

ClaimInProgress(r, m) ==
    /\ Arrives(r, m)
    /\ Live(m.key)
    /\ records[m.key].body = Fingerprint(m)
    /\ records[m.key].state = "processing"
    /\ Told(r, m, "in_progress", NoRequest)
    /\ UNCHANGED <<records, effects, now>>

\* Mutant of ClaimReplay: the fingerprint is not compared.
ClaimReplayAnyContent(r, m) ==
    /\ Arrives(r, m)
    /\ Live(m.key)
    /\ records[m.key].state = "completed"
    /\ Told(r, m, "replay", records[m.key].by)
    /\ UNCHANGED <<records, effects, now>>

ClaimReplay(r, m) ==
    /\ Arrives(r, m)
    /\ Live(m.key)
    /\ records[m.key].body = Fingerprint(m)
    /\ records[m.key].state = "completed"
    /\ Told(r, m, "replay", records[m.key].by)
    /\ UNCHANGED <<records, effects, now>>

\* A store error, or a record released between the INSERT and the SELECT.
ClaimFails(r, m) ==
    /\ Arrives(r, m)
    /\ Told(r, m, "error", NoRequest)
    /\ UNCHANGED <<records, effects, now>>

------------------------------------------------------------------------------
(* The handler: its transaction commits or not, and its answer need not    *)
(* tell (an error of Commit itself leaves that open).                      *)

Handle(r) ==
    /\ request[r].step = "running"
    /\ \E outcome \in {"2xx", "4xx", "5xx"} :
         /\ request' = [request EXCEPT ![r].step = "handled", ![r].outcome = outcome]
         /\ \/ outcome \in {"2xx", "5xx"} /\ effects' = effects \cup {r}
            \/ outcome \in {"4xx", "5xx"} /\ effects' = effects
    /\ UNCHANGED <<records, now>>

Answer(r, answer, by) ==
    request' = [request EXCEPT ![r].step = "answered", ![r].answer = answer, ![r].by = by]

\* The rows a WHERE key AND state = 'processing' matches.
Claimed(k) == records[k].state = "processing"

Complete(r) ==
    LET k == request[r].msg.key IN
    /\ request[r].step = "handled" /\ request[r].outcome # "5xx"
    /\ Claimed(k)
    /\ records' = [records EXCEPT ![k].state = "completed", ![k].by = r]
    /\ Answer(r, "own", r)
    /\ UNCHANGED <<effects, now>>

\* Mutant of CompleteFails: the claim is given up like after a server error.
CompleteFailsAndReleases(r) ==
    /\ request[r].step = "handled" /\ request[r].outcome # "5xx"
    /\ records' = [records EXCEPT ![request[r].msg.key] = NoRecord]
    /\ Answer(r, "error", NoRequest)
    /\ UNCHANGED <<effects, now>>

\* No row matched (ErrIdempotencyNotClaimed) or the store call failed.
CompleteFails(r) ==
    /\ request[r].step = "handled" /\ request[r].outcome # "5xx"
    /\ Answer(r, "error", NoRequest)
    /\ UNCHANGED <<records, effects, now>>

\* After a server error, or a panic that the handler's recover passes on.
Release(r) ==
    LET k == request[r].msg.key IN
    /\ request[r].step = "handled" /\ request[r].outcome = "5xx"
    /\ records' = IF Claimed(k) THEN [records EXCEPT ![k] = NoRecord] ELSE records
    /\ Answer(r, "own", r)
    /\ UNCHANGED <<effects, now>>

ReleaseFails(r) ==
    /\ request[r].step = "handled" /\ request[r].outcome = "5xx"
    /\ Answer(r, "own", r)
    /\ UNCHANGED <<records, effects, now>>

\* The process dies, before or after the handler's transaction.
Crash(r) ==
    /\ Executing(r)
    /\ request' = [request EXCEPT ![r].step = "lost"]
    /\ UNCHANGED <<records, effects, now>>

\* Mutant of DeleteIdempotencyBefore: only completed records are removed.
DeleteCompletedBefore ==
    /\ \E k \in Keys : records[k].state = "completed" /\ records[k].expires < now
    /\ records' = [k \in Keys |-> IF records[k].state = "completed" /\ records[k].expires < now
                                  THEN NoRecord ELSE records[k]]
    /\ UNCHANGED <<request, effects, now>>

\* Maintenance.RunOnce, every ten minutes.
DeleteIdempotencyBefore ==
    /\ \E k \in Keys : ~Absent(k) /\ records[k].expires < now
    /\ records' = [k \in Keys |-> IF records[k].expires < now THEN NoRecord ELSE records[k]]
    /\ UNCHANGED <<request, effects, now>>

\* A handler answers long before the 24 hours of retention are over.
Tick ==
    /\ now < MaxTime
    /\ \A r \in Requests : Executing(r) => now + 1 < request[r].claimedAt + Retention
    /\ now' = now + 1
    /\ UNCHANGED <<records, request, effects>>

Claim(r, m) ==
    \/ ClaimAcquired(r, m)
    \/ ClaimReused(r, m)
    \/ ClaimInProgress(r, m)
    \/ ClaimReplay(r, m)
    \/ ClaimFails(r, m)

Finish(r) == Complete(r) \/ CompleteFails(r) \/ Release(r) \/ ReleaseFails(r)

Next ==
    \/ \E r \in Requests : \E m \in Messages : Claim(r, m)
    \/ \E r \in Requests : Handle(r) \/ Finish(r) \/ Crash(r)
    \/ DeleteIdempotencyBefore
    \/ Tick

Spec == Init /\ [][Next]_vars

\* Handlers and store calls end, time passes and the maintenance loop runs.
Fairness ==
    /\ \A r \in Requests : WF_vars(Handle(r)) /\ WF_vars(Finish(r))
    /\ WF_vars(DeleteIdempotencyBefore)
    /\ WF_vars(Tick)

FairSpec == Spec /\ Fairness

------------------------------------------------------------------------------
(* Properties *)

SameKey(q, r) == request[q].msg.key = request[r].msg.key

\* A client that received r's response was told what r's handler did.
Settled(r) == request[r].outcome \in {"2xx", "4xx"}

WindowEnd(r) == request[r].claimedAt + Retention

\* The handler never runs for two requests with one key at a time, although the
\* table does not say whose claim a processing record is and Complete and
\* Release (idempotency_store.go) act on whatever claim they find.
ExclusiveExecution ==
    \A q, r \in Requests : Executing(q) /\ Executing(r) /\ SameKey(q, r) => q = r

\* A mutation is committed a second time under one key only when the first was
\* answered with a server error (its claim was released) or its retention was over
\* when the second was claimed: crashes and failures of Complete keep the claim.
MutationNotDuplicated ==
    [][\A r \in effects' \ effects : \A q \in effects :
         SameKey(q, r) => request[q].outcome = "5xx" \/ request[r].claimedAt >= WindowEnd(q)]_vars

\* Clients that used one key within its retention and were given the handler's
\* answer, directly or by replayStoredResponse, were given the same one; it
\* answers their own content, and it says 2xx exactly when the mutation happened.
OneAnswerPerKey ==
    \A q, r \in Requests :
      LET p == request[q].by
          s == request[r].by
      IN  /\ p # NoRequest /\ Settled(p) =>
               /\ SameKey(p, q)
               /\ Fingerprint(request[p].msg) = Fingerprint(request[q].msg)
               /\ (request[p].outcome = "2xx") = (p \in effects)
               /\ request[q].claimedAt < WindowEnd(p)
          /\ p # NoRequest /\ s # NoRequest /\ Settled(p) /\ Settled(s) /\ SameKey(q, r) =>
               p = s \/ WindowEnd(p) <= request[s].claimedAt \/ WindowEnd(s) <= request[p].claimedAt

\* A key whose claimant died or could not complete is not blocked for good: the
\* claim lapses after its retention, at the next Claim or in the maintenance loop.
ClaimedKeyIsFreed == \A k \in Keys : Claimed(k) ~> ~Claimed(k)

\* docs/operations/agent-api.md: "Repeating the same method, canonical route, key,
\* and request returns the stored response"; the request repeated has its target.
ReplayIsOfTheSameTarget ==
    \A r \in Requests :
      request[r].answer = "replay" => request[request[r].by].msg.target = request[r].msg.target
==============================================================================
