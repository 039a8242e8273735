--------------------------- MODULE AccountsProofs ---------------------------
(***************************************************************************)
(* Proofs of the properties of Accounts, for any Members, any number of    *)
(* requests and any bounds.                                                *)
(*                                                                         *)
(* A request goes on with what it has read while others commit.  What it   *)
(* may still rely on when it acts is OwnGrounds: the trip to Lark it has   *)
(* spent is nobody else's, the session it was served under is there, and   *)
(* what was approved is approved.                                          *)
(***************************************************************************)
EXTENDS Accounts, TLAPS

\* The stages of a callback that has spent its authorization and opens a session.
Returning == {"exchanged", "known", "unknown"}

\* An account that nobody has opened is waiting for nothing.
UnboundIsNew ==
  \A p \in Principals : ~user[p].bound => user[p].access = "PENDING" /\ user[p].via = 0

ApprovedIsAnnounced ==
  \A m \in Members : user[m].access = "APPROVED" => <<"approved", m>> \in announced

\* An accepted invitation has opened the account of its target.
AcceptedIsBound ==
  \A i \in Invitations : invitation[i].status = "accepted" => user[invitation[i].target].bound

\* A session belongs to a principal who came back with a spent authorization.
SessionsHaveOrigin ==
  \A s \in Sessions :
    IF session[s].status = "none"
      THEN session[s].owner = NoOne /\ session[s].flow = 0
      ELSE /\ session[s].owner \in Principals /\ session[s].flow \in Flows
           /\ auth[session[s].flow].status = "consumed"

\* What the request r may rely on.
OwnGrounds(r) ==
  /\ req[r].stage \in Returning =>
       /\ auth[req[r].flow].status = "consumed"
       /\ \A s \in Sessions : session[s].flow # req[r].flow
  /\ req[r].stage \in {"resolved", "served", "viewing"} => session[req[r].session].status # "none"
  /\ req[r].stage = "viewing" => user[req[r].member].bound /\ user[req[r].member].access = "APPROVED"
  /\ req[r].stage = "deciding" => user[req[r].member].bound

\* No two requests come back with the same authorization.
OneReturn ==
  \A r, q \in Requests :
    r # q /\ req[r].stage \in Returning /\ req[q].stage \in Returning => req[r].flow # req[q].flow

RequestsAreSound == OneReturn /\ \A r \in Requests : OwnGrounds(r)

\* The inductive invariant.
Inv ==
  /\ TypeOK /\ UnboundIsNew /\ ApprovedIsAnnounced /\ AcceptedIsBound
  /\ SessionsHaveOrigin /\ RequestsAreSound
  /\ InactiveUserHasNoSession /\ LinkAdmitsOnce /\ OneSessionPerAuthorization
  /\ ImpersonatedIsMember

-----------------------------------------------------------------------------
(* Requests.                                                               *)

\* What a request holds at each stage.
LEMMA PendingFields ==
  ASSUME NEW q \in Pending
  PROVE  /\ q.stage = "opening" => q.invitation \in Invitations /\ q.link \in Links
         /\ q.stage \in Returning => q.flow \in Flows /\ q.principal \in Principals
         /\ q.stage \in {"resolved", "served"} =>
              q.session \in Sessions /\ q.subject \in Members \union {NoOne}
         /\ q.stage \in {"inviting", "deciding", "viewing"} => q.member \in Members
         /\ q.stage = "deciding" => q.status \in AccessStatus
         /\ q.stage = "viewing" => q.session \in Sessions
         /\ q.stage \in {"bearer", "invalid"} => q.principal \in Principals
  <1>1. CASE q = Idle
    BY <1>1 DEF Idle, Returning
  <1>2. CASE q \in [stage : {"opening"}, invitation : Invitations, link : Links]
    BY <1>2 DEF Returning
  <1>3. CASE q \in [stage : {"exchanged", "known", "unknown"}, flow : Flows, principal : Principals]
    BY <1>3 DEF Returning
  <1>4. CASE q \in [stage : {"resolved"}, session : Sessions, subject : Members \union {NoOne},
                    admitted : BOOLEAN]
    BY <1>4 DEF Returning
  <1>5. CASE q \in [stage : {"served"}, session : Sessions, subject : Members \union {NoOne}]
    BY <1>5 DEF Returning
  <1>6. CASE q \in [stage : {"inviting"}, member : Members]
    BY <1>6 DEF Returning
  <1>7. CASE q \in [stage : {"deciding"}, member : Members, status : AccessStatus]
    BY <1>7 DEF Returning
  <1>8. CASE q \in [stage : {"viewing"}, session : Sessions, member : Members]
    BY <1>8 DEF Returning
  <1>9. CASE q \in [stage : {"bearer", "invalid"}, principal : Principals]
    BY <1>9 DEF Returning
  <1> QED
    BY <1>1, <1>2, <1>3, <1>4, <1>5, <1>6, <1>7, <1>8, <1>9 DEF Pending

\* A request that has ended relies on nothing.
LEMMA IdleStage == Idle \in Pending /\ Idle.stage = "idle"
  BY DEF Idle, Pending

\* Accounts stay open, approval is not taken back, spent authorizations stay spent and
\* sessions that were opened stay in the table.
Lasting ==
  /\ \A p \in Principals :
       user[p].bound => user'[p].bound /\ (user[p].access = "APPROVED" => user'[p].access = "APPROVED")
  /\ \A f \in Flows : auth[f].status = "consumed" => auth'[f].status = "consumed"
  /\ \A s \in Sessions : session[s].status # "none" => session'[s].status # "none"

\* A request that goes on keeps its grounds, if no session is opened with its authorization.
LEMMA GroundsLast ==
  ASSUME Inv, Lasting, NEW r \in Requests, req'[r] = req[r],
         req[r].stage \in Returning =>
           \A s \in Sessions : session'[s].flow = session[s].flow \/ session'[s].flow # req[r].flow
  PROVE  OwnGrounds(r)'
  <1>1. req[r] \in Pending /\ OwnGrounds(r)
    BY DEF Inv, TypeOK, RequestsAreSound
  <1>2. /\ req[r].stage \in Returning => req[r].flow \in Flows
        /\ req[r].stage \in {"resolved", "served", "viewing"} => req[r].session \in Sessions
        /\ req[r].stage \in {"viewing", "deciding"} => req[r].member \in Principals
    BY <1>1, PendingFields DEF Principals
  <1>3. req'[r].stage \in Returning => /\ auth'[req'[r].flow].status = "consumed"
                                       /\ \A s \in Sessions : session'[s].flow # req'[r].flow
    BY <1>1, <1>2 DEF OwnGrounds, Lasting
  <1>4. req'[r].stage \in {"resolved", "served", "viewing"} => session'[req'[r].session].status # "none"
    BY <1>1, <1>2 DEF OwnGrounds, Lasting
  <1>5. /\ req'[r].stage = "viewing" => user'[req'[r].member].bound
                                        /\ user'[req'[r].member].access = "APPROVED"
        /\ req'[r].stage = "deciding" => user'[req'[r].member].bound
    BY <1>1, <1>2 DEF OwnGrounds, Lasting
  <1> QED
    BY <1>3, <1>4, <1>5 DEF OwnGrounds

\* A step that ends at most one request and opens no session.
LEMMA RequestsLast ==
  ASSUME Inv, Lasting,
         \A r \in Requests : req'[r] = req[r] \/ req'[r] = Idle,
         \A s \in Sessions : session'[s].flow = session[s].flow
  PROVE  RequestsAreSound'
  <1>1. OneReturn'
    BY IdleStage DEF Inv, RequestsAreSound, OneReturn, Returning
  <1>2. ASSUME NEW r \in Requests PROVE OwnGrounds(r)'
    <2>1. CASE req'[r] = req[r]
      BY <2>1, GroundsLast
    <2>2. CASE req'[r] = Idle
      BY <2>2, IdleStage DEF OwnGrounds, Returning
    <2> QED
      BY <2>1, <2>2
  <1> QED
    BY <1>1, <1>2 DEF RequestsAreSound

\* A step that changes one request and no row but those of tokens.
LEMMA OneRequest ==
  ASSUME Inv, NEW r \in Requests, NEW q \in Pending, Becomes(r, q),
         UNCHANGED <<user, invitation, links, auth, session, impersonation, announced>>,
         token' \subseteq Principals,
         OwnGrounds(r)',
         q.stage \in Returning => \A o \in Requests \ {r} :
                                    req[o].stage \in Returning => req[o].flow # q.flow
  PROVE  Inv'
  <1>1. req' \in [Requests -> Pending] /\ req'[r] = q /\ \A o \in Requests \ {r} : req'[o] = req[o]
    BY DEF Becomes, Inv, TypeOK
  <1>2. TypeOK'
    BY <1>1, Zenon DEF Inv, TypeOK
  <1>3. /\ UnboundIsNew' /\ ApprovedIsAnnounced' /\ AcceptedIsBound' /\ SessionsHaveOrigin'
        /\ InactiveUserHasNoSession' /\ LinkAdmitsOnce' /\ OneSessionPerAuthorization'
        /\ ImpersonatedIsMember'
    BY DEF Inv, UnboundIsNew, ApprovedIsAnnounced, AcceptedIsBound, SessionsHaveOrigin,
           InactiveUserHasNoSession, LinkAdmitsOnce, OneSessionPerAuthorization, ImpersonatedIsMember
  <1>4. RequestsAreSound'
    <2>1. Lasting
      BY DEF Lasting
    <2>2. \A o \in Requests \ {r} : OwnGrounds(o)'
      BY <1>1, <2>1, GroundsLast
    <2>3. OneReturn'
      BY <1>1 DEF Inv, RequestsAreSound, OneReturn
    <2> QED
      BY <2>2, <2>3 DEF RequestsAreSound
  <1> QED
    BY <1>2, <1>3, <1>4 DEF Inv

-----------------------------------------------------------------------------
(* The steps that only read, and those of tokens.                          *)

\* The session of a request that was served or resolved, and its owner.
LEMMA ServedSession ==
  ASSUME Inv, NEW r \in Requests, req[r].stage \in {"resolved", "served"}
  PROVE  /\ req[r].session \in Sessions /\ req[r].subject \in Members \union {NoOne}
         /\ session[req[r].session].status # "none"
         /\ session[req[r].session].owner \in Principals
  <1>1. req[r] \in Pending /\ OwnGrounds(r)
    BY DEF Inv, TypeOK, RequestsAreSound
  <1>2. req[r].session \in Sessions /\ req[r].subject \in Members \union {NoOne}
    BY <1>1, PendingFields
  <1>3. session[req[r].session].status # "none"
    BY <1>1 DEF OwnGrounds
  <1> QED
    BY <1>2, <1>3 DEF Inv, SessionsHaveOrigin

\* The rows in the types that TypeOK gives them.
LEMMA Rows ==
  ASSUME TypeOK
  PROVE  /\ \A p \in Principals : /\ user[p].bound \in BOOLEAN /\ user[p].access \in AccessStatus
                                  /\ user[p].active \in BOOLEAN /\ user[p].via \in 0 .. MaxLinks
         /\ \A i \in Invitations : /\ invitation[i].target \in Members \union {NoOne}
                                   /\ invitation[i].link \in 0 .. MaxLinks
                                   /\ invitation[i].status # "none" =>
                                        /\ invitation[i].target \in Members
                                        /\ invitation[i].link \in Links
         /\ \A f \in Flows : auth[f].invitation \in 0 .. MaxInvitations /\ auth[f].link \in 0 .. MaxLinks
         /\ \A s \in Sessions : impersonation[s] \in Members \union {NoOne}
         /\ \A r \in Requests : req[r] \in Pending
         /\ links \in 0 .. MaxLinks
  <1>1. \A p \in Principals : /\ user[p].bound \in BOOLEAN /\ user[p].access \in AccessStatus
                              /\ user[p].active \in BOOLEAN /\ user[p].via \in 0 .. MaxLinks
    BY DEF TypeOK
  <1>2. \A i \in Invitations : /\ invitation[i].target \in Members \union {NoOne}
                               /\ invitation[i].link \in 0 .. MaxLinks
    BY DEF TypeOK
  <1>3. links \in 0 .. MaxLinks
    BY DEF TypeOK
  <1>4. \A i \in Invitations : invitation[i].status # "none" =>
                                 invitation[i].target \in Members /\ invitation[i].link \in Links
    BY <1>2, <1>3, AccountConstants DEF TypeOK, Links
  <1>5. \A f \in Flows : auth[f].invitation \in 0 .. MaxInvitations /\ auth[f].link \in 0 .. MaxLinks
    BY DEF TypeOK
  <1>6. /\ \A s \in Sessions : impersonation[s] \in Members \union {NoOne}
        /\ \A r \in Requests : req[r] \in Pending
    BY DEF TypeOK
  <1> QED
    BY <1>1, <1>2, <1>3, <1>4, <1>5, <1>6

\* A request that ends, having changed at most the tokens.
LEMMA Ends ==
  ASSUME Inv, NEW r \in Requests, Becomes(r, Idle),
         UNCHANGED <<user, invitation, links, auth, session, impersonation, announced>>,
         token' \subseteq Principals
  PROVE  Inv'
  <1>1. req'[r] = Idle
    BY DEF Becomes, Inv, TypeOK
  <1>2. OwnGrounds(r)'
    BY <1>1, IdleStage DEF OwnGrounds, Returning
  <1> QED
    BY <1>2, IdleStage, OneRequest DEF Returning

\* The steps of a request that read and go on.
LEMMA ReadingStep ==
  ASSUME Inv, NEW r \in Requests,
         \/ AcceptInvitationToken(r) \/ ResolveSession(r) \/ revalidate(r) \/ Serve(r)
         \/ CreateInvitation(r) \/ DecideAccess(r) \/ CanImpersonate(r) \/ Authenticate(r)
  PROVE  Inv'
  <1>0. TypeOK /\ token \subseteq Principals /\ req \in [Requests -> Pending]
    BY DEF Inv, TypeOK
  <1>1. CASE AcceptInvitationToken(r)
    <2>1. PICK i \in Invitations :
            /\ invitation[i].status = "pending"
            /\ Becomes(r, [stage |-> "opening", invitation |-> i, link |-> invitation[i].link])
      BY <1>1, ZenonT(30) DEF AcceptInvitationToken
    <2> DEFINE q == [stage |-> "opening", invitation |-> i, link |-> invitation[i].link]
    <2>2. q \in Pending /\ q.stage = "opening"
      BY <1>0, <2>1, Rows DEF Pending
    <2>3. Becomes(r, q)
      BY <2>1
    <2> HIDE DEF q
    <2>4. req'[r] = q
      BY <1>0, <2>3, Zenon DEF Becomes
    <2>5. OwnGrounds(r)'
      BY <2>2, <2>4, Zenon DEF OwnGrounds, Returning
    <2> QED
      BY <1>0, <1>1, <2>2, <2>3, <2>5, OneRequest DEF AcceptInvitationToken, Returning
  <1>2. CASE ResolveSession(r)
    <2>1. PICK s \in Sessions :
            /\ session[s].status = "live"
            /\ Becomes(r, [stage |-> "resolved", session |-> s, subject |-> impersonation[s],
                           admitted |-> impersonation[s] = NoOne \/ user[impersonation[s]].active])
      BY <1>2 DEF ResolveSession
    <2> DEFINE ok == impersonation[s] = NoOne \/ user[impersonation[s]].active
               q == [stage |-> "resolved", session |-> s, subject |-> impersonation[s], admitted |-> ok]
    <2>2. ok \in BOOLEAN /\ impersonation[s] \in Members \union {NoOne}
      BY <1>0, Rows
    <2>3. Becomes(r, q)
      BY <2>1
    <2> HIDE DEF ok
    <2>4. q \in Pending /\ q.stage = "resolved" /\ q.session = s
      BY <2>2 DEF Pending
    <2> HIDE DEF q
    <2>5. req'[r] = q
      BY <1>0, <2>3, Zenon DEF Becomes
    <2>6. OwnGrounds(r)'
      BY <1>2, <2>1, <2>4, <2>5, Zenon DEF OwnGrounds, Returning, ResolveSession
    <2> QED
      BY <1>0, <1>2, <2>3, <2>4, <2>6, OneRequest, Zenon DEF ResolveSession, Returning
  <1>3. CASE revalidate(r)
    <2> DEFINE q == [stage |-> "invalid", principal |-> session[req[r].session].owner]
    <2>1. session[req[r].session].owner \in Principals
      BY <1>3, ServedSession, Zenon DEF revalidate
    <2>2. q \in Pending /\ q.stage = "invalid"
      BY <2>1, Zenon DEF Pending
    <2>3. Becomes(r, q)
      BY <1>3 DEF revalidate
    <2> HIDE DEF q
    <2>4. req'[r] = q
      BY <1>0, <2>3, Zenon DEF Becomes
    <2>5. OwnGrounds(r)'
      BY <2>2, <2>4 DEF OwnGrounds, Returning
    <2> QED
      BY <1>0, <1>3, <2>2, <2>3, <2>5, OneRequest, Zenon DEF revalidate, Returning
  <1>4. CASE Serve(r)
    <2> DEFINE q == [stage |-> "served", session |-> req[r].session, subject |-> req[r].subject]
    <2>1. /\ req[r].session \in Sessions /\ req[r].subject \in Members \union {NoOne}
          /\ session[req[r].session].status # "none"
      BY <1>4, ServedSession, Zenon DEF Serve
    <2>2. q \in Pending /\ q.stage = "served" /\ q.session = req[r].session
      BY <2>1, Zenon DEF Pending
    <2>3. Becomes(r, q)
      BY <1>4 DEF Serve
    <2> HIDE DEF q
    <2>4. req'[r] = q
      BY <1>0, <2>3, ZenonT(30) DEF Becomes
    <2>5. OwnGrounds(r)'
      BY <1>4, <2>1, <2>2, <2>4 DEF OwnGrounds, Returning, Serve
    <2> QED
      BY <1>0, <1>4, <2>2, <2>3, <2>5, OneRequest, Zenon DEF Serve, Returning
  <1>5. CASE CreateInvitation(r)
    <2>1. PICK m \in Members : Becomes(r, [stage |-> "inviting", member |-> m])
      BY <1>5, Zenon DEF CreateInvitation
    <2> DEFINE q == [stage |-> "inviting", member |-> m]
    <2>2. q \in Pending /\ q.stage = "inviting"
      BY DEF Pending
    <2>3. Becomes(r, q)
      BY <2>1
    <2> HIDE DEF q
    <2>4. req'[r] = q
      BY <1>0, <2>3 DEF Becomes
    <2>5. OwnGrounds(r)'
      BY <2>2, <2>4 DEF OwnGrounds, Returning
    <2> QED
      BY <1>0, <1>5, <2>2, <2>3, <2>5, OneRequest DEF CreateInvitation, Returning
  <1>6. CASE DecideAccess(r)
    <2>1. PICK m \in Members, status \in {"APPROVED", "REJECTED"} :
            user[m].bound /\ Becomes(r, [stage |-> "deciding", member |-> m, status |-> status])
      BY <1>6, Zenon DEF DecideAccess
    <2> DEFINE q == [stage |-> "deciding", member |-> m, status |-> status]
    <2>2. q \in Pending /\ q.stage = "deciding" /\ q.member = m
      BY DEF Pending, AccessStatus
    <2>3. Becomes(r, q)
      BY <2>1
    <2> HIDE DEF q
    <2>4. req'[r] = q
      BY <1>0, <2>3, Zenon DEF Becomes
    <2>5. OwnGrounds(r)'
      BY <1>6, <2>1, <2>2, <2>4 DEF OwnGrounds, Returning, DecideAccess
    <2> QED
      BY <1>0, <1>6, <2>2, <2>3, <2>5, OneRequest DEF DecideAccess, Returning
  <1>7. CASE CanImpersonate(r)
    <2>1. PICK m \in Members :
            /\ user[m].bound /\ CanUseApplication(m)
            /\ Becomes(r, [stage |-> "viewing", session |-> req[r].session, member |-> m])
      BY <1>7, Zenon DEF CanImpersonate
    <2> DEFINE q == [stage |-> "viewing", session |-> req[r].session, member |-> m]
    <2>2. req[r].session \in Sessions /\ session[req[r].session].status # "none"
      BY <1>7, ServedSession, Zenon DEF CanImpersonate, ServedAs
    <2>3. q \in Pending /\ q.stage = "viewing" /\ q.member = m /\ q.session = req[r].session
      BY <2>2 DEF Pending
    <2>4. Becomes(r, q)
      BY <2>1
    <2> HIDE DEF q
    <2>5. req'[r] = q
      BY <1>0, <2>4, Zenon DEF Becomes
    <2>6. OwnGrounds(r)'
      BY <1>7, <2>1, <2>2, <2>3, <2>5 DEF OwnGrounds, Returning, CanImpersonate, CanUseApplication
    <2> QED
      BY <1>0, <1>7, <2>3, <2>4, <2>6, OneRequest DEF CanImpersonate, Returning
  <1>8. CASE Authenticate(r)
    <2>1. PICK p \in Principals : Becomes(r, [stage |-> "bearer", principal |-> p])
      BY <1>0, <1>8 DEF Authenticate
    <2> DEFINE q == [stage |-> "bearer", principal |-> p]
    <2>2. q \in Pending /\ q.stage = "bearer"
      BY DEF Pending
    <2>3. Becomes(r, q)
      BY <2>1
    <2> HIDE DEF q
    <2>4. req'[r] = q
      BY <1>0, <2>3, Zenon DEF Becomes
    <2>5. OwnGrounds(r)'
      BY <2>2, <2>4 DEF OwnGrounds, Returning
    <2> QED
      BY <1>0, <1>8, <2>2, <2>3, <2>5, OneRequest DEF Authenticate, Returning
  <1> QED
    BY <1>1, <1>2, <1>3, <1>4, <1>5, <1>6, <1>7, <1>8

\* A login that has looked its principal up holds the same authorization as before, and
\* requests end; Issue and Revoke change the tokens alone.
LEMMA LookupStep ==
  ASSUME Inv, NEW r \in Requests, findLoginUser(r) \/ Abandon(r) \/ Issue(r) \/ Revoke(r)
  PROVE  Inv'
  <1>0. TypeOK /\ token \subseteq Principals /\ req \in [Requests -> Pending]
    BY Zenon DEF Inv, TypeOK
  <1>1. CASE findLoginUser(r)
    <2> DEFINE q == [stage |-> IF user[req[r].principal].bound THEN "known" ELSE "unknown",
                     flow |-> req[r].flow, principal |-> req[r].principal]
    <2>1. req[r].stage \in Returning /\ req[r].flow \in Flows /\ req[r].principal \in Principals
      BY <1>0, <1>1, PendingFields, Zenon DEF findLoginUser, Returning
    <2>2. q \in Pending /\ q.stage \in {"known", "unknown"} /\ q.flow = req[r].flow
      BY <2>1, Zenon DEF Pending
    <2>3. Becomes(r, q)
      BY <1>1 DEF findLoginUser
    <2> HIDE DEF q
    <2>4. req'[r] = q
      BY <1>0, <2>3, Zenon DEF Becomes
    <2>5. OwnGrounds(r)'
      BY <1>1, <2>1, <2>2, <2>4, Zenon DEF OwnGrounds, Returning, findLoginUser, Inv, RequestsAreSound
    <2>6. \A o \in Requests \ {r} : req[o].stage \in Returning => req[o].flow # q.flow
      BY <2>1, <2>2 DEF Inv, RequestsAreSound, OneReturn
    <2> QED
      BY <1>0, <1>1, <2>2, <2>3, <2>5, <2>6, OneRequest, Zenon DEF findLoginUser
  <1>2. CASE Abandon(r)
    BY <1>0, <1>2, Ends, Zenon DEF Abandon
  <1>3. CASE Issue(r) \/ Revoke(r)
    BY <1>0, <1>3, Ends DEF Issue, Revoke
  <1> QED
    BY <1>1, <1>2, <1>3

-----------------------------------------------------------------------------
(* Invitations and authorizations.                                         *)

AuthRows == [status : {"none", "open", "consumed"},
             invitation : 0 .. MaxInvitations, link : 0 .. MaxLinks]

InvitationRows == [status : {"none", "pending", "lapsed", "expired", "revoked", "accepted"},
                   target : Members \union {NoOne}, link : 0 .. MaxLinks]

\* A step on the papers of entry: spent authorizations stay spent, accepted invitations
\* stay as they are and no invitation is accepted.
LEMMA PapersStep ==
  ASSUME Inv, UNCHANGED <<user, session, impersonation, token, announced>>,
         req' \in [Requests -> Pending],
         \A r \in Requests : req'[r] = req[r] \/ req'[r] = Idle,
         auth' \in [Flows -> AuthRows],
         \A f \in Flows : auth[f].status = "consumed" => auth'[f].status = "consumed",
         invitation' \in [Invitations -> InvitationRows], links' \in 0 .. MaxLinks,
         \A i \in Invitations : invitation'[i].status # "none" =>
            invitation'[i].target # NoOne /\ invitation'[i].link \in 1 .. links',
         \A i \in Invitations : invitation[i].status = "accepted" \/ invitation'[i].status = "accepted"
                                  => invitation'[i] = invitation[i]
  PROVE  Inv'
  <1>1. TypeOK'
    BY Zenon DEF Inv, TypeOK, AuthRows, InvitationRows
  <1>2. /\ UnboundIsNew' /\ ApprovedIsAnnounced'
        /\ InactiveUserHasNoSession' /\ OneSessionPerAuthorization' /\ ImpersonatedIsMember'
    BY DEF Inv, UnboundIsNew, ApprovedIsAnnounced, InactiveUserHasNoSession,
           OneSessionPerAuthorization, ImpersonatedIsMember
  <1>3. AcceptedIsBound'
    BY Zenon DEF Inv, AcceptedIsBound
  <1>4. SessionsHaveOrigin'
    BY Zenon DEF Inv, SessionsHaveOrigin
  <1>5. LinkAdmitsOnce'
    <2>1. SUFFICES ASSUME NEW p \in Principals, user[p].via # 0
                   PROVE  \E i \in Invitations :
                            /\ invitation'[i] = [status |-> "accepted", target |-> p,
                                                 link |-> user[p].via]
                            /\ \A j \in Invitations \ {i} : invitation'[j].target = p
                                          => invitation'[j].status # "accepted"
      BY Zenon DEF LinkAdmitsOnce
    <2>2. PICK i \in Invitations :
            /\ invitation[i] = [status |-> "accepted", target |-> p, link |-> user[p].via]
            /\ \A j \in Invitations \ {i} : invitation[j].target = p
                                              => invitation[j].status # "accepted"
      BY <2>1, Zenon DEF Inv, LinkAdmitsOnce
    <2>3. invitation'[i] = invitation[i]
      BY <2>2
    <2>4. \A j \in Invitations \ {i} : invitation'[j].target = p => invitation'[j].status # "accepted"
      BY <2>2
    <2> QED
      BY <2>2, <2>3, <2>4, Zenon
  <1>6. RequestsAreSound'
    <2>1. Lasting
      BY DEF Lasting
    <2> QED
      BY <2>1, RequestsLast
  <1> QED
    BY <1>1, <1>2, <1>3, <1>4, <1>5, <1>6, Zenon DEF Inv

\* What a request that ends, or none, leaves in req.
LEMMA RequestEnds ==
  ASSUME Inv, NEW r \in Requests, Becomes(r, Idle)
  PROVE  req' \in [Requests -> Pending] /\ \A q \in Requests : req'[q] = req[q] \/ req'[q] = Idle
  BY IdleStage DEF Becomes, Inv, TypeOK

\* The tables of papers, as TypeOK gives them.
LEMMA Papers ==
  ASSUME Inv
  PROVE  /\ auth \in [Flows -> AuthRows] /\ invitation \in [Invitations -> InvitationRows]
         /\ links \in 0 .. MaxLinks /\ req \in [Requests -> Pending]
         /\ \A i \in Invitations : invitation[i].status # "none" =>
              invitation[i].target # NoOne /\ invitation[i].link \in 1 .. links
  BY DEF Inv, TypeOK, AuthRows, InvitationRows

\* Authorizations that are started or run out.
LEMMA AuthorizationStep ==
  ASSUME Inv, \/ StartAuthorization
              \/ \E r \in Requests : CreateAuthorizationTransaction(r)
              \/ \E f \in Flows : AuthorizationExpires(f)
  PROVE  Inv'
  <1>1. CASE StartAuthorization
    <2>1. PICK f \in Flows : auth[f].status = "none" /\ auth' = [auth EXCEPT ![f].status = "open"]
      BY <1>1, Zenon DEF StartAuthorization, Fresh
    <2>2. auth' \in [Flows -> AuthRows]
      BY <2>1, Papers DEF AuthRows
    <2>3. \A g \in Flows : auth[g].status = "consumed" => auth'[g].status = "consumed"
      BY <2>1, Papers, Zenon
    <2> QED
      BY <1>1, <2>2, <2>3, Papers, PapersStep DEF StartAuthorization
  <1>2. ASSUME NEW r \in Requests, CreateAuthorizationTransaction(r) PROVE Inv'
    <2> DEFINE row == [status |-> "open", invitation |-> req[r].invitation, link |-> req[r].link]
    <2>1. PICK f \in Flows : auth[f].status = "none" /\ auth' = [auth EXCEPT ![f] = row]
      BY <1>2, Zenon DEF CreateAuthorizationTransaction, Fresh
    <2>2. req[r].invitation \in Invitations /\ req[r].link \in Links
      BY <1>2, Papers, PendingFields, Zenon DEF CreateAuthorizationTransaction
    <2>3. row \in AuthRows
      BY <2>2, AccountConstants DEF AuthRows, Invitations, Links
    <2>4. auth' \in [Flows -> AuthRows]
      BY <2>1, <2>3, Papers
    <2>5. \A g \in Flows : auth[g].status = "consumed" => auth'[g].status = "consumed"
      BY <2>1, Papers, Zenon
    <2>6. req' \in [Requests -> Pending] /\ \A q \in Requests : req'[q] = req[q] \/ req'[q] = Idle
      BY <1>2, RequestEnds DEF CreateAuthorizationTransaction
    <2> QED
      BY <1>2, <2>4, <2>5, <2>6, Papers, PapersStep, Zenon DEF CreateAuthorizationTransaction
  <1>3. ASSUME NEW f \in Flows, AuthorizationExpires(f) PROVE Inv'
    <2>1. auth' = [auth EXCEPT ![f].status = "consumed"]
      BY <1>3 DEF AuthorizationExpires
    <2>2. auth' \in [Flows -> AuthRows]
      BY <2>1, Papers DEF AuthRows
    <2>3. \A g \in Flows : auth[g].status = "consumed" => auth'[g].status = "consumed"
      BY <2>1, Papers DEF AuthRows
    <2> QED
      BY <1>3, <2>2, <2>3, Papers, PapersStep DEF AuthorizationExpires
  <1> QED
    BY <1>1, <1>2, <1>3

\* The authorizations of an invitation that is replaced or revoked are spent.
LEMMA Invalidated ==
  ASSUME Inv, NEW i, invalidateInvitationAuthorizations(i)
  PROVE  /\ auth' \in [Flows -> AuthRows]
         /\ \A f \in Flows : auth[f].status = "consumed" => auth'[f].status = "consumed"
  BY Papers DEF invalidateInvitationAuthorizations, AuthRows

\* Invitations that are made, replaced, revoked or run out.
LEMMA InvitationStep ==
  ASSUME Inv, \/ \E r \in Requests : \/ InsertInvitation(r) \/ RotateInvitation(r)
                                     \/ RevokeInvitation(r) \/ ExpireInvitations(r)
              \/ \E i \in Invitations : InvitationLapses(i)
  PROVE  Inv'
  <1>0. /\ auth \in [Flows -> AuthRows] /\ invitation \in [Invitations -> InvitationRows]
        /\ links \in 0 .. MaxLinks /\ req \in [Requests -> Pending]
        /\ \A i \in Invitations : invitation[i].status # "none" =>
              invitation[i].target # NoOne /\ invitation[i].link \in 1 .. links
        /\ \A i \in Invitations : invitation[i] \in InvitationRows
    BY Papers, ZenonT(30)
  <1>1. ASSUME NEW r \in Requests, InsertInvitation(r) PROVE Inv'
    <2> DEFINE row == [status |-> "pending", target |-> req[r].member, link |-> links + 1]
    <2>1. PICK i \in Invitations : /\ invitation[i].status = "none"
                                   /\ invitation' = [invitation EXCEPT ![i] = row]
      BY <1>1, Zenon DEF InsertInvitation, Fresh
    <2>2. req[r].member \in Members
      BY <1>0, <1>1, PendingFields, Zenon DEF InsertInvitation
    <2>3. links' = links + 1 /\ links' \in 0 .. MaxLinks
      BY <1>0, <1>1, AccountConstants DEF InsertInvitation
    <2>4. /\ row \in InvitationRows /\ row.status = "pending" /\ row.target # NoOne
          /\ row.link = links'
      BY <2>2, <2>3, AccountConstants DEF InvitationRows
    <2> HIDE DEF row
    <2>5. invitation' \in [Invitations -> InvitationRows]
      BY <1>0, <2>1, <2>4
    <2>6. invitation'[i] = row /\ \A j \in Invitations \ {i} : invitation'[j] = invitation[j]
      BY <1>0, <2>1, Zenon
    <2>7. \A j \in Invitations : invitation'[j].status # "none" =>
            invitation'[j].target # NoOne /\ invitation'[j].link \in 1 .. links'
      <3>1. TAKE j \in Invitations
      <3>2. CASE j = i
        BY <1>0, <2>3, <2>4, <2>6, <3>2
      <3>3. CASE j # i
        BY <1>0, <2>3, <2>6, <3>3
      <3> QED
        BY <3>2, <3>3
    <2>8. \A j \in Invitations : invitation[j].status = "accepted" \/ invitation'[j].status = "accepted"
                                  => invitation'[j] = invitation[j]
      BY <2>1, <2>4, <2>6, Zenon
    <2>9. req' \in [Requests -> Pending] /\ \A q \in Requests : req'[q] = req[q] \/ req'[q] = Idle
      BY <1>1, RequestEnds DEF InsertInvitation
    <2> QED
      BY <1>0, <1>1, <2>3, <2>5, <2>7, <2>8, <2>9, PapersStep, Zenon DEF InsertInvitation
  <1>2. ASSUME NEW r \in Requests, RotateInvitation(r) PROVE Inv'
    <2>1. PICK i \in Invitations : /\ invitation[i].status = "pending"
                                   /\ invitation' = [invitation EXCEPT ![i].link = links + 1]
                                   /\ invalidateInvitationAuthorizations(i)
      BY <1>2, Zenon DEF RotateInvitation
    <2>2. links' = links + 1 /\ links' \in 0 .. MaxLinks
      BY <1>0, <1>2, AccountConstants DEF RotateInvitation
    <2> DEFINE row == [invitation[i] EXCEPT !.link = links + 1]
    <2>3. /\ row \in InvitationRows /\ row.status = "pending" /\ row.target # NoOne
          /\ row.link = links'
      BY <1>0, <2>1, <2>2 DEF InvitationRows
    <2>4. invitation' = [invitation EXCEPT ![i] = row]
      BY <1>0, <2>1
    <2> HIDE DEF row
    <2>5. invitation' \in [Invitations -> InvitationRows]
      BY <1>0, <2>3, <2>4
    <2>6. invitation'[i] = row /\ \A j \in Invitations \ {i} : invitation'[j] = invitation[j]
      BY <1>0, <2>4
    <2>7. \A j \in Invitations : invitation'[j].status # "none" =>
            invitation'[j].target # NoOne /\ invitation'[j].link \in 1 .. links'
      <3>1. TAKE j \in Invitations
      <3>2. CASE j = i
        BY <1>0, <2>2, <2>3, <2>6, <3>2
      <3>3. CASE j # i
        BY <1>0, <2>2, <2>6, <3>3
      <3> QED
        BY <3>2, <3>3
    <2>8. \A j \in Invitations : invitation[j].status = "accepted" \/ invitation'[j].status = "accepted"
                                  => invitation'[j] = invitation[j]
      BY <2>1, <2>3, <2>6
    <2>9. req' \in [Requests -> Pending] /\ \A q \in Requests : req'[q] = req[q] \/ req'[q] = Idle
      BY <1>2, RequestEnds DEF RotateInvitation
    <2>10. /\ auth' \in [Flows -> AuthRows]
           /\ \A f \in Flows : auth[f].status = "consumed" => auth'[f].status = "consumed"
      BY <2>1, Invalidated
    <2> QED
      BY <1>2, <2>2, <2>5, <2>7, <2>8, <2>9, <2>10, PapersStep DEF RotateInvitation
  <1>3. ASSUME NEW i \in Invitations, NEW status \in {"revoked", "lapsed"},
               invitation[i].status = "pending",
               invitation' = [invitation EXCEPT ![i].status = status]
        PROVE  /\ invitation' \in [Invitations -> InvitationRows]
               /\ \A j \in Invitations : invitation'[j].status # "none" =>
                    invitation'[j].target # NoOne /\ invitation'[j].link \in 1 .. links
               /\ \A j \in Invitations :
                    invitation[j].status = "accepted" \/ invitation'[j].status = "accepted"
                       => invitation'[j] = invitation[j]
    <2> DEFINE row == [invitation[i] EXCEPT !.status = status]
    <2>1. /\ row \in InvitationRows /\ row.status = status /\ row.target = invitation[i].target
          /\ row.link = invitation[i].link
      BY <1>0 DEF InvitationRows
    <2>2. invitation' = [invitation EXCEPT ![i] = row]
      BY <1>0, <1>3
    <2> HIDE DEF row
    <2>3. invitation' \in [Invitations -> InvitationRows]
      BY <1>0, <2>1, <2>2
    <2>4. invitation'[i] = row /\ \A j \in Invitations \ {i} : invitation'[j] = invitation[j]
      BY <1>0, <2>2
    <2> QED
      BY <1>0, <1>3, <2>1, <2>3, <2>4
  <1>4. ASSUME NEW r \in Requests, RevokeInvitation(r) PROVE Inv'
    <2>1. PICK i \in Invitations : /\ invitation[i].status = "pending"
                                   /\ invitation' = [invitation EXCEPT ![i].status = "revoked"]
                                   /\ invalidateInvitationAuthorizations(i)
      BY <1>4, Zenon DEF RevokeInvitation
    <2>2. req' \in [Requests -> Pending] /\ \A q \in Requests : req'[q] = req[q] \/ req'[q] = Idle
      BY <1>4, RequestEnds DEF RevokeInvitation
    <2>3. /\ auth' \in [Flows -> AuthRows]
          /\ \A f \in Flows : auth[f].status = "consumed" => auth'[f].status = "consumed"
      BY <2>1, Invalidated
    <2>4. links' = links /\ UNCHANGED <<user, session, impersonation, token, announced>>
      BY <1>4, Zenon DEF RevokeInvitation
    <2> QED
      BY <1>0, <1>3, <2>1, <2>2, <2>3, <2>4, PapersStep, Zenon
  <1>5. ASSUME NEW r \in Requests, ExpireInvitations(r) PROVE Inv'
    <2>1. \A j \in Invitations :
            invitation'[j] = IF invitation[j].status = "lapsed"
                               THEN [invitation[j] EXCEPT !.status = "expired"] ELSE invitation[j]
      BY <1>5, Zenon DEF ExpireInvitations
    <2>2. ASSUME NEW j \in Invitations
          PROVE  /\ invitation'[j] \in InvitationRows
                 /\ invitation'[j].status # "none" =>
                      invitation'[j].target # NoOne /\ invitation'[j].link \in 1 .. links
                 /\ invitation[j].status = "accepted" \/ invitation'[j].status = "accepted"
                       => invitation'[j] = invitation[j]
      <3>1. CASE invitation[j].status = "lapsed"
        BY <1>0, <2>1, <3>1, Zenon DEF InvitationRows
      <3>2. CASE invitation[j].status # "lapsed"
        BY <1>0, <2>1, <3>2, Zenon
      <3> QED
        BY <3>1, <3>2
    <2>3. invitation' \in [Invitations -> InvitationRows]
      BY <1>5, <2>2 DEF ExpireInvitations
    <2>4. req' \in [Requests -> Pending] /\ \A q \in Requests : req'[q] = req[q] \/ req'[q] = Idle
      BY <1>5, RequestEnds DEF ExpireInvitations
    <2>5. auth' = auth /\ links' = links /\ UNCHANGED <<user, session, impersonation, token, announced>>
      BY <1>5 DEF ExpireInvitations
    <2> QED
      BY <1>0, <2>2, <2>3, <2>4, <2>5, PapersStep
  <1>6. ASSUME NEW i \in Invitations, InvitationLapses(i) PROVE Inv'
    <2>1. /\ invitation[i].status = "pending"
          /\ invitation' = [invitation EXCEPT ![i].status = "lapsed"]
          /\ req' = req /\ auth' = auth /\ links' = links
          /\ UNCHANGED <<user, session, impersonation, token, announced>>
      BY <1>6 DEF InvitationLapses
    <2> QED
      BY <1>0, <1>3, <2>1, PapersStep, Zenon
  <1> QED
    BY <1>1, <1>2, <1>4, <1>5, <1>6

-----------------------------------------------------------------------------
(* The callback.                                                           *)

\* The authorization a callback spends was open, so nobody else has come back with it.
LEMMA ConsumeStep ==
  ASSUME Inv, NEW r \in Requests, ConsumeAuthorizationState(r)
  PROVE  Inv'
  <1>1. PICK f \in Flows, p \in Principals :
          /\ auth[f].status = "open"
          /\ auth' = [auth EXCEPT ![f].status = "consumed"]
          /\ Becomes(r, [stage |-> "exchanged", flow |-> f, principal |-> p])
    BY Zenon DEF ConsumeAuthorizationState
  <1> DEFINE q == [stage |-> "exchanged", flow |-> f, principal |-> p]
  <1>2. q \in Pending /\ q.stage = "exchanged" /\ q.flow = f
    BY Zenon DEF Pending
  <1>3. req' = [req EXCEPT ![r] = q]
    BY <1>1 DEF Becomes
  <1> HIDE DEF q
  <1>4. req' \in [Requests -> Pending] /\ req'[r] = q /\ \A o \in Requests \ {r} : req'[o] = req[o]
    BY <1>2, <1>3, Papers
  <1>5. auth' \in [Flows -> AuthRows]
    BY <1>1, Papers DEF AuthRows
  <1>6. auth'[f].status = "consumed" /\ \A g \in Flows \ {f} : auth'[g] = auth[g]
    BY <1>1, Papers DEF AuthRows
  <1>7. UNCHANGED <<user, invitation, links, session, impersonation, token, announced>>
    BY Zenon DEF ConsumeAuthorizationState
  <1>8. TypeOK'
    BY <1>4, <1>5, <1>7, ZenonT(30) DEF Inv, TypeOK, AuthRows
  <1>9. /\ UnboundIsNew' /\ ApprovedIsAnnounced' /\ AcceptedIsBound' /\ LinkAdmitsOnce'
        /\ InactiveUserHasNoSession' /\ OneSessionPerAuthorization' /\ ImpersonatedIsMember'
    BY <1>7 DEF Inv, UnboundIsNew, ApprovedIsAnnounced, AcceptedIsBound, LinkAdmitsOnce,
                InactiveUserHasNoSession, OneSessionPerAuthorization, ImpersonatedIsMember
  <1>10. \A g \in Flows : auth[g].status = "consumed" => auth'[g].status = "consumed"
    BY <1>6, Zenon
  <1>11. SessionsHaveOrigin'
    BY <1>7, <1>10 DEF Inv, SessionsHaveOrigin
  <1>12. RequestsAreSound'
    <2>1. Lasting
      BY <1>7, <1>10, Zenon DEF Lasting
    <2>2. \A o \in Requests \ {r} : OwnGrounds(o)'
      BY <1>4, <1>7, <2>1, GroundsLast
    <2>3. \A s \in Sessions : session[s].flow # f
      <3>1. 0 \notin Flows
        BY AccountConstants DEF Flows
      <3> QED
        BY <1>1, <3>1 DEF Inv, SessionsHaveOrigin
    <2>4. OwnGrounds(r)'
      BY <1>2, <1>4, <1>6, <1>7, <2>3 DEF OwnGrounds, Returning
    <2>5. \A o \in Requests \ {r} : req[o].stage \in Returning => req[o].flow # f
      BY <1>1, Zenon DEF Inv, RequestsAreSound, OwnGrounds
    <2>6. OneReturn'
      BY <1>2, <1>4, <2>5, Zenon DEF Inv, RequestsAreSound, OneReturn
    <2> QED
      BY <2>2, <2>4, <2>6, Zenon DEF RequestsAreSound
  <1> QED
    BY <1>8, <1>9, <1>11, <1>12 DEF Inv

SessionRows == [status : {"none", "live", "expired", "revoked"},
                owner : Principals \union {NoOne}, flow : 0 .. MaxFlows]

UserRows == [bound : BOOLEAN, access : AccessStatus, active : BOOLEAN, via : 0 .. MaxLinks]

\* The tables of users and sessions, as TypeOK gives them.
LEMMA People ==
  ASSUME Inv
  PROVE  /\ session \in [Sessions -> SessionRows] /\ user \in [Principals -> UserRows]
         /\ \A s \in Sessions : session[s] \in SessionRows
         /\ \A p \in Principals : user[p] \in UserRows
         /\ impersonation \in [Sessions -> Members \union {NoOne}]
         /\ token \subseteq Principals
         /\ announced \subseteq ({"requested", "approved"} \X Members)
  BY Zenon DEF Inv, TypeOK, SessionRows, UserRows

\* A login opens one session, for the principal and with the authorization it came back
\* with; it touches no account but that one, and not even that if it was open before.
LEMMA OpensSession ==
  ASSUME Inv, NEW r \in Requests, req[r].stage \in Returning,
         insertSession(req[r].principal, req[r].flow), Becomes(r, Idle),
         UNCHANGED <<auth, impersonation>>,
         user' \in [Principals -> UserRows],
         \A p \in Principals : p # req[r].principal \/ user[p].bound => user'[p] = user[p],
         user'[req[r].principal].active
  PROVE  /\ session' \in [Sessions -> SessionRows] /\ req' \in [Requests -> Pending]
         /\ SessionsHaveOrigin' /\ RequestsAreSound' /\ InactiveUserHasNoSession'
         /\ OneSessionPerAuthorization' /\ ImpersonatedIsMember'
  <1> DEFINE p == req[r].principal
             f == req[r].flow
             row == [status |-> "live", owner |-> p, flow |-> f]
  <1>1. p \in Principals /\ f \in Flows
    BY Papers, PendingFields, Zenon
  <1>2. /\ auth[f].status = "consumed" /\ \A s \in Sessions : session[s].flow # f
    BY Zenon DEF Inv, RequestsAreSound, OwnGrounds
  <1>3. PICK s \in Sessions : session[s].status = "none" /\ session' = [session EXCEPT ![s] = row]
    BY Zenon DEF insertSession, Fresh
  <1>4. row \in SessionRows /\ row.status = "live" /\ row.owner = p /\ row.flow = f
    BY <1>1, SMTT(30) DEF SessionRows, Flows
  <1> HIDE DEF p, f, row
  <1>5. /\ session' \in [Sessions -> SessionRows] /\ session'[s] = row
        /\ \A t \in Sessions \ {s} : session'[t] = session[t]
    BY <1>3, <1>4, People, Zenon
  <1>6. session[s].owner = NoOne /\ session[s].flow = 0
    BY <1>3, Zenon DEF Inv, SessionsHaveOrigin
  <1>7. /\ req' \in [Requests -> Pending] /\ req'[r] = Idle
        /\ \A q \in Requests \ {r} : req'[q] = req[q]
    BY IdleStage, Papers, Zenon DEF Becomes
  <1>8. SessionsHaveOrigin'
    BY <1>1, <1>2, <1>4, <1>5, SMTT(30) DEF Inv, SessionsHaveOrigin
  <1>9. InactiveUserHasNoSession'
    <2>1. \A t \in Sessions \ {s} : session'[t].status = "live" => user'[session'[t].owner].active
      <3>1. TAKE t \in Sessions \ {s}
      <3>2. HAVE session'[t].status = "live"
      <3>3. session[t].owner \in Principals /\ user[session[t].owner].active
        BY <1>5, <3>2, Zenon DEF Inv, SessionsHaveOrigin, InactiveUserHasNoSession
      <3> QED
        BY <1>5, <3>3 DEF p
    <2> QED
      BY <1>4, <1>5, <2>1, Zenon DEF InactiveUserHasNoSession, p
  <1>10. OneSessionPerAuthorization'
    BY <1>2, <1>4, <1>5, <1>6, SMTT(30) DEF Inv, OneSessionPerAuthorization, SessionsHaveOrigin
  <1>11. ImpersonatedIsMember'
    <2>1. SUFFICES ASSUME NEW t \in Sessions, impersonation[t] # NoOne
                   PROVE  /\ session'[t].owner = Admin
                          /\ user'[impersonation[t]].bound
                          /\ user'[impersonation[t]].access = "APPROVED"
      BY Zenon DEF ImpersonatedIsMember
    <2>2. /\ session[t].owner = Admin /\ user[impersonation[t]].bound
          /\ user[impersonation[t]].access = "APPROVED"
      BY <2>1, Zenon DEF Inv, ImpersonatedIsMember
    <2>3. t # s
      BY <1>6, <2>2, AccountConstants, Zenon
    <2>4. impersonation[t] \in Principals
      BY <2>1, People, Zenon DEF Principals
    <2> QED
      BY <1>5, <2>2, <2>3, <2>4, Zenon
  <1>12. RequestsAreSound'
    <2>1. Lasting
      BY <1>4, <1>5, Zenon DEF Lasting, p
    <2>2. ASSUME NEW q \in Requests \ {r} PROVE OwnGrounds(q)'
      <3>1. req[q].stage \in Returning => req[q].flow # f
        BY Zenon DEF Inv, RequestsAreSound, OneReturn, f
      <3> QED
        BY <1>4, <1>5, <1>7, <2>1, <3>1, GroundsLast, Zenon
    <2>3. OwnGrounds(r)'
      BY <1>7, IdleStage, Zenon DEF OwnGrounds, Returning
    <2>4. OneReturn'
      BY <1>7, IdleStage DEF Inv, RequestsAreSound, OneReturn, Returning
    <2> QED
      BY <2>2, <2>3, <2>4, Zenon DEF RequestsAreSound
  <1> QED
    BY <1>5, <1>7, <1>8, <1>9, <1>10, <1>11, <1>12, Zenon

\* A login of a known principal.
LEMMA LoginStep ==
  ASSUME Inv, NEW r \in Requests, LoginExternal(r)
  PROVE  Inv'
  <1>1. /\ req[r].stage \in Returning /\ user[req[r].principal].active
        /\ insertSession(req[r].principal, req[r].flow) /\ Becomes(r, Idle)
        /\ UNCHANGED <<user, invitation, links, auth, impersonation, token, announced>>
    BY Zenon DEF LoginExternal, Returning
  <1>2. /\ session' \in [Sessions -> SessionRows] /\ req' \in [Requests -> Pending]
        /\ SessionsHaveOrigin' /\ RequestsAreSound' /\ InactiveUserHasNoSession'
        /\ OneSessionPerAuthorization' /\ ImpersonatedIsMember'
    <2>1. user' \in [Principals -> UserRows] /\ \A p \in Principals : user'[p] = user[p]
      BY <1>1, People, Zenon
    <2> QED
      BY <1>1, <2>1, OpensSession, Zenon
  <1>3. TypeOK'
    BY <1>1, <1>2, ZenonT(30) DEF Inv, TypeOK, SessionRows
  <1>4. UnboundIsNew' /\ ApprovedIsAnnounced' /\ AcceptedIsBound' /\ LinkAdmitsOnce'
    BY <1>1, Zenon DEF Inv, UnboundIsNew, ApprovedIsAnnounced, AcceptedIsBound, LinkAdmitsOnce
  <1> QED
    BY <1>2, <1>3, <1>4, Zenon DEF Inv

\* While the invitations stay as they are, an account that keeps its link or names none
\* was admitted as it was.
LEMMA LinksLast ==
  ASSUME LinkAdmitsOnce, invitation' = invitation,
         \A x \in Principals : user'[x].via # 0 => user'[x].via = user[x].via
  PROVE  LinkAdmitsOnce'
  <1> SUFFICES ASSUME NEW x \in Principals, user'[x].via # 0
               PROVE  \E i \in Invitations :
                        /\ invitation'[i] = [status |-> "accepted", target |-> x,
                                             link |-> user'[x].via]
                        /\ \A j \in Invitations \ {i} : invitation'[j].target = x
                                      => invitation'[j].status # "accepted"
    BY Zenon DEF LinkAdmitsOnce
  <1>1. user'[x].via = user[x].via
    BY Zenon
  <1>2. \E i \in Invitations :
          /\ invitation[i] = [status |-> "accepted", target |-> x, link |-> user[x].via]
          /\ \A j \in Invitations \ {i} : invitation[j].target = x
                                            => invitation[j].status # "accepted"
    BY <1>1, Zenon DEF LinkAdmitsOnce
  <1> QED
    BY <1>1, <1>2, Zenon

\* A login that opens the account of a principal who has none, without an invitation.
LEMMA OpensAccount ==
  ASSUME Inv, NEW r \in Requests, req[r].stage \in Returning, ~user[req[r].principal].bound,
         NEW access \in AccessStatus,
         user' = [user EXCEPT ![req[r].principal] = [bound |-> TRUE, access |-> access,
                                                     active |-> TRUE, via |-> 0]],
         req[r].principal = Admin \/ access = "PENDING",
         insertSession(req[r].principal, req[r].flow), Becomes(r, Idle),
         announced \subseteq announced', announced' \subseteq ({"requested", "approved"} \X Members),
         UNCHANGED <<invitation, links, auth, impersonation, token>>
  PROVE  Inv'
  <1> DEFINE p == req[r].principal
             row == [bound |-> TRUE, access |-> access, active |-> TRUE, via |-> 0]
  <1>1. p \in Principals
    BY Papers, PendingFields, Zenon
  <1>2. row \in UserRows /\ row.bound /\ row.access = access /\ row.active /\ row.via = 0
    BY AccountConstants DEF UserRows
  <1>3. user' = [user EXCEPT ![p] = row]
    BY Zenon
  <1> HIDE DEF p, row
  <1>4. /\ user' \in [Principals -> UserRows] /\ user'[p] = row
        /\ \A x \in Principals \ {p} : user'[x] = user[x]
    BY <1>1, <1>2, <1>3, People, Zenon
  <1>5. /\ session' \in [Sessions -> SessionRows] /\ req' \in [Requests -> Pending]
        /\ SessionsHaveOrigin' /\ RequestsAreSound' /\ InactiveUserHasNoSession'
        /\ OneSessionPerAuthorization' /\ ImpersonatedIsMember'
    BY <1>2, <1>4, OpensSession, Zenon DEF p
  <1>6. TypeOK'
    BY <1>4, <1>5, Zenon DEF Inv, TypeOK, SessionRows, UserRows
  <1>7. UnboundIsNew'
    BY <1>2, <1>4, Zenon DEF Inv, UnboundIsNew
  <1>8. ApprovedIsAnnounced'
    BY <1>2, <1>4, AccountConstants, ZenonT(30) DEF Inv, ApprovedIsAnnounced, Principals, p
  <1>9. AcceptedIsBound'
    <2>1. \A i \in Invitations : invitation[i].status = "accepted" => invitation[i].target \in Principals
      BY Rows DEF Inv, Principals
    <2> QED
      BY <1>2, <1>4, <2>1, Zenon DEF Inv, AcceptedIsBound
  <1>10. LinkAdmitsOnce'
    <2>1. \A x \in Principals : user'[x].via # 0 => user'[x].via = user[x].via
      BY <1>2, <1>4, Zenon
    <2> QED
      BY <2>1, LinksLast, Zenon DEF Inv
  <1> QED
    BY <1>5, <1>6, <1>7, <1>8, <1>9, <1>10, Zenon DEF Inv

\* The first Administrator, and a principal who asks for access.
LEMMA RegisterStep ==
  ASSUME Inv, NEW r \in Requests, BootstrapAdmin(r) \/ RegisterAccessRequest(r)
  PROVE  Inv'
  <1>1. CASE BootstrapAdmin(r)
    BY <1>1, OpensAccount, People, Zenon DEF BootstrapAdmin, Returning, AccessStatus
  <1>2. CASE RegisterAccessRequest(r)
    <2>1. req[r].principal \in Members
      BY <1>2, Papers, PendingFields, ZenonT(30) DEF RegisterAccessRequest, Returning, Principals
    <2>2. announced \subseteq announced' /\ announced' \subseteq ({"requested", "approved"} \X Members)
      BY <1>2, <2>1, People, SMTT(30) DEF RegisterAccessRequest
    <2> QED
      BY <1>2, <2>2, OpensAccount, Zenon DEF RegisterAccessRequest, Returning, AccessStatus
  <1> QED
    BY <1>1, <1>2

\* The invitation that is accepted is pending, names the principal and has the link of
\* the authorization; nobody has accepted one for this principal before.
LEMMA AcceptStep ==
  ASSUME Inv, NEW r \in Requests, AcceptInvitation(r)
  PROVE  Inv'
  <1> DEFINE p == req[r].principal
             row == [bound |-> TRUE, access |-> "PENDING", active |-> TRUE,
                     via |-> auth[req[r].flow].link]
             i == auth[req[r].flow].invitation
             link == auth[req[r].flow].link
  <1>1. /\ req[r].stage \in Returning /\ i # 0 /\ InvitationMatches(i, p, link) /\ ~user[p].bound
        /\ user' = [user EXCEPT ![p] = row]
        /\ invitation' = [invitation EXCEPT ![i].status = "accepted"]
        /\ insertSession(p, req[r].flow) /\ Becomes(r, Idle)
        /\ UNCHANGED <<links, auth, impersonation, token, announced>>
    BY DEF AcceptInvitation, Returning
  <1>2. p \in Principals /\ req[r].flow \in Flows
    BY <1>1, Papers, PendingFields, Zenon
  <1>3. i \in Invitations /\ link \in 0 .. MaxLinks
    BY <1>1, <1>2, Rows, AccountConstants, SMTT(30) DEF Inv, Invitations
  <1>4. row \in UserRows /\ row.bound /\ row.access = "PENDING" /\ row.active /\ row.via = link
    BY <1>3, ZenonT(30) DEF UserRows, AccessStatus
  <1>5. invitation[i].status = "pending" /\ invitation[i].target = p /\ invitation[i].link = link
    BY <1>1 DEF InvitationMatches
  <1> HIDE DEF p, row, i, link
  <1>6. /\ user' \in [Principals -> UserRows] /\ user'[p] = row
        /\ \A x \in Principals \ {p} : user'[x] = user[x]
    BY <1>1, <1>2, <1>4, People
  <1>7. /\ session' \in [Sessions -> SessionRows] /\ req' \in [Requests -> Pending]
        /\ SessionsHaveOrigin' /\ RequestsAreSound' /\ InactiveUserHasNoSession'
        /\ OneSessionPerAuthorization' /\ ImpersonatedIsMember'
    BY <1>1, <1>4, <1>6, OpensSession DEF p
  <1>8. /\ invitation' \in [Invitations -> InvitationRows]
        /\ invitation'[i] = [status |-> "accepted", target |-> p, link |-> link]
        /\ \A j \in Invitations \ {i} : invitation'[j] = invitation[j]
    <2>1. invitation \in [Invitations -> InvitationRows] /\ invitation[i] \in InvitationRows
      BY <1>3, Papers
    <2>2. [invitation[i] EXCEPT !.status = "accepted"] = [status |-> "accepted", target |-> p, link |-> link]
      BY <1>5, <2>1 DEF InvitationRows
    <2>3. [invitation[i] EXCEPT !.status = "accepted"] \in InvitationRows
      BY <2>1 DEF InvitationRows
    <2>4. invitation' = [invitation EXCEPT ![i] = [invitation[i] EXCEPT !.status = "accepted"]]
      BY <1>1, <2>1, Zenon
    <2> QED
      BY <1>3, <2>1, <2>2, <2>3, <2>4
  <1>9. \A j \in Invitations : invitation'[j].status # "none" =>
          invitation'[j].target # NoOne /\ invitation'[j].link \in 1 .. links
    BY <1>3, <1>5, <1>8, Papers
  <1>10. TypeOK'
    BY <1>1, <1>6, <1>7, <1>8, <1>9 DEF Inv, TypeOK, SessionRows, UserRows, InvitationRows
  <1>11. UnboundIsNew'
    BY <1>4, <1>6 DEF Inv, UnboundIsNew
  <1>12. ApprovedIsAnnounced'
    BY <1>1, <1>4, <1>6, Zenon DEF Inv, ApprovedIsAnnounced, Principals
  <1>13. AcceptedIsBound'
    <2>1. \A j \in Invitations : invitation[j].status = "accepted" => invitation[j].target \in Principals
      BY Rows, Zenon DEF Inv, Principals
    <2> QED
      BY <1>4, <1>6, <1>8, <2>1, SMTT(30) DEF Inv, AcceptedIsBound
  <1>14. LinkAdmitsOnce'
    <2>1. SUFFICES ASSUME NEW x \in Principals, user'[x].via # 0
                   PROVE  \E k \in Invitations :
                            /\ invitation'[k] = [status |-> "accepted", target |-> x,
                                                 link |-> user'[x].via]
                            /\ \A j \in Invitations \ {k} : invitation'[j].target = x
                                          => invitation'[j].status # "accepted"
      BY Zenon DEF LinkAdmitsOnce
    <2>2. CASE x = p
      <3>1. \A j \in Invitations : invitation[j].target = p => invitation[j].status # "accepted"
        BY <1>1, Zenon DEF Inv, AcceptedIsBound
      <3> QED
        BY <1>3, <1>4, <1>6, <1>8, <2>2, <3>1
    <2>3. CASE x # p
      <3>1. PICK k \in Invitations :
              /\ invitation[k] = [status |-> "accepted", target |-> x, link |-> user[x].via]
              /\ \A j \in Invitations \ {k} : invitation[j].target = x
                                                => invitation[j].status # "accepted"
        BY <1>6, <2>1, <2>3, SMTT(30) DEF Inv, LinkAdmitsOnce
      <3>2. k # i
        BY <1>5, <3>1
      <3>3. user'[x] = user[x]
        BY <1>6, <2>3, Zenon
      <3>4. \A j \in Invitations \ {k} : invitation'[j].target = x => invitation'[j].status # "accepted"
        BY <1>8, <2>3, <3>1
      <3> QED
        BY <1>8, <3>1, <3>2, <3>3, <3>4, Zenon
    <2> QED
      BY <2>2, <2>3
  <1> QED
    BY <1>7, <1>10, <1>11, <1>12, <1>13, <1>14, Zenon DEF Inv

-----------------------------------------------------------------------------
(* Sessions that end, accounts that are closed or reopened, impersonation. *)

\* A step that changes who is active, which sessions are open or who is viewed keeps the
\* rest, if nobody inactive keeps a session and only approved Members are viewed.
LEMMA ClosingStep ==
  ASSUME Inv, UNCHANGED <<invitation, links, auth, token, announced>>,
         req' \in [Requests -> Pending],
         \A r \in Requests : req'[r] = req[r] \/ req'[r] = Idle,
         user' \in [Principals -> UserRows],
         \A p \in Principals : /\ user'[p].bound = user[p].bound /\ user'[p].access = user[p].access
                               /\ user'[p].via = user[p].via,
         session' \in [Sessions -> SessionRows],
         \A s \in Sessions : /\ session'[s].owner = session[s].owner
                             /\ session'[s].flow = session[s].flow
                             /\ session'[s].status = "none" <=> session[s].status = "none",
         impersonation' \in [Sessions -> Members \union {NoOne}],
         InactiveUserHasNoSession', ImpersonatedIsMember'
  PROVE  Inv'
  <1>1. TypeOK'
    BY Zenon DEF Inv, TypeOK, UserRows, SessionRows
  <1>2. UnboundIsNew' /\ ApprovedIsAnnounced'
    BY ZenonT(30) DEF Inv, UnboundIsNew, ApprovedIsAnnounced, Principals
  <1>3. AcceptedIsBound'
    <2>1. \A i \in Invitations : invitation[i].status = "accepted" => invitation[i].target \in Principals
      BY Rows, Zenon DEF Inv, Principals
    <2> QED
      BY <2>1, Zenon DEF Inv, AcceptedIsBound
  <1>4. SessionsHaveOrigin' /\ OneSessionPerAuthorization'
    BY SMTT(30) DEF Inv, SessionsHaveOrigin, OneSessionPerAuthorization
  <1>5. LinkAdmitsOnce'
    BY SMTT(30) DEF Inv, LinkAdmitsOnce
  <1>6. RequestsAreSound'
    <2>1. Lasting
      BY Zenon DEF Lasting
    <2> QED
      BY <2>1, RequestsLast, Zenon
  <1> QED
    BY <1>1, <1>2, <1>3, <1>4, <1>5, <1>6, Zenon DEF Inv

\* Viewing is judged on the owners of sessions and on approval alone.
LEMMA ViewsLast ==
  ASSUME Inv, \A s \in Sessions : session'[s].owner = session[s].owner,
         \A p \in Principals : user'[p].bound = user[p].bound /\ user'[p].access = user[p].access,
         \A s \in Sessions : impersonation'[s] \in {impersonation[s], NoOne}
  PROVE  ImpersonatedIsMember'
  <1>1. \A s \in Sessions : impersonation[s] # NoOne => impersonation[s] \in Principals
    BY People DEF Principals
  <1> QED
    BY <1>1 DEF Inv, ImpersonatedIsMember

\* DeactivateUser closes the account with its sessions; ReactivateUser revives none.
LEMMA DeactivateStep ==
  ASSUME Inv, NEW r \in Requests, NEW p \in Principals,
         DeactivateUser(p) \/ (user' = [user EXCEPT ![p].active = TRUE] /\ UNCHANGED session),
         Becomes(r, Idle), UNCHANGED <<invitation, links, auth, impersonation, token, announced>>
  PROVE  Inv'
  <1>1. req' \in [Requests -> Pending] /\ \A q \in Requests : req'[q] = req[q] \/ req'[q] = Idle
    BY RequestEnds
  <1>2. PICK on \in BOOLEAN : /\ user' = [user EXCEPT ![p].active = on]
                              /\ on => UNCHANGED session
                              /\ ~on => DeactivateUser(p)
    BY Zenon DEF DeactivateUser
  <1>3. /\ user' \in [Principals -> UserRows]
        /\ \A x \in Principals : /\ user'[x].bound = user[x].bound /\ user'[x].access = user[x].access
                                 /\ user'[x].via = user[x].via
                                 /\ user'[x].active = IF x = p THEN on ELSE user[x].active
    <2>1. user' = [user EXCEPT ![p] = [user[p] EXCEPT !.active = on]]
      BY <1>2, People
    <2>2. [user[p] EXCEPT !.active = on] \in UserRows
      BY People DEF UserRows
    <2> QED
      BY <2>1, <2>2, People DEF UserRows
  <1>4. ASSUME NEW s \in Sessions
        PROVE  /\ session'[s] \in SessionRows
               /\ session'[s].owner = session[s].owner /\ session'[s].flow = session[s].flow
               /\ session'[s].status = "none" <=> session[s].status = "none"
               /\ session'[s].status = "live" => session[s].status = "live"
                                                 /\ (on \/ session[s].owner # p)
    <2>1. session[s] \in SessionRows
      BY People
    <2>2. CASE on
      BY <1>2, <2>1, <2>2
    <2>3. CASE ~on /\ session[s].owner = p
      <3>1. session'[s] = [session[s] EXCEPT !.status = "revoked"]
        BY <1>2, <2>3 DEF DeactivateUser
      <3>2. session[s].status # "none"
        BY <2>3, AccountConstants DEF Inv, SessionsHaveOrigin, Principals
      <3> QED
        BY <2>1, <3>1, <3>2 DEF SessionRows
    <2>4. CASE ~on /\ session[s].owner # p
      <3>1. session'[s] = session[s]
        BY <1>2, <2>4 DEF DeactivateUser
      <3> QED
        BY <2>1, <2>4, <3>1
    <2> QED
      BY <2>2, <2>3, <2>4
  <1>5. session' \in [Sessions -> SessionRows]
    <2>1. session' = [s \in Sessions |-> session'[s]]
      BY <1>2, People DEF DeactivateUser
    <2> QED
      BY <1>4, <2>1
  <1>6. InactiveUserHasNoSession'
    <2>1. \A s \in Sessions : session[s].status = "live" =>
            session[s].owner \in Principals /\ user[session[s].owner].active
      BY DEF Inv, SessionsHaveOrigin, InactiveUserHasNoSession
    <2> QED
      BY <1>3, <1>4, <2>1 DEF InactiveUserHasNoSession
  <1>7. ImpersonatedIsMember'
    BY <1>3, <1>4, ViewsLast
  <1> QED
    BY <1>1, <1>3, <1>4, <1>5, <1>6, <1>7, ClosingStep, People

\* A session that expires or is logged out.
LEMMA SessionEnds ==
  ASSUME Inv, NEW s \in Sessions, NEW status \in {"expired", "revoked"},
         session[s].status # "none",
         session' = [session EXCEPT ![s].status = status],
         impersonation' \in [Sessions -> Members \union {NoOne}],
         \A t \in Sessions : impersonation'[t] \in {impersonation[t], NoOne},
         req' \in [Requests -> Pending],
         \A q \in Requests : req'[q] = req[q] \/ req'[q] = Idle,
         UNCHANGED <<user, invitation, links, auth, token, announced>>
  PROVE  Inv'
  <1>1. /\ session' \in [Sessions -> SessionRows]
        /\ \A t \in Sessions : /\ session'[t].owner = session[t].owner
                               /\ session'[t].flow = session[t].flow
                               /\ session'[t].status = IF t = s THEN status ELSE session[t].status
    <2>1. session' = [session EXCEPT ![s] = [session[s] EXCEPT !.status = status]]
      BY People
    <2>2. [session[s] EXCEPT !.status = status] \in SessionRows
      BY People DEF SessionRows
    <2> QED
      BY <2>1, <2>2, People DEF SessionRows
  <1>2. InactiveUserHasNoSession'
    BY <1>1 DEF Inv, InactiveUserHasNoSession
  <1>3. ImpersonatedIsMember'
    BY <1>1, ViewsLast
  <1>4. user' \in [Principals -> UserRows] /\ \A p \in Principals : user'[p] = user[p]
    BY People
  <1> QED
    BY <1>1, <1>2, <1>3, <1>4, ClosingStep

\* The steps that end sessions, close accounts and change who is viewed.
LEMMA ClosingSteps ==
  ASSUME Inv, \/ \E s \in Sessions : SessionExpires(s)
              \/ \E r \in Requests : \/ LogoutSession(r) \/ deactivateInvalidPrincipal(r)
                                     \/ SetUserActive(r) \/ VerifyTokenOwner(r)
                                     \/ StartImpersonation(r) \/ EndImpersonation(r)
  PROVE  Inv'
  <1>1. ASSUME NEW s \in Sessions, SessionExpires(s) PROVE Inv'
    <2>1. \A t \in Sessions : impersonation'[t] \in {impersonation[t], NoOne}
      BY <1>1 DEF SessionExpires
    <2> QED
      BY <1>1, <2>1, SessionEnds, People, Papers, Zenon DEF SessionExpires
  <1>2. ASSUME NEW r \in Requests, LogoutSession(r) PROVE Inv'
    <2>1. req[r].session \in Sessions /\ session[req[r].session].status # "none"
      BY <1>2, ServedSession, Zenon DEF LogoutSession
    <2>2. /\ impersonation' \in [Sessions -> Members \union {NoOne}]
          /\ \A t \in Sessions : impersonation'[t] \in {impersonation[t], NoOne}
      BY <1>2, <2>1, People, Zenon DEF LogoutSession
    <2>3. req' \in [Requests -> Pending] /\ \A q \in Requests : req'[q] = req[q] \/ req'[q] = Idle
      BY <1>2, RequestEnds DEF LogoutSession
    <2> QED
      BY <1>2, <2>1, <2>2, <2>3, SessionEnds, Zenon DEF LogoutSession
  <1>3. ASSUME NEW r \in Requests, deactivateInvalidPrincipal(r) \/ VerifyTokenOwner(r) PROVE Inv'
    <2>1. req[r].principal \in Principals
      BY <1>3, Papers, PendingFields, Zenon DEF deactivateInvalidPrincipal, VerifyTokenOwner
    <2> QED
      BY <1>3, <2>1, DeactivateStep DEF deactivateInvalidPrincipal, VerifyTokenOwner
  <1>4. ASSUME NEW r \in Requests, SetUserActive(r) PROVE Inv'
    BY <1>4, DeactivateStep, Zenon DEF SetUserActive, Principals
  <1>5. ASSUME NEW r \in Requests, StartImpersonation(r) \/ EndImpersonation(r) PROVE Inv'
    <2>1. req' \in [Requests -> Pending] /\ \A q \in Requests : req'[q] = req[q] \/ req'[q] = Idle
      BY <1>5, RequestEnds, Zenon DEF StartImpersonation, EndImpersonation
    <2>2. UNCHANGED <<user, invitation, links, auth, session, token, announced>>
      BY <1>5, Zenon DEF StartImpersonation, EndImpersonation
    <2>3. /\ impersonation' \in [Sessions -> Members \union {NoOne}] /\ ImpersonatedIsMember'
      <3>1. CASE StartImpersonation(r)
        <4>1. /\ req[r].session \in Sessions /\ req[r].member \in Members
              /\ user[req[r].member].bound /\ user[req[r].member].access = "APPROVED"
          BY <3>1, Papers, PendingFields, Zenon DEF StartImpersonation, Inv, RequestsAreSound, OwnGrounds
        <4>2. /\ session[req[r].session].owner = Admin
              /\ impersonation' = [impersonation EXCEPT ![req[r].session] = req[r].member]
          BY <3>1, ZenonT(30) DEF StartImpersonation
        <4>3. impersonation' \in [Sessions -> Members \union {NoOne}]
          BY <4>1, <4>2, People
        <4>4. ImpersonatedIsMember'
          BY <2>2, <4>1, <4>2, People, Zenon DEF Inv, ImpersonatedIsMember
        <4> QED
          BY <4>3, <4>4
      <3>2. CASE EndImpersonation(r)
        <4>1. req[r].session \in Sessions
          BY <3>2, ServedSession DEF EndImpersonation
        <4>2. /\ impersonation' \in [Sessions -> Members \union {NoOne}]
              /\ \A t \in Sessions : impersonation'[t] \in {impersonation[t], NoOne}
          BY <3>2, <4>1, People, Zenon DEF EndImpersonation
        <4> QED
          BY <2>2, <4>2, ViewsLast, ZenonT(30)
      <3> QED
        BY <1>5, <3>1, <3>2
    <2>4. InactiveUserHasNoSession'
      BY <2>2, Zenon DEF Inv, InactiveUserHasNoSession
    <2>5. user' \in [Principals -> UserRows] /\ session' \in [Sessions -> SessionRows]
      BY <2>2, People
    <2> QED
      BY <2>1, <2>2, <2>3, <2>4, <2>5, ClosingStep
  <1> QED
    BY <1>1, <1>2, <1>3, <1>4, <1>5

\* A decision is judged again under the lock, so it takes no approval back, and the
\* approval is announced with it.
LEMMA DecisionStep ==
  ASSUME Inv, NEW r \in Requests, SetUserAccessStatus(r)
  PROVE  Inv'
  <1> DEFINE m == req[r].member
             status == req[r].status
  <1>1. m \in Members /\ m \in Principals /\ status \in AccessStatus /\ user[m].bound
    BY Papers, PendingFields DEF SetUserAccessStatus, Inv, RequestsAreSound, OwnGrounds, Principals
  <1>2. /\ CanChangeAccessStatus(user[m].access, status)
        /\ user' = [user EXCEPT ![m].access = status]
        /\ announced' = IF status = "APPROVED" /\ user[m].access # status
                          THEN announced \union {<<"approved", m>>} ELSE announced
        /\ Becomes(r, Idle)
        /\ UNCHANGED <<invitation, links, auth, session, impersonation, token>>
    BY DEF SetUserAccessStatus
  <1> HIDE DEF m, status
  <1>3. user[m].access = "APPROVED" => status = "APPROVED"
    BY <1>2 DEF CanChangeAccessStatus
  <1>4. /\ user' \in [Principals -> UserRows]
        /\ \A x \in Principals : /\ user'[x].bound = user[x].bound /\ user'[x].active = user[x].active
                                 /\ user'[x].via = user[x].via
                                 /\ user'[x].access = IF x = m THEN status ELSE user[x].access
    <2>1. user' = [user EXCEPT ![m] = [user[m] EXCEPT !.access = status]]
      BY <1>1, <1>2, People
    <2>2. [user[m] EXCEPT !.access = status] \in UserRows
      BY <1>1, People DEF UserRows
    <2> QED
      BY <1>1, <2>1, <2>2, People DEF UserRows
  <1>5. req' \in [Requests -> Pending] /\ \A q \in Requests : req'[q] = req[q] \/ req'[q] = Idle
    BY <1>2, RequestEnds
  <1>6. announced \subseteq announced' /\ announced' \subseteq ({"requested", "approved"} \X Members)
    BY <1>1, <1>2, People
  <1>7. TypeOK'
    BY <1>2, <1>4, <1>5, <1>6, Zenon DEF Inv, TypeOK, UserRows
  <1>8. UnboundIsNew'
    BY <1>1, <1>4 DEF Inv, UnboundIsNew
  <1>9. ApprovedIsAnnounced'
    BY <1>2, <1>3, <1>4, <1>6 DEF Inv, ApprovedIsAnnounced, Principals
  <1>10. AcceptedIsBound'
    <2>1. \A i \in Invitations : invitation[i].status = "accepted" => invitation[i].target \in Principals
      BY Rows DEF Inv, Principals
    <2> QED
      BY <1>2, <1>4, <2>1, SMTT(30) DEF Inv, AcceptedIsBound
  <1>11. LinkAdmitsOnce'
    BY <1>2, <1>4, LinksLast, Zenon DEF Inv
  <1>12. SessionsHaveOrigin' /\ OneSessionPerAuthorization'
    BY <1>2 DEF Inv, SessionsHaveOrigin, OneSessionPerAuthorization
  <1>13. InactiveUserHasNoSession'
    BY <1>2, <1>4 DEF Inv, SessionsHaveOrigin, InactiveUserHasNoSession
  <1>14. ImpersonatedIsMember'
    <2>1. \A s \in Sessions : impersonation[s] # NoOne => impersonation[s] \in Principals
      BY People DEF Principals
    <2> QED
      BY <1>2, <1>3, <1>4, <2>1 DEF Inv, ImpersonatedIsMember
  <1>15. RequestsAreSound'
    <2>1. Lasting
      BY <1>2, <1>3, <1>4 DEF Lasting
    <2> QED
      BY <1>2, <1>5, <2>1, RequestsLast
  <1> QED
    BY <1>7, <1>8, <1>9, <1>10, <1>11, <1>12, <1>13, <1>14, <1>15, Zenon DEF Inv

-----------------------------------------------------------------------------
(* The theorems.                                                           *)

\* Nobody has an account and nothing is under way at the start.
LEMMA InvInit == ASSUME Init PROVE Inv
  <1>1. TypeOK
    <2>1. user \in [Principals -> UserRows]
      BY AccountConstants, SMTT(30) DEF Init, Unbound, UserRows, AccessStatus
    <2>2. invitation \in [Invitations -> InvitationRows] /\ links \in 0 .. MaxLinks
          /\ \A i \in Invitations : invitation[i].status = "none"
      BY AccountConstants, SMTT(30) DEF Init, InvitationRows
    <2>3. auth \in [Flows -> AuthRows]
      BY AccountConstants, SMTT(30) DEF Init, AuthRows
    <2>4. session \in [Sessions -> SessionRows]
      BY AccountConstants, SMTT(30) DEF Init, SessionRows
    <2>5. req \in [Requests -> Pending]
      BY IdleStage, Zenon DEF Init
    <2>6. impersonation \in [Sessions -> Members \union {NoOne}] /\ token = {} /\ announced = {}
      BY Zenon DEF Init
    <2> QED
      BY <2>1, <2>2, <2>3, <2>4, <2>5, <2>6, Zenon DEF TypeOK, UserRows, InvitationRows, AuthRows, SessionRows
  <1>2. \A p \in Principals : user[p].access = "PENDING" /\ user[p].via = 0
    BY Zenon DEF Init, Unbound
  <1>3. UnboundIsNew /\ ApprovedIsAnnounced /\ LinkAdmitsOnce
    BY <1>2, Zenon DEF UnboundIsNew, ApprovedIsAnnounced, LinkAdmitsOnce, Principals
  <1>4. AcceptedIsBound
    BY Zenon DEF Init, AcceptedIsBound
  <1>5. SessionsHaveOrigin /\ InactiveUserHasNoSession /\ OneSessionPerAuthorization
    BY Zenon DEF Init, SessionsHaveOrigin, InactiveUserHasNoSession, OneSessionPerAuthorization
  <1>6. ImpersonatedIsMember
    BY Zenon DEF Init, ImpersonatedIsMember
  <1>7. RequestsAreSound
    BY IdleStage, Zenon DEF Init, RequestsAreSound, OneReturn, OwnGrounds, Returning
  <1> QED
    BY <1>1, <1>3, <1>4, <1>5, <1>6, <1>7, Zenon DEF Inv

\* Every step keeps the invariant.
LEMMA InvStep == ASSUME Inv, [Next]_vars PROVE Inv'
  <1>1. CASE StartAuthorization \/ \E f \in Flows : AuthorizationExpires(f)
    BY <1>1, AuthorizationStep
  <1>2. CASE \E i \in Invitations : InvitationLapses(i)
    BY <1>2, InvitationStep
  <1>3. CASE \E s \in Sessions : SessionExpires(s)
    BY <1>3, ClosingSteps, Zenon
  <1>4. ASSUME NEW r \in Requests,
               \/ AcceptInvitationToken(r) \/ CreateAuthorizationTransaction(r)
               \/ CompleteAuthorization(r) \/ AuthenticateSession(r) \/ LogoutSession(r)
               \/ Administer(r) \/ Issue(r) \/ Revoke(r) \/ Authenticate(r) \/ VerifyTokenOwner(r)
               \/ Abandon(r)
        PROVE  Inv'
    <2>1. CASE AcceptInvitationToken(r) \/ Authenticate(r)
      BY <2>1, ReadingStep
    <2>2. CASE CreateAuthorizationTransaction(r)
      BY <2>2, AuthorizationStep, Zenon
    <2>3. CASE CompleteAuthorization(r)
      BY <2>3, ConsumeStep, AcceptStep, LookupStep, LoginStep, RegisterStep, Zenon DEF CompleteAuthorization
    <2>4. CASE AuthenticateSession(r)
      BY <2>4, ReadingStep, ClosingSteps DEF AuthenticateSession
    <2>5. CASE LogoutSession(r) \/ VerifyTokenOwner(r)
      BY <2>5, ClosingSteps, Zenon
    <2>6. CASE Administer(r)
      BY <2>6, ReadingStep, InvitationStep, ClosingSteps, DecisionStep DEF Administer
    <2>7. CASE Issue(r) \/ Revoke(r) \/ Abandon(r)
      BY <2>7, LookupStep, Zenon
    <2> QED
      BY <1>4, <2>1, <2>2, <2>3, <2>4, <2>5, <2>6, <2>7
  <1>5. CASE UNCHANGED vars
    <2>1. /\ UNCHANGED <<user, invitation, links, auth, session, impersonation, token, announced>>
          /\ req' = req
      BY <1>5 DEF vars
    <2>2. \A i \in Invitations : invitation'[i] = invitation[i]
      BY <2>1
    <2>3. \A r \in Requests : req'[r] = req[r]
      BY <2>1
    <2> QED
      BY <2>1, <2>2, <2>3, Papers, PapersStep
  <1> QED
    BY <1>1, <1>2, <1>3, <1>4, <1>5 DEF Next, Time

\* The inductive invariant holds throughout.
LEMMA InvAlways == Spec => []Inv
  BY InvInit, InvStep, PTL DEF Spec

\* The rows and the requests keep their shape, and every invitation has a link that was
\* really made.
THEOREM TypesHold == Spec => []TypeOK
  <1>1. Inv => TypeOK
    BY DEF Inv
  <1> QED
    BY <1>1, InvAlways, PTL

\* No session of a closed account can be used, however logins, verifications and
\* DeactivateUser overlap.
THEOREM ClosedAccountsHaveNoSession == Spec => []InactiveUserHasNoSession
  <1>1. Inv => InactiveUserHasNoSession
    BY DEF Inv
  <1> QED
    BY <1>1, InvAlways, PTL

\* A link admits one person once (AcceptInvitation, RotateInvitation, RevokeInvitation).
THEOREM LinksAdmitOnce == Spec => []LinkAdmitsOnce
  <1>1. Inv => LinkAdmitsOnce
    BY DEF Inv
  <1> QED
    BY <1>1, InvAlways, PTL

\* One trip to Lark opens one session (ConsumeAuthorizationState).
THEOREM OneSessionPerTrip == Spec => []OneSessionPerAuthorization
  <1>1. Inv => OneSessionPerAuthorization
    BY DEF Inv
  <1> QED
    BY <1>1, InvAlways, PTL

\* Only approved Members are viewed, in sessions of the Administrator (StartImpersonation).
THEOREM OnlyMembersAreViewed == Spec => []ImpersonatedIsMember
  <1>1. Inv => ImpersonatedIsMember
    BY Zenon DEF Inv
  <1> QED
    BY <1>1, InvAlways, PTL

\* A step takes no approval back: accounts are opened once, closing an account leaves
\* its access alone, and SetUserAccessStatus judges the decision under the lock.
LEMMA ApprovalStep ==
  ASSUME Inv, [Next]_vars, NEW m \in Members, user[m].access = "APPROVED"
  PROVE  user'[m].access = "APPROVED"
  <1>0. m \in Principals /\ user[m].bound /\ user \in [Principals -> UserRows] /\ m # Admin
    BY People, AccountConstants, Zenon DEF Inv, UnboundIsNew, Principals
  <1>1. CASE user' = user
    BY <1>1
  <1>2. ASSUME NEW p \in Principals, NEW on \in BOOLEAN, user' = [user EXCEPT ![p].active = on]
        PROVE  user'[m].access = "APPROVED"
    BY <1>0, <1>2 DEF UserRows
  <1>3. ASSUME NEW p \in Principals, NEW row, ~user[p].bound, user' = [user EXCEPT ![p] = row]
        PROVE  user'[m].access = "APPROVED"
    BY <1>0, <1>3, Zenon
  <1>4. ASSUME NEW r \in Requests PROVE req[r] \in Pending
    BY Papers, Zenon
  <1>5. ASSUME NEW r \in Requests, CompleteAuthorization(r) PROVE user'[m].access = "APPROVED"
    <2>1. req[r].stage \in Returning => req[r].principal \in Principals
      BY <1>4, PendingFields, Zenon
    <2>2. CASE AcceptInvitation(r)
      BY <1>3, <2>1, <2>2, Zenon DEF AcceptInvitation, Returning
    <2>3. CASE BootstrapAdmin(r)
      BY <1>3, <2>3, Zenon DEF BootstrapAdmin, Principals
    <2>4. CASE RegisterAccessRequest(r)
      BY <1>3, <2>1, <2>4, Zenon DEF RegisterAccessRequest, Returning
    <2>5. CASE ConsumeAuthorizationState(r) \/ findLoginUser(r) \/ LoginExternal(r)
      BY <1>1, <2>5, Zenon DEF ConsumeAuthorizationState, findLoginUser, LoginExternal
    <2> QED
      BY <1>5, <2>2, <2>3, <2>4, <2>5, Zenon DEF CompleteAuthorization
  <1>6. ASSUME NEW r \in Requests, AuthenticateSession(r) \/ VerifyTokenOwner(r)
        PROVE  user'[m].access = "APPROVED"
    <2>1. CASE deactivateInvalidPrincipal(r) \/ VerifyTokenOwner(r)
      <3>1. req[r].principal \in Principals
        BY <1>4, <2>1, PendingFields DEF deactivateInvalidPrincipal, VerifyTokenOwner
      <3> QED
        BY <1>2, <2>1, <3>1, ZenonT(30) DEF deactivateInvalidPrincipal, VerifyTokenOwner, DeactivateUser
    <2>2. CASE ResolveSession(r) \/ revalidate(r) \/ Serve(r)
      BY <1>1, <2>2, Zenon DEF ResolveSession, revalidate, Serve
    <2> QED
      BY <1>6, <2>1, <2>2, Zenon DEF AuthenticateSession
  <1>7. ASSUME NEW r \in Requests, Administer(r) PROVE user'[m].access = "APPROVED"
    <2>1. CASE SetUserActive(r)
      BY <1>2, <2>1, Zenon DEF SetUserActive, DeactivateUser, Principals
    <2>2. CASE SetUserAccessStatus(r)
      <3>1. /\ CanChangeAccessStatus(user[req[r].member].access, req[r].status)
            /\ user' = [user EXCEPT ![req[r].member].access = req[r].status]
        BY <2>2 DEF SetUserAccessStatus
      <3>2. CASE req[r].member = m
        BY <1>0, <3>1, <3>2 DEF CanChangeAccessStatus, UserRows
      <3>3. CASE req[r].member # m
        BY <1>0, <3>1, <3>3, Zenon
      <3> QED
        BY <3>2, <3>3
    <2>3. CASE \/ CreateInvitation(r) \/ InsertInvitation(r) \/ RotateInvitation(r)
               \/ RevokeInvitation(r) \/ ExpireInvitations(r) \/ DecideAccess(r)
               \/ CanImpersonate(r) \/ StartImpersonation(r) \/ EndImpersonation(r)
      BY <1>1, <2>3 DEF CreateInvitation, InsertInvitation, RotateInvitation, RevokeInvitation,
                        ExpireInvitations, DecideAccess, CanImpersonate, StartImpersonation,
                        EndImpersonation
    <2> QED
      BY <1>7, <2>1, <2>2, <2>3, Zenon DEF Administer
  <1>8. ASSUME NEW r \in Requests,
               \/ AcceptInvitationToken(r) \/ CreateAuthorizationTransaction(r) \/ LogoutSession(r)
               \/ Issue(r) \/ Revoke(r) \/ Authenticate(r) \/ Abandon(r)
        PROVE  user'[m].access = "APPROVED"
    BY <1>1, <1>8 DEF AcceptInvitationToken, CreateAuthorizationTransaction, LogoutSession, Issue,
                      Revoke, Authenticate, Abandon
  <1>9. CASE StartAuthorization \/ Time
    BY <1>1, <1>9 DEF StartAuthorization, Time, AuthorizationExpires, InvitationLapses, SessionExpires
  <1>10. CASE UNCHANGED vars
    BY <1>1, <1>10 DEF vars
  <1> QED
    BY <1>5, <1>6, <1>7, <1>8, <1>9, <1>10, Zenon DEF Next

\* Approval is the terminal decision, and it has been announced (DecideAccess).
THEOREM ApprovalStaysFinal == Spec => ApprovalIsFinal
  <1>1. ASSUME Inv, Inv', [Next]_vars
        PROVE  [\A m \in Members :
                  /\ user[m].access = "APPROVED" => user'[m].access = "APPROVED"
                  /\ user'[m].access = "APPROVED" => <<"approved", m>> \in announced']_vars
    BY <1>1, ApprovalStep DEF Inv, ApprovedIsAnnounced
  <1> QED
    BY <1>1, InvAlways, PTL DEF Spec, ApprovalIsFinal

=============================================================================
