------------------------------ MODULE Accounts ------------------------------
(***************************************************************************)
(* Who may enter Pactline: invitations, Lark authorization, accounts, the  *)
(* Administrator's decisions on them, browser sessions, impersonation and  *)
(* the owner check of personal API tokens.  Sources: internal/identity/    *)
(* service.go and policy.go, internal/store/identity_store.go,             *)
(* internal/access/service.go, internal/store/access_store.go and the      *)
(* session middleware internal/api/identity.go.                            *)
(*                                                                         *)
(* Every transaction of the store locks the row it decides on, so it is    *)
(* one step here.  A request is a sequence of such steps: req[r] holds     *)
(* what request r has read so far, and other requests run in between.      *)
(*                                                                         *)
(* Clock readings become facts: an invitation, an authorization or a       *)
(* session is over once the environment says so.  Whether a provider       *)
(* verification was due and whether a failing one fell into its grace      *)
(* window is the environment's choice too.  Names, profiles, credentials,  *)
(* audit rows and message texts are left out.                              *)
(***************************************************************************)
EXTENDS Naturals

CONSTANTS
  Members,          \* Lark principals of the tenant, except the next one
  Admin,            \* the principal whose e-mail is the bootstrap e-mail
  NoOne,
  Requests,         \* HTTP requests that can be in progress together
  MaxInvitations,   \* bounds on the rows that are ever created
  MaxLinks,
  MaxFlows,
  MaxSessions

ASSUME AccountConstants ==
  /\ Admin \notin Members /\ NoOne \notin Members \union {Admin}
  /\ MaxInvitations \in Nat /\ MaxLinks \in Nat
  /\ MaxFlows \in Nat /\ MaxSessions \in Nat

Principals == Members \union {Admin}
Invitations == 1 .. MaxInvitations
Links == 1 .. MaxLinks
Flows == 1 .. MaxFlows
Sessions == 1 .. MaxSessions

VARIABLES
  user,           \* users with their external identities
  invitation,     \* invitations; a link is the raw token behind token_hash
  links,          \* how many links have been made
  auth,           \* authorization_transactions
  session,        \* sessions
  impersonation,  \* the open impersonation of a session
  token,          \* the users who hold a personal API token that is not revoked
  announced,      \* access.requested and access.approved events written
  req             \* the requests in progress

vars == <<user, invitation, links, auth, session, impersonation, token, announced, req>>

AccessStatus == {"PENDING", "APPROVED", "REJECTED"}

Unbound == [bound |-> FALSE, access |-> "PENDING", active |-> FALSE, via |-> 0]
Idle == [stage |-> "idle"]

Init ==
  /\ user = [p \in Principals |-> Unbound]
  /\ invitation = [i \in Invitations |-> [status |-> "none", target |-> NoOne, link |-> 0]]
  /\ links = 0
  /\ auth = [f \in Flows |-> [status |-> "none", invitation |-> 0, link |-> 0]]
  /\ session = [s \in Sessions |-> [status |-> "none", owner |-> NoOne, flow |-> 0]]
  /\ impersonation = [s \in Sessions |-> NoOne]
  /\ token = {}
  /\ announced = {}
  /\ req = [r \in Requests |-> Idle]

-----------------------------------------------------------------------------
(* Helpers.                                                                *)

\* The request goes on with what it holds in state q, or ends when q is Idle.
Becomes(r, q) == req' = [req EXCEPT ![r] = q]

\* The first row of a table that has not been used.
Fresh(table, ids) ==
  {i \in ids : table[i].status = "none" /\ \A j \in 1 .. i - 1 : table[j].status # "none"}

CanUseApplication(p) == user[p].active /\ user[p].access = "APPROVED"

CanChangeAccessStatus(from, to) ==
  \/ from = to
  \/ from = "PENDING" /\ to \in {"APPROVED", "REJECTED"}
  \/ from = "REJECTED" /\ to = "APPROVED"

\* The new session of a login; no two rows have the same id.
insertSession(p, f) ==
  \E s \in Fresh(session, Sessions) :
    session' = [session EXCEPT ![s] = [status |-> "live", owner |-> p, flow |-> f]]

\* Every unused authorization that was started from the invitation is spent.
invalidateInvitationAuthorizations(i) ==
  auth' = [f \in Flows |->
             IF auth[f].invitation = i /\ auth[f].status = "open"
               THEN [auth[f] EXCEPT !.status = "consumed"] ELSE auth[f]]

-----------------------------------------------------------------------------
(* Authorization: a browser goes to Lark and comes back.                   *)

\* GET /api/auth/lark/start.
StartAuthorization ==
  \E f \in Fresh(auth, Flows) :
    /\ auth' = [auth EXCEPT ![f].status = "open"]
    /\ UNCHANGED <<user, invitation, links, session, impersonation, token, announced, req>>

\* POST /api/invitations/accept reads the invitation of the link it was given.
AcceptInvitationToken(r) ==
  /\ req[r] = Idle
  /\ \E i \in Invitations :
       /\ invitation[i].status = "pending"
       /\ Becomes(r, [stage |-> "opening", invitation |-> i, link |-> invitation[i].link])
  /\ UNCHANGED <<user, invitation, links, auth, session, impersonation, token, announced>>

\* ... and then, in a statement of its own, stores the authorization with the
\* hash that it read.
CreateAuthorizationTransaction(r) ==
  /\ req[r].stage = "opening"
  /\ \E f \in Fresh(auth, Flows) :
       auth' = [auth EXCEPT ![f] = [status |-> "open", invitation |-> req[r].invitation,
                                    link |-> req[r].link]]
  /\ Becomes(r, Idle)
  /\ UNCHANGED <<user, invitation, links, session, impersonation, token, announced>>

\* Ten minutes pass: the state is refused exactly as a consumed one is.
AuthorizationExpires(f) ==
  /\ auth[f].status = "open"
  /\ auth' = [auth EXCEPT ![f].status = "consumed"]
  /\ UNCHANGED <<user, invitation, links, session, impersonation, token, announced, req>>

\* Mutant: the state is read but not spent.
ConsumeAuthorizationStateAgain(r) ==
  /\ req[r] = Idle
  /\ \E f \in Flows, p \in Principals :
       /\ auth[f].status = "open"
       /\ Becomes(r, [stage |-> "exchanged", flow |-> f, principal |-> p])
  /\ UNCHANGED <<user, invitation, links, auth, session, impersonation, token, announced>>

\* The callback spends the state; then Lark names the principal p who logged in.
ConsumeAuthorizationState(r) ==
  /\ req[r] = Idle
  /\ \E f \in Flows, p \in Principals :
       /\ auth[f].status = "open"
       /\ auth' = [auth EXCEPT ![f].status = "consumed"]
       /\ Becomes(r, [stage |-> "exchanged", flow |-> f, principal |-> p])
  /\ UNCHANGED <<user, invitation, links, session, impersonation, token, announced>>

\* Mutant: the link is not compared with the authorization's.
InvitationMatchesAnyLink(i, p, link) ==
  /\ invitation[i].status = "pending"
  /\ invitation[i].target = p

\* The pending, unexpired invitation must name this principal and its link must
\* still be the one the authorization was started with.
InvitationMatches(i, p, link) ==
  /\ invitation[i].status = "pending"
  /\ invitation[i].target = p
  /\ invitation[i].link = link

\* One transaction creates the account, binds the principal, accepts the
\* invitation and opens a session.  The principal must not be bound yet.
AcceptInvitation(r) ==
  /\ req[r].stage = "exchanged"
  /\ LET p == req[r].principal
         row == auth[req[r].flow]
     IN  /\ row.invitation # 0
         /\ InvitationMatches(row.invitation, p, row.link)
         /\ ~user[p].bound
         /\ user' = [user EXCEPT ![p] = [bound |-> TRUE, access |-> "PENDING",
                                         active |-> TRUE, via |-> row.link]]
         /\ invitation' = [invitation EXCEPT ![row.invitation].status = "accepted"]
         /\ insertSession(p, req[r].flow)
  /\ Becomes(r, Idle)
  /\ UNCHANGED <<links, auth, impersonation, token, announced>>

\* A login looks the principal up without a lock and goes on with the answer.
findLoginUser(r) ==
  /\ req[r].stage = "exchanged"
  /\ auth[req[r].flow].invitation = 0
  /\ Becomes(r, [stage |-> IF user[req[r].principal].bound THEN "known" ELSE "unknown",
                 flow |-> req[r].flow, principal |-> req[r].principal])
  /\ UNCHANGED <<user, invitation, links, auth, session, impersonation, token, announced>>

\* Mutant: the account's active flag is not looked at under the lock.
LoginExternalUnchecked(r) ==
  /\ req[r].stage = "known"
  /\ insertSession(req[r].principal, req[r].flow)
  /\ Becomes(r, Idle)
  /\ UNCHANGED <<user, invitation, links, auth, impersonation, token, announced>>

LoginExternal(r) ==
  /\ req[r].stage = "known"
  /\ user[req[r].principal].active
  /\ insertSession(req[r].principal, req[r].flow)
  /\ Becomes(r, Idle)
  /\ UNCHANGED <<user, invitation, links, auth, impersonation, token, announced>>

\* The first login with the bootstrap e-mail becomes the one Administrator.
BootstrapAdmin(r) ==
  /\ req[r].stage = "unknown" /\ req[r].principal = Admin
  /\ ~user[Admin].bound
  /\ user' = [user EXCEPT ![Admin] = [bound |-> TRUE, access |-> "APPROVED",
                                      active |-> TRUE, via |-> 0]]
  /\ insertSession(Admin, req[r].flow)
  /\ Becomes(r, Idle)
  /\ UNCHANGED <<invitation, links, auth, impersonation, token, announced>>

\* Any other unknown principal gets a pending account and a restricted session;
\* an Administrator who can be reached is told.
RegisterAccessRequest(r) ==
  /\ req[r].stage = "unknown" /\ req[r].principal # Admin
  /\ LET p == req[r].principal
     IN  /\ ~user[p].bound
         /\ user' = [user EXCEPT ![p] = [bound |-> TRUE, access |-> "PENDING",
                                         active |-> TRUE, via |-> 0]]
         /\ insertSession(p, req[r].flow)
         /\ announced' = IF user[Admin].bound /\ CanUseApplication(Admin)
                           THEN announced \union {<<"requested", p>>} ELSE announced
  /\ Becomes(r, Idle)
  /\ UNCHANGED <<invitation, links, auth, impersonation, token>>

\* A request that is refused, or whose process or client goes away, ends where
\* it is; its committed steps stay.
Abandon(r) ==
  /\ req[r] # Idle
  /\ Becomes(r, Idle)
  /\ UNCHANGED <<user, invitation, links, auth, session, impersonation, token, announced>>
-----------------------------------------------------------------------------
(* Sessions: the middleware authenticates every protected request.         *)

\* The session and its owner are read, then its open impersonation.
ResolveSession(r) ==
  /\ req[r] = Idle
  /\ \E s \in Sessions :
       /\ session[s].status = "live"
       /\ user[session[s].owner].active
       /\ LET subject == impersonation[s]
          IN  Becomes(r, [stage |-> "resolved", session |-> s, subject |-> subject,
                          admitted |-> subject = NoOne \/ user[subject].active])
  /\ UNCHANGED <<user, invitation, links, auth, session, impersonation, token, announced>>

\* The account is closed and every session of it that is not revoked yet is.
DeactivateUser(p) ==
  /\ user' = [user EXCEPT ![p].active = FALSE]
  /\ session' = [s \in Sessions |->
                   IF session[s].owner = p THEN [session[s] EXCEPT !.status = "revoked"]
                                           ELSE session[s]]

\* A verification that was due may find that Lark no longer knows the principal.
revalidate(r) ==
  /\ req[r].stage = "resolved"
  /\ Becomes(r, [stage |-> "invalid", principal |-> session[req[r].session].owner])
  /\ UNCHANGED <<user, invitation, links, auth, session, impersonation, token, announced>>

deactivateInvalidPrincipal(r) ==
  /\ req[r].stage = "invalid"
  /\ DeactivateUser(req[r].principal)
  /\ Becomes(r, Idle)
  /\ UNCHANGED <<invitation, links, auth, impersonation, token, announced>>

\* The request is served when no verification was due, when Lark vouched for the
\* principal, and when Lark failed within the grace window.  It keeps what it read,
\* whatever has become of the session and its owner since.
Serve(r) ==
  /\ req[r].stage = "resolved"
  /\ req[r].admitted
  /\ Becomes(r, [stage |-> "served", session |-> req[r].session, subject |-> req[r].subject])
  /\ UNCHANGED <<user, invitation, links, auth, session, impersonation, token, announced>>

\* 24 hours without a request that rolls the session forward, or 30 days in all.
SessionExpires(s) ==
  /\ session[s].status = "live"
  /\ session' = [session EXCEPT ![s].status = "expired"]
  /\ UNCHANGED <<user, invitation, links, auth, impersonation, token, announced, req>>

\* Logout closes the impersonation and revokes the session in one transaction;
\* it is the one write that is open to everybody who is served.
LogoutSession(r) ==
  /\ req[r].stage = "served"
  /\ session' = [session EXCEPT ![req[r].session].status = "revoked"]
  /\ impersonation' = [impersonation EXCEPT ![req[r].session] = NoOne]
  /\ Becomes(r, Idle)
  /\ UNCHANGED <<user, invitation, links, auth, token, announced>>

-----------------------------------------------------------------------------
(* Administration.  The actor is the owner of the request's session as the  *)
(* middleware read it; administrator routes are closed while impersonating. *)

ServedAs(r, p) ==
  /\ req[r].stage = "served"
  /\ req[r].subject = NoOne
  /\ session[req[r].session].owner = p

\* POST /api/admin/invitations first looks whether the person has an account ...
CreateInvitation(r) ==
  /\ ServedAs(r, Admin)
  /\ \E m \in Members :
       /\ ~user[m].bound
       /\ Becomes(r, [stage |-> "inviting", member |-> m])
  /\ UNCHANGED <<user, invitation, links, auth, session, impersonation, token, announced>>

\* Mutant: the link of a new invitation is not a new one.
InsertInvitationUncounted(r) ==
  /\ req[r].stage = "inviting"
  /\ \A i \in Invitations : invitation[i].target = req[r].member
                              => invitation[i].status \notin {"pending", "lapsed"}
  /\ links < MaxLinks
  /\ \E i \in Fresh(invitation, Invitations) :
       invitation' = [invitation EXCEPT ![i] = [status |-> "pending", target |-> req[r].member,
                                                link |-> links + 1]]
  /\ links' = links
  /\ Becomes(r, Idle)
  /\ UNCHANGED <<user, auth, session, impersonation, token, announced>>

\* ... then inserts the row; one pending row per person is allowed.
InsertInvitation(r) ==
  /\ req[r].stage = "inviting"
  /\ \A i \in Invitations : invitation[i].target = req[r].member
                              => invitation[i].status \notin {"pending", "lapsed"}
  /\ links < MaxLinks
  /\ \E i \in Fresh(invitation, Invitations) :
       invitation' = [invitation EXCEPT ![i] = [status |-> "pending", target |-> req[r].member,
                                                link |-> links + 1]]
  /\ links' = links + 1
  /\ Becomes(r, Idle)
  /\ UNCHANGED <<user, auth, session, impersonation, token, announced>>

\* Resending an invitation and copying its link both make a new link.
RotateInvitation(r) ==
  /\ ServedAs(r, Admin)
  /\ links < MaxLinks
  /\ \E i \in Invitations :
       /\ invitation[i].status = "pending"
       /\ invitation' = [invitation EXCEPT ![i].link = links + 1]
       /\ invalidateInvitationAuthorizations(i)
  /\ links' = links + 1
  /\ Becomes(r, Idle)
  /\ UNCHANGED <<user, session, impersonation, token, announced>>

RevokeInvitation(r) ==
  /\ ServedAs(r, Admin)
  /\ \E i \in Invitations :
       /\ invitation[i].status = "pending"
       /\ invitation' = [invitation EXCEPT ![i].status = "revoked"]
       /\ invalidateInvitationAuthorizations(i)
  /\ Becomes(r, Idle)
  /\ UNCHANGED <<user, links, session, impersonation, token, announced>>

\* Seven days pass; the row says so only when the Administrator's list sweeps.
InvitationLapses(i) ==
  /\ invitation[i].status = "pending"
  /\ invitation' = [invitation EXCEPT ![i].status = "lapsed"]
  /\ UNCHANGED <<user, links, auth, session, impersonation, token, announced, req>>

ExpireInvitations(r) ==
  /\ ServedAs(r, Admin)
  /\ invitation' = [i \in Invitations |->
                      IF invitation[i].status = "lapsed"
                        THEN [invitation[i] EXCEPT !.status = "expired"] ELSE invitation[i]]
  /\ Becomes(r, Idle)
  /\ UNCHANGED <<user, links, auth, session, impersonation, token, announced>>

SetUserActive(r) ==
  /\ ServedAs(r, Admin)
  /\ \E m \in Members :
       /\ user[m].bound
       /\ \/ DeactivateUser(m)
          \/ user' = [user EXCEPT ![m].active = TRUE] /\ UNCHANGED session  \* ReactivateUser
  /\ Becomes(r, Idle)
  /\ UNCHANGED <<invitation, links, auth, impersonation, token, announced>>
\* The service judges the decision on an unlocked read ...
DecideAccess(r) ==
  /\ ServedAs(r, Admin)
  /\ \E m \in Members, status \in {"APPROVED", "REJECTED"} :
       /\ user[m].bound
       /\ CanChangeAccessStatus(user[m].access, status)
       /\ Becomes(r, [stage |-> "deciding", member |-> m, status |-> status])
  /\ UNCHANGED <<user, invitation, links, auth, session, impersonation, token, announced>>

\* Mutant: the decision is not judged again under the lock.
SetUserAccessStatusUnchecked(r) ==
  /\ req[r].stage = "deciding"
  /\ LET m == req[r].member
         status == req[r].status
     IN  /\ user' = [user EXCEPT ![m].access = status]
         /\ announced' = IF status = "APPROVED" /\ user[m].access # status
                           THEN announced \union {<<"approved", m>>} ELSE announced
  /\ Becomes(r, Idle)
  /\ UNCHANGED <<invitation, links, auth, session, impersonation, token>>

\* ... and the store judges it again under the row's lock.
SetUserAccessStatus(r) ==
  /\ req[r].stage = "deciding"
  /\ LET m == req[r].member
         status == req[r].status
     IN  /\ CanChangeAccessStatus(user[m].access, status)
         /\ user' = [user EXCEPT ![m].access = status]
         /\ announced' = IF status = "APPROVED" /\ user[m].access # status
                           THEN announced \union {<<"approved", m>>} ELSE announced
  /\ Becomes(r, Idle)
  /\ UNCHANGED <<invitation, links, auth, session, impersonation, token>>

\* Mutant: any active Member can be viewed.
CanImpersonateActive(r) ==
  /\ ServedAs(r, Admin)
  /\ \E m \in Members :
       /\ user[m].bound /\ user[m].active
       /\ Becomes(r, [stage |-> "viewing", session |-> req[r].session, member |-> m])
  /\ UNCHANGED <<user, invitation, links, auth, session, impersonation, token, announced>>

\* The service checks that the Member may be viewed on an unlocked read ...
CanImpersonate(r) ==
  /\ ServedAs(r, Admin)
  /\ \E m \in Members :
       /\ user[m].bound /\ CanUseApplication(m)
       /\ Becomes(r, [stage |-> "viewing", session |-> req[r].session, member |-> m])
  /\ UNCHANGED <<user, invitation, links, auth, session, impersonation, token, announced>>

\* ... and the store requires, under lock, two active users and no other open
\* impersonation of the session.  It does not look at the session's state.
StartImpersonation(r) ==
  /\ req[r].stage = "viewing"
  /\ LET s == req[r].session
         m == req[r].member
     IN  /\ session[s].owner = Admin
         /\ user[Admin].active /\ user[m].active
         /\ impersonation[s] = NoOne
         /\ impersonation' = [impersonation EXCEPT ![s] = m]
  /\ Becomes(r, Idle)
  /\ UNCHANGED <<user, invitation, links, auth, session, token, announced>>

EndImpersonation(r) ==
  /\ req[r].stage = "served" /\ req[r].subject # NoOne
  /\ impersonation[req[r].session] # NoOne
  /\ impersonation' = [impersonation EXCEPT ![req[r].session] = NoOne]
  /\ Becomes(r, Idle)
  /\ UNCHANGED <<user, invitation, links, auth, session, token, announced>>

-----------------------------------------------------------------------------
(* Personal API tokens.  Bearer requests reuse the provider verification.  *)

\* Only approved users get past the middleware; the insert checks nothing more.
Issue(r) ==
  /\ \E p \in Principals :
       /\ ServedAs(r, p)
       /\ user[p].access = "APPROVED"
       /\ token' = token \union {p}
  /\ Becomes(r, Idle)
  /\ UNCHANGED <<user, invitation, links, auth, session, impersonation, announced>>

\* By its owner or by the Administrator; a token that runs out is no different.
Revoke(r) ==
  /\ \E p \in Principals :
       /\ ServedAs(r, p) \/ ServedAs(r, Admin)
       /\ p \in token
       /\ token' = token \ {p}
  /\ Becomes(r, Idle)
  /\ UNCHANGED <<user, invitation, links, auth, session, impersonation, announced>>

Authenticate(r) ==
  /\ req[r] = Idle
  /\ \E p \in token :
       /\ CanUseApplication(p)
       /\ Becomes(r, [stage |-> "bearer", principal |-> p])
  /\ UNCHANGED <<user, invitation, links, auth, session, impersonation, token, announced>>

\* Lark may say that the owner is gone; the other answers change no row here.
VerifyTokenOwner(r) ==
  /\ req[r].stage = "bearer"
  /\ DeactivateUser(req[r].principal)
  /\ Becomes(r, Idle)
  /\ UNCHANGED <<invitation, links, auth, impersonation, token, announced>>

-----------------------------------------------------------------------------
(* The specification.                                                      *)

CompleteAuthorization(r) ==
  \/ ConsumeAuthorizationState(r) \/ AcceptInvitation(r) \/ findLoginUser(r)
  \/ LoginExternal(r) \/ BootstrapAdmin(r) \/ RegisterAccessRequest(r)

AuthenticateSession(r) ==
  \/ ResolveSession(r) \/ revalidate(r) \/ deactivateInvalidPrincipal(r) \/ Serve(r)

Administer(r) ==
  \/ CreateInvitation(r) \/ InsertInvitation(r) \/ RotateInvitation(r)
  \/ RevokeInvitation(r) \/ ExpireInvitations(r) \/ SetUserActive(r)
  \/ DecideAccess(r) \/ SetUserAccessStatus(r)
  \/ CanImpersonate(r) \/ StartImpersonation(r) \/ EndImpersonation(r)

Time ==
  \/ \E f \in Flows : AuthorizationExpires(f)
  \/ \E i \in Invitations : InvitationLapses(i)
  \/ \E s \in Sessions : SessionExpires(s)

Next ==
  \/ StartAuthorization
  \/ \E r \in Requests :
       \/ AcceptInvitationToken(r) \/ CreateAuthorizationTransaction(r)
       \/ CompleteAuthorization(r) \/ AuthenticateSession(r) \/ LogoutSession(r)
       \/ Administer(r) \/ Issue(r) \/ Revoke(r) \/ Authenticate(r) \/ VerifyTokenOwner(r)
       \/ Abandon(r)
  \/ Time

Spec == Init /\ [][Next]_vars

-----------------------------------------------------------------------------
(* Properties.                                                             *)

Pending ==
  {Idle}
  \union [stage : {"opening"}, invitation : Invitations, link : Links]
  \union [stage : {"exchanged", "known", "unknown"}, flow : Flows, principal : Principals]
  \union [stage : {"resolved"}, session : Sessions, subject : Members \union {NoOne},
          admitted : BOOLEAN]
  \union [stage : {"served"}, session : Sessions, subject : Members \union {NoOne}]
  \union [stage : {"inviting"}, member : Members]
  \union [stage : {"deciding"}, member : Members, status : AccessStatus]
  \union [stage : {"viewing"}, session : Sessions, member : Members]
  \union [stage : {"bearer", "invalid"}, principal : Principals]

\* The rows and the requests in progress have the shape the code gives them; an
\* invitation that exists has a target and a link that was really made.
TypeOK ==
  /\ user \in [Principals -> [bound : BOOLEAN, access : AccessStatus, active : BOOLEAN,
                              via : 0 .. MaxLinks]]
  /\ invitation \in [Invitations ->
       [status : {"none", "pending", "lapsed", "expired", "revoked", "accepted"},
        target : Members \union {NoOne}, link : 0 .. MaxLinks]]
  /\ links \in 0 .. MaxLinks
  /\ auth \in [Flows -> [status : {"none", "open", "consumed"},
                         invitation : 0 .. MaxInvitations, link : 0 .. MaxLinks]]
  /\ session \in [Sessions -> [status : {"none", "live", "expired", "revoked"},
                               owner : Principals \union {NoOne}, flow : 0 .. MaxFlows]]
  /\ impersonation \in [Sessions -> Members \union {NoOne}]
  /\ token \subseteq Principals
  /\ announced \subseteq ({"requested", "approved"} \X Members)
  /\ req \in [Requests -> Pending]
  /\ \A i \in Invitations :
       invitation[i].status # "none"
         => invitation[i].target # NoOne /\ invitation[i].link \in 1 .. links

\* A closed account has no session left that could be used: a login that was on
\* its way when DeactivateUser ran finds the account closed, and a session opened
\* before it is revoked with it.  Reopening the account later revives none.
InactiveUserHasNoSession ==
  \A s \in Sessions :
    session[s].status = "live" => user[session[s].owner].active

\* A link admits one person once.  The account that AcceptInvitation made names the
\* link it came by: that link is the current one of an accepted invitation for this
\* person.  A link that was replaced, revoked or ran out before never made an account,
\* although the authorization started from it may have outlived it.
LinkAdmitsOnce ==
  \A p \in Principals :
    user[p].via # 0 =>
      \E i \in Invitations :
        /\ invitation[i] = [status |-> "accepted", target |-> p, link |-> user[p].via]
        /\ \A j \in Invitations \ {i} : invitation[j].target = p
                                          => invitation[j].status # "accepted"

\* One trip to Lark opens at most one session, however often its callback arrives.
OneSessionPerAuthorization ==
  \A s, t \in Sessions :
    s # t /\ session[s].status # "none" => session[s].flow # session[t].flow

\* Approval is the terminal admission decision: no later or concurrent decision of
\* the Administrator, login or deactivation takes it back, and the one approval of a
\* Member has been announced.
ApprovalIsFinal ==
  [][\A m \in Members :
       /\ user[m].access = "APPROVED" => user'[m].access = "APPROVED"
       /\ user'[m].access = "APPROVED" => <<"approved", m>> \in announced']_vars

\* Only the Administrator's own session ever carries an impersonation, and the person
\* viewed is an approved Member, although both were judged before the lock.
ImpersonatedIsMember ==
  \A s \in Sessions :
    impersonation[s] # NoOne =>
      /\ session[s].owner = Admin
      /\ user[impersonation[s]].bound /\ user[impersonation[s]].access = "APPROVED"
=============================================================================
