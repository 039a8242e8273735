\* One Member and the Administrator, two requests at a time.
CONSTANTS
  Members = {m1}
  Admin = admin
  NoOne = none
  Requests = {r1, r2}
  MaxInvitations = 2
  MaxLinks = 2
  MaxFlows = 2
  MaxSessions = 2
SPECIFICATION Spec
INVARIANT TypeOK
INVARIANT InactiveUserHasNoSession
INVARIANT LinkAdmitsOnce
INVARIANT OneSessionPerAuthorization
INVARIANT ImpersonatedIsMember
PROPERTY ApprovalIsFinal
CHECK_DEADLOCK FALSE
