---------------------------- MODULE Attachments ----------------------------
(***************************************************************************)
(* The attachments of one Task: upload sessions, the objects in the blob   *)
(* store, the attachment rows, and the cleanup loop.                       *)
(*                                                                         *)
(* Database and blob store change separately.  CompleteUpload of           *)
(* internal/application/attachment_service.go inspects the object before   *)
(* the transaction that makes it an attachment; RunOnce of                 *)
(* attachment_cleanup.go claims rows, deletes objects and marks the rows,  *)
(* each apart from the others, and may stop anywhere.  An object belongs   *)
(* to the session whose id is in its key, and an attachment to the session *)
(* it was made from, so one set of sessions indexes all three.  If-Match   *)
(* (the Task's or the attachment's version) only refuses requests and is   *)
(* left out, and so are objects of a provider no longer configured.        *)
(***************************************************************************)
EXTENDS Naturals, FiniteSets

CONSTANTS
    Sessions,
    Completions,               \* requests to complete an upload, at a time
    NoSession,
    MaxActiveTaskAttachments

ASSUME AttachmentConstants ==
    /\ NoSession \notin Sessions
    /\ MaxActiveTaskAttachments \in Nat

VARIABLES
    session,     \* attachment_upload_sessions.status, "absent" without a row
    late,        \* the sessions whose expires_at has passed
    object,      \* the content under the session's key: "none", "good", or "refused" by
                 \* ValidateAttachmentContentSignature
    attachment,  \* the task_attachments row: "none", "active", "deleted", "claimed" while
                 \* cleanup_attempted_at is less than five minutes old, "cleaned"
    completion,  \* per request: the session, and what its inspection found
    cleanup,     \* RunOnce: the phase, the rows claimed, the row whose object is deleted
    strayed      \* history: content that arrived when its upload was over or being completed

vars == <<session, late, object, attachment, completion, cleanup, strayed>>

NoCompletion == [session |-> NoSession, found |-> "none"]
NotRunning == [phase |-> "idle", rows |-> {}, deleted |-> NoSession]

ActiveAttachments == {s \in Sessions : attachment[s] = "active"}

Init ==
    /\ session = [s \in Sessions |-> "absent"]
    /\ late = {}
    /\ object = [s \in Sessions |-> "none"]
    /\ attachment = [s \in Sessions |-> "none"]
    /\ completion = [q \in Completions |-> NoCompletion]
    /\ cleanup = NotRunning
    /\ strayed = {}

------------------------------------------------------------------------------
(* Uploads *)

\* The active attachments are counted without a lock.
StartUpload(s) ==
    /\ session[s] = "absent"
    /\ Cardinality(ActiveAttachments) < MaxActiveTaskAttachments
    /\ session' = [session EXCEPT ![s] = "pending"]
    /\ UNCHANGED <<late, object, attachment, completion, cleanup, strayed>>

Completing(s) == \E q \in Completions : completion[q].session = s

\* UploadLocal looks at the session before it stores the body, and a signed URL of a
\* cloud store never does, so content may arrive at any time once the session exists.
Put(s, content) ==
    /\ session[s] # "absent"
    /\ object' = [object EXCEPT ![s] = content]
    /\ strayed' = IF session[s] # "pending" \/ Completing(s) THEN strayed \cup {s} ELSE strayed
    /\ UNCHANGED <<session, late, attachment, completion, cleanup>>

Expire(s) ==
    /\ session[s] # "absent" /\ s \notin late
    /\ late' = late \cup {s}
    /\ UNCHANGED <<session, object, attachment, completion, cleanup, strayed>>

\* CompleteUpload up to the transaction: GetUploadSession, Stat and the first bytes.
InspectUpload(q, s) ==
    /\ completion[q] = NoCompletion
    /\ session[s] = "pending"
    /\ object[s] # "none"
    /\ completion' = [completion EXCEPT ![q] = [session |-> s, found |-> object[s]]]
    /\ UNCHANGED <<session, late, object, attachment, cleanup, strayed>>

\* Refused content is deleted, whatever the session has become; a failure is logged.
RejectContent(q) ==
    LET s == completion[q].session
    IN  /\ completion[q].found = "refused"
        /\ \/ object' = [object EXCEPT ![s] = "none"]
           \/ UNCHANGED object
        /\ completion' = [completion EXCEPT ![q] = NoCompletion]
        /\ UNCHANGED <<session, late, attachment, cleanup, strayed>>

\* Mutant of Room: the count made when the session was created is trusted.
RoomThen == TRUE

\* The count under the lock of the tasks row.
Room == Cardinality(ActiveAttachments) < MaxActiveTaskAttachments

\* Mutant of CompleteUploadSession: a session that has ended meanwhile is completed.
CompleteAnySession(q) ==
    LET s == completion[q].session
    IN  /\ completion[q].found = "good"
        /\ Room
        /\ session' = [session EXCEPT ![s] = "completed"]
        /\ attachment' = [attachment EXCEPT ![s] = "active"]
        /\ completion' = [completion EXCEPT ![q] = NoCompletion]
        /\ UNCHANGED <<late, object, cleanup, strayed>>

\* The session FOR UPDATE and pending; too late, it is marked expired and committed.
CompleteUploadSession(q) ==
    LET s == completion[q].session
    IN  /\ completion[q].found = "good"
        /\ session[s] = "pending"
        /\ \/ /\ s \in late
              /\ session' = [session EXCEPT ![s] = "expired"]
              /\ UNCHANGED attachment
           \/ /\ s \notin late
              /\ Room
              /\ session' = [session EXCEPT ![s] = "completed"]
              /\ attachment' = [attachment EXCEPT ![s] = "active"]
        /\ completion' = [completion EXCEPT ![q] = NoCompletion]
        /\ UNCHANGED <<late, object, cleanup, strayed>>

\* The request fails: its session is over, its size or version differs, no room.
RefuseCompletion(q) ==
    /\ completion[q] # NoCompletion
    /\ completion' = [completion EXCEPT ![q] = NoCompletion]
    /\ UNCHANGED <<session, late, object, attachment, cleanup, strayed>>

SoftDelete(s) ==
    /\ attachment[s] = "active"
    /\ attachment' = [attachment EXCEPT ![s] = "deleted"]
    /\ UNCHANGED <<session, late, object, completion, cleanup, strayed>>

------------------------------------------------------------------------------
(* RunOnce *)

\* cleanup_attempted_at keeps a row from being claimed again for five minutes.
ClaimCleanupBatch ==
    LET rows == {s \in Sessions : attachment[s] = "deleted"}
    IN  /\ cleanup.phase = "idle"
        /\ cleanup' = [phase |-> "attachments", rows |-> rows, deleted |-> NoSession]
        /\ attachment' = [s \in Sessions |-> IF s \in rows THEN "claimed" ELSE attachment[s]]
        /\ UNCHANGED <<session, late, object, completion, strayed>>

\* Mutant of ClaimLapses: only rows without cleanup_attempted_at are claimed.
ClaimNeverLapses(s) == FALSE

\* Five minutes after the attempt.
ClaimLapses(s) ==
    /\ attachment[s] = "claimed"
    /\ attachment' = [attachment EXCEPT ![s] = "deleted"]
    /\ UNCHANGED <<session, late, object, completion, cleanup, strayed>>

\* Objects.Delete also succeeds for an object that is not there.
DeleteObject(s) ==
    /\ cleanup.phase = "attachments" /\ cleanup.deleted = NoSession /\ s \in cleanup.rows
    /\ object' = [object EXCEPT ![s] = "none"]
    /\ cleanup' = [cleanup EXCEPT !.rows = @ \ {s}, !.deleted = s]
    /\ UNCHANGED <<session, late, attachment, completion, strayed>>

\* MarkCleanupFailed stores the error text and the loop goes on.
MarkCleanupFailed(s) ==
    /\ cleanup.phase = "attachments" /\ cleanup.deleted = NoSession /\ s \in cleanup.rows
    /\ cleanup' = [cleanup EXCEPT !.rows = @ \ {s}]
    /\ UNCHANGED <<session, late, object, attachment, completion, strayed>>

\* By id alone, whatever has happened to the row since it was claimed.
MarkCleaned ==
    /\ cleanup.deleted # NoSession
    /\ attachment' = [attachment EXCEPT ![cleanup.deleted] = "cleaned"]
    /\ cleanup' = [cleanup EXCEPT !.deleted = NoSession]
    /\ UNCHANGED <<session, late, object, completion, strayed>>

ClaimExpiredUploadSessions ==
    LET rows == {s \in late : session[s] = "pending"}
    IN  /\ cleanup.phase = "attachments" /\ cleanup.rows = {} /\ cleanup.deleted = NoSession
        /\ session' = [s \in Sessions |-> IF s \in rows THEN "expired" ELSE session[s]]
        /\ cleanup' = [phase |-> "sessions", rows |-> rows, deleted |-> NoSession]
        /\ UNCHANGED <<late, object, attachment, completion, strayed>>

\* A failure is logged and not tried again.
DeleteExpired(s) ==
    /\ cleanup.phase = "sessions" /\ s \in cleanup.rows
    /\ \/ object' = [object EXCEPT ![s] = "none"]
       \/ UNCHANGED object
    /\ cleanup' = [cleanup EXCEPT !.rows = @ \ {s}]
    /\ UNCHANGED <<session, late, attachment, completion, strayed>>

FinishRun ==
    /\ cleanup.phase = "sessions" /\ cleanup.rows = {}
    /\ cleanup' = NotRunning
    /\ UNCHANGED <<session, late, object, attachment, completion, strayed>>

\* A database error ends RunOnce, a crash the process; the next run knows nothing.
AbortRun ==
    /\ cleanup.phase # "idle"
    /\ cleanup' = NotRunning
    /\ UNCHANGED <<session, late, object, attachment, completion, strayed>>

------------------------------------------------------------------------------

Next ==
    \/ \E s \in Sessions :
          \/ StartUpload(s) \/ Expire(s) \/ SoftDelete(s)
          \/ \E content \in {"good", "refused"} : Put(s, content)
          \/ \E q \in Completions : InspectUpload(q, s)
    \/ \E q \in Completions : RejectContent(q) \/ CompleteUploadSession(q) \/ RefuseCompletion(q)
    \/ ClaimCleanupBatch \/ MarkCleaned \/ ClaimExpiredUploadSessions \/ FinishRun \/ AbortRun
    \/ \E s \in Sessions :
          ClaimLapses(s) \/ DeleteObject(s) \/ MarkCleanupFailed(s) \/ DeleteExpired(s)

\* Run calls RunOnce every minute for as long as the server is up, and time passes.
\* A run may fail or stop at any point, but not every run at the same point: what is
\* tried again and again gets through once.
Fairness ==
    /\ WF_vars(ClaimCleanupBatch)
    /\ WF_vars(ClaimExpiredUploadSessions)
    /\ WF_vars(FinishRun)
    /\ \A s \in Sessions :
          /\ WF_vars(ClaimLapses(s))
          /\ WF_vars(DeleteExpired(s))
          /\ SF_vars(DeleteObject(s))
          /\ SF_vars(MarkCleaned /\ cleanup.deleted = s)

Spec == Init /\ [][Next]_vars /\ Fairness

------------------------------------------------------------------------------
(* Properties *)

\* An attachment that is listed has its content, of the kind CompleteUpload accepted,
\* and one that is marked cleaned has left none behind, although rows and objects
\* change apart and runs of the cleanup stop half-way.  (Content that the client sends
\* after or while the upload is completed is not looked at again and is set apart.)
ContentFollowsRow ==
    \A s \in Sessions \ strayed :
        /\ attachment[s] = "active" => object[s] = "good"
        /\ attachment[s] = "cleaned" => object[s] = "none"

\* A Task never has more active attachments than allowed: sessions are created on an
\* unlocked count, so more of them than fit may be completed at the same time.
AttachmentLimit == Cardinality(ActiveAttachments) <= MaxActiveTaskAttachments

\* The object of a deleted attachment is removed and the row marked in the end,
\* although deletions fail and runs are cut short.
DeletedIsCleaned ==
    \A s \in Sessions : attachment[s] = "deleted" ~> attachment[s] = "cleaned"
=============================================================================
