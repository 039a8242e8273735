------------------------- MODULE AttachmentsProofs -------------------------
(***************************************************************************)
(* Proofs of the safety properties of Attachments, for any number of       *)
(* sessions and of requests that complete uploads, and any limit.          *)
(*                                                                         *)
(* The object store and the rows change apart, so neither property is      *)
(* inductive.  What they rest on: what an inspection found stays true      *)
(* while its session is pending, unless content arrives meanwhile; and     *)
(* the cleanup only holds rows that are over.                              *)
(***************************************************************************)
EXTENDS Attachments, FiniteSetTheorems, TLAPS

Contents == {"none", "good", "refused"}
Gone == {"deleted", "claimed", "cleaned"}

Completion == {NoCompletion} \cup [session : Sessions, found : {"good", "refused"}]

\* The variables with their types.
Types ==
    /\ session \in [Sessions -> {"absent", "pending", "completed", "expired"}]
    /\ late \subseteq Sessions
    /\ object \in [Sessions -> Contents]
    /\ attachment \in [Sessions -> {"none", "active"} \cup Gone]
    /\ completion \in [Completions -> Completion]
    /\ cleanup \in [phase : {"idle", "attachments", "sessions"}, rows : SUBSET Sessions,
                    deleted : Sessions \cup {NoSession}]
    /\ strayed \subseteq Sessions

\* Only a completed session has an attachment.
RowsFollowSession == \A s \in Sessions : attachment[s] # "none" => session[s] = "completed"

\* Unless content strayed in, requests that complete the same upload found the same:
\* accepted content, which is there while the session is pending, or refused content,
\* which never becomes an attachment.
InspectionsHold ==
    \A q \in Completions :
        completion[q].session \in Sessions \ strayed =>
            LET s == completion[q].session
            IN  /\ session[s] # "absent"
                /\ completion[q].found = "good" /\ session[s] = "pending" => object[s] = "good"
                /\ completion[q].found = "refused" => attachment[s] = "none" /\ object[s] # "good"
                /\ \A p \in Completions :
                     completion[p].session = s => completion[p].found = completion[q].found

\* The cleanup holds rows of deleted attachments, then of expired sessions; the object
\* it has deleted is gone.
CleanupHolds ==
    /\ cleanup.phase = "attachments" => \A s \in cleanup.rows : attachment[s] \in Gone
    /\ cleanup.phase = "sessions" => \A s \in cleanup.rows : session[s] = "expired"
    /\ cleanup.deleted # NoSession => /\ attachment[cleanup.deleted] \in Gone
                                      /\ cleanup.deleted \notin strayed => object[cleanup.deleted] = "none"

\* The inductive invariant.
Inv ==
    /\ Types /\ RowsFollowSession /\ InspectionsHold /\ CleanupHolds /\ ContentFollowsRow
    /\ IsFiniteSet(ActiveAttachments) /\ AttachmentLimit

-----------------------------------------------------------------------------
(* What the steps do to the rows, the objects and the inspections. *)

\* A request that inspects nothing names no session.
LEMMA Inspecting ==
    ASSUME Types, NEW q \in Completions
    PROVE  /\ completion[q].found \in {"good", "refused"} <=> completion[q].session \in Sessions
           /\ completion[q].session \in Sessions \/ completion[q] = NoCompletion
           /\ NoCompletion.session \notin Sessions /\ NoCompletion.found \notin {"good", "refused"}
BY AttachmentConstants DEF Types, Completion, NoCompletion

\* A request that ends leaves the others as they are.
LEMMA RequestEnds ==
    ASSUME Types, NEW q \in Completions, completion' = [completion EXCEPT ![q] = NoCompletion]
    PROVE  /\ completion' \in [Completions -> Completion]
           /\ \A p \in Completions : completion'[p] = completion[p] \/ completion'[p].session \notin Sessions
BY Inspecting DEF Types, Completion

\* What the inspections found stays true of sessions whose row and object keep what the
\* inspections say of them.
LEMMA InspectionsFrame ==
    ASSUME Types, InspectionsHold, strayed \subseteq strayed',
           \A p \in Completions : completion'[p] = completion[p] \/ completion'[p].session \notin Sessions,
           \A q \in Completions : completion[q].session \in Sessions \ strayed' =>
              LET s == completion[q].session
              IN  /\ session[s] # "absent" => session'[s] # "absent"
                  /\ completion[q].found = "good" /\ session'[s] = "pending" =>
                        object'[s] = object[s] /\ session[s] = "pending"
                  /\ completion[q].found = "refused" =>
                        /\ attachment[s] = "none" => attachment'[s] = "none"
                        /\ object'[s] \in {object[s], "none"}
    PROVE  InspectionsHold'
  <1> SUFFICES ASSUME NEW q \in Completions, completion'[q].session \in Sessions \ strayed'
               PROVE  LET s == completion'[q].session
                      IN  /\ session'[s] # "absent"
                          /\ completion'[q].found = "good" /\ session'[s] = "pending" => object'[s] = "good"
                          /\ completion'[q].found = "refused" => attachment'[s] = "none" /\ object'[s] # "good"
                          /\ \A p \in Completions :
                               completion'[p].session = s => completion'[p].found = completion'[q].found
    BY DEF InspectionsHold
  <1>1. completion'[q] = completion[q] /\ completion[q].session \in Sessions \ strayed
    OBVIOUS
  <1> QED
    BY <1>1 DEF InspectionsHold

\* The cleanup holds what it held, if no row or session it holds changes for the worse.
LEMMA CleanupFrame ==
    ASSUME Types, CleanupHolds, UNCHANGED cleanup,
           \A s \in Sessions : attachment[s] \in Gone => attachment'[s] \in Gone,
           \A s \in Sessions : session[s] = "expired" => session'[s] = "expired",
           strayed \subseteq strayed',
           \A s \in Sessions \ strayed' : attachment[s] \in Gone => object'[s] \in {object[s], "none"}
    PROVE  CleanupHolds'
  <1>1. cleanup.rows \subseteq Sessions /\ cleanup.deleted \in Sessions \cup {NoSession}
    BY DEF Types
  <1> QED
    BY <1>1 DEF CleanupHolds

\* A set of active attachments that only loses members stays within the limit.
LEMMA LimitFrame ==
    ASSUME IsFiniteSet(ActiveAttachments), AttachmentLimit, ActiveAttachments' \subseteq ActiveAttachments
    PROVE  IsFiniteSet(ActiveAttachments') /\ AttachmentLimit'
  <1>1. /\ IsFiniteSet(ActiveAttachments')
        /\ Cardinality(ActiveAttachments') <= Cardinality(ActiveAttachments)
    BY FS_Subset
  <1>2. Cardinality(ActiveAttachments') \in Nat /\ Cardinality(ActiveAttachments) \in Nat
    BY <1>1, FS_CardinalityType
  <1> QED
    BY <1>1, <1>2, AttachmentConstants DEF AttachmentLimit

\* The active attachments, when no row becomes active.
LEMMA FewerActive ==
    ASSUME Types, \A s \in Sessions : attachment'[s] = "active" => attachment[s] = "active"
    PROVE  ActiveAttachments' \subseteq ActiveAttachments
BY DEF ActiveAttachments

-----------------------------------------------------------------------------
(* Uploads. *)

\* A session that begins has neither an attachment nor an inspection of its own.
LEMMA StartStep ==
    ASSUME Inv, NEW s \in Sessions, StartUpload(s) \/ Expire(s)
    PROVE  Inv'
  <1> USE DEF Inv
  <1>1. /\ UNCHANGED <<object, attachment, completion, cleanup, strayed>>
        /\ session' \in [Sessions -> {"absent", "pending", "completed", "expired"}]
        /\ late' \subseteq Sessions
        /\ \A t \in Sessions : session'[t] = session[t] \/ (session[t] = "absent" /\ session'[t] = "pending")
    BY DEF Types, StartUpload, Expire
  <1>2. Types'
    BY <1>1 DEF Types
  <1>3. RowsFollowSession' /\ ContentFollowsRow'
    BY <1>1 DEF RowsFollowSession, ContentFollowsRow
  <1>4. CleanupHolds'
    BY <1>1, CleanupFrame
  <1>5. ActiveAttachments' = ActiveAttachments
    BY <1>1 DEF ActiveAttachments
  <1>6. InspectionsHold'
    <2>1. \A q \in Completions : completion[q].session \in Sessions \ strayed' =>
             session'[completion[q].session] = session[completion[q].session]
      BY <1>1 DEF InspectionsHold
    <2> QED
      BY <1>1, <2>1, InspectionsFrame
  <1> QED
    BY <1>2, <1>3, <1>4, <1>5, <1>6, LimitFrame

\* Content that arrives late or during a completion strays; otherwise nothing looks at it yet.
LEMMA PutStep ==
    ASSUME Inv, NEW s \in Sessions, NEW content \in {"good", "refused"}, Put(s, content)
    PROVE  Inv'
  <1> USE DEF Inv
  <1>1. /\ UNCHANGED <<session, late, attachment, completion, cleanup>>
        /\ object' \in [Sessions -> Contents] /\ \A t \in Sessions \ {s} : object'[t] = object[t]
        /\ strayed' \subseteq Sessions /\ strayed \subseteq strayed'
        /\ s \notin strayed' => session[s] = "pending" /\ ~Completing(s)
    BY DEF Types, Put, Contents
  <1>2. Types'
    BY <1>1 DEF Types
  <1>3. s \notin strayed' => attachment[s] = "none"
    BY <1>1 DEF RowsFollowSession
  <1>4. RowsFollowSession' /\ ContentFollowsRow'
    BY <1>1, <1>3 DEF RowsFollowSession, ContentFollowsRow
  <1>5. CleanupHolds'
    BY <1>1, <1>3, CleanupFrame DEF Gone
  <1>6. InspectionsHold'
    <2>1. \A q \in Completions : completion[q].session \in Sessions \ strayed' => completion[q].session # s
      BY <1>1 DEF Completing
    <2> QED
      BY <1>1, <2>1, InspectionsFrame
  <1>7. ActiveAttachments' = ActiveAttachments
    BY <1>1 DEF ActiveAttachments
  <1> QED
    BY <1>2, <1>4, <1>5, <1>6, <1>7, LimitFrame

\* A new inspection agrees with the ones under way.
LEMMA InspectStep ==
    ASSUME Inv, NEW q \in Completions, NEW s \in Sessions, InspectUpload(q, s)
    PROVE  Inv'
  <1> USE DEF Inv
  <1> DEFINE new == [session |-> s, found |-> object[s]]
  <1>1. /\ UNCHANGED <<session, late, object, attachment, cleanup, strayed>>
        /\ session[s] = "pending" /\ object[s] \in {"good", "refused"}
        /\ completion' = [completion EXCEPT ![q] = new]
    BY DEF Types, InspectUpload, Contents
  <1>2. new \in Completion /\ new.session = s /\ new.found = object[s]
    BY <1>1 DEF Completion
  <1> HIDE DEF new
  <1>3. /\ completion' \in [Completions -> Completion] /\ completion'[q] = new
        /\ \A p \in Completions \ {q} : completion'[p] = completion[p]
    BY <1>1, <1>2 DEF Types
  <1>4. Types'
    BY <1>1, <1>3 DEF Types
  <1>5. attachment[s] = "none"
    BY <1>1 DEF RowsFollowSession
  <1>6. InspectionsHold'
    <2>1. ASSUME s \notin strayed, NEW p \in Completions \ {q}, completion[p].session = s
          PROVE  completion[p].found = object[s]
      <3>1. completion[p].found \in {"good", "refused"}
        BY <2>1, Inspecting
      <3> QED
        BY <1>1, <2>1, <3>1 DEF InspectionsHold
    <2> SUFFICES ASSUME NEW p \in Completions, completion'[p].session \in Sessions \ strayed'
                 PROVE  LET t == completion'[p].session
                        IN  /\ session'[t] # "absent"
                            /\ completion'[p].found = "good" /\ session'[t] = "pending" => object'[t] = "good"
                            /\ completion'[p].found = "refused" => attachment'[t] = "none" /\ object'[t] # "good"
                            /\ \A o \in Completions :
                                 completion'[o].session = t => completion'[o].found = completion'[p].found
      BY DEF InspectionsHold
    <2>2. CASE completion'[p].session = s
      <3>1. \A o \in Completions : completion'[o].session = s => completion'[o].found = object[s]
        BY <1>1, <1>2, <1>3, <2>1, <2>2
      <3> QED
        BY <1>1, <1>5, <2>2, <3>1
    <2>3. CASE completion'[p].session # s
      BY <1>1, <1>2, <1>3, <2>3 DEF InspectionsHold
    <2> QED
      BY <2>2, <2>3
  <1>7. RowsFollowSession' /\ ContentFollowsRow'
    BY <1>1 DEF RowsFollowSession, ContentFollowsRow
  <1>8. CleanupHolds'
    BY <1>1, CleanupFrame
  <1>9. ActiveAttachments' = ActiveAttachments
    BY <1>1 DEF ActiveAttachments
  <1> QED
    BY <1>4, <1>6, <1>7, <1>8, <1>9, LimitFrame

\* A request that fails, with or without its object, takes nothing from an attachment.
LEMMA RejectStep ==
    ASSUME Inv, NEW q \in Completions, RejectContent(q) \/ RefuseCompletion(q)
    PROVE  Inv'
  <1> USE DEF Inv
  <1>1. /\ UNCHANGED <<session, late, attachment, cleanup, strayed>>
        /\ completion' = [completion EXCEPT ![q] = NoCompletion]
    BY DEF RejectContent, RefuseCompletion
  <1>2. /\ object' \in [Sessions -> Contents]
        /\ \A t \in Sessions : object'[t] = object[t] \/
              (object'[t] = "none" /\ completion[q].session = t /\ completion[q].found = "refused")
    BY DEF Types, Contents, RejectContent, RefuseCompletion
  <1>3. Types'
    BY <1>1, <1>2, RequestEnds, Zenon DEF Types
  <1>4. ASSUME NEW t \in Sessions \ strayed, object'[t] # object[t]
        PROVE  /\ object'[t] = "none" /\ attachment[t] = "none"
               /\ \A p \in Completions : completion[p].session = t => completion[p].found = "refused"
    BY <1>2, <1>4 DEF InspectionsHold
  <1>5. InspectionsHold'
    BY <1>1, <1>2, <1>4, RequestEnds, InspectionsFrame, Zenon
  <1>6. RowsFollowSession' /\ ContentFollowsRow'
    BY <1>1, <1>4 DEF RowsFollowSession, ContentFollowsRow
  <1>7. CleanupHolds'
    BY <1>1, <1>2, CleanupFrame
  <1>8. ActiveAttachments' = ActiveAttachments
    BY <1>1 DEF ActiveAttachments
  <1> QED
    BY <1>3, <1>5, <1>6, <1>7, <1>8, LimitFrame

\* A pending session becomes an attachment whose content is there, within the limit.
LEMMA CompleteStep ==
    ASSUME Inv, NEW q \in Completions, CompleteUploadSession(q)
    PROVE  Inv'
  <1> USE DEF Inv
  <1> DEFINE s == completion[q].session
  <1>1. /\ UNCHANGED <<late, object, cleanup, strayed>> /\ s \in Sessions
        /\ completion[q].found = "good" /\ session[s] = "pending" /\ attachment[s] = "none"
        /\ completion' = [completion EXCEPT ![q] = NoCompletion]
    BY Inspecting DEF CompleteUploadSession, RowsFollowSession
  <1>2. /\ session' \in [Sessions -> {"absent", "pending", "completed", "expired"}]
        /\ session'[s] \in {"completed", "expired"} /\ \A t \in Sessions \ {s} : session'[t] = session[t]
        /\ attachment' \in [Sessions -> {"none", "active"} \cup Gone]
        /\ \A t \in Sessions \ {s} : attachment'[t] = attachment[t]
        /\ \/ attachment'[s] = "none"
           \/ attachment'[s] = "active" /\ session'[s] = "completed" /\ Room
    BY <1>1 DEF CompleteUploadSession, Types
  <1>3. s \notin strayed => object[s] = "good"
    BY <1>1 DEF InspectionsHold
  <1>4. s \notin strayed => \A p \in Completions : completion[p].session = s => completion[p].found = "good"
    BY <1>1 DEF InspectionsHold
  <1> HIDE DEF s
  <1>5. Types'
    BY <1>1, <1>2, RequestEnds, Zenon DEF Types
  <1>6. InspectionsHold'
    BY <1>1, <1>2, <1>4, RequestEnds, InspectionsFrame, Zenon
  <1>7. RowsFollowSession' /\ ContentFollowsRow'
    BY <1>1, <1>2, <1>3 DEF RowsFollowSession, ContentFollowsRow
  <1>8. CleanupHolds'
    BY <1>1, <1>2, CleanupFrame DEF Gone
  <1>9. IsFiniteSet(ActiveAttachments') /\ AttachmentLimit'
    <2>1. CASE attachment'[s] = "none"
      BY <1>2, <2>1, LimitFrame, FewerActive
    <2>2. CASE attachment'[s] = "active" /\ Room
      <3>1. ActiveAttachments' = ActiveAttachments \cup {s} /\ s \notin ActiveAttachments
        BY <1>1, <1>2, <2>2 DEF ActiveAttachments
      <3>2. /\ IsFiniteSet(ActiveAttachments')
            /\ Cardinality(ActiveAttachments') = Cardinality(ActiveAttachments) + 1
        BY <3>1, FS_AddElement
      <3>3. Cardinality(ActiveAttachments) \in Nat
        BY FS_CardinalityType
      <3> QED
        BY <2>2, <3>2, <3>3, AttachmentConstants DEF AttachmentLimit, Room
    <2> QED
      BY <1>2, <2>1, <2>2
  <1> QED
    BY <1>5, <1>6, <1>7, <1>8, <1>9

-----------------------------------------------------------------------------
(* The rows after the upload, and the cleanup. *)

\* A row that is deleted, claimed, or released by the lapse of its claim.
LEMMA RowStep ==
    ASSUME Inv, NEW s \in Sessions, SoftDelete(s) \/ ClaimLapses(s)
    PROVE  Inv'
  <1> USE DEF Inv
  <1>1. /\ UNCHANGED <<session, late, object, completion, cleanup, strayed>>
        /\ attachment' \in [Sessions -> {"none", "active"} \cup Gone]
        /\ attachment[s] # "none" /\ attachment'[s] = "deleted"
        /\ \A t \in Sessions \ {s} : attachment'[t] = attachment[t]
    BY DEF Types, SoftDelete, ClaimLapses, Gone
  <1>2. Types'
    BY <1>1 DEF Types
  <1>3. RowsFollowSession' /\ ContentFollowsRow'
    BY <1>1 DEF RowsFollowSession, ContentFollowsRow
  <1>4. CleanupHolds'
    BY <1>1, CleanupFrame DEF Gone
  <1>5. InspectionsHold'
    BY <1>1, InspectionsFrame
  <1> QED
    BY <1>1, <1>2, <1>3, <1>4, <1>5, LimitFrame, FewerActive

\* The claim of a batch takes rows that are deleted.
LEMMA BatchStep ==
    ASSUME Inv, ClaimCleanupBatch
    PROVE  Inv'
  <1> USE DEF Inv
  <1> DEFINE rows == {s \in Sessions : attachment[s] = "deleted"}
  <1>1. /\ UNCHANGED <<session, late, object, completion, strayed>>
        /\ cleanup' = [phase |-> "attachments", rows |-> rows, deleted |-> NoSession]
        /\ attachment' = [s \in Sessions |-> IF s \in rows THEN "claimed" ELSE attachment[s]]
    BY DEF ClaimCleanupBatch
  <1>2. /\ attachment' \in [Sessions -> {"none", "active"} \cup Gone]
        /\ \A s \in Sessions : attachment'[s] = attachment[s]
                               \/ (attachment[s] = "deleted" /\ attachment'[s] = "claimed")
        /\ \A s \in rows : attachment'[s] \in Gone
    BY <1>1 DEF Types, Gone
  <1>3. Types'
    BY <1>1, <1>2 DEF Types
  <1>4. RowsFollowSession' /\ ContentFollowsRow'
    BY <1>1, <1>2 DEF RowsFollowSession, ContentFollowsRow
  <1>5. CleanupHolds'
    BY <1>1, <1>2 DEF CleanupHolds
  <1>6. InspectionsHold'
    BY <1>1, <1>2, InspectionsFrame DEF Types
  <1> QED
    BY <1>2, <1>3, <1>4, <1>5, <1>6, LimitFrame, FewerActive

\* The object of a row that is over is deleted, and no attachment's.
LEMMA DeleteStep ==
    ASSUME Inv, NEW s \in Sessions, DeleteObject(s) \/ DeleteExpired(s) \/ MarkCleanupFailed(s)
    PROVE  Inv'
  <1> USE DEF Inv
  <1>1. /\ UNCHANGED <<session, late, attachment, completion, strayed>>
        /\ object' \in [Sessions -> Contents] /\ object'[s] \in {object[s], "none"}
        /\ \A t \in Sessions \ {s} : object'[t] = object[t]
    BY DEF Types, DeleteObject, DeleteExpired, MarkCleanupFailed, Contents
  <1>2. attachment[s] \in Gone \/ session[s] = "expired"
    BY DEF CleanupHolds, DeleteObject, DeleteExpired, MarkCleanupFailed
  <1>3. attachment[s] # "active" /\ session[s] # "pending"
    BY <1>2 DEF RowsFollowSession, Gone
  <1>4. /\ cleanup'.phase = cleanup.phase /\ cleanup'.rows \subseteq cleanup.rows
        /\ cleanup'.deleted = cleanup.deleted \/
             (cleanup'.deleted = s /\ attachment[s] \in Gone /\ object'[s] = "none")
        /\ cleanup' \in [phase : {"idle", "attachments", "sessions"}, rows : SUBSET Sessions,
                         deleted : Sessions \cup {NoSession}]
    BY Zenon DEF Types, CleanupHolds, DeleteObject, DeleteExpired, MarkCleanupFailed
  <1>5. Types'
    BY <1>1, <1>4 DEF Types
  <1>6. RowsFollowSession' /\ ContentFollowsRow'
    BY <1>1, <1>3 DEF RowsFollowSession, ContentFollowsRow
  <1>7. CleanupHolds'
    <2>1. cleanup.deleted \in Sessions \cup {NoSession} /\ cleanup.rows \subseteq Sessions
      BY DEF Types
    <2> QED
      BY <1>1, <1>4, <2>1 DEF CleanupHolds
  <1>8. InspectionsHold'
    BY <1>1, <1>3, InspectionsFrame
  <1>9. ActiveAttachments' = ActiveAttachments
    BY <1>1 DEF ActiveAttachments
  <1> QED
    BY <1>5, <1>6, <1>7, <1>8, <1>9, LimitFrame

\* The row is marked once its object is gone.
LEMMA CleanedStep ==
    ASSUME Inv, MarkCleaned
    PROVE  Inv'
  <1> USE DEF Inv
  <1> DEFINE s == cleanup.deleted
  <1>1. /\ UNCHANGED <<session, late, object, completion, strayed>>
        /\ s \in Sessions /\ attachment[s] \in Gone /\ (s \notin strayed => object[s] = "none")
        /\ attachment' = [attachment EXCEPT ![s] = "cleaned"]
    BY DEF MarkCleaned, Types, CleanupHolds
  <1>2. /\ cleanup'.phase = cleanup.phase /\ cleanup'.rows = cleanup.rows /\ cleanup'.deleted = NoSession
        /\ cleanup' \in [phase : {"idle", "attachments", "sessions"}, rows : SUBSET Sessions,
                         deleted : Sessions \cup {NoSession}]
    BY DEF MarkCleaned, Types
  <1> HIDE DEF s
  <1>3. /\ attachment' \in [Sessions -> {"none", "active"} \cup Gone] /\ attachment'[s] = "cleaned"
        /\ \A t \in Sessions \ {s} : attachment'[t] = attachment[t]
    BY <1>1 DEF Types, Gone
  <1>4. Types'
    BY <1>1, <1>2, <1>3 DEF Types
  <1>5. RowsFollowSession' /\ ContentFollowsRow'
    BY <1>1, <1>3 DEF RowsFollowSession, ContentFollowsRow, Gone
  <1>6. CleanupHolds'
    <2>1. cleanup.rows \subseteq Sessions
      BY DEF Types
    <2> QED
      BY <1>1, <1>2, <1>3, <2>1 DEF CleanupHolds, Gone
  <1>7. InspectionsHold'
    BY <1>1, <1>3, InspectionsFrame DEF Gone
  <1> QED
    BY <1>3, <1>4, <1>5, <1>6, <1>7, LimitFrame, FewerActive

\* Sessions that were pending too long are over.
LEMMA ExpiredStep ==
    ASSUME Inv, ClaimExpiredUploadSessions
    PROVE  Inv'
  <1> USE DEF Inv
  <1> DEFINE rows == {s \in late : session[s] = "pending"}
  <1>1. /\ UNCHANGED <<late, object, attachment, completion, strayed>>
        /\ session' = [s \in Sessions |-> IF s \in rows THEN "expired" ELSE session[s]]
        /\ cleanup' = [phase |-> "sessions", rows |-> rows, deleted |-> NoSession]
    BY DEF ClaimExpiredUploadSessions
  <1>2. /\ session' \in [Sessions -> {"absent", "pending", "completed", "expired"}]
        /\ \A s \in Sessions : session'[s] = session[s]
                               \/ (session[s] = "pending" /\ session'[s] = "expired")
        /\ \A s \in rows : session'[s] = "expired" /\ s \in Sessions
    BY <1>1 DEF Types
  <1> HIDE DEF rows
  <1>3. Types'
    BY <1>1, <1>2 DEF Types
  <1>4. RowsFollowSession' /\ ContentFollowsRow'
    BY <1>1, <1>2 DEF RowsFollowSession, ContentFollowsRow
  <1>5. CleanupHolds'
    BY <1>1, <1>2 DEF CleanupHolds
  <1>6. InspectionsHold'
    BY <1>1, <1>2, InspectionsFrame
  <1>7. ActiveAttachments' = ActiveAttachments
    BY <1>1 DEF ActiveAttachments
  <1> QED
    BY <1>3, <1>4, <1>5, <1>6, <1>7, LimitFrame

\* A run that ends or is cut short holds nothing.
LEMMA RunEndsStep ==
    ASSUME Inv, FinishRun \/ AbortRun \/ UNCHANGED vars
    PROVE  Inv'
  <1> USE DEF Inv
  <1>1. /\ UNCHANGED <<session, late, object, attachment, completion, strayed>>
        /\ cleanup' \in {cleanup, NotRunning}
    BY DEF FinishRun, AbortRun, vars
  <1>2. /\ NotRunning.phase = "idle" /\ NotRunning.deleted = NoSession
        /\ NotRunning \in [phase : {"idle", "attachments", "sessions"}, rows : SUBSET Sessions,
                           deleted : Sessions \cup {NoSession}]
    BY DEF NotRunning
  <1>3. Types'
    BY <1>1, <1>2 DEF Types
  <1>4. RowsFollowSession' /\ ContentFollowsRow'
    BY <1>1 DEF RowsFollowSession, ContentFollowsRow
  <1>5. CleanupHolds'
    BY <1>1, <1>2 DEF CleanupHolds
  <1>6. InspectionsHold'
    BY <1>1, InspectionsFrame
  <1>7. ActiveAttachments' = ActiveAttachments
    BY <1>1 DEF ActiveAttachments
  <1> QED
    BY <1>3, <1>4, <1>5, <1>6, <1>7, LimitFrame

-----------------------------------------------------------------------------
(* The theorems. *)

\* A Task without attachments satisfies the invariant.
LEMMA InvInit == Init => Inv
  <1> SUFFICES ASSUME Init PROVE Inv
    OBVIOUS
  <1>1. Types /\ RowsFollowSession /\ ContentFollowsRow
    BY DEF Init, Types, Contents, Gone, Completion, NotRunning, RowsFollowSession, ContentFollowsRow
  <1>2. InspectionsHold
    BY AttachmentConstants DEF Init, InspectionsHold, NoCompletion
  <1>3. CleanupHolds
    BY DEF Init, CleanupHolds, NotRunning
  <1>4. ActiveAttachments = {}
    BY DEF Init, ActiveAttachments
  <1>5. IsFiniteSet(ActiveAttachments) /\ Cardinality(ActiveAttachments) = 0
    BY <1>4, FS_EmptySet
  <1> QED
    BY <1>1, <1>2, <1>3, <1>5, AttachmentConstants DEF Inv, AttachmentLimit

\* Every step, of a request or of the cleanup, keeps the invariant.
LEMMA InvStep == Inv /\ [Next]_vars => Inv'
  <1> SUFFICES ASSUME Inv, [Next]_vars PROVE Inv'
    OBVIOUS
  <1>1. ASSUME NEW s \in Sessions,
               \/ StartUpload(s) \/ Expire(s) \/ SoftDelete(s)
               \/ \E content \in {"good", "refused"} : Put(s, content)
               \/ \E q \in Completions : InspectUpload(q, s)
        PROVE  Inv'
    BY <1>1, StartStep, RowStep, PutStep, InspectStep
  <1>2. ASSUME NEW q \in Completions, RejectContent(q) \/ CompleteUploadSession(q) \/ RefuseCompletion(q)
        PROVE  Inv'
    BY <1>2, RejectStep, CompleteStep
  <1>3. ASSUME NEW s \in Sessions,
               ClaimLapses(s) \/ DeleteObject(s) \/ MarkCleanupFailed(s) \/ DeleteExpired(s)
        PROVE  Inv'
    BY <1>3, RowStep, DeleteStep
  <1> QED
    BY <1>1, <1>2, <1>3, BatchStep, CleanedStep, ExpiredStep, RunEndsStep DEF Next

\* The inductive invariant holds in every reachable state.
LEMMA InvAlways == Spec => []Inv
  BY InvInit, InvStep, PTL DEF Spec

\* Rows and objects never contradict each other for any number of sessions, completions and
\* interrupted cleanup runs: a listed attachment has accepted content, a cleaned one has none.
THEOREM ContentStaysWithRow == Spec => []ContentFollowsRow
  <1>1. Inv => ContentFollowsRow
    BY DEF Inv
  <1> QED
    BY <1>1, InvAlways, PTL

\* Whatever number of sessions was begun on an unlocked count, no more of them become
\* attachments than the limit allows (CompleteUploadSession counts under the Task lock).
THEOREM LimitIsKept == Spec => []AttachmentLimit
  <1>1. Inv => AttachmentLimit
    BY DEF Inv
  <1> QED
    BY <1>1, InvAlways, PTL

=============================================================================
