---------------------------- MODULE DocumentReview ----------------------------
(***************************************************************************)
(* One stored document on its way out of quarantine                        *)
(* (modules/documents/application/services.py: review, release,            *)
(* quarantine, download, and the read port other modules use).  Every      *)
(* handler reads the document, decides, and writes its copy back; the      *)
(* repository's lock covers a single call, so calls on different threads   *)
(* interleave between the read and the write.                              *)
(***************************************************************************)
EXTENDS Naturals

CONSTANTS
    Users,     \* who calls the handlers
    uploader,  \* the user who uploaded the document
    Requests,  \* handler calls
    None       \* nobody

VARIABLES
    infected,  \* what the scan at upload found
    document,  \* the stored SourceDocument
    auditUp,   \* is the audit sink available?
    audited,   \* requests that wrote their AuditEvent (and event)
    request,   \* what each request is doing
    raced      \* history: two calls overlapped

vars == <<infected, document, auditUp, audited, request, raced>>

Statuses ==
    {"SCAN_PASSED", "SCAN_FAILED", "UNDER_REVIEW", "RELEASED", "QUARANTINED"}

Document == [status : Statuses, reviewed_by : Users \cup {None},
             released_by : Users \cup {None}]

Calls == {"none", "review", "release", "quarantine", "download"}

Points == {"new", "save", "audit", "bytes", "raised", "returned"}

Request == [call : Calls, at : Points, by : Users \cup {None}, copy : Document]

TypeOK ==
    /\ infected \in BOOLEAN
    /\ document \in Document
    /\ auditUp \in BOOLEAN
    /\ audited \in SUBSET Requests
    /\ request \in [Requests -> Request]
    /\ raced \in BOOLEAN

(* complete stored the document as scanned. *)
Init ==
    /\ infected \in BOOLEAN
    /\ document = [status |-> IF infected THEN "SCAN_FAILED" ELSE "SCAN_PASSED",
                   reviewed_by |-> None, released_by |-> None]
    /\ auditUp = TRUE
    /\ audited = {}
    /\ request = [r \in Requests |-> [call |-> "none", at |-> "new",
                                      by |-> None, copy |-> document]]
    /\ raced = FALSE

-----------------------------------------------------------------------------
InFlight(r) == request[r].at \in {"save", "audit", "bytes"}

(* get_document: the call keeps the copy it read. *)
Start(r, u, call, point) ==
    /\ request[r].at = "new"
    /\ request' = [request EXCEPT ![r] =
         [call |-> call, at |-> point, by |-> u, copy |-> document]]
    /\ raced' = (raced \/ \E q \in Requests : InFlight(q))
    /\ UNCHANGED <<infected, document, auditUp, audited>>

(* Mutant: a review may take a document out of quarantine. *)
StartReviewQuarantined(r, u) ==
    /\ auditUp
    /\ document.status \in {"SCAN_PASSED", "QUARANTINED"}
    /\ Start(r, u, "review", "save")

StartReview(r, u) ==
    /\ auditUp
    /\ document.status = "SCAN_PASSED"
    /\ Start(r, u, "review", "save")

(* The uploader cannot release the document (maker-checker). *)
StartRelease(r, u) ==
    /\ auditUp
    /\ document.status = "UNDER_REVIEW"
    /\ u # uploader
    /\ Start(r, u, "release", "save")

(* Quarantining a QUARANTINED document changes nothing. *)
StartQuarantine(r, u) ==
    /\ auditUp
    /\ document.status \in {"SCAN_PASSED", "UNDER_REVIEW", "RELEASED"}
    /\ Start(r, u, "quarantine", "save")

downloadable_statuses == {"SCAN_PASSED", "UNDER_REVIEW", "RELEASED"}

(* download needs no audit sink. *)
StartDownload(r, u) ==
    /\ document.status \in downloadable_statuses
    /\ Start(r, u, "download", "bytes")

-----------------------------------------------------------------------------
(* Mutant: quarantine leaves the release in place. *)
UpdatedKeepingRelease(call, by, copy) ==
    CASE call = "review" ->
           [copy EXCEPT !.status = "UNDER_REVIEW", !.reviewed_by = by]
      [] call = "release" ->
           [copy EXCEPT !.status = "RELEASED", !.released_by = by]
      [] call = "quarantine" -> [copy EXCEPT !.status = "QUARANTINED"]

(* What each handler makes of the copy it read. *)
Updated(call, by, copy) ==
    CASE call = "review" ->
           [copy EXCEPT !.status = "UNDER_REVIEW", !.reviewed_by = by]
      [] call = "release" ->
           [copy EXCEPT !.status = "RELEASED", !.released_by = by]
      [] call = "quarantine" ->
           [copy EXCEPT !.status = "QUARANTINED", !.released_by = None]

(* upsert_document, whatever was stored in the meantime. *)
Save(r) ==
    /\ request[r].at = "save"
    /\ document' = Updated(request[r].call, request[r].by, request[r].copy)
    /\ request' = [request EXCEPT ![r].at = "audit"]
    /\ UNCHANGED <<infected, auditUp, audited, raced>>

(* audit_writer.write and the domain event; it raises when the sink is     *)
(* down by now, and the document stays as it was written.                  *)
Audit(r) ==
    /\ request[r].at = "audit"
    /\ audited' = IF auditUp THEN audited \cup {r} ELSE audited
    /\ request' = [request EXCEPT ![r].at =
                     IF auditUp THEN "returned" ELSE "raised"]
    /\ UNCHANGED <<infected, document, auditUp, raced>>

(* get_blob: the bytes are handed out. *)
ReadBytes(r) ==
    /\ request[r].at = "bytes"
    /\ request' = [request EXCEPT ![r].at = "returned"]
    /\ UNCHANGED <<infected, document, auditUp, audited, raced>>

(* The audit sink fails or recovers. *)
ToggleAudit ==
    /\ auditUp' = ~auditUp
    /\ UNCHANGED <<infected, document, audited, request, raced>>

Next ==
    \/ \E r \in Requests, u \in Users :
         \/ StartReview(r, u) \/ StartRelease(r, u)
         \/ StartQuarantine(r, u) \/ StartDownload(r, u)
    \/ \E r \in Requests : Save(r) \/ Audit(r) \/ ReadBytes(r)
    \/ ToggleAudit

Spec == Init /\ [][Next]_vars

-----------------------------------------------------------------------------
(* Properties.                                                             *)

(* get_released_document shows a document only when it is RELEASED. *)
Visible == document.status = "RELEASED"

(* However the calls interleave, a document other modules can see has been *)
(* reviewed, was released by someone else than its uploader, and no        *)
(* document that is not released names a releaser (services.py:681-694).   *)
MakerChecker ==
    /\ Visible => /\ document.reviewed_by # None
                  /\ document.released_by \notin {None, uploader}
    /\ ~Visible => document.released_by = None

(* An infected document is never reviewed, released, quarantined again or  *)
(* downloaded, by any interleaving (services.py:646, 772).                 *)
InfectedStaysOut ==
    infected => /\ document.status = "SCAN_FAILED"
                /\ \A r \in Requests : request[r].at = "new"

(* Without overlapping calls quarantine is final, and a download gets the  *)
(* bytes only of a document that is not in quarantine.                     *)
QuarantineIsFinal ==
    [][~raced /\ document.status = "QUARANTINED" =>
         /\ document' = document
         /\ \A r \in Requests : request'[r].call = "download" =>
                request[r].call = "download"]_vars

(* With the audit sink down a release from quarantine fails closed         *)
(* (PRD V1.3, line 737): no released document without its audit event.     *)
ReleaseIsAudited ==
    (Visible /\ \A r \in Requests : ~InFlight(r)) =>
        \E r \in audited : request[r].call = "release"

(* What review and release promise of a document together                  *)
(* (services.py:640-700).                                                  *)
ReviewInv ==
    /\ TypeOK
    /\ MakerChecker
    /\ InfectedStaysOut

=============================================================================
