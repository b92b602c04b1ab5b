---------------------------- MODULE DocumentUpload ----------------------------
(***************************************************************************)
(* Chunked document upload (modules/documents/application/services.py):    *)
(* create_session, put_chunk, complete and cancel over the in-memory       *)
(* repository, whose lock covers a single get or upsert and never a        *)
(* handler's read-modify-write.  complete and cancel run on threadpool     *)
(* threads; put_chunk runs on the event loop (api/documents.py), so two    *)
(* put_chunk calls never overlap but either overlaps with the others.      *)
(*                                                                         *)
(* A request is one call of one handler.  Between the repository calls of  *)
(* one request the others run, time passes and the audit sink fails or     *)
(* comes back.  A part's bytes are "good" when they are those the declared *)
(* SHA-256 was computed over.  Sizes, names and digests are left out: a    *)
(* wrong length is one more "bad" payload for the hash gate.               *)
(***************************************************************************)
EXTENDS Naturals, FiniteSets

CONSTANTS
    Sessions,  \* upload sessions
    Parts,     \* the part numbers of a session
    Requests,  \* handler calls
    None       \* no document, no session

ASSUME UploadAssumption == None \notin Requests \cup Sessions

VARIABLES
    content,    \* what the file of a session is; equal content, equal hash
    session,    \* the stored UploadSession rows
    expired,    \* sessions whose expires_at has passed
    chunks,     \* the stored parts of a session
    documents,  \* stored SourceDocuments, by the request that created them
    blobs,      \* storage keys with a blob; the key is the session's
    replicas,   \* documents with a registered ReplicaLocation
    auditUp,    \* is the audit sink available?
    request,    \* what each request is doing
    raced       \* history: sessions on which two requests overlapped

vars == <<content, session, expired, chunks, documents, blobs, replicas,
          auditUp, request, raced>>

(* What scanning and MIME sniffing find. *)
Contents == {"clean", "infected", "blocked"}

Bytes == {"none", "good", "bad"}

Statuses == {"ABSENT", "ACTIVE", "COMPLETED", "CANCELLED"}

Session == [status : Statuses, received : SUBSET Parts,
            document : Requests \cup {None}]

NoSession == [status |-> "ABSENT", received |-> {}, document |-> None]

Document == [session : Sessions, status : {"SCAN_PASSED", "SCAN_FAILED"},
             content : Contents]

NoDocument == [session |-> None]

Calls == {"none", "put_chunk", "complete", "cancel"}

Points == {"new", "chunk", "received", "compose", "lookup", "reuse", "create",
           "completed", "cancelled", "drop", "audit", "raised", "returned"}

(* A handler call: the session it works on, the part it brings, the copy   *)
(* of the session it read, and the document it found or made.              *)
Request == [call : Calls, at : Points, session : Sessions \cup {None},
            part : Parts \cup {None}, bytes : Bytes, copy : Session,
            document : Requests \cup {None}]

NoRequest == [call |-> "none", at |-> "new", session |-> None, part |-> None,
              bytes |-> "none", copy |-> NoSession, document |-> None]

TypeOK ==
    /\ content \in [Sessions -> Contents]
    /\ session \in [Sessions -> Session]
    /\ expired \in SUBSET Sessions
    /\ chunks \in [Sessions -> [Parts -> Bytes]]
    /\ documents \in [Requests -> Document \cup {NoDocument}]
    /\ blobs \in SUBSET Sessions
    /\ replicas \in SUBSET Requests
    /\ auditUp \in BOOLEAN
    /\ request \in [Requests -> Request]
    /\ raced \in SUBSET Sessions

Init ==
    /\ content \in [Sessions -> Contents]
    /\ session = [s \in Sessions |-> NoSession]
    /\ expired = {}
    /\ chunks = [s \in Sessions |-> [p \in Parts |-> "none"]]
    /\ documents = [r \in Requests |-> NoDocument]
    /\ blobs = {}
    /\ replicas = {}
    /\ auditUp = TRUE
    /\ request = [r \in Requests |-> NoRequest]
    /\ raced = {}

-----------------------------------------------------------------------------
InFlight(r) == request[r].at \notin {"new", "raised", "returned"}

InFlightOn(s) == {r \in Requests : InFlight(r) /\ request[r].session = s}

(* get_session: an ACTIVE session past its expiry is seen as EXPIRED. *)
effective_status(s) ==
    IF session[s].status = "ACTIVE" /\ s \in expired
    THEN "EXPIRED" ELSE session[s].status

missing_part_numbers(copy) == Parts \ copy.received

(* The session is created with its audit event; nobody else knows its id   *)
(* before the call returns.                                                *)
create_session(s) ==
    /\ session[s].status = "ABSENT"
    /\ auditUp
    /\ session' = [session EXCEPT ![s].status = "ACTIVE"]
    /\ UNCHANGED <<content, expired, chunks, documents, blobs, replicas,
                   auditUp, request, raced>>

(* The clock passes expires_at; nothing is stored. *)
Expire(s) ==
    /\ session[s].status # "ABSENT"
    /\ s \notin expired
    /\ expired' = expired \cup {s}
    /\ UNCHANGED <<content, session, chunks, documents, blobs, replicas,
                   auditUp, request, raced>>

(* The audit sink fails or recovers. *)
ToggleAudit ==
    /\ auditUp' = ~auditUp
    /\ UNCHANGED <<content, session, expired, chunks, documents, blobs,
                   replicas, request, raced>>

-----------------------------------------------------------------------------
(* The first step of each handler: require_audit, get_session and the      *)
(* status checks.  A request that is refused, or that finds its work done  *)
(* (complete of a COMPLETED, cancel of a CANCELLED session), changes       *)
(* nothing.  The session's copy is kept for the rest of the call.          *)
Start(r, s, call, point, part, bytes) ==
    /\ auditUp
    /\ request[r].at = "new"
    /\ request' = [request EXCEPT ![r] =
         [call |-> call, at |-> point, session |-> s, part |-> part,
          bytes |-> bytes, copy |-> session[s], document |-> None]]
    /\ raced' = IF InFlightOn(s) = {} THEN raced ELSE raced \cup {s}
    /\ UNCHANGED <<content, session, expired, chunks, documents, blobs,
                   replicas, auditUp>>

StartPutChunk(r, s) ==
    /\ effective_status(s) = "ACTIVE"
    /\ \A q \in Requests : InFlight(q) => request[q].call # "put_chunk"
    /\ \E p \in Parts, bytes \in {"good", "bad"} :
         Start(r, s, "put_chunk", "chunk", p, bytes)

StartComplete(r, s) ==
    /\ effective_status(s) = "ACTIVE"
    /\ missing_part_numbers(session[s]) = {}
    /\ Start(r, s, "complete", "compose", None, "none")

(* Mutant: cancel does not look at the session's status. *)
StartCancelAny(r, s) ==
    /\ session[s].status # "ABSENT"
    /\ Start(r, s, "cancel", "cancelled", None, "none")

StartCancel(r, s) ==
    /\ effective_status(s) \in {"ACTIVE", "EXPIRED"}
    /\ Start(r, s, "cancel", "cancelled", None, "none")

Goto(r, point) == request' = [request EXCEPT ![r].at = point]

(* put_chunk stores the bytes ... *)
PutChunk(r) ==
    /\ request[r].at = "chunk"
    /\ chunks' = [chunks EXCEPT
         ![request[r].session][request[r].part] = request[r].bytes]
    /\ Goto(r, "received")
    /\ UNCHANGED <<content, session, expired, documents, blobs, replicas,
                   auditUp, raced>>

(* ... and writes back the session it read, with the part added. *)
SaveReceived(r) ==
    /\ request[r].at = "received"
    /\ session' = [session EXCEPT ![request[r].session] =
         [request[r].copy EXCEPT !.received = @ \cup {request[r].part}]]
    /\ Goto(r, "audit")
    /\ UNCHANGED <<content, expired, chunks, documents, blobs, replicas,
                   auditUp, raced>>

-----------------------------------------------------------------------------
(* complete: compose_chunks reads all parts under the lock; a part that is *)
(* gone, a hash that differs or a blocked type ends the call.              *)
ComposedWhole(s) == \A p \in Parts : chunks[s][p] = "good"

Compose(r) ==
    LET s == request[r].session IN
    /\ request[r].at = "compose"
    /\ Goto(r, IF ComposedWhole(s) /\ content[s] # "blocked"
               THEN "lookup" ELSE "raised")
    /\ UNCHANGED <<content, session, expired, chunks, documents, blobs,
                   replicas, auditUp, raced>>

(* find_by_content_hash: the documents of this content, in any state. *)
SameContent(s) ==
    {d \in Requests : documents[d] # NoDocument
                      /\ documents[d].content = content[s]}

Lookup(r) ==
    LET same == SameContent(request[r].session) IN
    /\ request[r].at = "lookup"
    /\ IF same = {} THEN Goto(r, "create")
       ELSE \E d \in same :
              request' = [request EXCEPT ![r].at = "reuse", ![r].document = d]
    /\ UNCHANGED <<content, session, expired, chunks, documents, blobs,
                   replicas, auditUp, raced>>

(* The blob is put and the document stored, SCAN_FAILED when infected. *)
CreateDocument(r) ==
    LET s == request[r].session IN
    /\ request[r].at = "create"
    /\ blobs' = blobs \cup {s}
    /\ documents' = [documents EXCEPT ![r] =
         [session |-> s, content |-> content[s],
          status |-> IF content[s] = "infected" THEN "SCAN_FAILED"
                                                ELSE "SCAN_PASSED"]]
    /\ request' = [request EXCEPT ![r].at = "completed", ![r].document = r]
    /\ UNCHANGED <<content, session, expired, chunks, replicas,
                   auditUp, raced>>

(* The session the call read is written back as COMPLETED, pointing at the *)
(* document that was created or, on the deduplication path, found.         *)
SaveCompleted(r) ==
    /\ request[r].at \in {"completed", "reuse"}
    /\ session' = [session EXCEPT ![request[r].session] =
         [request[r].copy EXCEPT !.status = "COMPLETED",
                                 !.document = request[r].document]]
    /\ Goto(r, "drop")
    /\ UNCHANGED <<content, expired, chunks, documents, blobs, replicas,
                   auditUp, raced>>

-----------------------------------------------------------------------------
(* cancel: the session it read is written back as CANCELLED. *)
SaveCancelled(r) ==
    /\ request[r].at = "cancelled"
    /\ session' = [session EXCEPT ![request[r].session] =
         [request[r].copy EXCEPT !.status = "CANCELLED"]]
    /\ Goto(r, "drop")
    /\ UNCHANGED <<content, expired, chunks, documents, blobs, replicas,
                   auditUp, raced>>

(* Mutant: the parts are kept. *)
KeepChunks(r) ==
    /\ request[r].at = "drop"
    /\ replicas' = IF documents[r] # NoDocument THEN replicas \cup {r}
                                                ELSE replicas
    /\ Goto(r, "audit")
    /\ UNCHANGED <<content, session, expired, chunks, documents, blobs,
                   auditUp, raced>>

(* drop_chunks, and for a new document register_replica.  A deduplicated   *)
(* completion returns here, without audit or events.                       *)
DropChunks(r) ==
    LET created == documents[r] # NoDocument
        reused  == request[r].call = "complete" /\ ~created
    IN
    /\ request[r].at = "drop"
    /\ chunks' = [chunks EXCEPT ![request[r].session] =
                    [p \in Parts |-> "none"]]
    /\ replicas' = IF created THEN replicas \cup {r} ELSE replicas
    /\ Goto(r, IF reused THEN "returned" ELSE "audit")
    /\ UNCHANGED <<content, session, expired, documents, blobs,
                   auditUp, raced>>

(* audit_writer.write, then the outbox events; it raises when the sink is  *)
(* unavailable by now, after everything the handler did.                   *)
Audit(r) ==
    /\ request[r].at = "audit"
    /\ Goto(r, IF auditUp THEN "returned" ELSE "raised")
    /\ UNCHANGED <<content, session, expired, chunks, documents, blobs,
                   replicas, auditUp, raced>>

-----------------------------------------------------------------------------
Handler(r) ==
    \/ PutChunk(r) \/ SaveReceived(r)
    \/ Compose(r) \/ Lookup(r) \/ CreateDocument(r) \/ SaveCompleted(r)
    \/ SaveCancelled(r)
    \/ DropChunks(r)
    \/ Audit(r)

Next ==
    \/ \E s \in Sessions : create_session(s) \/ Expire(s)
    \/ \E r \in Requests, s \in Sessions :
         StartPutChunk(r, s) \/ StartComplete(r, s) \/ StartCancel(r, s)
    \/ \E r \in Requests : Handler(r)
    \/ ToggleAudit

Spec == Init /\ [][Next]_vars

-----------------------------------------------------------------------------
(* Properties.                                                             *)

(* A COMPLETED session, however it was raced, points at a stored document  *)
(* of the session's own content that has its blob (services.py:456-520:    *)
(* the document is stored before the session that names it).               *)
CompletedPointsToDocument ==
    \A s \in Sessions : session[s].status = "COMPLETED" =>
        LET d == session[s].document IN
        /\ d # None
        /\ documents[d] # NoDocument
        /\ documents[d].content = content[s]
        /\ documents[d].session \in blobs

(* Blocked and infected files never become a usable document, whichever    *)
(* of two racing completions stored them (services.py:446-484).            *)
OnlyCleanDocumentsPass ==
    \A r \in Requests : documents[r] # NoDocument =>
        /\ documents[r].content # "blocked"
        /\ documents[r].status = "SCAN_PASSED" <=> documents[r].content = "clean"

(* When its requests did not overlap and none is running, a session agrees *)
(* with what is stored for it: an ACTIVE one has exactly the parts it      *)
(* lists, a finished one has none left, and it made at most one document,  *)
(* whose replica is registered.                                            *)
QuiescentSessionsAgree ==
    \A s \in Sessions \ raced : InFlightOn(s) = {} =>
        LET made == {r \in Requests : documents[r] # NoDocument
                                      /\ documents[r].session = s} IN
        /\ \A p \in Parts : chunks[s][p] # "none" <=>
              session[s].status = "ACTIVE" /\ p \in session[s].received
        /\ Cardinality(made) <= 1
        /\ made \subseteq replicas

(* When its requests never overlap, a session that was completed or        *)
(* cancelled stays so.                                                     *)
FinishedStaysFinished ==
    [][\A s \in Sessions : s \notin raced /\ session[s].status \in
            {"COMPLETED", "CANCELLED"} => session'[s] = session[s]]_vars

(* What upload promises of its sessions, documents, blobs and parts        *)
(* together (services.py:246-560).                                         *)
UploadInv ==
    /\ TypeOK
    /\ CompletedPointsToDocument
    /\ OnlyCleanDocumentsPass
    /\ QuiescentSessionsAgree

=============================================================================
