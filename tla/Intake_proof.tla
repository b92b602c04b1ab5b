------------------------------ MODULE Intake_proof ------------------------------
(***************************************************************************)
(* What upload, review and the links of a unit promise, for any number of  *)
(* sessions, parts, documents, people and calls.                           *)
(*                                                                         *)
(* DocumentUpload: two things are proved side by side. Whatever overlaps,  *)
(* every handler carries what it needs to write a COMPLETED session: it    *)
(* found or stored the document before, and stored documents never change  *)
(* (RequestKnows, DocumentsAreSound). And as long as the requests of a     *)
(* session do not overlap, the one in flight is alone, so the copy it      *)
(* read is still what is stored until it writes, and the parts and         *)
(* documents of the session differ from what the session says only by      *)
(* that handler's own work (Sequential).                                   *)
(*                                                                         *)
(* DocumentReview: the copy of a document that a call writes back obeys    *)
(* dual control and the scan verdict as the stored document does, so no    *)
(* order of writes releases what must stay in.                             *)
(*                                                                         *)
(* DocumentLinks: a call that is alone has listed what is still stored, so *)
(* the links it has left to write back are all that can be in conflict     *)
(* without being OPEN, and the others are settled.                         *)
(***************************************************************************)
EXTENDS MCIntake, FiniteSetTheorems, TLAPS

(* Document d is stored, is of the content of session s and has its blob. *)
StoredFor(d, s) ==
    /\ d \in Requests
    /\ documents[d] # NoDocument
    /\ documents[d].content = content[s]
    /\ documents[d].session \in blobs

(* What a handler knows at each point, whoever else is running             *)
(* (services.py:300-560).                                                  *)
RequestKnows(r) ==
    LET s == request[r].session IN
    /\ InFlight(r) => /\ s \in Sessions
                      /\ session[s].status # "ABSENT"
                      /\ request[r].copy.status = "ACTIVE"
    /\ request[r].at \in {"chunk", "received"} =>
         request[r].part \in Parts /\ request[r].bytes # "none"
    /\ request[r].at \in {"lookup", "create"} => content[s] # "blocked"
    /\ request[r].at \in {"completed", "reuse"} => StoredFor(request[r].document, s)
    /\ documents[r] # NoDocument =>
         /\ request[r].at \in {"completed", "drop", "audit", "raised", "returned"}
         /\ documents[r].session = s

(* A stored document passed the MIME gate, says what the scan found and    *)
(* has its blob (446-484).                                                 *)
DocumentsAreSound ==
    \A d \in Requests : documents[d] # NoDocument =>
        /\ documents[d].session \in blobs
        /\ documents[d].content # "blocked"
        /\ documents[d].status = "SCAN_PASSED" <=> documents[d].content = "clean"

(* A session that was not created lists no part. *)
AbsentIsEmpty ==
    \A s \in Sessions : session[s].status = "ABSENT" => session[s].received = {}

Made(s) == {r \in Requests : documents[r] # NoDocument /\ documents[r].session = s}

PartsAre(s, parts) == \A p \in Parts : chunks[s][p] # "none" <=> p \in parts

Listed(s) == IF session[s].status = "ACTIVE" THEN session[s].received ELSE {}

(* A session agrees with what is stored for it. *)
Agrees(s) ==
    /\ PartsAre(s, Listed(s))
    /\ session[s].status \in {"ABSENT", "ACTIVE"} => Made(s) = {}
    /\ Made(s) \subseteq replicas
    /\ \A q, r \in Made(s) : q = r

(* How far session s and its store are apart while only r works on it. *)
Underway(r, s) ==
    /\ request[r].at \in {"chunk", "received", "compose", "lookup", "create", "reuse",
                          "completed", "cancelled"} => session[s] = request[r].copy
    /\ request[r].at \in {"chunk", "compose", "lookup", "create", "reuse", "cancelled",
                          "audit"} => Agrees(s)
    /\ request[r].at = "received" =>
         /\ PartsAre(s, request[r].copy.received \cup {request[r].part})
         /\ Made(s) = {}
    /\ request[r].at = "completed" => Made(s) = {r}
    /\ request[r].at = "drop" => /\ session[s].status \in {"COMPLETED", "CANCELLED"}
                                 /\ Made(s) \subseteq {r}

Sequential(s) ==
    /\ \A q, r \in InFlightOn(s) : q = r
    /\ \A r \in InFlightOn(s) : Underway(r, s)
    /\ InFlightOn(s) = {} => Agrees(s)

(* The inductive invariant. *)
UploadIndInv ==
    /\ TypeOK
    /\ \A r \in Requests : RequestKnows(r)
    /\ DocumentsAreSound
    /\ AbsentIsEmpty
    /\ CompletedPointsToDocument
    /\ \A s \in Sessions \ raced : Sequential(s)

-----------------------------------------------------------------------------
(* The empty record of a document is not a document. *)
LEMMA NoDocumentIsNone == NoDocument \notin Document
  BY UploadAssumption DEF NoDocument, Document

(* Initially there is no session, no document and no request. *)
LEMMA InitInv == Init => UploadIndInv
<1> SUFFICES ASSUME Init PROVE UploadIndInv
  OBVIOUS
<1> USE DEF Init
<1>1. NoSession \in Session /\ NoSession.status = "ABSENT" /\ NoSession.received = {}
  BY DEF NoSession, Session, Statuses
<1>2. NoRequest \in Request /\ NoRequest.at = "new"
  BY <1>1 DEF NoRequest, Request, Calls, Points, Bytes
<1>3. TypeOK
  BY <1>1, <1>2 DEF TypeOK, Bytes
<1>4. \A r \in Requests : ~InFlight(r) /\ request[r].at = "new"
                            /\ documents[r] = NoDocument
  BY <1>2 DEF InFlight
<1>5. \A r \in Requests : RequestKnows(r)
  BY <1>4 DEF RequestKnows
<1>6. \A s \in Sessions : Sequential(s)
  <2> SUFFICES ASSUME NEW s \in Sessions PROVE Sequential(s)
    OBVIOUS
  <2>1. InFlightOn(s) = {} /\ Made(s) = {}
    BY <1>4 DEF InFlightOn, Made
  <2>2. Listed(s) = {} /\ PartsAre(s, {})
    BY <1>1 DEF Listed, PartsAre
  <2> QED
    BY <2>1, <2>2 DEF Sequential, Agrees
<1> QED
  BY <1>1, <1>3, <1>4, <1>5, <1>6 DEF UploadIndInv, DocumentsAreSound, AbsentIsEmpty,
                                      CompletedPointsToDocument

-----------------------------------------------------------------------------
(* A session keeps what is known of it when nothing of it is touched. *)
LEMMA SessionUntouched ==
    ASSUME UploadIndInv, NEW s \in Sessions \ raced,
           InFlightOn(s)' = InFlightOn(s),
           \A q \in InFlightOn(s) : request'[q] = request[q],
           session'[s] = session[s], chunks'[s] = chunks[s],
           Made(s)' = Made(s), replicas \subseteq replicas'
    PROVE  Sequential(s)'
<1>1. Sequential(s)
  BY DEF UploadIndInv
<1>2. PartsAre(s, Listed(s)) => PartsAre(s, Listed(s))'
  BY DEF PartsAre, Listed
<1>3. Agrees(s) => Agrees(s)'
  BY <1>2 DEF Agrees
<1>4. ASSUME NEW r \in InFlightOn(s) PROVE Underway(r, s)'
  <2>1. Underway(r, s) /\ request'[r] = request[r]
    BY <1>1, <1>4 DEF Sequential
  <2>2. request[r].at = "received" =>
          PartsAre(s, request[r].copy.received \cup {request[r].part})'
    BY <2>1 DEF Underway, PartsAre
  <2> QED
    BY <1>3, <2>1, <2>2 DEF Underway
<1> QED
  BY <1>1, <1>3, <1>4 DEF Sequential

(* A handler keeps what it knows while others work: documents stay as they *)
(* are stored, blobs stay, and no session disappears.                      *)
LEMMA KnowledgeStays ==
    ASSUME UploadIndInv, NEW q \in Requests, request'[q] = request[q],
           documents'[q] = documents[q], UNCHANGED content, blobs \subseteq blobs',
           \A d \in Requests : documents[d] # NoDocument => documents'[d] = documents[d],
           \A s \in Sessions : session[s].status # "ABSENT" =>
                session'[s].status # "ABSENT"
    PROVE  RequestKnows(q)'
<1>1. RequestKnows(q)
  BY DEF UploadIndInv
<1>2. \A d, s : StoredFor(d, s) => StoredFor(d, s)'
  BY DEF StoredFor
<1> QED
  BY <1>1, <1>2 DEF RequestKnows, InFlight

(* One step of handler r on its session s keeps the invariant when it      *)
(* touches nothing but s, its own document and its own record, and leaves  *)
(* s, if it is alone there, as its next point says.                        *)
LEMMA StepKeepsInv ==
    ASSUME UploadIndInv, NEW r \in Requests, InFlight(r),
           NEW s, s = request[r].session,
           TypeOK', UNCHANGED <<content, raced>>, request'[r].session = s,
           \A q \in Requests : q # r => /\ request'[q] = request[q]
                                       /\ documents'[q] = documents[q],
           documents[r] # NoDocument => documents'[r] = documents[r],
           documents'[r] # NoDocument => documents'[r].session = s,
           blobs \subseteq blobs', replicas \subseteq replicas',
           \A x \in Sessions : x # s => /\ session'[x] = session[x]
                                       /\ chunks'[x] = chunks[x],
           session'[s].status # "ABSENT",
           RequestKnows(r)', DocumentsAreSound',
           session'[s].status = "COMPLETED" => StoredFor(session[s].document, s)',
           (s \notin raced /\ Underway(r, s)) =>
              /\ InFlight(r)' => Underway(r, s)'
              /\ ~InFlight(r)' => Agrees(s)'
    PROVE  UploadIndInv'
<1> USE DEF UploadIndInv
<1>1. s \in Sessions
  BY DEF RequestKnows
<1>2. \A d \in Requests : documents[d] # NoDocument => documents'[d] = documents[d]
  OBVIOUS
<1>3. \A q \in Requests : RequestKnows(q)'
  <2>1. ASSUME NEW q \in Requests, q # r PROVE RequestKnows(q)'
    BY <1>2, <2>1, KnowledgeStays
  <2> QED
    BY <2>1
<1>4. AbsentIsEmpty'
  BY <1>1 DEF AbsentIsEmpty
<1>5. CompletedPointsToDocument'
  <2> SUFFICES ASSUME NEW x \in Sessions, session'[x].status = "COMPLETED"
               PROVE  StoredFor(session[x].document, x)'
    BY UploadAssumption DEF CompletedPointsToDocument, StoredFor
  <2>1. CASE x = s
    BY <2>1
  <2>2. CASE x # s
    <3>1. StoredFor(session[x].document, x)
      BY <1>1, <2>2 DEF CompletedPointsToDocument, StoredFor, TypeOK, Session
    <3> QED
      BY <1>1, <1>2, <2>2, <3>1 DEF StoredFor
  <2> QED
    BY <2>1, <2>2
<1>6. ASSUME NEW x \in Sessions \ raced PROVE Sequential(x)'
  <2>1. CASE x = s
    <3>1. InFlightOn(s) = {r}
      BY <1>1, <2>1 DEF Sequential, InFlightOn
    <3>2. Underway(r, s) /\ s \notin raced
      BY <1>1, <2>1, <3>1 DEF Sequential
    <3>3. InFlightOn(s)' \subseteq {r}
      BY <3>1 DEF InFlightOn, InFlight
    <3>4. CASE InFlight(r)'
      <4>1. InFlightOn(s)' = {r}
        BY <3>3, <3>4 DEF InFlightOn
      <4> QED
        BY <2>1, <3>2, <3>4, <4>1 DEF Sequential
    <3>5. CASE ~InFlight(r)'
      <4>1. InFlightOn(s)' = {}
        BY <3>3, <3>5 DEF InFlightOn
      <4> QED
        BY <2>1, <3>2, <3>5, <4>1 DEF Sequential
    <3> QED
      BY <3>4, <3>5
  <2>2. CASE x # s
    <3>1. InFlightOn(x)' = InFlightOn(x) /\ \A q \in InFlightOn(x) : q # r
      BY <2>2 DEF InFlightOn, InFlight
    <3>2. Made(x)' = Made(x)
      BY <2>2 DEF Made, RequestKnows
    <3>3. session'[x] = session[x] /\ chunks'[x] = chunks[x]
          /\ \A q \in InFlightOn(x) : request'[q] = request[q]
      BY <2>2, <3>1 DEF InFlightOn
    <3> QED
      BY <3>1, <3>2, <3>3, SessionUntouched
  <2> QED
    BY <2>1, <2>2
<1> QED
  BY <1>3, <1>4, <1>5, <1>6

(* Where a handler goes next changes nothing else of its record. *)
LEMMA GotoFacts ==
    ASSUME TypeOK, NEW r \in Requests, NEW point \in Points, Goto(r, point)
    PROVE  /\ request' \in [Requests -> Request]
           /\ request'[r].at = point
           /\ request'[r].call = request[r].call
           /\ request'[r].session = request[r].session
           /\ request'[r].part = request[r].part
           /\ request'[r].bytes = request[r].bytes
           /\ request'[r].copy = request[r].copy
           /\ request'[r].document = request[r].document
           /\ \A q \in Requests : q # r => request'[q] = request[q]
<1>1. request \in [Requests -> Request] /\ request[r] \in Request
  BY DEF TypeOK
<1>2. [request[r] EXCEPT !.at = point] \in Request
  BY <1>1 DEF Request
<1>3. request' = [request EXCEPT ![r] = [request[r] EXCEPT !.at = point]]
  BY <1>1 DEF Goto
<1> QED
  BY <1>1, <1>2, <1>3 DEF Request

-----------------------------------------------------------------------------
(* put_chunk: the part is stored, then listed. *)
LEMMA PutChunkInv ==
    ASSUME UploadIndInv, NEW r \in Requests, PutChunk(r)
    PROVE  UploadIndInv'
<1> USE DEF UploadIndInv
<1>1. PICK s \in Sessions, part \in Parts :
        /\ s = request[r].session /\ part = request[r].part
        /\ request[r].at = "chunk" /\ InFlight(r)
        /\ request[r].bytes \in Bytes /\ request[r].bytes # "none"
  BY DEF PutChunk, RequestKnows, InFlight, TypeOK, Request
<1>2. /\ UNCHANGED <<content, session, expired, documents, blobs, replicas, auditUp, raced>>
      /\ chunks' = [chunks EXCEPT ![s][part] = request[r].bytes]
      /\ Goto(r, "received")
  BY <1>1 DEF PutChunk
<1>3. /\ chunks' \in [Sessions -> [Parts -> Bytes]]
      /\ \A x \in Sessions : x # s => chunks'[x] = chunks[x]
      /\ chunks'[s][part] # "none"
      /\ \A p \in Parts : p # part => chunks'[s][p] = chunks[s][p]
  BY <1>1, <1>2 DEF TypeOK
<1>4. /\ request' \in [Requests -> Request] /\ request'[r].at = "received"
      /\ request'[r].session = s /\ request'[r].part = part
      /\ request'[r].bytes = request[r].bytes /\ request'[r].copy = request[r].copy
      /\ \A q \in Requests : q # r => request'[q] = request[q]
  BY <1>1, <1>2, GotoFacts DEF Points
<1>5. TypeOK'
  BY <1>2, <1>3, <1>4 DEF TypeOK
<1>6. RequestKnows(r)
  OBVIOUS
<1>7. RequestKnows(r)'
  BY <1>1, <1>2, <1>4, <1>6 DEF RequestKnows, InFlight
<1>8. DocumentsAreSound'
  BY <1>2 DEF DocumentsAreSound
<1>9. InFlight(r)'
  BY <1>4 DEF InFlight
<1>10. ASSUME Underway(r, s) PROVE Underway(r, s)'
  <2>1. /\ session[s] = request[r].copy /\ Agrees(s)
        /\ session[s].status = "ACTIVE"
    BY <1>1, <1>6, <1>10 DEF Underway, RequestKnows
  <2>2. Made(s) = {} /\ PartsAre(s, session[s].received)
    BY <2>1 DEF Agrees, Listed
  <2>3. PartsAre(s, request[r].copy.received \cup {part})'
    BY <1>3, <1>4, <1>1, <2>1, <2>2 DEF PartsAre
  <2>4. Made(s)' = {}
    BY <1>2, <2>2 DEF Made
  <2> QED
    BY <1>2, <1>4, <2>1, <2>3, <2>4 DEF Underway
<1>11. \A x \in Sessions : session'[x] = session[x]
  BY <1>2
<1>12. /\ session'[s].status # "ABSENT"
       /\ session'[s].status = "COMPLETED" => StoredFor(session[s].document, s)'
  BY <1>1, <1>2, <1>6 DEF RequestKnows, CompletedPointsToDocument, StoredFor, TypeOK,
                          Session
<1>13. documents'[r] # NoDocument => documents'[r].session = s
  BY <1>1, <1>2, <1>6 DEF RequestKnows
<1> QED
  BY <1>1, <1>2, <1>3, <1>4, <1>5, <1>7, <1>8, <1>9, <1>10, <1>11, <1>12, <1>13,
     StepKeepsInv

(* A handler that is about to write back its copy: the session becomes new *)
(* and the handler goes on.                                                *)
LEMMA SaveKeepsInv ==
    ASSUME UploadIndInv, NEW r \in Requests, InFlight(r), NEW s \in Sessions,
           s = request[r].session, NEW new \in Session, NEW point \in {"audit", "drop"},
           session' = [session EXCEPT ![s] = new], Goto(r, point),
           UNCHANGED <<content, expired, chunks, documents, blobs, replicas, auditUp,
                       raced>>,
           new.status # "ABSENT",
           new.status = "COMPLETED" => StoredFor(new.document, s),
           documents[r] # NoDocument => point = "drop",
           (s \notin raced /\ Underway(r, s)) => Underway(r, s)'
    PROVE  UploadIndInv'
<1> USE DEF UploadIndInv
<1>1. /\ session' \in [Sessions -> Session] /\ session'[s] = new
      /\ \A x \in Sessions : x # s => session'[x] = session[x]
  BY DEF TypeOK
<1>2. /\ request' \in [Requests -> Request] /\ request'[r].at = point
      /\ request'[r].session = s /\ request'[r].copy = request[r].copy
      /\ \A q \in Requests : q # r => request'[q] = request[q]
  BY GotoFacts DEF Points
<1>3. TypeOK'
  BY <1>1, <1>2 DEF TypeOK
<1>4. RequestKnows(r)' /\ InFlight(r)'
  <2>1. RequestKnows(r)
    OBVIOUS
  <2> QED
    BY <1>1, <1>2, <2>1 DEF RequestKnows, InFlight
<1>5. DocumentsAreSound'
  BY DEF DocumentsAreSound
<1>6. session'[s].status = "COMPLETED" => StoredFor(session[s].document, s)'
  BY <1>1 DEF StoredFor
<1>7. documents'[r] # NoDocument => documents'[r].session = s
  BY DEF RequestKnows
<1> QED
  BY <1>1, <1>2, <1>3, <1>4, <1>5, <1>6, <1>7, StepKeepsInv

(* The part is listed. *)
LEMMA SaveReceivedInv ==
    ASSUME UploadIndInv, NEW r \in Requests, SaveReceived(r)
    PROVE  UploadIndInv'
<1> USE DEF UploadIndInv
<1>1. PICK s \in Sessions, part \in Parts :
        /\ s = request[r].session /\ part = request[r].part
        /\ request[r].at = "received" /\ InFlight(r)
        /\ request[r].copy \in Session /\ request[r].copy.status = "ACTIVE"
        /\ documents[r] = NoDocument
  BY DEF SaveReceived, RequestKnows, InFlight, TypeOK, Request
<1> DEFINE new == [request[r].copy EXCEPT !.received = @ \cup {part}]
<1>2. /\ new \in Session /\ new.status = "ACTIVE"
      /\ new.received = request[r].copy.received \cup {part}
  BY <1>1 DEF Session
<1>3. /\ session' = [session EXCEPT ![s] = new] /\ Goto(r, "audit")
      /\ UNCHANGED <<content, expired, chunks, documents, blobs, replicas, auditUp, raced>>
  BY <1>1 DEF SaveReceived
<1> HIDE DEF new
<1>4. request'[r].at = "audit" /\ session'[s] = new
  BY <1>1, <1>2, <1>3, GotoFacts DEF Points, TypeOK
<1>5. ASSUME Underway(r, s) PROVE Underway(r, s)'
  <2>1. /\ PartsAre(s, request[r].copy.received \cup {part}) /\ Made(s) = {}
    BY <1>1, <1>5 DEF Underway
  <2>2. Made(s)' = {} /\ PartsAre(s, Listed(s))'
    BY <1>2, <1>3, <1>4, <2>1 DEF Made, PartsAre, Listed
  <2>3. Agrees(s)'
    BY <2>2 DEF Agrees
  <2> QED
    BY <1>4, <2>3 DEF Underway
<1> QED
  BY <1>1, <1>2, <1>3, <1>5, SaveKeepsInv

-----------------------------------------------------------------------------
(* complete and cancel write their copy back with the final status; the    *)
(* document that a COMPLETED session names was stored before.              *)
LEMMA SaveFinalInv ==
    ASSUME UploadIndInv, NEW r \in Requests, SaveCompleted(r) \/ SaveCancelled(r)
    PROVE  UploadIndInv'
<1> USE DEF UploadIndInv
<1>1. PICK s \in Sessions :
        /\ s = request[r].session /\ InFlight(r)
        /\ request[r].at \in {"completed", "reuse", "cancelled"}
        /\ request[r].copy \in Session /\ RequestKnows(r)
  BY DEF SaveCompleted, SaveCancelled, RequestKnows, InFlight, TypeOK, Request
<1>2. PICK new \in Session :
        /\ session' = [session EXCEPT ![s] = new]
        /\ new.status \in {"COMPLETED", "CANCELLED"}
        /\ new.status = "COMPLETED" => StoredFor(new.document, s)
  <2>1. CASE SaveCompleted(r)
    <3> DEFINE new == [request[r].copy EXCEPT !.status = "COMPLETED",
                                              !.document = request[r].document]
    <3>1. StoredFor(request[r].document, s)
      BY <1>1, <2>1 DEF SaveCompleted, RequestKnows
    <3>2. request[r].document \in Requests
      BY <3>1 DEF StoredFor
    <3>3. /\ new \in Session /\ new.status = "COMPLETED"
          /\ new.document = request[r].document
      BY <1>1, <3>2 DEF Session, Statuses
    <3>4. session' = [session EXCEPT ![s] = new]
      BY <1>1, <2>1 DEF SaveCompleted
    <3> HIDE DEF new
    <3> QED
      BY <3>1, <3>3, <3>4
  <2>2. CASE SaveCancelled(r)
    <3> DEFINE new == [request[r].copy EXCEPT !.status = "CANCELLED"]
    <3>1. new \in Session /\ new.status = "CANCELLED"
      BY <1>1 DEF Session, Statuses
    <3>2. session' = [session EXCEPT ![s] = new]
      BY <1>1, <2>2 DEF SaveCancelled
    <3> HIDE DEF new
    <3> QED
      BY <3>1, <3>2
  <2> QED
    BY <2>1, <2>2
<1>3. /\ Goto(r, "drop")
      /\ UNCHANGED <<content, expired, chunks, documents, blobs, replicas, auditUp, raced>>
  BY DEF SaveCompleted, SaveCancelled
<1>4. request'[r].at = "drop" /\ session'[s] = new
  BY <1>1, <1>2, <1>3, GotoFacts DEF Points, TypeOK
<1>5. ASSUME Underway(r, s) PROVE Underway(r, s)'
  <2>1. Made(s) \subseteq {r}
    <3>1. CASE request[r].at = "completed"
      BY <1>5, <3>1 DEF Underway
    <3>2. CASE request[r].at \in {"reuse", "cancelled"}
      BY <1>1, <1>5, <3>2 DEF Underway, Agrees, RequestKnows
    <3> QED
      BY <1>1, <3>1, <3>2
  <2>2. Made(s)' = Made(s)
    BY <1>3 DEF Made
  <2> QED
    BY <1>2, <1>4, <2>1, <2>2 DEF Underway
<1> QED
  BY <1>1, <1>2, <1>3, <1>5, SaveKeepsInv

(* Steps that only move the handler on: composing the parts, looking the   *)
(* content up, writing the audit event.                                    *)
LEMMA MoveKeepsInv ==
    ASSUME UploadIndInv, NEW r \in Requests, InFlight(r),
           UNCHANGED <<content, session, expired, chunks, documents, blobs, replicas,
                       auditUp, raced>>,
           request' \in [Requests -> Request],
           \A q \in Requests : q # r => request'[q] = request[q],
           request'[r].session = request[r].session, request'[r].copy = request[r].copy,
           \/ /\ request[r].at \in {"compose", "lookup"}
              /\ request'[r].at \in {"lookup", "create", "reuse", "raised"}
           \/ /\ request[r].at = "audit"
              /\ request'[r].at \in {"raised", "returned"},
           request'[r].at \in {"lookup", "create"} =>
              content[request[r].session] # "blocked",
           request'[r].at = "reuse" =>
              StoredFor(request'[r].document, request[r].session)
    PROVE  UploadIndInv'
<1> USE DEF UploadIndInv
<1>1. PICK s \in Sessions : s = request[r].session /\ RequestKnows(r)
  BY DEF RequestKnows
<1>2. TypeOK'
  BY DEF TypeOK
<1>3. documents[r] # NoDocument => request[r].at = "audit"
  BY <1>1 DEF RequestKnows
<1>4. RequestKnows(r)'
  <2>1. request'[r].at = "reuse" => StoredFor(request[r].document, s)'
    BY <1>1 DEF StoredFor
  <2> QED
    BY <1>1, <1>3, <2>1 DEF RequestKnows, InFlight
<1>5. DocumentsAreSound'
  BY DEF DocumentsAreSound
<1>6. ASSUME Underway(r, s)
      PROVE  /\ InFlight(r)' => Underway(r, s)'
             /\ ~InFlight(r)' => Agrees(s)'
  <2>1. Agrees(s)
    BY <1>6 DEF Underway
  <2>2. Agrees(s)'
    BY <2>1 DEF Agrees, Made, PartsAre, Listed
  <2>3. request[r].at # "audit" => session'[s] = request'[r].copy
    BY <1>6 DEF Underway
  <2> QED
    BY <2>2, <2>3 DEF Underway, InFlight
<1>7. /\ session'[s].status # "ABSENT"
      /\ session'[s].status = "COMPLETED" => StoredFor(session[s].document, s)'
  BY <1>1 DEF RequestKnows, CompletedPointsToDocument, StoredFor, TypeOK, Session
<1>8. documents'[r] # NoDocument => documents'[r].session = s
  BY <1>1 DEF RequestKnows
<1> QED
  BY <1>1, <1>2, <1>4, <1>5, <1>6, <1>7, <1>8, StepKeepsInv

(* compose_chunks lets only what is not blocked through; the lookup finds  *)
(* a stored document of the same content or none.                          *)
LEMMA MoveInv ==
    ASSUME UploadIndInv, NEW r \in Requests, Compose(r) \/ Lookup(r) \/ Audit(r)
    PROVE  UploadIndInv'
<1> USE DEF UploadIndInv
<1>1. /\ request[r].at \in {"compose", "lookup", "audit"} /\ InFlight(r)
      /\ RequestKnows(r)
      /\ UNCHANGED <<content, session, expired, chunks, documents, blobs, replicas,
                     auditUp, raced>>
  BY DEF Compose, Lookup, Audit, InFlight
<1>2. ASSUME NEW point \in Points, Goto(r, point),
             \/ request[r].at = "compose" /\ point \in {"lookup", "raised"}
             \/ request[r].at = "lookup" /\ point = "create"
             \/ request[r].at = "audit" /\ point \in {"raised", "returned"},
             point \in {"lookup", "create"} => content[request[r].session] # "blocked"
      PROVE  UploadIndInv'
  BY <1>1, <1>2, GotoFacts, MoveKeepsInv
<1>3. CASE Compose(r)
  <2>1. CASE Goto(r, "lookup") /\ content[request[r].session] # "blocked"
    BY <1>2, <1>3, <2>1 DEF Points, Compose
  <2>2. CASE Goto(r, "raised")
    BY <1>2, <1>3, <2>2 DEF Points, Compose
  <2> QED
    BY <1>3, <2>1, <2>2 DEF Compose
<1>4. CASE Audit(r)
  <2>1. CASE auditUp
    BY <1>2, <1>4, <2>1 DEF Audit, Points
  <2>2. CASE ~auditUp
    BY <1>2, <1>4, <2>2 DEF Audit, Points
  <2> QED
    BY <2>1, <2>2
<1>5. CASE Lookup(r)
  <2>1. CASE Goto(r, "create")
    BY <1>1, <1>2, <1>5, <2>1 DEF Points, Lookup, RequestKnows
  <2>2. ASSUME NEW d \in SameContent(request[r].session),
               request' = [request EXCEPT ![r].at = "reuse", ![r].document = d]
        PROVE  UploadIndInv'
    <3>1. d \in Requests /\ StoredFor(d, request[r].session)
      BY <2>2 DEF SameContent, StoredFor, DocumentsAreSound
    <3>2. request[r] \in Request
      BY DEF TypeOK
    <3> DEFINE new == [request[r] EXCEPT !.at = "reuse", !.document = d]
    <3>3. /\ new \in Request /\ new.at = "reuse" /\ new.document = d
          /\ new.session = request[r].session /\ new.copy = request[r].copy
      BY <3>1, <3>2 DEF Request, Points
    <3>4. request' = [request EXCEPT ![r] = new]
      BY <2>2 DEF TypeOK
    <3> HIDE DEF new
    <3>5. /\ request' \in [Requests -> Request] /\ request'[r] = new
          /\ \A q \in Requests : q # r => request'[q] = request[q]
      BY <3>3, <3>4 DEF TypeOK
    <3>6. request[r].at = "lookup"
      BY <1>5 DEF Lookup
    <3> QED
      BY <1>1, <3>1, <3>3, <3>5, <3>6, MoveKeepsInv
  <2> QED
    BY <1>5, <2>1, <2>2 DEF Lookup
<1> QED
  BY <1>3, <1>4, <1>5

(* The blob comes with the document, and the document says what the scan   *)
(* found in the session's content.                                         *)
LEMMA CreateDocumentInv ==
    ASSUME UploadIndInv, NEW r \in Requests, CreateDocument(r)
    PROVE  UploadIndInv'
<1> USE DEF UploadIndInv
<1>1. PICK s \in Sessions :
        /\ s = request[r].session /\ InFlight(r) /\ request[r].at = "create"
        /\ documents[r] = NoDocument /\ content[s] # "blocked" /\ RequestKnows(r)
        /\ content[s] \in Contents /\ request[r] \in Request
  BY DEF CreateDocument, RequestKnows, InFlight, TypeOK
<1> DEFINE new == [session |-> s, content |-> content[s],
                   status |-> IF content[s] = "infected" THEN "SCAN_FAILED"
                                                         ELSE "SCAN_PASSED"]
<1>2. /\ new \in Document /\ new.session = s /\ new.content = content[s]
      /\ new.status = "SCAN_PASSED" <=> content[s] = "clean"
  BY <1>1 DEF Document, Contents
<1>3. /\ UNCHANGED <<content, session, expired, chunks, replicas, auditUp, raced>>
      /\ blobs' = blobs \cup {s}
      /\ documents' = [documents EXCEPT ![r] = new]
      /\ request' = [request EXCEPT ![r].at = "completed", ![r].document = r]
  BY <1>1 DEF CreateDocument
<1> HIDE DEF new
<1>4. new # NoDocument
  BY <1>2, NoDocumentIsNone
<1>5. /\ documents' \in [Requests -> Document \cup {NoDocument}] /\ documents'[r] = new
      /\ \A q \in Requests : q # r => documents'[q] = documents[q]
  BY <1>2, <1>3 DEF TypeOK
<1>6. /\ request' \in [Requests -> Request]
      /\ request'[r].at = "completed" /\ request'[r].document = r
      /\ request'[r].session = s /\ request'[r].copy = request[r].copy
      /\ \A q \in Requests : q # r => request'[q] = request[q]
  <2> DEFINE next == [request[r] EXCEPT !.at = "completed", !.document = r]
  <2>1. /\ next \in Request /\ next.at = "completed" /\ next.document = r
        /\ next.session = s /\ next.copy = request[r].copy
    BY <1>1 DEF Request, Points
  <2>2. request' = [request EXCEPT ![r] = next]
    BY <1>3 DEF TypeOK
  <2> HIDE DEF next
  <2> QED
    BY <2>1, <2>2 DEF TypeOK
<1>7. TypeOK'
  BY <1>3, <1>5, <1>6 DEF TypeOK
<1>8. StoredFor(r, s)'
  BY <1>2, <1>3, <1>4, <1>5 DEF StoredFor
<1>9. RequestKnows(r)' /\ InFlight(r)'
  BY <1>1, <1>2, <1>3, <1>5, <1>6, <1>8 DEF RequestKnows, InFlight
<1>10. DocumentsAreSound'
  BY <1>1, <1>2, <1>3, <1>5 DEF DocumentsAreSound
<1>11. ASSUME Underway(r, s) PROVE Underway(r, s)'
  <2>1. session[s] = request[r].copy /\ Made(s) = {}
    BY <1>1, <1>11 DEF Underway, Agrees, RequestKnows
  <2>2. Made(s)' = {r}
    BY <1>2, <1>4, <1>5, <2>1 DEF Made
  <2> QED
    BY <1>3, <1>6, <2>1, <2>2 DEF Underway
<1>12. /\ session'[s].status # "ABSENT"
       /\ session'[s].status = "COMPLETED" => StoredFor(session[s].document, s)'
  BY <1>1, <1>3, <1>5 DEF RequestKnows, CompletedPointsToDocument, StoredFor, TypeOK,
                          Session
<1>13. \A x \in Sessions : session'[x] = session[x] /\ chunks'[x] = chunks[x]
  BY <1>3
<1> QED
  BY <1>1, <1>2, <1>3, <1>5, <1>6, <1>7, <1>9, <1>10, <1>11, <1>12, <1>13, StepKeepsInv

(* A finished session loses its parts, and its new document gets its       *)
(* replica.                                                                *)
LEMMA DropChunksInv ==
    ASSUME UploadIndInv, NEW r \in Requests, DropChunks(r)
    PROVE  UploadIndInv'
<1> USE DEF UploadIndInv
<1>1. PICK s \in Sessions :
        /\ s = request[r].session /\ InFlight(r) /\ request[r].at = "drop"
        /\ RequestKnows(r)
  BY DEF DropChunks, RequestKnows, InFlight
<1>2. /\ UNCHANGED <<content, session, expired, documents, blobs, auditUp, raced>>
      /\ chunks' = [chunks EXCEPT ![s] = [p \in Parts |-> "none"]]
      /\ replicas' = IF documents[r] # NoDocument THEN replicas \cup {r} ELSE replicas
  BY <1>1 DEF DropChunks
<1>3. PICK point \in {"audit", "returned"} : Goto(r, point)
  BY DEF DropChunks
<1>4. /\ request' \in [Requests -> Request] /\ request'[r].at = point
      /\ request'[r].session = s /\ request'[r].copy = request[r].copy
      /\ \A q \in Requests : q # r => request'[q] = request[q]
  BY <1>1, <1>3, GotoFacts DEF Points
<1>5. /\ chunks' \in [Sessions -> [Parts -> Bytes]]
      /\ \A p \in Parts : chunks'[s][p] = "none"
      /\ \A x \in Sessions : x # s => chunks'[x] = chunks[x]
  BY <1>2 DEF TypeOK, Bytes
<1>6. /\ replicas \subseteq replicas' /\ replicas' \subseteq Requests
      /\ documents[r] # NoDocument => r \in replicas'
  BY <1>2 DEF TypeOK
<1>7. TypeOK'
  BY <1>2, <1>4, <1>5, <1>6 DEF TypeOK
<1>8. RequestKnows(r)'
  BY <1>1, <1>2, <1>4 DEF RequestKnows, InFlight
<1>9. DocumentsAreSound'
  BY <1>2 DEF DocumentsAreSound
<1>10. ASSUME Underway(r, s) PROVE Agrees(s)'
  <2>1. session[s].status \in {"COMPLETED", "CANCELLED"} /\ Made(s) \subseteq {r}
    BY <1>1, <1>10 DEF Underway
  <2>2. Made(s)' = Made(s)
    BY <1>2 DEF Made
  <2>3. Made(s)' \subseteq replicas'
    BY <1>6, <2>1, <2>2 DEF Made
  <2>4. Listed(s)' = {} /\ PartsAre(s, {})'
    BY <1>2, <1>5, <2>1 DEF Listed, PartsAre
  <2> QED
    BY <1>2, <2>1, <2>2, <2>3, <2>4 DEF Agrees
<1>11. Agrees(s)' => /\ InFlight(r)' => Underway(r, s)'
                     /\ ~InFlight(r)' => Agrees(s)'
  BY <1>4 DEF Underway, InFlight
<1>12. /\ session'[s].status # "ABSENT"
       /\ session'[s].status = "COMPLETED" => StoredFor(session[s].document, s)'
  BY <1>1, <1>2 DEF RequestKnows, CompletedPointsToDocument, StoredFor, TypeOK, Session
<1>13. documents'[r] # NoDocument => documents'[r].session = s
  BY <1>1, <1>2 DEF RequestKnows
<1> QED
  BY <1>1, <1>2, <1>4, <1>5, <1>6, <1>7, <1>8, <1>9, <1>10, <1>11, <1>12, <1>13,
     StepKeepsInv

-----------------------------------------------------------------------------
(* A request starts on a session that is ACTIVE in the store, with a copy  *)
(* of it; it is alone there or the session is marked as raced.             *)
LEMMA StartInv ==
    ASSUME UploadIndInv, NEW r \in Requests, NEW s \in Sessions,
           StartPutChunk(r, s) \/ StartComplete(r, s) \/ StartCancel(r, s)
    PROVE  UploadIndInv'
<1> USE DEF UploadIndInv
<1>1. session[s].status = "ACTIVE" /\ session[s] \in Session
  BY DEF StartPutChunk, StartComplete, StartCancel, effective_status, TypeOK, Session,
         Statuses
<1>2. PICK call \in Calls, point \in {"chunk", "compose", "cancelled"},
           part \in Parts \cup {None}, bytes \in Bytes :
        /\ Start(r, s, call, point, part, bytes)
        /\ point = "chunk" => part \in Parts /\ bytes # "none"
  BY DEF StartPutChunk, StartComplete, StartCancel, Calls, Bytes
<1> DEFINE new == [call |-> call, at |-> point, session |-> s, part |-> part,
                   bytes |-> bytes, copy |-> session[s], document |-> None]
<1>3. /\ new \in Request /\ new.at = point /\ new.session = s /\ new.part = part
      /\ new.bytes = bytes /\ new.copy = session[s]
  BY <1>1 DEF Request, Points
<1>4. /\ request[r].at = "new" /\ request' = [request EXCEPT ![r] = new]
      /\ raced' = IF InFlightOn(s) = {} THEN raced ELSE raced \cup {s}
      /\ UNCHANGED <<content, session, expired, chunks, documents, blobs, replicas,
                     auditUp>>
  BY <1>2 DEF Start
<1> HIDE DEF new
<1>5. /\ request' \in [Requests -> Request] /\ request'[r] = new
      /\ \A q \in Requests : q # r => request'[q] = request[q]
  BY <1>3, <1>4 DEF TypeOK
<1>6. TypeOK'
  BY <1>4, <1>5 DEF TypeOK
<1>7. ~InFlight(r) /\ documents[r] = NoDocument /\ InFlight(r)'
  BY <1>3, <1>4, <1>5 DEF InFlight, RequestKnows
<1>8. \A q \in Requests : RequestKnows(q)'
  <2>1. RequestKnows(r)'
    BY <1>1, <1>2, <1>3, <1>4, <1>5, <1>7 DEF RequestKnows, InFlight
  <2>2. ASSUME NEW q \in Requests, q # r PROVE RequestKnows(q)'
    BY <1>4, <1>5, <2>2, KnowledgeStays
  <2> QED
    BY <2>1, <2>2
<1>9. ASSUME NEW x \in Sessions \ raced' PROVE Sequential(x)'
  <2>1. x \in Sessions \ raced
    BY <1>4, <1>9
  <2>2. CASE x = s
    <3>1. InFlightOn(s) = {} /\ Agrees(s)
      BY <1>4, <1>9, <2>1, <2>2 DEF Sequential
    <3>2. InFlightOn(s)' = {r}
      BY <1>3, <1>5, <1>7, <3>1 DEF InFlightOn, InFlight
    <3>3. Agrees(s)'
      BY <1>4, <3>1 DEF Agrees, Made, PartsAre, Listed
    <3>4. Underway(r, s)'
      BY <1>2, <1>3, <1>4, <1>5, <3>3 DEF Underway
    <3> QED
      BY <2>2, <3>2, <3>4 DEF Sequential
  <2>3. CASE x # s
    <3>1. InFlightOn(x)' = InFlightOn(x) /\ r \notin InFlightOn(x)
      BY <1>3, <1>5, <1>7, <2>3 DEF InFlightOn, InFlight
    <3>2. Made(x)' = Made(x) /\ \A q \in InFlightOn(x) : request'[q] = request[q]
      BY <1>4, <1>5, <3>1 DEF Made, InFlightOn
    <3> QED
      BY <1>4, <2>1, <3>1, <3>2, SessionUntouched
  <2> QED
    BY <2>2, <2>3
<1> QED
  BY <1>4, <1>6, <1>8, <1>9 DEF DocumentsAreSound, AbsentIsEmpty,
                                CompletedPointsToDocument

(* Nobody works on a session before it is created. *)
LEMMA CreateSessionInv ==
    ASSUME UploadIndInv, NEW s \in Sessions, create_session(s)
    PROVE  UploadIndInv'
<1> USE DEF UploadIndInv
<1>1. /\ session[s] \in Session /\ session[s].status = "ABSENT"
      /\ session[s].received = {}
      /\ session' = [session EXCEPT ![s].status = "ACTIVE"]
      /\ UNCHANGED <<content, expired, chunks, documents, blobs, replicas, auditUp,
                     request, raced>>
  BY DEF create_session, TypeOK, AbsentIsEmpty
<1>2. /\ session' \in [Sessions -> Session]
      /\ session'[s].status = "ACTIVE" /\ session'[s].received = {}
      /\ \A x \in Sessions : x # s => session'[x] = session[x]
  BY <1>1 DEF TypeOK, Session, Statuses
<1>3. TypeOK'
  BY <1>1, <1>2 DEF TypeOK
<1>4. ASSUME NEW q \in Requests PROVE RequestKnows(q)'
  BY <1>1, <1>2, KnowledgeStays
<1>5. ASSUME NEW x \in Sessions \ raced PROVE Sequential(x)'
  <2>1. CASE x = s
    <3>1. InFlightOn(s) = {}
      BY <1>1 DEF InFlightOn, RequestKnows
    <3>2. Agrees(s)
      BY <2>1, <3>1 DEF Sequential
    <3>3. InFlightOn(s)' = {} /\ Made(s)' = Made(s)
      BY <1>1, <3>1 DEF InFlightOn, InFlight, Made
    <3>4. Listed(s)' = Listed(s)
      BY <1>1, <1>2 DEF Listed
    <3>5. Agrees(s)'
      BY <1>1, <1>2, <3>2, <3>3, <3>4 DEF Agrees, PartsAre
    <3> QED
      BY <2>1, <3>3, <3>5 DEF Sequential
  <2>2. CASE x # s
    <3>1. InFlightOn(x)' = InFlightOn(x) /\ Made(x)' = Made(x)
      BY <1>1 DEF InFlightOn, InFlight, Made
    <3> QED
      BY <1>1, <1>2, <2>2, <3>1, SessionUntouched
  <2> QED
    BY <2>1, <2>2
<1>6. CompletedPointsToDocument'
  BY <1>1, <1>2 DEF CompletedPointsToDocument
<1>7. AbsentIsEmpty' /\ DocumentsAreSound'
  BY <1>1, <1>2 DEF AbsentIsEmpty, DocumentsAreSound
<1> QED
  BY <1>1, <1>3, <1>4, <1>5, <1>6, <1>7

(* The clock, the audit sink and stuttering touch nothing of this. *)
LEMMA EnvironmentInv ==
    ASSUME UploadIndInv,
           UNCHANGED <<content, session, chunks, documents, blobs, replicas, request, raced>>,
           expired' \in SUBSET Sessions, auditUp' \in BOOLEAN
    PROVE  UploadIndInv'
<1> USE DEF UploadIndInv
<1>1. TypeOK'
  BY DEF TypeOK
<1>2. ASSUME NEW q \in Requests PROVE RequestKnows(q)'
  BY KnowledgeStays
<1>3. ASSUME NEW x \in Sessions \ raced PROVE Sequential(x)'
  <2>1. InFlightOn(x)' = InFlightOn(x) /\ Made(x)' = Made(x)
    BY DEF InFlightOn, InFlight, Made
  <2> QED
    BY <2>1, SessionUntouched
<1> QED
  BY <1>1, <1>2, <1>3 DEF DocumentsAreSound, AbsentIsEmpty, CompletedPointsToDocument

(* Every step of a handler keeps the inductive invariant. *)
LEMMA HandlerInv ==
    ASSUME UploadIndInv, NEW r \in Requests, Handler(r)
    PROVE  UploadIndInv'
  BY PutChunkInv, SaveReceivedInv, SaveFinalInv, MoveInv, CreateDocumentInv,
     DropChunksInv DEF Handler

(* Every step keeps the inductive invariant. *)
LEMMA NextInv == UploadIndInv /\ [Next]_vars => UploadIndInv'
<1> SUFFICES ASSUME UploadIndInv, [Next]_vars
             PROVE  UploadIndInv'
  OBVIOUS
<1>1. CASE \E s \in Sessions : create_session(s)
  BY <1>1, CreateSessionInv
<1>2. CASE \/ \E s \in Sessions : Expire(s)
           \/ ToggleAudit
           \/ UNCHANGED vars
  <2>1. /\ UNCHANGED <<content, session, chunks, documents, blobs, replicas, request, raced>>
        /\ expired' \in SUBSET Sessions
    BY <1>2 DEF Expire, ToggleAudit, vars, UploadIndInv, TypeOK
  <2>2. auditUp' \in BOOLEAN
    BY <1>2 DEF Expire, ToggleAudit, vars, UploadIndInv, TypeOK
  <2> QED
    BY <2>1, <2>2, EnvironmentInv
<1>3. CASE \E r \in Requests, s \in Sessions :
             StartPutChunk(r, s) \/ StartComplete(r, s) \/ StartCancel(r, s)
  BY <1>3, StartInv
<1>4. CASE \E r \in Requests : Handler(r)
  BY <1>4, HandlerInv
<1> QED
  BY <1>1, <1>2, <1>3, <1>4 DEF Next

(* The inductive invariant holds in every state that create_session,        *)
(* put_chunk, complete and cancel reach together, however they interleave   *)
(* (services.py:246-560).                                                   *)
THEOREM Invariance == Spec => []UploadIndInv
  BY InitInv, NextInv, PTL DEF Spec

(* What upload promises: a COMPLETED session points at a stored document of *)
(* its content with a blob, in spite of any race; only clean files pass;    *)
(* and without overlapping requests a session at rest agrees with its       *)
(* parts, documents and replicas (services.py:246-560).                     *)
THEOREM UploadIsConsistent == Spec => []UploadInv
<1>1. UploadIndInv => UploadInv
  <2> SUFFICES ASSUME UploadIndInv PROVE UploadInv
    OBVIOUS
  <2>1. OnlyCleanDocumentsPass
    BY DEF UploadIndInv, DocumentsAreSound, OnlyCleanDocumentsPass
  <2>2. QuiescentSessionsAgree
    <3> SUFFICES ASSUME NEW s \in Sessions \ raced, InFlightOn(s) = {}
                 PROVE  /\ \A p \in Parts : chunks[s][p] # "none" <=>
                             session[s].status = "ACTIVE" /\ p \in session[s].received
                        /\ Cardinality(Made(s)) <= 1
                        /\ Made(s) \subseteq replicas
      BY DEF QuiescentSessionsAgree, Made
    <3>1. Agrees(s)
      BY DEF UploadIndInv, Sequential
    <3>2. \A p \in Parts : chunks[s][p] # "none" <=>
             session[s].status = "ACTIVE" /\ p \in session[s].received
      BY <3>1 DEF Agrees, PartsAre, Listed
    <3>3. Cardinality(Made(s)) <= 1
      <4>1. CASE Made(s) = {}
        BY <4>1, FS_EmptySet
      <4>2. CASE Made(s) # {}
        <5>1. PICK d \in Made(s) : TRUE
          BY <4>2
        <5>2. Made(s) = {d}
          BY <3>1, <5>1 DEF Agrees
        <5>3. Cardinality(Made(s)) = 1
          BY <5>2, FS_Singleton, Zenon
        <5> QED
          BY <5>3
      <4> QED
        BY <4>1, <4>2
    <3> QED
      BY <3>1, <3>2, <3>3 DEF Agrees
  <2> QED
    BY <2>1, <2>2 DEF UploadIndInv, UploadInv
<1> QED
  BY <1>1, Invariance, PTL

(* While its requests do not overlap, a session that was completed or       *)
(* cancelled is never written again: a handler that writes finds in the     *)
(* store the ACTIVE session it read (services.py:330-350, 500-560).         *)
THEOREM FinishIsFinal == Spec => FinishedStaysFinished
<1> DEFINE Stays == \A s \in Sessions : s \notin raced /\ session[s].status \in
                       {"COMPLETED", "CANCELLED"} => session'[s] = session[s]
<1>1. UploadIndInv /\ [Next]_vars => [Stays]_vars
  <2> SUFFICES ASSUME UploadIndInv, Next, NEW s \in Sessions, s \notin raced,
                      session[s].status \in {"COMPLETED", "CANCELLED"}
               PROVE  session'[s] = session[s]
    OBVIOUS
  <2>1. session \in [Sessions -> Session]
    BY DEF UploadIndInv, TypeOK
  <2>2. CASE \E x \in Sessions : create_session(x)
    BY <2>1, <2>2 DEF create_session
  <2>3. ASSUME NEW r \in Requests, SaveReceived(r) \/ SaveCompleted(r) \/ SaveCancelled(r)
        PROVE  session'[s] = session[s]
    <3>1. /\ InFlight(r)
          /\ request[r].at \in {"received", "completed", "reuse", "cancelled"}
      BY <2>3 DEF SaveReceived, SaveCompleted, SaveCancelled, InFlight
    <3>2. request[r].session \in Sessions /\ request[r].copy.status = "ACTIVE"
      BY <3>1 DEF UploadIndInv, RequestKnows
    <3>3. CASE request[r].session = s
      <4>1. r \in InFlightOn(s)
        BY <3>1, <3>3 DEF InFlightOn
      <4>2. session[s] = request[r].copy
        BY <3>1, <4>1 DEF UploadIndInv, Sequential, Underway
      <4> QED
        BY <3>2, <4>2
    <3>4. CASE request[r].session # s
      BY <2>1, <2>3, <3>2, <3>4 DEF SaveReceived, SaveCompleted, SaveCancelled
    <3> QED
      BY <3>3, <3>4
  <2>4. CASE UNCHANGED session
    BY <2>4
  <2> QED
    BY <2>2, <2>3, <2>4 DEF Next, Handler, Expire, ToggleAudit, StartPutChunk,
       StartComplete, StartCancel, Start, PutChunk, Compose, Lookup, CreateDocument,
       DropChunks, Audit
<1> QED
  BY <1>1, Invariance, PTL DEF Spec, FinishedStaysFinished

-----------------------------------------------------------------------------
(* Review.  A handler writes back the copy it read, so the promise must    *)
(* hold of the copies in flight as well, together with what the handler    *)
(* checked of its copy.                                                    *)

(* A document is reviewed before it is released, is released by another    *)
(* than its uploader, and names a releaser only then.                      *)
TwoPeople(d) ==
    /\ d.status \in {"UNDER_REVIEW", "RELEASED"} => d.reviewed_by # None
    /\ d.status = "RELEASED" => d.released_by \notin {None, uploader}
    /\ d.status # "RELEASED" => d.released_by = None

(* What a handler that is about to write knows of its copy                 *)
(* (services.py:641-649, 670-685, 721-733).                                *)
CopyIsChecked(r) ==
    reviewing[r].at = "save" =>
      /\ reviewing[r].by \in People
      /\ TwoPeople(reviewing[r].copy)
      /\ \/ reviewing[r].call = "review" /\ reviewing[r].copy.status = "SCAN_PASSED"
         \/ /\ reviewing[r].call = "release" /\ reviewing[r].copy.status = "UNDER_REVIEW"
            /\ reviewing[r].by # uploader
         \/ /\ reviewing[r].call = "quarantine"
            /\ reviewing[r].copy.status \in {"SCAN_PASSED", "UNDER_REVIEW", "RELEASED"}

(* Until two calls overlapped, one is in flight and has read what is       *)
(* stored.                                                                 *)
OneAtATime ==
    ~reviewRaced =>
        /\ \A r, q \in Requests : Review!InFlight(r) /\ Review!InFlight(q) => r = q
        /\ \A r \in Requests : reviewing[r].at = "save" => reviewing[r].copy = document

(* The inductive invariant of review. *)
ReviewIndInv ==
    /\ Review!TypeOK
    /\ TwoPeople(document)
    /\ \A r \in Requests : CopyIsChecked(r)
    /\ Review!InfectedStaysOut
    /\ OneAtATime

(* A stored document starts as scanned, and no handler has been called. *)
LEMMA ReviewInit ==
    Review!Init => ReviewIndInv
<1> SUFFICES ASSUME Review!Init PROVE ReviewIndInv
  OBVIOUS
<1>1. document \in Review!Document /\ document.status \in {"SCAN_PASSED", "SCAN_FAILED"}
                                   /\ document.released_by = None
                                   /\ (infected => document.status = "SCAN_FAILED")
  BY DEF Review!Init, Review!Document, Review!Statuses
<1>2. reviewing = [r \in Requests |-> [call |-> "none", at |-> "new", by |-> None,
                                      copy |-> document]]
  BY DEF Review!Init
<1>3. reviewing \in [Requests -> Review!Request] /\ \A r \in Requests : reviewing[r].at = "new"
  BY <1>1, <1>2 DEF Review!Request, Review!Calls, Review!Points
<1>4. Review!TypeOK
  BY <1>1, <1>3 DEF Review!Init, Review!TypeOK
<1>5. TwoPeople(document) /\ Review!InfectedStaysOut
  BY <1>1, <1>3 DEF TwoPeople, Review!InfectedStaysOut
<1>6. (\A r \in Requests : CopyIsChecked(r)) /\ OneAtATime
  BY <1>3 DEF CopyIsChecked, OneAtATime, Review!InFlight
<1> QED
  BY <1>4, <1>5, <1>6 DEF ReviewIndInv

(* The read of a handler: its copy is the stored document, which satisfies *)
(* the promise, and the handler's early returns (services.py:632-733).     *)
LEMMA ReviewStart ==
    ASSUME ReviewIndInv, NEW r \in Requests, NEW u \in People,
           NEW call \in {"review", "release", "quarantine", "download"},
           NEW point \in {"save", "bytes"}, Review!Start(r, u, call, point),
           document.status # "SCAN_FAILED",
           point = "save" =>
             \/ call = "review" /\ document.status = "SCAN_PASSED"
             \/ call = "release" /\ document.status = "UNDER_REVIEW" /\ u # uploader
             \/ call = "quarantine"
                  /\ document.status \in {"SCAN_PASSED", "UNDER_REVIEW", "RELEASED"}
    PROVE  ReviewIndInv'
<1> DEFINE new == [call |-> call, at |-> point, by |-> u, copy |-> document]
<1>1. /\ reviewing \in [Requests -> Review!Request] /\ document \in Review!Document
      /\ reviewRaced \in BOOLEAN
  BY DEF ReviewIndInv, Review!TypeOK
<1>2. /\ new \in Review!Request
      /\ new.call = call /\ new.at = point /\ new.by = u /\ new.copy = document
  BY <1>1 DEF Review!Request, Review!Calls, Review!Points
<1>3. reviewing' = [reviewing EXCEPT ![r] = new]
  BY DEF Review!Start
<1> HIDE DEF new
<1>4. /\ reviewing' \in [Requests -> Review!Request]
      /\ reviewing'[r] = new /\ \A q \in Requests \ {r} : reviewing'[q] = reviewing[q]
  BY <1>1, <1>2, <1>3
<1>5. /\ UNCHANGED <<infected, document, auditUp, audited>>
      /\ reviewing[r].at = "new"
      /\ reviewRaced' = (reviewRaced \/ \E q \in Requests : Review!InFlight(q))
  BY DEF Review!Start
<1>6. Review!TypeOK'
  BY <1>4, <1>5 DEF ReviewIndInv, Review!TypeOK
<1>7. TwoPeople(document)'
  BY <1>5 DEF ReviewIndInv, TwoPeople
<1>8. \A q \in Requests : CopyIsChecked(q)'
  BY <1>2, <1>4, <1>7 DEF ReviewIndInv, CopyIsChecked, TwoPeople
<1>9. Review!InfectedStaysOut'
  BY <1>5 DEF ReviewIndInv, Review!InfectedStaysOut
<1>10. OneAtATime'
  <2> SUFFICES ASSUME ~reviewRaced' PROVE OneAtATime'
    BY DEF OneAtATime
  <2>1. ~reviewRaced /\ \A q \in Requests : ~Review!InFlight(q)
    BY <1>1, <1>5
  <2>2. \A q \in Requests : Review!InFlight(q)' => q = r
    BY <1>4, <2>1 DEF Review!InFlight
  <2>3. \A q \in Requests : reviewing'[q].at = "save" => q = r /\ reviewing'[q].copy = document'
    BY <1>2, <1>4, <1>5, <2>1 DEF Review!InFlight
  <2> QED
    BY <2>2, <2>3 DEF OneAtATime
<1> QED
  BY <1>6, <1>7, <1>8, <1>9, <1>10 DEF ReviewIndInv

(* The write of a handler keeps the promise, whatever was stored since it  *)
(* read (services.py:650-694, 734-745).                                    *)
LEMMA ReviewSave ==
    ASSUME ReviewIndInv, NEW r \in Requests, Review!Save(r)
    PROVE  ReviewIndInv'
<1> DEFINE c == reviewing[r].copy
           new == [reviewing[r] EXCEPT !.at = "audit"]
<1>1. reviewing \in [Requests -> Review!Request] /\ reviewing[r].at = "save"
  BY DEF ReviewIndInv, Review!TypeOK, Review!Save
<1>2. c \in Review!Document /\ reviewing[r].by \in People /\ CopyIsChecked(r)
  BY <1>1 DEF ReviewIndInv, Review!Request, CopyIsChecked
<1>3. document' \in Review!Document /\ TwoPeople(document)'
  <2>1. PICK u \in People : u = reviewing[r].by
    BY <1>2
  <2>2. u # None
    BY PeopleAssumption
  <2>3. PICK d \in Review!Document : d = c
    BY <1>2
  <2>4. CASE reviewing[r].call = "review" /\ d.status = "SCAN_PASSED"
    <3>1. document' = [d EXCEPT !.status = "UNDER_REVIEW", !.reviewed_by = u]
      BY <2>1, <2>3, <2>4 DEF Review!Save, Review!Updated
    <3>2. d.released_by = None
      BY <1>1, <1>2, <2>3, <2>4 DEF CopyIsChecked, TwoPeople
    <3> QED
      BY <2>2, <3>1, <3>2 DEF Review!Document, Review!Statuses, TwoPeople
  <2>5. CASE reviewing[r].call = "release" /\ d.status = "UNDER_REVIEW"
    <3>1. document' = [d EXCEPT !.status = "RELEASED", !.released_by = u]
      BY <2>1, <2>3, <2>5 DEF Review!Save, Review!Updated
    <3>2. d.reviewed_by # None /\ u # uploader
      BY <1>1, <1>2, <2>1, <2>3, <2>5 DEF CopyIsChecked, TwoPeople
    <3> QED
      BY <2>2, <3>1, <3>2 DEF Review!Document, Review!Statuses, TwoPeople
  <2>6. CASE reviewing[r].call = "quarantine"
    <3>1. document' = [d EXCEPT !.status = "QUARANTINED", !.released_by = None]
      BY <2>1, <2>3, <2>6 DEF Review!Save, Review!Updated
    <3> QED
      BY <3>1 DEF Review!Document, Review!Statuses, TwoPeople
  <2> QED
    BY <1>1, <1>2, <2>3, <2>4, <2>5, <2>6 DEF CopyIsChecked
<1>4. new \in Review!Request /\ new.at = "audit"
  BY <1>1 DEF Review!Request, Review!Points
<1>5. reviewing' = [reviewing EXCEPT ![r] = new]
  BY <1>1 DEF Review!Save
<1> HIDE DEF new
<1>6. /\ reviewing' \in [Requests -> Review!Request]
      /\ reviewing'[r] = new /\ \A q \in Requests \ {r} : reviewing'[q] = reviewing[q]
  BY <1>1, <1>4, <1>5
<1>7. UNCHANGED <<infected, auditUp, audited, reviewRaced>>
  BY DEF Review!Save
<1>8. Review!TypeOK'
  BY <1>3, <1>6, <1>7 DEF ReviewIndInv, Review!TypeOK
<1>9. \A q \in Requests : CopyIsChecked(q)'
  BY <1>4, <1>6 DEF ReviewIndInv, CopyIsChecked, TwoPeople
<1>10. ~infected
  BY <1>1 DEF ReviewIndInv, Review!InfectedStaysOut
<1>11. Review!InfectedStaysOut'
  BY <1>7, <1>10 DEF Review!InfectedStaysOut
<1>12. OneAtATime'
  <2> SUFFICES ASSUME ~reviewRaced' PROVE OneAtATime'
    BY DEF OneAtATime
  <2>1. ~reviewRaced
    BY <1>7
  <2>2. \A q \in Requests : Review!InFlight(q) => q = r
    BY <1>1, <2>1 DEF ReviewIndInv, OneAtATime, Review!InFlight
  <2>3. \A q \in Requests : Review!InFlight(q)' => q = r
    BY <1>6, <2>2 DEF Review!InFlight
  <2>4. \A q \in Requests : reviewing'[q].at # "save"
    BY <1>4, <1>6, <2>2 DEF Review!InFlight
  <2> QED
    BY <2>3, <2>4 DEF OneAtATime
<1> QED
  BY <1>3, <1>8, <1>9, <1>11, <1>12 DEF ReviewIndInv

(* A handler that has written, or hands out the bytes, only moves on       *)
(* (695-719, 747-781).                                                     *)
LEMMA ReviewMoveOn ==
    ASSUME ReviewIndInv, NEW r \in Requests, Review!Audit(r) \/ Review!ReadBytes(r)
    PROVE  ReviewIndInv'
<1>1. /\ reviewing \in [Requests -> Review!Request]
      /\ reviewing[r].at \in {"audit", "bytes"} /\ audited \in SUBSET Requests
  BY DEF ReviewIndInv, Review!TypeOK, Review!Audit, Review!ReadBytes
<1>2. PICK point \in {"returned", "raised"} :
         reviewing' = [reviewing EXCEPT ![r].at = point]
  BY DEF Review!Audit, Review!ReadBytes
<1> DEFINE new == [reviewing[r] EXCEPT !.at = point]
<1>3. new \in Review!Request /\ new.at = point
  BY <1>1 DEF Review!Request, Review!Points
<1>4. reviewing' = [reviewing EXCEPT ![r] = new]
  BY <1>1, <1>2
<1> HIDE DEF new
<1>5. /\ reviewing' \in [Requests -> Review!Request]
      /\ reviewing'[r] = new /\ \A q \in Requests \ {r} : reviewing'[q] = reviewing[q]
  BY <1>1, <1>3, <1>4
<1>6. UNCHANGED <<infected, document, auditUp, reviewRaced>> /\ audited' \in SUBSET Requests
  BY <1>1 DEF Review!Audit, Review!ReadBytes
<1>7. Review!TypeOK' /\ TwoPeople(document)'
  BY <1>5, <1>6 DEF ReviewIndInv, Review!TypeOK, TwoPeople
<1>8. \A q \in Requests : CopyIsChecked(q)'
  BY <1>3, <1>5 DEF ReviewIndInv, CopyIsChecked, TwoPeople
<1>9. Review!InfectedStaysOut'
  BY <1>1, <1>6 DEF ReviewIndInv, Review!InfectedStaysOut
<1>10. OneAtATime'
  BY <1>1, <1>3, <1>5, <1>6 DEF ReviewIndInv, OneAtATime, Review!InFlight
<1> QED
  BY <1>7, <1>8, <1>9, <1>10 DEF ReviewIndInv

(* Every step of review keeps the invariant. *)
LEMMA ReviewNext ==
    ReviewIndInv /\ [Review!Next]_(Review!vars) => ReviewIndInv'
<1> SUFFICES ASSUME ReviewIndInv, [Review!Next]_(Review!vars) PROVE ReviewIndInv'
  OBVIOUS
<1>1. ASSUME NEW r \in Requests, NEW u \in People,
             \/ Review!StartReview(r, u) \/ Review!StartRelease(r, u)
             \/ Review!StartQuarantine(r, u) \/ Review!StartDownload(r, u)
      PROVE  ReviewIndInv'
  BY <1>1, ReviewStart DEF Review!StartReview, Review!StartRelease,
     Review!StartQuarantine, Review!StartDownload, Review!downloadable_statuses
<1>2. CASE Review!ToggleAudit
  BY <1>2 DEF Review!ToggleAudit, ReviewIndInv, Review!TypeOK, TwoPeople, CopyIsChecked,
     Review!InfectedStaysOut, OneAtATime, Review!InFlight
<1>3. CASE UNCHANGED Review!vars
  BY <1>3 DEF Review!vars, ReviewIndInv, Review!TypeOK, TwoPeople, CopyIsChecked,
     Review!InfectedStaysOut, OneAtATime, Review!InFlight
<1> QED
  BY <1>1, <1>2, <1>3, ReviewSave, ReviewMoveOn DEF Review!Next

(* In every behaviour of review, overlapping calls included, the stored    *)
(* document and every copy in flight keep the two-person rule              *)
(* (services.py:632-781).                                                  *)
THEOREM ReviewInvariance == Review!Spec => []ReviewIndInv
<1>1. Review!Init => ReviewIndInv
  BY ReviewInit
<1> QED
  BY <1>1, ReviewNext, PTL DEF Review!Spec

(* However review, release and quarantine overlap, for any number of       *)
(* people and calls: a visible document was reviewed and was released by   *)
(* another than its uploader, and an infected one is never put to use      *)
(* (services.py:646, 681-694, 772).                                        *)
THEOREM ReviewIsDualControlled ==
    /\ Review!Spec => []Review!ReviewInv
    /\ MCSpec => []ReviewInv
<1> DEFINE Inv == focus = "review" => ReviewIndInv
<1>1. ReviewIndInv => Review!ReviewInv
  BY DEF ReviewIndInv, TwoPeople, Review!ReviewInv, Review!MakerChecker, Review!Visible
<1>2. Review!Spec => []Review!ReviewInv
  BY <1>1, ReviewInvariance, PTL
<1>3. MCInit => Inv
  BY ReviewInit DEF MCInit
<1>4. MCNext /\ focus' = "review" =>
        focus = "review" /\ [Review!Next]_(Review!vars)
  BY Zenon DEF MCNext
<1>5. UNCHANGED <<focus, auditUp, uploadVars, reviewVars, linkVars>> =>
        UNCHANGED focus /\ UNCHANGED Review!vars
  BY Zenon DEF Review!vars, reviewVars
<1>6. Inv /\ [MCNext]_<<focus, auditUp, uploadVars, reviewVars, linkVars>> => Inv'
  BY <1>4, <1>5, ReviewNext
<1>7. Inv => ReviewInv
  BY <1>1 DEF ReviewInv
<1>8. MCSpec => []ReviewInv
  <2> HIDE DEF Inv
  <2> QED
    BY <1>3, <1>6, <1>7, PTL DEF MCSpec
<1> QED
  BY <1>2, <1>8

(* Without overlapping calls quarantine is final: the call that writes has *)
(* read the quarantined document and would have refused it                 *)
(* (services.py:646, 675, 727, 772).                                       *)
THEOREM QuarantineLasts == Review!Spec => QuarantineIsFinal
<1> DEFINE Stays == ~reviewRaced /\ document.status = "QUARANTINED" =>
                       /\ document' = document
                       /\ \A r \in Requests : reviewing'[r].call = "download" =>
                              reviewing[r].call = "download"
<1>1. ReviewIndInv /\ [Review!Next]_(Review!vars) => [Stays]_(Review!vars)
  <2> SUFFICES ASSUME ReviewIndInv, Review!Next, ~reviewRaced,
                      document.status = "QUARANTINED"
               PROVE  /\ document' = document
                      /\ \A r \in Requests : reviewing'[r].call = "download" =>
                              reviewing[r].call = "download"
    OBVIOUS
  <2>1. reviewing \in [Requests -> Review!Request]
    BY DEF ReviewIndInv, Review!TypeOK
  <2>2. \A r \in Requests : reviewing[r].at # "save"
    BY DEF ReviewIndInv, OneAtATime, CopyIsChecked
  <2>3. \A r \in Requests : ~Review!Save(r)
    BY <2>2 DEF Review!Save
  <2>4. \A r \in Requests, u \in People :
           /\ ~Review!StartReview(r, u) /\ ~Review!StartRelease(r, u)
           /\ ~Review!StartQuarantine(r, u) /\ ~Review!StartDownload(r, u)
    BY DEF Review!StartReview, Review!StartRelease, Review!StartQuarantine,
       Review!StartDownload, Review!downloadable_statuses
  <2>5. ASSUME NEW r \in Requests, Review!Audit(r) \/ Review!ReadBytes(r)
        PROVE  /\ document' = document
               /\ \A q \in Requests : reviewing'[q].call = reviewing[q].call
    BY <2>1, <2>5 DEF Review!Audit, Review!ReadBytes, Review!Request
  <2>6. CASE Review!ToggleAudit
    BY <2>6 DEF Review!ToggleAudit
  <2> QED
    BY <2>3, <2>4, <2>5, <2>6 DEF Review!Next
<1> QED
  BY <1>1, ReviewInvariance, PTL DEF Review!Spec, QuarantineIsFinal, Review!QuarantineIsFinal

-----------------------------------------------------------------------------
(* The links of a unit.                                                    *)

(* Two active links of one kind are OPEN, those in exempt apart. *)
Settled(exempt) ==
    \A k, l \in Requests :
        Links!Conflicting(k, l) => k \in exempt \/ link[k].conflict = "OPEN"

IsActive(l) == l \in Links!list_active_links

(* What a call that is alone knows: what it listed is stored as it listed  *)
(* it, and which conflicts it has still to open or to end                  *)
(* (services.py:1255-1304, 1330-1403).                                     *)
WorksAlone(r) ==
    LET q == linking[r] IN
    /\ q.at \in {"existing", "kind", "store", "resolve", "detach"} => Settled({})
    /\ q.at = "reopen" => Settled(q.todo)
    /\ q.at \in {"others", "detach_others"} => Settled({q.link})
    /\ q.at \in {"existing", "kind", "store"} => link[r].document = None
    /\ q.at \in {"kind", "store"} =>
         \A l \in Requests : IsActive(l) => link[l].document # q.document
    /\ q.at = "store" =>
         \A l \in Requests : IsActive(l) /\ Links!SameKind(l, q.document) => l \in q.todo
    /\ q.at \in {"store", "reopen", "detach_others"} =>
         \A l \in q.todo : IsActive(l) /\ q.copy[l] = link[l]
    /\ q.at \in {"resolve", "others", "detach_others", "detach"} =>
         q.link \in Requests /\ IsActive(q.link)
    /\ q.at \in {"resolve", "detach"} => q.copy[q.link] = link[q.link]
    /\ q.at = "others" => q.copy[q.link].document = link[q.link].document
    /\ q.at = "detach_others" =>
         /\ q.link \notin q.todo
         /\ \A k \in Requests : Links!Conflicting(k, q.link) => k \in q.todo

(* As long as no two calls overlapped. *)
LinksAreSequential ==
    ~linkRaced =>
        /\ \A q, r \in Requests : Links!InFlight(q) /\ Links!InFlight(r) => q = r
        /\ \A r \in Requests : Links!InFlight(r) => WorksAlone(r)
        /\ \A r \in Requests : linking[r].at = "new" => link[r].document = None
        /\ Links!Quiescent => Settled({})

(* The inductive invariant of links. *)
LinksIndInv ==
    /\ Links!TypeOK
    /\ Links!OneLinkPerDocument
    /\ LinksAreSequential

(* Nothing is linked and no handler has been called. *)
LEMMA LinksInit == Links!Init => LinksIndInv
<1> SUFFICES ASSUME Links!Init PROVE LinksIndInv
  OBVIOUS
<1>1. Links!NoLink \in Links!Link /\ Links!NoLink.document = None
  BY DEF Links!NoLink, Links!Link, Links!ConflictStates
<1>2. Links!NoRequest \in Links!Request /\ Links!NoRequest.at = "new"
  BY <1>1 DEF Links!NoRequest, Links!Request, Links!Points
<1>3. Links!TypeOK
  BY <1>1, <1>2 DEF Links!Init, Links!TypeOK
<1>4. \A l \in Requests : ~IsActive(l)
  BY <1>1 DEF Links!Init, IsActive, Links!list_active_links
<1>5. \A r \in Requests : linking[r].at = "new" /\ link[r].document = None
  BY <1>1, <1>2 DEF Links!Init
<1>6. \A r \in Requests : ~Links!InFlight(r)
  BY <1>5 DEF Links!InFlight
<1>7. Settled({})
  BY <1>4 DEF Settled, IsActive, Links!Conflicting
<1>8. Links!OneLinkPerDocument
  BY <1>4 DEF IsActive, Links!OneLinkPerDocument, Links!list_active_links
<1> QED
  BY <1>3, <1>5, <1>6, <1>7, <1>8 DEF LinksIndInv, LinksAreSequential

(* A call that returns forgets what it held; any other call goes on as it  *)
(* says.                                                                   *)
LEMMA ContinueFacts ==
    ASSUME Links!TypeOK, NEW r \in Requests, NEW s \in Links!Request, Links!Continue(r, s)
    PROVE  /\ linking' \in [Requests -> Links!Request]
           /\ linking'[r].at = s.at
           /\ s.at # "returned" => linking'[r] = s
           /\ \A q \in Requests \ {r} : linking'[q] = linking[q]
<1>1. Links!NoRequest \in Links!Request
  BY DEF Links!NoRequest, Links!Request, Links!Points, Links!NoLink, Links!Link,
         Links!ConflictStates
<1>2. [Links!NoRequest EXCEPT !.at = "returned"] \in Links!Request
      /\ [Links!NoRequest EXCEPT !.at = "returned"].at = "returned"
  BY <1>1 DEF Links!Request, Links!Points
<1>3. linking \in [Requests -> Links!Request]
  BY DEF Links!TypeOK
<1> QED
  BY <1>2, <1>3 DEF Links!Continue

(* A step of the one call in flight keeps the invariant when what that     *)
(* call knows stays true and no link of a call to come is written.         *)
LEMMA AloneKeeps ==
    ASSUME LinksIndInv, NEW r \in Requests, Links!InFlight(r),
           Links!TypeOK', linkRaced' = linkRaced,
           \A q \in Requests \ {r} : linking'[q] = linking[q],
           ~linkRaced =>
             /\ Links!InFlight(r)' => WorksAlone(r)'
             /\ ~Links!InFlight(r)' => Settled({})'
             /\ linking'[r].at # "new"
             /\ \A l \in Requests : link[l].document = None /\ l # r =>
                  link'[l].document = None
             /\ Links!OneLinkPerDocument'
    PROVE  LinksIndInv'
<1>1. CASE linkRaced
  BY <1>1 DEF LinksIndInv, LinksAreSequential, Links!OneLinkPerDocument
<1>2. CASE ~linkRaced
  <2>1. \A q \in Requests \ {r} : ~Links!InFlight(q) /\ ~Links!InFlight(q)'
    BY <1>2 DEF LinksIndInv, LinksAreSequential, Links!InFlight
  <2>2. \A q \in Requests : linking'[q].at = "new" => link'[q].document = None
    BY <1>2 DEF LinksIndInv, LinksAreSequential
  <2>3. Links!Quiescent' => Settled({})'
    BY <1>2 DEF Links!Quiescent, Links!InFlight
  <2> QED
    BY <1>2, <2>1, <2>2, <2>3 DEF LinksIndInv, LinksAreSequential
<1> QED
  BY <1>1, <1>2

(* What the links look like decides what is active, in conflict, settled.  *)
LEMMA LinkUnchanged ==
    ASSUME UNCHANGED <<link, linkRaced>>
    PROVE  /\ \A l : IsActive(l)' = IsActive(l)
           /\ \A k, l : Links!Conflicting(k, l)' = Links!Conflicting(k, l)
           /\ \A l, d : Links!SameKind(l, d)' = Links!SameKind(l, d)
           /\ Links!OneLinkPerDocument' = Links!OneLinkPerDocument
  BY DEF IsActive, Links!list_active_links, Links!Conflicting, Links!SameKind,
         Links!OneLinkPerDocument

(* A call that starts has read the links as they are stored. *)
LEMMA LinksStart ==
    ASSUME LinksIndInv, NEW r \in Requests, NEW point \in {"existing", "resolve", "detach"},
           NEW d \in LinkedDocuments \cup {None}, NEW l \in Requests \cup {None},
           point # "existing" => l \in Requests /\ IsActive(l),
           Links!Start(r, point, d, l)
    PROVE  LinksIndInv'
<1>1. Links!TypeOK
  BY DEF LinksIndInv
<1>2. Links!NoRequest \in Links!Request
  BY DEF Links!NoRequest, Links!Request, Links!Points, Links!NoLink, Links!Link,
         Links!ConflictStates
<1>3. /\ linking[r].at = "new" /\ link' = link
      /\ linking' = [linking EXCEPT ![r] =
           [Links!NoRequest EXCEPT !.at = point, !.document = d, !.link = l, !.copy = link]]
      /\ linkRaced' = (linkRaced \/ \E q \in Requests : Links!InFlight(q))
  BY DEF Links!Start
<1>4. PICK s \in Links!Request :
        /\ linking'[r] = s
        /\ s.at = point /\ s.document = d /\ s.link = l /\ s.copy = link
  <2> DEFINE t == [Links!NoRequest EXCEPT !.at = point, !.document = d, !.link = l,
                                         !.copy = link]
  <2>1. t \in Links!Request
    BY <1>1, <1>2 DEF Links!TypeOK, Links!Request, Links!Points
  <2>2. t.at = point /\ t.document = d /\ t.link = l /\ t.copy = link
    BY <1>2 DEF Links!Request
  <2>3. linking'[r] = t
    BY <1>1, <1>3 DEF Links!TypeOK
  <2> QED
    BY <2>1, <2>2, <2>3
<1>5. \A q \in Requests \ {r} : linking'[q] = linking[q]
  BY <1>1, <1>3 DEF Links!TypeOK
<1>6. Links!TypeOK'
  BY <1>1, <1>3, <1>4, <1>5 DEF Links!TypeOK
<1>7. Links!OneLinkPerDocument'
  BY <1>3 DEF LinksIndInv, Links!OneLinkPerDocument, Links!list_active_links
<1>8. ASSUME ~linkRaced'
      PROVE  LinksAreSequential'
  <2>1. /\ \A q \in Requests : ~Links!InFlight(q)
        /\ Links!InFlight(r)' /\ \A q \in Requests \ {r} : ~Links!InFlight(q)'
    BY <1>3, <1>4, <1>5, <1>8 DEF Links!InFlight
  <2>2. Settled({}) /\ link[r].document = None
    BY <1>3, <1>8, <2>1 DEF LinksIndInv, LinksAreSequential, Links!Quiescent
  <2>3. Settled({})'
    BY <1>3, <2>2 DEF Settled, Links!Conflicting, Links!list_active_links
  <2>4. WorksAlone(r)'
    BY <1>3, <1>4, <2>2, <2>3 DEF WorksAlone, IsActive, Links!list_active_links
  <2>5. \A q \in Requests : linking'[q].at = "new" => link'[q].document = None
    BY <1>3, <1>4, <1>5, <1>8 DEF LinksIndInv, LinksAreSequential
  <2> QED
    BY <2>1, <2>4, <2>5 DEF LinksAreSequential, Links!Quiescent
<1> QED
  BY <1>6, <1>7, <1>8 DEF LinksIndInv, LinksAreSequential

(* A listing step writes no link; what the call then knows follows from    *)
(* what is stored.                                                         *)
LEMMA LinksList ==
    ASSUME LinksIndInv, NEW r \in Requests,
           Links!FindExisting(r) \/ Links!ListSameKind(r) \/ Links!ListOthers(r)
    PROVE  LinksIndInv'
<1>1. /\ Links!TypeOK /\ linking[r] \in Links!Request /\ link \in [Requests -> Links!Link]
  BY DEF LinksIndInv, Links!TypeOK
<1>2. Links!list_active_links \subseteq Requests
  BY DEF Links!list_active_links
<1>3. UNCHANGED <<link, linkRaced>> /\ Links!InFlight(r)
  BY DEF Links!FindExisting, Links!ListSameKind, Links!ListOthers, Links!InFlight
<1>4. ~linkRaced => WorksAlone(r)
  BY <1>3 DEF LinksIndInv, LinksAreSequential
<1>5. \A l \in Requests : IsActive(l)' = IsActive(l)
  BY <1>3, LinkUnchanged
<1>6. \A e : Settled(e)' = Settled(e)
  BY <1>3 DEF Settled, Links!Conflicting, Links!list_active_links
<1>7. Links!OneLinkPerDocument'
  BY <1>3, LinkUnchanged DEF LinksIndInv
<1>8. CASE Links!FindExisting(r)
  <2>1. PICK s \in Links!Request :
          /\ Links!Continue(r, s) /\ s = [linking[r] EXCEPT !.at = s.at]
          /\ s.at \in {"returned", "kind"}
          /\ s.at = "kind" => \A l \in Requests : IsActive(l) =>
                                link[l].document # linking[r].document
    BY <1>1, <1>8 DEF Links!FindExisting, Links!Goto, Links!Request, Links!Points, IsActive
  <2>2. /\ linking' \in [Requests -> Links!Request] /\ linking'[r].at = s.at
        /\ s.at # "returned" => linking'[r] = s
        /\ \A q \in Requests \ {r} : linking'[q] = linking[q]
    BY <1>1, <2>1, ContinueFacts
  <2>3. Links!TypeOK'
    BY <1>1, <1>3, <2>2 DEF Links!TypeOK
  <2>4. linking[r].at = "existing"
    BY <1>8 DEF Links!FindExisting
  <2>5. ASSUME ~linkRaced PROVE Settled({}) /\ link[r].document = None
    BY <1>4, <2>4, <2>5 DEF WorksAlone
  <2>6. s.document = linking[r].document
    BY <1>1, <2>1 DEF Links!Request
  <2>7. ASSUME ~linkRaced, s.at = "kind" PROVE WorksAlone(r)'
    BY <1>3, <1>5, <1>6, <2>1, <2>2, <2>5, <2>6, <2>7 DEF WorksAlone
  <2> QED
    BY <1>3, <1>6, <1>7, <2>1, <2>2, <2>3, <2>5, <2>7, AloneKeeps DEF Links!InFlight
<1>9. CASE Links!ListSameKind(r)
  <2>1. PICK s \in Links!Request :
          /\ Links!Continue(r, s) /\ s.at = "store" /\ s.copy = link
          /\ s.document = linking[r].document
          /\ \A l : l \in s.todo <=> IsActive(l) /\ Links!SameKind(l, s.document)
    <3> DEFINE s == [linking[r] EXCEPT !.at = "store", !.copy = link,
             !.todo = {l \in Links!list_active_links :
                         Links!SameKind(l, linking[r].document)}]
    <3>1. s \in Links!Request
      BY <1>1, <1>2 DEF Links!Request, Links!Points
    <3>2. s.at = "store" /\ s.copy = link /\ s.document = linking[r].document
          /\ s.todo = {l \in Links!list_active_links :
                         Links!SameKind(l, linking[r].document)}
      BY <1>1 DEF Links!Request
    <3>3. Links!Continue(r, s)
      BY <1>9 DEF Links!ListSameKind
    <3> QED
      BY <3>1, <3>2, <3>3 DEF IsActive
  <2>2. /\ linking' \in [Requests -> Links!Request] /\ linking'[r] = s
        /\ \A q \in Requests \ {r} : linking'[q] = linking[q]
    BY <1>1, <2>1, ContinueFacts
  <2>3. Links!TypeOK'
    BY <1>1, <1>3, <2>2 DEF Links!TypeOK
  <2>4. linking[r].at = "kind"
    BY <1>9 DEF Links!ListSameKind
  <2>5. ASSUME ~linkRaced
        PROVE  /\ Settled({}) /\ link[r].document = None
               /\ \A l \in Requests : IsActive(l) => link[l].document # linking[r].document
    BY <1>4, <2>4, <2>5 DEF WorksAlone
  <2>6. \A l, d : Links!SameKind(l, d)' = Links!SameKind(l, d)
    BY <1>3, LinkUnchanged
  <2>7. s.todo \subseteq Requests
    BY DEF Links!Request
  <2>8. ASSUME ~linkRaced PROVE WorksAlone(r)'
    BY <1>3, <1>5, <1>6, <2>1, <2>2, <2>5, <2>6, <2>7, <2>8 DEF WorksAlone
  <2> QED
    BY <1>3, <1>7, <2>1, <2>2, <2>3, <2>8, AloneKeeps DEF Links!InFlight
<1>10. CASE Links!ListOthers(r)
  <2> DEFINE l0 == linking[r].link
             others == {l \in Links!list_active_links \ {l0} :
                          Links!SameKind(l, linking[r].copy[l0].document)}
  <2>1. PICK s \in Links!Request :
          /\ Links!Continue(r, s) /\ s.copy = link /\ s.link = l0 /\ s.todo = others
          /\ s.at = IF others = {} THEN "returned" ELSE "detach_others"
    <3> DEFINE t == [linking[r] EXCEPT
             !.at = IF others = {} THEN "returned" ELSE "detach_others",
             !.todo = others, !.copy = link]
    <3>1. others \subseteq Requests
      BY <1>2
    <3> HIDE DEF others
    <3>2. t \in Links!Request
      BY <1>1, <3>1 DEF Links!Request, Links!Points
    <3>3. /\ t.copy = link /\ t.link = l0 /\ t.todo = others
          /\ t.at = IF others = {} THEN "returned" ELSE "detach_others"
      BY <1>1 DEF Links!Request
    <3>4. Links!Continue(r, t)
      BY <1>10 DEF Links!ListOthers, others
    <3> QED
      BY <3>2, <3>3, <3>4
  <2>2. /\ linking' \in [Requests -> Links!Request] /\ linking'[r].at = s.at
        /\ s.at # "returned" => linking'[r] = s
        /\ \A q \in Requests \ {r} : linking'[q] = linking[q]
    BY <1>1, <2>1, ContinueFacts
  <2>3. Links!TypeOK'
    BY <1>1, <1>3, <2>2 DEF Links!TypeOK
  <2>4. linking[r].at = "others"
    BY <1>10 DEF Links!ListOthers
  <2>5. ASSUME ~linkRaced
        PROVE  /\ Settled({l0}) /\ l0 \in Requests /\ IsActive(l0)
               /\ linking[r].copy[l0].document = link[l0].document
    BY <1>4, <2>4, <2>5 DEF WorksAlone
  <2>6. ASSUME ~linkRaced
        PROVE  \A k \in Requests : Links!Conflicting(k, l0) \/ Links!Conflicting(l0, k)
                 => k \in others
    BY <2>5, <2>6 DEF Links!Conflicting, Links!SameKind
  <2>7. \A k, l : Links!Conflicting(k, l)' = Links!Conflicting(k, l)
    BY <1>3, LinkUnchanged
  <2>8. ASSUME ~linkRaced, others = {} PROVE Settled({})'
    <3> HIDE DEF others
    <3> QED
      BY <1>3, <2>5, <2>6, <2>7, <2>8 DEF Settled
  <2>9. ASSUME ~linkRaced, others # {} PROVE WorksAlone(r)'
    <3>1. \A l \in others : l \in Requests /\ IsActive(l) /\ l # l0
      BY <1>2 DEF IsActive
    <3> HIDE DEF others
    <3>2. linking'[r] = s /\ s.at = "detach_others"
      BY <2>1, <2>2, <2>9
    <3>3. l0 = s.link /\ l0 \notin s.todo
      BY <2>1, <3>1
    <3> QED
      BY <1>3, <1>5, <1>6, <2>1, <2>5, <2>6, <2>7, <2>9, <3>1, <3>2, <3>3 DEF WorksAlone
  <2>10. others = {} => s.at = "returned"
    BY <2>1
  <2>11. others # {} => s.at = "detach_others"
    BY <2>1
  <2> HIDE DEF others
  <2> QED
    BY <1>3, <1>7, <2>1, <2>2, <2>3, <2>8, <2>9, <2>10, <2>11, AloneKeeps DEF Links!InFlight
<1> QED
  BY <1>8, <1>9, <1>10

(* Writing an active link back for its document makes no new conflict.     *)
LEMMA LinkWritten ==
    ASSUME link \in [Requests -> Links!Link], NEW l \in Requests, NEW w \in Links!Link,
           IsActive(l), w.document = link[l].document, link' = [link EXCEPT ![l] = w]
    PROVE  /\ link'[l] = w /\ \A k \in Requests \ {l} : link'[k] = link[k]
           /\ \A k \in Requests : link'[k].document = link[k].document
           /\ \A k \in Requests \ {l} : IsActive(k)' = IsActive(k)
           /\ IsActive(l)' = ~w.detached
           /\ \A k, m \in Requests : Links!Conflicting(k, m)' =>
                Links!Conflicting(k, m) /\ IsActive(k)' /\ IsActive(m)'
           /\ Links!OneLinkPerDocument /\ ~linkRaced => Links!OneLinkPerDocument'
<1>1. link'[l] = w /\ \A k \in Requests \ {l} : link'[k] = link[k]
  OBVIOUS
<1>2. \A k \in Requests : link'[k].document = link[k].document
  BY <1>1
<1>3. \A k \in Requests \ {l} : IsActive(k)' = IsActive(k)
  BY <1>1 DEF IsActive, Links!list_active_links
<1>4. IsActive(l)' = ~w.detached
  BY <1>1 DEF IsActive, Links!list_active_links
<1>5. \A k \in Requests : IsActive(k)' => IsActive(k)
  BY <1>3
<1>6. ASSUME NEW k \in Requests, NEW m \in Requests, Links!Conflicting(k, m)'
      PROVE  Links!Conflicting(k, m) /\ IsActive(k)' /\ IsActive(m)'
  <2>1. k # m /\ IsActive(k)' /\ IsActive(m)'
        /\ KindOf[link'[k].document] = KindOf[link'[m].document]
    BY <1>6 DEF Links!Conflicting, IsActive
  <2> QED
    BY <1>2, <1>5, <2>1 DEF Links!Conflicting, IsActive
<1>7. Links!OneLinkPerDocument /\ ~linkRaced => Links!OneLinkPerDocument'
  <2> SUFFICES ASSUME Links!OneLinkPerDocument, ~linkRaced,
                      NEW k \in Requests, NEW m \in Requests, IsActive(k)', IsActive(m)',
                      link'[k].document = link'[m].document
               PROVE  k = m
    BY DEF Links!OneLinkPerDocument, IsActive, Links!list_active_links
  <2> QED
    BY <1>2, <1>5 DEF Links!OneLinkPerDocument, IsActive
<1> QED
  BY <1>1, <1>2, <1>3, <1>4, <1>6, <1>7

(* The new link is stored; the active ones of its kind are still to be     *)
(* reopened.                                                               *)
LEMMA LinksStore ==
    ASSUME LinksIndInv, NEW r \in Requests, Links!Store(r)
    PROVE  LinksIndInv'
<1> DEFINE d == linking[r].document
           todo == linking[r].todo
<1>1. /\ Links!TypeOK /\ linking[r] \in Links!Request /\ link \in [Requests -> Links!Link]
      /\ todo \subseteq Requests /\ d \in LinkedDocuments \cup {None}
  BY DEF LinksIndInv, Links!TypeOK, Links!Request
<1>2. /\ linking[r].at = "store" /\ Links!InFlight(r) /\ linkRaced' = linkRaced
      /\ link' = [link EXCEPT ![r] =
           [document |-> d, detached |-> FALSE,
            conflict |-> IF todo = {} THEN "NONE" ELSE "OPEN"]]
      /\ Links!Continue(r, [linking[r] EXCEPT
                              !.at = IF todo = {} THEN "returned" ELSE "reopen"])
  BY DEF Links!Store, Links!Goto, Links!InFlight
<1>3. PICK s \in Links!Request :
        /\ Links!Continue(r, s) /\ s.todo = todo /\ s.copy = linking[r].copy
        /\ s.at = IF todo = {} THEN "returned" ELSE "reopen"
  <2> DEFINE t == [linking[r] EXCEPT !.at = IF todo = {} THEN "returned" ELSE "reopen"]
  <2>1. t \in Links!Request
    BY <1>1 DEF Links!Request, Links!Points
  <2>2. /\ t.todo = todo /\ t.copy = linking[r].copy
        /\ t.at = IF todo = {} THEN "returned" ELSE "reopen"
    BY <1>1 DEF Links!Request
  <2> QED
    BY <1>2, <2>1, <2>2
<1>4. /\ linking' \in [Requests -> Links!Request] /\ linking'[r].at = s.at
      /\ s.at # "returned" => linking'[r] = s
      /\ \A q \in Requests \ {r} : linking'[q] = linking[q]
  BY <1>1, <1>3, ContinueFacts
<1>5. /\ link'[r].document = d /\ ~link'[r].detached
      /\ todo # {} => link'[r].conflict = "OPEN"
      /\ \A k \in Requests \ {r} : link'[k] = link[k]
  BY <1>1, <1>2
<1>6. link' \in [Requests -> Links!Link]
  BY <1>1, <1>2 DEF Links!Link, Links!ConflictStates
<1>7. Links!TypeOK'
  BY <1>1, <1>2, <1>4, <1>6 DEF Links!TypeOK
<1> HIDE DEF d, todo
<1>8. ASSUME ~linkRaced
      PROVE  /\ Links!InFlight(r)' => WorksAlone(r)'
             /\ ~Links!InFlight(r)' => Settled({})'
             /\ Links!OneLinkPerDocument'
  <2>1. WorksAlone(r)
    BY <1>2, <1>8 DEF LinksIndInv, LinksAreSequential
  <2>2. /\ Settled({}) /\ link[r].document = None
        /\ \A l \in Requests : IsActive(l) => link[l].document # d
        /\ \A l \in Requests : IsActive(l) /\ Links!SameKind(l, d) => l \in todo
        /\ \A l \in todo : IsActive(l) /\ linking[r].copy[l] = link[l]
    BY <1>2, <2>1 DEF WorksAlone, d, todo
  <2>3. ~IsActive(r) /\ r \notin todo
    BY <2>2 DEF IsActive, Links!list_active_links
  <2>4. \A k \in Requests \ {r} : IsActive(k)' = IsActive(k)
    BY <1>5 DEF IsActive, Links!list_active_links
  <2>5. Links!OneLinkPerDocument'
    <3> SUFFICES ASSUME NEW k \in Requests, NEW m \in Requests, IsActive(k)', IsActive(m)',
                        link'[k].document = link'[m].document, k # m
                 PROVE  FALSE
      BY DEF Links!OneLinkPerDocument, IsActive, Links!list_active_links
    <3>1. CASE k # r /\ m # r
      BY <1>5, <1>8, <2>4, <3>1 DEF LinksIndInv, Links!OneLinkPerDocument, IsActive
    <3>2. CASE k = r
      BY <1>5, <2>2, <2>4, <3>2
    <3>3. CASE m = r
      BY <1>5, <2>2, <2>4, <3>3
    <3> QED
      BY <3>1, <3>2, <3>3
  <2>6. ASSUME NEW k \in Requests, NEW m \in Requests, Links!Conflicting(k, m)'
        PROVE  \/ k = r /\ m \in todo
               \/ m = r /\ k \in todo
               \/ k # r /\ m # r /\ Links!Conflicting(k, m)
    <3>1. k # m /\ IsActive(k)' /\ IsActive(m)'
          /\ KindOf[link'[k].document] = KindOf[link'[m].document]
      BY <2>6 DEF Links!Conflicting, IsActive
    <3>2. CASE k = r
      BY <1>5, <2>2, <2>4, <3>1, <3>2 DEF Links!SameKind
    <3>3. CASE m = r
      BY <1>5, <2>2, <2>4, <3>1, <3>3 DEF Links!SameKind
    <3>4. CASE k # r /\ m # r
      BY <1>5, <2>4, <3>1, <3>4 DEF Links!Conflicting, IsActive
    <3> QED
      BY <3>2, <3>3, <3>4
  <2>7. \A k, m \in Requests : Links!Conflicting(k, m)' =>
          k \in todo \/ link'[k].conflict = "OPEN"
    BY <1>5, <2>2, <2>6 DEF Settled
  <2>8. todo = {} => Settled({})'
    BY <2>7 DEF Settled
  <2>9. CASE todo = {}
    BY <1>3, <1>4, <2>5, <2>8, <2>9 DEF Links!InFlight
  <2>10. CASE todo # {}
    <3>1. linking'[r] = s /\ s.at = "reopen" /\ s.todo = todo /\ s.copy = linking[r].copy
      BY <1>3, <1>4, <2>10
    <3>2. Settled(s.todo)'
      BY <2>7, <3>1 DEF Settled
    <3>3. \A l \in s.todo : IsActive(l)' /\ s.copy[l] = link'[l]
      BY <1>1, <1>5, <2>2, <2>3, <2>4, <3>1
    <3>4. WorksAlone(r)'
      BY <3>1, <3>2, <3>3 DEF WorksAlone, Settled
    <3> QED
      BY <2>5, <3>1, <3>4 DEF Links!InFlight
  <2> QED
    BY <2>9, <2>10
<1>9. linking'[r].at # "new"
  BY <1>3, <1>4
<1> QED
  BY <1>2, <1>4, <1>5, <1>7, <1>8, <1>9, AloneKeeps

(* The last upsert of a loop ends the call; the others leave one link less *)
(* to do.                                                                  *)
LEMMA WriteBackFacts ==
    ASSUME Links!TypeOK, NEW r \in Requests, NEW l, NEW w, Links!WriteBack(r, l, w),
           linking[r].at \in {"reopen", "detach_others"}
    PROVE  /\ l \in linking[r].todo /\ l \in Requests /\ linking[r].copy[l] \in Links!Link
           /\ linking' \in [Requests -> Links!Request]
           /\ \A q \in Requests \ {r} : linking'[q] = linking[q]
           /\ linkRaced' = linkRaced
           /\ link' = [link EXCEPT ![l] = w]
           /\ linking[r].todo = {l} => linking'[r].at = "returned"
           /\ linking[r].todo # {l} =>
                /\ linking'[r].todo = linking[r].todo \ {l}
                /\ linking'[r].at = linking[r].at
                /\ linking'[r].copy = linking[r].copy /\ linking'[r].link = linking[r].link
<1> DEFINE t == [linking[r] EXCEPT
                   !.todo = linking[r].todo \ {l},
                   !.at = IF linking[r].todo = {l} THEN "returned" ELSE linking[r].at]
<1>1. linking[r] \in Links!Request /\ linking[r].todo \subseteq Requests
  BY DEF Links!TypeOK, Links!Request
<1>2. /\ l \in linking[r].todo /\ linkRaced' = linkRaced
      /\ link' = [link EXCEPT ![l] = w]
  BY DEF Links!WriteBack
<1>3. linking[r].copy[l] \in Links!Link
  BY <1>1, <1>2 DEF Links!Request
<1>4. t \in Links!Request
  BY <1>1 DEF Links!Request, Links!Points
<1>5. /\ t.todo = linking[r].todo \ {l} /\ t.copy = linking[r].copy
      /\ t.link = linking[r].link
      /\ t.at = IF linking[r].todo = {l} THEN "returned" ELSE linking[r].at
  BY <1>1 DEF Links!Request
<1>6. Links!Continue(r, t)
  BY DEF Links!WriteBack
<1> HIDE DEF t
<1>7. /\ linking' \in [Requests -> Links!Request] /\ linking'[r].at = t.at
      /\ t.at # "returned" => linking'[r] = t
      /\ \A q \in Requests \ {r} : linking'[q] = linking[q]
  BY <1>4, <1>6, ContinueFacts
<1> QED
  BY <1>1, <1>2, <1>3, <1>5, <1>7

(* Writing a listed link back, OPEN or detached, leaves one conflict less  *)
(* to open or to end.                                                      *)
LEMMA LinksWriteBack ==
    ASSUME LinksIndInv, NEW r \in Requests, NEW l \in Requests,
           Links!Reopen(r, l) \/ Links!DetachOther(r, l)
    PROVE  LinksIndInv'
<1>1. /\ Links!TypeOK /\ linking[r] \in Links!Request /\ link \in [Requests -> Links!Link]
  BY DEF LinksIndInv, Links!TypeOK
<1>2. PICK w :
        /\ Links!WriteBack(r, l, w) /\ linking[r].at \in {"reopen", "detach_others"}
        /\ linking[r].at = "reopen" =>
             w = [linking[r].copy[l] EXCEPT !.conflict = "OPEN"]
        /\ linking[r].at = "detach_others" =>
             w = [linking[r].copy[l] EXCEPT !.conflict = "RESOLVED", !.detached = TRUE]
  BY DEF Links!Reopen, Links!DetachOther
<1>3. /\ l \in linking[r].todo /\ linking[r].copy[l] \in Links!Link
      /\ linking' \in [Requests -> Links!Request]
      /\ \A q \in Requests \ {r} : linking'[q] = linking[q]
      /\ linkRaced' = linkRaced
      /\ link' = [link EXCEPT ![l] = w]
      /\ linking[r].todo = {l} => linking'[r].at = "returned"
      /\ linking[r].todo # {l} =>
           /\ linking'[r].todo = linking[r].todo \ {l}
           /\ linking'[r].at = linking[r].at
           /\ linking'[r].copy = linking[r].copy /\ linking'[r].link = linking[r].link
  BY <1>1, <1>2, WriteBackFacts
<1>4. /\ w \in Links!Link /\ w.document = linking[r].copy[l].document
      /\ linking[r].at = "reopen" =>
           w.conflict = "OPEN" /\ w.detached = linking[r].copy[l].detached
      /\ linking[r].at = "detach_others" => w.detached
  BY <1>2, <1>3 DEF Links!Link, Links!ConflictStates
<1>5. Links!TypeOK'
  BY <1>1, <1>3, <1>4 DEF Links!TypeOK
<1>6. Links!InFlight(r) /\ linking'[r].at # "new"
      /\ (Links!InFlight(r)' => linking[r].todo # {l})
  BY <1>2, <1>3 DEF Links!InFlight
<1>7. ASSUME ~linkRaced
      PROVE  /\ Links!InFlight(r)' => WorksAlone(r)'
             /\ ~Links!InFlight(r)' => Settled({})'
             /\ \A k \in Requests : link[k].document = None => link'[k].document = None
             /\ Links!OneLinkPerDocument'
  <2>1. WorksAlone(r)
    BY <1>6, <1>7 DEF LinksIndInv, LinksAreSequential
  <2>2. \A k \in linking[r].todo : IsActive(k) /\ linking[r].copy[k] = link[k]
    BY <1>2, <2>1 DEF WorksAlone
  <2>3. w.document = link[l].document /\ IsActive(l)
    BY <1>3, <1>4, <2>2
  <2>4. /\ link'[l] = w /\ \A k \in Requests \ {l} : link'[k] = link[k]
        /\ \A k \in Requests : link'[k].document = link[k].document
        /\ \A k \in Requests \ {l} : IsActive(k)' = IsActive(k)
        /\ IsActive(l)' = ~w.detached
        /\ \A k, m \in Requests : Links!Conflicting(k, m)' =>
             Links!Conflicting(k, m) /\ IsActive(k)' /\ IsActive(m)'
        /\ Links!OneLinkPerDocument'
    BY <1>1, <1>3, <1>4, <1>7, <2>3, LinkWritten DEF LinksIndInv
  <2>5. linking[r].todo \subseteq Requests
    BY <1>1 DEF Links!Request
  <2>6. \A k \in linking[r].todo \ {l} :
          IsActive(k)' /\ linking[r].copy[k] = link'[k]
    BY <2>2, <2>4, <2>5
  <2>7. CASE linking[r].at = "reopen"
    <3>1. Settled(linking[r].todo) /\ link'[l].conflict = "OPEN"
      BY <1>4, <2>1, <2>4, <2>7 DEF WorksAlone
    <3>2. ASSUME NEW k \in Requests, NEW m \in Requests, Links!Conflicting(k, m)'
          PROVE  k \in linking[r].todo \ {l} \/ link'[k].conflict = "OPEN"
      <4>1. CASE k = l
        BY <3>1, <4>1
      <4>2. CASE k # l
        <5>1. Links!Conflicting(k, m) /\ link'[k] = link[k]
          BY <2>4, <3>2, <4>2
        <5> QED
          BY <3>1, <4>2, <5>1 DEF Settled
      <4> QED
        BY <4>1, <4>2
    <3>3. CASE linking[r].todo = {l}
      <4>1. linking[r].todo \ {l} = {}
        BY <3>3
      <4>2. Settled({})'
        BY <3>2, <4>1 DEF Settled
      <4> QED
        BY <1>3, <2>4, <3>3, <4>2 DEF Links!InFlight
    <3>4. CASE linking[r].todo # {l}
      <4>1. PICK todo : todo = linking[r].todo \ {l}
        OBVIOUS
      <4>2. linking'[r].todo = todo /\ linking'[r].at = "reopen"
            /\ linking'[r].copy = linking[r].copy
        BY <1>3, <2>7, <3>4, <4>1
      <4>3. Settled(todo)'
        BY <3>2, <4>1 DEF Settled
      <4>4. Settled(linking[r].todo)'
        BY <4>2, <4>3 DEF Settled
      <4>5. WorksAlone(r)'
        BY <2>6, <4>1, <4>2, <4>4 DEF WorksAlone
      <4> QED
        BY <2>4, <4>2, <4>5 DEF Links!InFlight
    <3> QED
      BY <3>3, <3>4
  <2>8. CASE linking[r].at = "detach_others"
    <3>0. PICK l0 : l0 = linking[r].link
      OBVIOUS
    <3>1. /\ Settled({l0}) /\ l0 \in Requests /\ IsActive(l0)
          /\ l0 \notin linking[r].todo
          /\ \A k \in Requests : Links!Conflicting(k, l0) => k \in linking[r].todo
      BY <2>1, <2>8, <3>0 DEF WorksAlone
    <3>2. ~IsActive(l)' /\ IsActive(l0)'
      BY <1>3, <1>4, <2>4, <2>8, <3>1
    <3>3. \A k, m \in Requests : Links!Conflicting(k, m)' =>
            k # l /\ m # l /\ (k = l0 \/ link'[k].conflict = "OPEN")
      BY <2>4, <3>1, <3>2 DEF Settled
    <3>4. \A k \in Requests : Links!Conflicting(k, l0)' => k \in linking[r].todo \ {l}
      BY <2>4, <3>1, <3>3
    <3>5. \A k, m \in Requests : Links!Conflicting(k, m)' => Links!Conflicting(m, k)'
      BY DEF Links!Conflicting
    <3>6. CASE linking[r].todo = {l}
      <4>1. \A k, m \in Requests : Links!Conflicting(k, m)' => k # l0
        BY <3>1, <3>4, <3>5, <3>6
      <4>2. Settled({})'
        BY <3>3, <4>1 DEF Settled
      <4> QED
        BY <1>3, <2>4, <3>6, <4>2 DEF Links!InFlight
    <3>7. CASE linking[r].todo # {l}
      <4>1. /\ linking'[r].todo = linking[r].todo \ {l} /\ linking'[r].at = "detach_others"
            /\ linking'[r].copy = linking[r].copy /\ linking'[r].link = l0
        BY <1>3, <2>8, <3>0, <3>7
      <4>2. Settled({linking[r].link})'
        BY <3>3, <4>1 DEF Settled
      <4>3. WorksAlone(r)'
        BY <2>6, <3>1, <3>2, <3>4, <4>1, <4>2 DEF WorksAlone
      <4> QED
        BY <2>4, <4>1, <4>3 DEF Links!InFlight
    <3> QED
      BY <3>6, <3>7
  <2> QED
    BY <1>2, <2>7, <2>8
<1> QED
  BY <1>3, <1>5, <1>6, <1>7, AloneKeeps

(* The chosen link is resolved, or a link detached.                        *)
LEMMA LinksWrite ==
    ASSUME LinksIndInv, NEW r \in Requests, Links!Resolve(r) \/ Links!Detach(r)
    PROVE  LinksIndInv'
<1>0. PICK l : l = linking[r].link
  OBVIOUS
<1> DEFINE next == IF linking[r].at = "resolve" THEN "others" ELSE "returned"
<1>1. /\ Links!TypeOK /\ linking[r] \in Links!Request /\ link \in [Requests -> Links!Link]
  BY DEF LinksIndInv, Links!TypeOK
<1>2. PICK w :
        /\ linking[r].at \in {"resolve", "detach"} /\ linkRaced' = linkRaced
        /\ linking[r].at = "resolve" =>
             w = [linking[r].copy[l] EXCEPT !.conflict = "RESOLVED"]
        /\ linking[r].at = "detach" => w = [linking[r].copy[l] EXCEPT !.detached = TRUE]
        /\ link' = [link EXCEPT ![l] = w]
        /\ Links!Continue(r, [linking[r] EXCEPT !.at = next])
  BY <1>0 DEF Links!Resolve, Links!Detach, Links!Goto
<1>3. PICK s \in Links!Request :
        Links!Continue(r, s) /\ s.at = next /\ s.link = l /\ s.copy = linking[r].copy
  <2> DEFINE t == [linking[r] EXCEPT !.at = next]
  <2>1. t \in Links!Request
    BY <1>1 DEF Links!Request, Links!Points
  <2>2. t.at = next /\ t.link = l /\ t.copy = linking[r].copy
    BY <1>0, <1>1 DEF Links!Request
  <2> QED
    BY <1>2, <2>1, <2>2
<1>4. /\ linking' \in [Requests -> Links!Request] /\ linking'[r].at = s.at
      /\ s.at # "returned" => linking'[r] = s
      /\ \A q \in Requests \ {r} : linking'[q] = linking[q]
  BY <1>1, <1>3, ContinueFacts
<1>5. l \in Requests =>
        /\ w \in Links!Link /\ w.document = linking[r].copy[l].document
        /\ linking[r].at = "resolve" => w.detached = linking[r].copy[l].detached
        /\ linking[r].at = "detach" => w.detached
  <2> SUFFICES ASSUME l \in Requests
               PROVE  /\ w \in Links!Link /\ w.document = linking[r].copy[l].document
                      /\ linking[r].at = "resolve" => w.detached = linking[r].copy[l].detached
                      /\ linking[r].at = "detach" => w.detached
    OBVIOUS
  <2>1. linking[r].copy[l] \in Links!Link
    BY <1>1 DEF Links!Request
  <2> QED
    BY <1>2, <2>1 DEF Links!Link, Links!ConflictStates
<1>6. link' \in [Requests -> Links!Link]
  BY <1>1, <1>2, <1>5
<1>7. Links!TypeOK'
  BY <1>1, <1>2, <1>4, <1>6 DEF Links!TypeOK
<1>8. Links!InFlight(r) /\ linking'[r].at # "new"
  BY <1>2, <1>3, <1>4 DEF Links!InFlight
<1>9. ASSUME ~linkRaced
      PROVE  /\ Links!InFlight(r)' => WorksAlone(r)'
             /\ ~Links!InFlight(r)' => Settled({})'
             /\ \A k \in Requests : link[k].document = None => link'[k].document = None
             /\ Links!OneLinkPerDocument'
  <2>1. WorksAlone(r)
    BY <1>8, <1>9 DEF LinksIndInv, LinksAreSequential
  <2>2. Settled({}) /\ l \in Requests /\ IsActive(l) /\ linking[r].copy[l] = link[l]
    BY <1>0, <1>2, <2>1 DEF WorksAlone
  <2>3. w \in Links!Link /\ w.document = link[l].document
    BY <1>5, <2>2
  <2>4. /\ link'[l] = w /\ \A k \in Requests \ {l} : link'[k] = link[k]
        /\ \A k \in Requests : link'[k].document = link[k].document
        /\ \A k \in Requests \ {l} : IsActive(k)' = IsActive(k)
        /\ IsActive(l)' = ~w.detached
        /\ \A k, m \in Requests : Links!Conflicting(k, m)' =>
             Links!Conflicting(k, m) /\ IsActive(k)' /\ IsActive(m)'
        /\ Links!OneLinkPerDocument'
    BY <1>1, <1>2, <1>9, <2>2, <2>3, LinkWritten DEF LinksIndInv
  <2>5. CASE linking[r].at = "resolve"
    <3>1. /\ linking'[r] = s /\ s.at = "others" /\ s.link = l
          /\ s.copy[s.link].document = link'[s.link].document
      BY <1>3, <1>4, <2>2, <2>3, <2>4, <2>5
    <3>2. IsActive(l)'
      BY <1>5, <2>2, <2>4, <2>5 DEF IsActive, Links!list_active_links
    <3>3. \A k, m \in Requests : Links!Conflicting(k, m)' =>
            k = l \/ link'[k].conflict = "OPEN"
      BY <2>2, <2>4 DEF Settled
    <3>4. Settled({s.link})'
      BY <3>1, <3>3 DEF Settled
    <3>5. WorksAlone(r)'
      BY <2>2, <3>1, <3>2, <3>4 DEF WorksAlone
    <3> QED
      BY <2>4, <3>1, <3>5 DEF Links!InFlight
  <2>6. CASE linking[r].at = "detach"
    <3>1. ~IsActive(l)' /\ linking'[r].at = "returned"
      BY <1>3, <1>4, <1>5, <2>2, <2>4, <2>6
    <3>2. Settled({})'
      BY <2>2, <2>4, <3>1 DEF Settled
    <3> QED
      BY <2>4, <3>1, <3>2 DEF Links!InFlight
  <2> QED
    BY <1>2, <2>5, <2>6
<1> QED
  BY <1>2, <1>4, <1>7, <1>8, <1>9, AloneKeeps

(* Every step of the link handlers keeps the invariant. *)
LEMMA LinksNext == LinksIndInv /\ [Links!Next]_(Links!vars) => LinksIndInv'
<1> SUFFICES ASSUME LinksIndInv, [Links!Next]_(Links!vars) PROVE LinksIndInv'
  OBVIOUS
<1>1. ASSUME NEW r \in Requests, NEW d \in LinkedDocuments, Links!StartCreate(r, d)
      PROVE  LinksIndInv'
  BY <1>1, LinksStart DEF Links!StartCreate
<1>2. ASSUME NEW r \in Requests, NEW l \in Requests,
             Links!StartResolve(r, l) \/ Links!StartDetach(r, l)
      PROVE  LinksIndInv'
  BY <1>2, LinksStart DEF Links!StartResolve, Links!StartDetach, IsActive
<1>3. ASSUME NEW r \in Requests, Links!Handler(r) PROVE LinksIndInv'
  BY <1>3, LinksList, LinksStore, LinksWrite, LinksWriteBack DEF Links!Handler
<1>4. CASE UNCHANGED Links!vars
  BY <1>4 DEF Links!vars, LinksIndInv, Links!TypeOK, Links!OneLinkPerDocument,
     LinksAreSequential, WorksAlone, Settled, IsActive, Links!list_active_links,
     Links!Conflicting, Links!SameKind, Links!InFlight, Links!Quiescent
<1> QED
  BY <1>1, <1>2, <1>3, <1>4 DEF Links!Next

(* In every behaviour of the link handlers the call that is alone knows    *)
(* which conflicts are left (services.py:1255-1403).                       *)
THEOREM LinksInvariance == Links!Spec => []LinksIndInv
BY LinksInit, LinksNext, PTL DEF Links!Spec

(* As long as no two calls overlapped, for any documents, kinds and number *)
(* of calls: a document has at most one active link, and between calls two *)
(* active links of one kind are an OPEN conflict (services.py:1255-1304).  *)
THEOREM NoSilentConflict ==
    /\ Links!Spec => []Links!LinksInv
    /\ MCSpec => []LinksInv
<1> DEFINE Inv == focus = "links" => LinksIndInv
<1>1. LinksIndInv => Links!LinksInv
  BY DEF LinksIndInv, LinksAreSequential, Settled, Links!LinksInv, Links!ConflictsAreOpen,
         Links!Conflicting
<1>2. Links!Spec => []Links!LinksInv
  BY <1>1, LinksInvariance, PTL
<1>3. MCInit => Inv
  BY LinksInit DEF MCInit
<1>4. MCNext /\ focus' = "links" => focus = "links" /\ [Links!Next]_(Links!vars)
  BY Zenon DEF MCNext
<1>5. UNCHANGED <<focus, auditUp, uploadVars, reviewVars, linkVars>> =>
        UNCHANGED focus /\ UNCHANGED Links!vars
  BY Zenon DEF Links!vars, linkVars
<1>6. Inv /\ [MCNext]_<<focus, auditUp, uploadVars, reviewVars, linkVars>> => Inv'
  BY <1>4, <1>5, LinksNext
<1>7. Inv => LinksInv
  BY <1>1 DEF LinksInv
<1>8. MCSpec => []LinksInv
  <2> HIDE DEF Inv
  <2> QED
    BY <1>3, <1>6, <1>7, PTL DEF MCSpec
<1> QED
  BY <1>2, <1>8

=============================================================================
