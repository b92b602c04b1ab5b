------------------------------- MODULE MCIntake --------------------------------
(***************************************************************************)
(* A document's way in: its upload, its review and its links to a decision *)
(* unit.  The three share the handlers' threads and the audit sink, not    *)
(* data; a behaviour exercises one of them, focus says which, and the      *)
(* state of review and links is left out while they rest.                  *)
(***************************************************************************)
EXTENDS DocumentUpload, TLC

CONSTANTS People, uploader,
          LinkedDocuments, KindOf, tender, annex, price

ASSUME PeopleAssumption == None \notin People

VARIABLES focus, infected, document, audited, reviewing, reviewRaced,
          link, linking, linkRaced

Review == INSTANCE DocumentReview WITH
            Users <- People, request <- reviewing, raced <- reviewRaced

(* Two documents of one kind and one of another. *)
MCDocuments == {tender, annex, price}
MCKinds == tender :> "TENDER" @@ annex :> "TENDER" @@ price :> "PRICE"

Links == INSTANCE DocumentLinks WITH
           Documents <- LinkedDocuments, Kind <- KindOf,
           request <- linking, raced <- linkRaced

uploadVars == <<content, session, expired, chunks, documents, blobs, replicas, request, raced>>
reviewVars == <<infected, document, audited, reviewing, reviewRaced>>
linkVars == <<link, linking, linkRaced>>

MCInit ==
    /\ focus \in {"upload", "review", "links"}
    /\ Init
    /\ focus # "upload" => content = [s \in Sessions |-> "clean"]
    /\ IF focus = "review" THEN Review!Init
       ELSE infected = FALSE /\ audited = {} /\ reviewing = None /\ reviewRaced = FALSE
            /\ document = [status |-> "SCAN_PASSED", reviewed_by |-> None, released_by |-> None]
    /\ IF focus = "links" THEN Links!Init
       ELSE link = [r \in Requests |-> Links!NoLink] /\ linking = None /\ linkRaced = FALSE

MCNext ==
    /\ \/ focus = "upload" /\ Next /\ UNCHANGED <<reviewVars, linkVars>>
       \/ focus = "review" /\ Review!Next /\ UNCHANGED <<uploadVars, linkVars>>
       \/ focus = "links" /\ Links!Next /\ UNCHANGED <<auditUp, uploadVars, reviewVars>>
    /\ UNCHANGED focus

MCSpec == MCInit /\ [][MCNext]_<<focus, auditUp, uploadVars, reviewVars, linkVars>>

(* Requests are interchangeable. *)
IntakeSymmetry == Permutations(Requests)

-----------------------------------------------------------------------------
(* The properties of review and links, stated in their modules.            *)

(* A document in use was reviewed and released by another than its         *)
(* uploader, and an infected one is never put to use.                      *)
ReviewInv == focus = "review" => Review!ReviewInv

(* Two active links of one kind are an open conflict, and a document has   *)
(* one active link.                                                        *)
LinksInv == focus = "links" => Links!LinksInv

(* Without overlapping calls quarantine is final. *)
QuarantineIsFinal == Review!QuarantineIsFinal

(* A released document has its audit event. *)
ReleaseIsAudited == focus = "review" => Review!ReleaseIsAudited

=============================================================================
