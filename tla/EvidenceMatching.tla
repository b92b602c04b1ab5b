--------------------------- MODULE EvidenceMatching ----------------------------
(***************************************************************************)
(* Requirements, company evidence and the matches between them, for one    *)
(* decision unit (modules/evidence/application/services.py).  Each         *)
(* repository method is atomic; a handler reads, decides, and writes its   *)
(* copy back, and other handlers run in between.                           *)
(*                                                                         *)
(* If-Match is compared with the copy the handler has just read, never     *)
(* with what it overwrites, so it refuses late clients and no overlap.     *)
(* Citing a document that is not released is refused (services.py:164).    *)
(***************************************************************************)
EXTENDS Naturals, FiniteSets

CONSTANTS
    Users,         \* people; their roles are disjoint for authors and reviewers
    Requirements,  \* requirement ids, numbers
    Evidences,     \* evidence ids
    Matches,       \* match ids, numbers in the order of creation
    Handlers,      \* handler calls
    Nobody         \* no person, no evidence

ASSUME MatchingAssumption ==
    /\ Requirements \subseteq Nat /\ Requirements # {}
    /\ Matches \subseteq Nat /\ IsFiniteSet(Matches)
    /\ Nobody \notin Users \cup Evidences

VARIABLES
    requirement,   \* stored requirements
    evidence,      \* stored evidence
    match,         \* stored matches
    handler,       \* what each handler call is doing
    overlapped     \* history: two calls were in progress together

vars == <<requirement, evidence, match, handler, overlapped>>

MatchState == {"SATISFIED", "PARTIAL", "UNSATISFIED", "UNKNOWN"}

(* review_state follows lifecycle_state: a requirement is APPROVED when it *)
(* is published.  STALE and superseded are set together.                   *)
Requirement == [state : {"ABSENT", "DRAFT", "PUBLISHED"},
                validity : {"CURRENT", "STALE"}, mandatory : BOOLEAN,
                text : {1, 2}]

NoRequirement == [state |-> "ABSENT", validity |-> "CURRENT",
                  mandatory |-> TRUE, text |-> 1]

(* expired: valid_to has passed. *)
CompanyEvidence ==
    [state : {"ABSENT", "DRAFT", "PUBLISHED", "ARCHIVED"},
     review : {"PENDING", "APPROVED"}, validity : {"CURRENT", "INVALIDATED"},
     createdBy : Users \cup {Nobody}, reviewedBy : Users \cup {Nobody},
     expired : BOOLEAN]

NoEvidence == [state |-> "ABSENT", review |-> "PENDING", validity |-> "CURRENT",
               createdBy |-> Nobody, reviewedBy |-> Nobody, expired |-> FALSE]

EvidenceMatch ==
    [state : MatchState \cup {"ABSENT"}, requirement : Requirements,
     evidence : Evidences \cup {Nobody}, createdBy : Users \cup {Nobody},
     validity : {"CURRENT", "STALE"}]

NoMatch == [state |-> "ABSENT", requirement |-> CHOOSE q \in Requirements : TRUE,
            evidence |-> Nobody, createdBy |-> Nobody, validity |-> "CURRENT"]

Steps == {"new", "update", "publish_requirement", "stale", "successor",
          "review", "publish", "archive", "list", "unmatch", "store_match",
          "review_match", "returned"}

(* A handler call: its step, the ids it is about, the copies it read, the  *)
(* match state it decided, and the matches revoke_evidence has to mark.    *)
Call == [at : Steps, user : Users \cup {Nobody},
         req : Requirements \cup {0}, ev : Evidences \cup {Nobody},
         link : Matches \cup {0}, reqCopy : Requirement,
         evCopy : CompanyEvidence, decided : MatchState,
         todo : SUBSET Matches]

NoCall == [at |-> "new", user |-> Nobody, req |-> 0, ev |-> Nobody, link |-> 0,
           reqCopy |-> NoRequirement, evCopy |-> NoEvidence,
           decided |-> "UNKNOWN", todo |-> {}]

TypeOK ==
    /\ requirement \in [Requirements -> Requirement]
    /\ evidence \in [Evidences -> CompanyEvidence]
    /\ match \in [Matches -> EvidenceMatch]
    /\ handler \in [Handlers -> Call]
    /\ overlapped \in BOOLEAN

(* Requirement 1 was drafted or published, some evidence was drafted or    *)
(* taken through review and publication by earlier calls.                  *)
Init ==
    /\ \E s \in {"DRAFT", "PUBLISHED"} :
         requirement = [q \in Requirements |->
             IF q = 1 THEN [NoRequirement EXCEPT !.state = s]
                      ELSE NoRequirement]
    /\ \E e \in Evidences, author, reviewer \in Users :
         \E item \in {[NoEvidence EXCEPT !.state = "DRAFT",
                                         !.createdBy = author],
                      [NoEvidence EXCEPT !.state = "PUBLISHED",
                                         !.createdBy = author,
                                         !.review = "APPROVED",
                                         !.reviewedBy = reviewer]} :
           /\ author # reviewer
           /\ evidence = [x \in Evidences |-> IF x = e THEN item
                                                       ELSE NoEvidence]
    /\ match = [k \in Matches |-> NoMatch]
    /\ handler = [h \in Handlers |-> NoCall]
    /\ overlapped = FALSE

-----------------------------------------------------------------------------
InProgress(h) == handler[h].at \notin {"new", "returned"}

(* The call begins: its reads and checks. *)
Begin(h, call) ==
    /\ handler[h].at = "new"
    /\ handler' = [handler EXCEPT ![h] = call]
    /\ overlapped' = (overlapped \/ \E g \in Handlers : InProgress(g))
    /\ UNCHANGED <<requirement, evidence, match>>

Done(h) ==
    /\ handler' = [handler EXCEPT ![h] = [NoCall EXCEPT !.at = "returned"]]
    /\ UNCHANGED overlapped

(* A call that is one read-free write. *)
Create(h) == handler[h].at = "new" /\ Done(h)

(* x is the first of the numbers in table that has no object yet. *)
NextFree(table, x) ==
    /\ table[x].state = "ABSENT"
    /\ \A y \in DOMAIN table : y < x => table[y].state # "ABSENT"

RequirementExists(q) == requirement[q].state # "ABSENT"
MatchExists(k) == match[k].state # "ABSENT"

-----------------------------------------------------------------------------
(* Requirements.                                                           *)

create_requirement(h) ==
    /\ Create(h)
    /\ \E q \in Requirements, mandatory \in BOOLEAN :
         /\ NextFree(requirement, q)
         /\ requirement' = [requirement EXCEPT ![q] =
              [NoRequirement EXCEPT !.state = "DRAFT", !.mandatory = mandatory]]
    /\ UNCHANGED <<evidence, match>>

BeginUpdate(h) ==
    \E q \in Requirements :
        /\ requirement[q].state = "DRAFT"
        /\ Begin(h, [NoCall EXCEPT !.at = "update", !.req = q,
                                   !.reqCopy = requirement[q]])

update_requirement_draft(h) ==
    /\ handler[h].at = "update"
    /\ \E mandatory \in BOOLEAN :
         requirement' = [requirement EXCEPT ![handler[h].req] =
             [handler[h].reqCopy EXCEPT !.mandatory = mandatory, !.text = 2]]
    /\ Done(h)
    /\ UNCHANGED <<evidence, match>>

BeginPublishRequirement(h) ==
    \E q \in Requirements :
        /\ requirement[q].state = "DRAFT"
        /\ Begin(h, [NoCall EXCEPT !.at = "publish_requirement", !.req = q,
                                   !.reqCopy = requirement[q]])

publish_requirement(h) ==
    /\ handler[h].at = "publish_requirement"
    /\ requirement' = [requirement EXCEPT ![handler[h].req] =
         [handler[h].reqCopy EXCEPT !.state = "PUBLISHED",
                                    !.validity = "CURRENT"]]
    /\ Done(h)
    /\ UNCHANGED <<evidence, match>>

(* Only the lifecycle state is looked at: what has a successor can be      *)
(* superseded again.                                                       *)
BeginSupersede(h) ==
    \E q \in Requirements :
        /\ requirement[q].state = "PUBLISHED"
        /\ Begin(h, [NoCall EXCEPT !.at = "stale", !.req = q,
                                   !.reqCopy = requirement[q]])

StaleSuperseded(h) ==
    /\ handler[h].at = "stale"
    /\ requirement' = [requirement EXCEPT ![handler[h].req] =
         [handler[h].reqCopy EXCEPT !.validity = "STALE"]]
    /\ handler' = [handler EXCEPT ![h].at = "successor"]
    /\ UNCHANGED <<evidence, match, overlapped>>

supersede_requirement(h) ==
    /\ handler[h].at = "successor"
    /\ \E q \in Requirements :
         /\ NextFree(requirement, q)
         /\ requirement' = [requirement EXCEPT ![q] =
              [handler[h].reqCopy EXCEPT !.state = "DRAFT",
                                         !.validity = "CURRENT"]]
    /\ Done(h)
    /\ UNCHANGED <<evidence, match>>

-----------------------------------------------------------------------------
(* Evidence.                                                               *)

create_evidence(h) ==
    /\ Create(h)
    /\ \E e \in Evidences, u \in Users :
         /\ evidence[e].state = "ABSENT"
         /\ evidence' = [evidence EXCEPT ![e] =
              [NoEvidence EXCEPT !.state = "DRAFT", !.createdBy = u]]
    /\ UNCHANGED <<requirement, match>>

(* Mutant: the author may review. *)
BeginReviewOwn(h) ==
    \E e \in Evidences, u \in Users :
        /\ evidence[e].state # "ABSENT"
        /\ Begin(h, [NoCall EXCEPT !.at = "review", !.ev = e, !.user = u,
                                   !.evCopy = evidence[e]])

(* Evidence in any state can be reviewed, by somebody else. *)
BeginReview(h) ==
    \E e \in Evidences, u \in Users :
        /\ evidence[e].state # "ABSENT"
        /\ u # evidence[e].createdBy
        /\ Begin(h, [NoCall EXCEPT !.at = "review", !.ev = e, !.user = u,
                                   !.evCopy = evidence[e]])

review_evidence(h) ==
    /\ handler[h].at = "review"
    /\ evidence' = [evidence EXCEPT ![handler[h].ev] =
         [handler[h].evCopy EXCEPT !.review = "APPROVED",
                                   !.reviewedBy = handler[h].user,
                                   !.expired = evidence[handler[h].ev].expired]]
    /\ Done(h)
    /\ UNCHANGED <<requirement, match>>

(* Mutant: whatever was reviewed can be published, revoked or not. *)
BeginPublishReviewed(h) ==
    \E e \in Evidences :
        /\ evidence[e].review = "APPROVED"
        /\ Begin(h, [NoCall EXCEPT !.at = "publish", !.ev = e,
                                   !.evCopy = evidence[e]])

BeginPublish(h) ==
    \E e \in Evidences :
        /\ evidence[e].state = "DRAFT"
        /\ evidence[e].review = "APPROVED"
        /\ Begin(h, [NoCall EXCEPT !.at = "publish", !.ev = e,
                                   !.evCopy = evidence[e]])

publish_evidence(h) ==
    /\ handler[h].at = "publish"
    /\ evidence' = [evidence EXCEPT ![handler[h].ev] =
         [handler[h].evCopy EXCEPT !.state = "PUBLISHED",
                                   !.validity = "CURRENT",
                                   !.expired = evidence[handler[h].ev].expired]]
    /\ Done(h)
    /\ UNCHANGED <<requirement, match>>

BeginRevoke(h) ==
    \E e \in Evidences :
        /\ evidence[e].state # "ABSENT"
        /\ Begin(h, [NoCall EXCEPT !.at = "archive", !.ev = e,
                                   !.evCopy = evidence[e]])

RevokeArchive(h) ==
    /\ handler[h].at = "archive"
    /\ evidence' = [evidence EXCEPT ![handler[h].ev] =
         [handler[h].evCopy EXCEPT !.state = "ARCHIVED",
                                   !.validity = "INVALIDATED",
                                   !.expired = evidence[handler[h].ev].expired]]
    /\ handler' = [handler EXCEPT ![h].at = "list"]
    /\ UNCHANGED <<requirement, match, overlapped>>

(* Mutant: the loop ends before the first match. *)
RevokeListNone(h) ==
    /\ handler[h].at = "list"
    /\ handler' = [handler EXCEPT ![h].at = "unmatch"]
    /\ UNCHANGED <<requirement, evidence, match, overlapped>>

RevokeList(h) ==
    /\ handler[h].at = "list"
    /\ handler' = [handler EXCEPT ![h].at = "unmatch",
         ![h].todo = {k \in Matches : /\ MatchExists(k)
                                      /\ match[k].evidence = handler[h].ev
                                      /\ match[k].validity = "CURRENT"}]
    /\ UNCHANGED <<requirement, evidence, match, overlapped>>

(* One dependent match after the other; then the call returns. *)
revoke_evidence(h) ==
    /\ handler[h].at = "unmatch"
    /\ \/ \E k \in handler[h].todo :
            /\ match' = [match EXCEPT ![k].state = "UNKNOWN",
                                      ![k].validity = "STALE"]
            /\ handler' = [handler EXCEPT ![h].todo = @ \ {k}]
            /\ UNCHANGED overlapped
       \/ handler[h].todo = {} /\ Done(h) /\ UNCHANGED match
    /\ UNCHANGED <<requirement, evidence>>

(* Time passes the evidence's valid_to. *)
Expire(e) ==
    /\ evidence[e].state # "ABSENT"
    /\ ~evidence[e].expired
    /\ evidence' = [evidence EXCEPT ![e].expired = TRUE]
    /\ UNCHANGED <<requirement, match, handler, overlapped>>

-----------------------------------------------------------------------------
(* Matches.                                                                *)

formal_input_allowed(item) ==
    /\ item.state = "PUBLISHED"
    /\ item.review = "APPROVED"
    /\ item.validity = "CURRENT"

evidence_usable(e) == formal_input_allowed(evidence[e]) /\ ~evidence[e].expired

Proves(e) == e # Nobody /\ evidence_usable(e)

(* SATISFIED without usable evidence is refused; any other request without *)
(* usable evidence becomes UNKNOWN.                                        *)
BeginMatch(h) ==
    \E q \in Requirements, e \in Evidences \cup {Nobody}, u \in Users,
       requested \in MatchState :
        /\ RequirementExists(q)
        /\ e # Nobody => evidence[e].state # "ABSENT"
        /\ requested = "SATISFIED" => Proves(e)
        /\ Begin(h, [NoCall EXCEPT !.at = "store_match", !.req = q, !.ev = e,
                       !.user = u,
                       !.decided = IF Proves(e) THEN requested ELSE "UNKNOWN"])

create_match(h) ==
    /\ handler[h].at = "store_match"
    /\ \E k \in Matches :
         /\ NextFree(match, k)
         /\ match' = [match EXCEPT ![k] =
              [state |-> handler[h].decided, requirement |-> handler[h].req,
               evidence |-> handler[h].ev, createdBy |-> handler[h].user,
               validity |-> "CURRENT"]]
    /\ Done(h)
    /\ UNCHANGED <<requirement, evidence>>

(* A review by somebody else makes a STALE match CURRENT again; only       *)
(* SATISFIED asks for usable evidence.                                     *)
BeginReviewMatch(h) ==
    \E k \in Matches, u \in Users, decided \in MatchState :
        /\ MatchExists(k)
        /\ u # match[k].createdBy
        /\ decided = "SATISFIED" => Proves(match[k].evidence)
        /\ Begin(h, [NoCall EXCEPT !.at = "review_match", !.link = k,
                                   !.user = u, !.decided = decided])

review_match(h) ==
    /\ handler[h].at = "review_match"
    /\ match' = [match EXCEPT ![handler[h].link].state = handler[h].decided,
                              ![handler[h].link].validity = "CURRENT"]
    /\ Done(h)
    /\ UNCHANGED <<requirement, evidence>>

(* What the HTTP routes of each resource do. *)
RequirementRequests(h) ==
    \/ create_requirement(h)
    \/ BeginUpdate(h) \/ update_requirement_draft(h)
    \/ BeginPublishRequirement(h) \/ publish_requirement(h)
    \/ BeginSupersede(h) \/ StaleSuperseded(h) \/ supersede_requirement(h)

EvidenceRequests(h) ==
    \/ create_evidence(h)
    \/ BeginReview(h) \/ review_evidence(h)
    \/ BeginPublish(h) \/ publish_evidence(h)
    \/ BeginRevoke(h) \/ RevokeArchive(h) \/ RevokeList(h) \/ revoke_evidence(h)

MatchRequests(h) ==
    \/ BeginMatch(h) \/ create_match(h)
    \/ BeginReviewMatch(h) \/ review_match(h)

Next ==
    \/ \E h \in Handlers :
         RequirementRequests(h) \/ EvidenceRequests(h) \/ MatchRequests(h)
    \/ \E e \in Evidences : Expire(e)

Spec == Init /\ [][Next]_vars

-----------------------------------------------------------------------------
(* What create_precheck makes of the matches.                              *)

published_mandatory ==
    {q \in Requirements : /\ requirement[q].mandatory
                          /\ requirement[q].state = "PUBLISHED"
                          /\ requirement[q].validity = "CURRENT"}

CurrentMatches(q) == {k \in Matches : /\ MatchExists(k)
                                      /\ match[k].requirement = q
                                      /\ match[k].validity = "CURRENT"}

(* The dictionary keeps the match that was created last. *)
match_by_requirement(q) ==
    CHOOSE k \in CurrentMatches(q) : \A j \in CurrentMatches(q) : j <= k

unmapped == {q \in published_mandatory : CurrentMatches(q) = {}}

mapped_states ==
    {match[match_by_requirement(q)].state : q \in published_mandatory \ unmapped}

evidence_coverage ==
    CASE unmapped # {} \/ published_mandatory = {} -> "UNKNOWN"
      [] unmapped = {} /\ "UNSATISFIED" \in mapped_states -> "UNSATISFIED"
      [] "UNSATISFIED" \notin mapped_states
         /\ "PARTIAL" \in mapped_states -> "PARTIAL"
      [] {"UNSATISFIED", "PARTIAL"} \cap mapped_states = {}
         /\ "UNKNOWN" \in mapped_states -> "UNKNOWN"
      [] OTHER -> "SATISFIED"

-----------------------------------------------------------------------------
(* Properties.                                                             *)

(* Whatever overlaps, evidence that is published was approved by somebody  *)
(* other than its author: a review and a publication that overwrite each   *)
(* other never lose the reviewer (services.py:443-489).                    *)
PublishedWasReviewed ==
    \A e \in Evidences : evidence[e].state = "PUBLISHED" =>
        /\ evidence[e].review = "APPROVED"
        /\ evidence[e].reviewedBy \notin {Nobody, evidence[e].createdBy}

(* While no two calls overlapped, coverage SATISFIED rests on evidence     *)
(* that was published and is not revoked, for every requirement in force:  *)
(* revoke_evidence reaches every match, and no later review brings one     *)
(* back as SATISFIED (services.py:531-539, 584-588, 647-650).              *)
CoverageHasProof ==
    (~overlapped /\ evidence_coverage = "SATISFIED"
       /\ \A h \in Handlers : ~InProgress(h)) =>
        \A q \in published_mandatory :
            LET e == match[match_by_requirement(q)].evidence
            IN  e # Nobody /\ formal_input_allowed(evidence[e])

(* While no two calls overlapped, revoked evidence stays revoked, whatever *)
(* is reviewed or published afterwards (services.py:473, 516-530).         *)
RevokedStaysOut ==
    \A e \in Evidences : (~overlapped' /\ evidence[e].state = "ARCHIVED") =>
       evidence'[e].state = "ARCHIVED"

(* While no two calls overlapped, a published requirement keeps its text   *)
(* and stays published, and once superseded it never counts again          *)
(* (services.py:264, 298, 331-362).                                        *)
PublishedRequirementIsFixed ==
    \A q \in Requirements :
      (~overlapped' /\ requirement[q].state = "PUBLISHED") =>
         /\ requirement'[q].state = "PUBLISHED"
         /\ requirement'[q].text = requirement[q].text
         /\ requirement[q].validity = "STALE" =>
              requirement'[q].validity = "STALE"

(* Coverage has its proof in the stored evidence (services.py:531-650). *)
MatchingInv ==
    /\ TypeOK
    /\ CoverageHasProof

(* No step brings back what was revoked or superseded, or edits what was   *)
(* published (services.py:264-362, 473-530).                               *)
NothingReturns ==
    [][/\ RevokedStaysOut
       /\ PublishedRequirementIsFixed]_vars

=============================================================================
