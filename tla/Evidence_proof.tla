----------------------------- MODULE Evidence_proof -----------------------------
(***************************************************************************)
(* What evidence and readiness promise, for any number of people,          *)
(* requirements, evidence, matches, profiles, costs, policies and calls.   *)
(*                                                                         *)
(* EvidenceMatching: published evidence was reviewed by somebody else      *)
(* whatever overlaps; and without overlaps a SATISFIED coverage rests on   *)
(* evidence in force, and nothing revoked or superseded returns.           *)
(*                                                                         *)
(* StrategyReadiness: every copy of a cost or policy that a call holds is  *)
(* under dual control like the stored one, a close carries a date before   *)
(* the condition was due, and an assessment that is about to be stored     *)
(* was made of the lists it has read.                                      *)
(***************************************************************************)
EXTENDS MCEvidence, FiniteSetTheorems, WellFoundedInduction, TLAPS

-----------------------------------------------------------------------------
(* The inductive invariant.                                                *)

(* Approval names a reviewer who is not the author. *)
Honest(item) ==
    /\ item.state = "PUBLISHED" => item.review = "APPROVED"
    /\ item.review = "APPROVED" => item.reviewedBy \notin {Nobody, item.createdBy}

(* What a call knows of its ids and copies, whatever others do. *)
CallInv(h) ==
    LET c == handler[h] IN
    /\ c.at \in {"update", "publish_requirement", "stale", "successor", "store_match"} =>
         c.req \in Requirements
    /\ c.at \in {"review", "publish", "archive", "list", "unmatch"} => c.ev \in Evidences
    /\ c.at \in {"review", "publish", "archive"} => Honest(c.evCopy)
    /\ c.at = "review" => c.user \in Users /\ c.user # c.evCopy.createdBy
    /\ c.at = "publish" => c.evCopy.review = "APPROVED"
    /\ c.at = "review_match" => c.link \in Matches

(* The copy is what is stored; only the passing of time is not in it. *)
StillStored(item, e) ==
    /\ item.state = evidence[e].state
    /\ item.review = evidence[e].review
    /\ item.validity = evidence[e].validity
    /\ item.state # "ABSENT"

(* What the one call in progress relies on while none has overlapped. *)
Alone(h) ==
    LET c == handler[h] IN
    /\ c.at \in {"update", "publish_requirement", "stale"} =>
         c.reqCopy = requirement[c.req]
    /\ c.at \in {"update", "publish_requirement"} => c.reqCopy.state = "DRAFT"
    /\ c.at = "stale" => c.reqCopy.state = "PUBLISHED"
    /\ c.at \in {"review", "publish", "archive"} => StillStored(c.evCopy, c.ev)
    /\ c.at = "publish" => c.evCopy.state = "DRAFT"
    /\ c.at = "store_match" /\ c.decided = "SATISFIED" =>
         c.ev # Nobody /\ formal_input_allowed(evidence[c.ev])
    /\ c.at = "review_match" /\ c.decided = "SATISFIED" =>
         /\ match[c.link].evidence # Nobody
         /\ formal_input_allowed(evidence[match[c.link].evidence])

OneCall ==
    \A h \in Handlers : InProgress(h) =>
        Alone(h) /\ \A g \in Handlers : InProgress(g) => g = h

(* revoke_evidence has still to reach match k. *)
WillUnmatch(h, k) ==
    /\ handler[h].ev = match[k].evidence
    /\ handler[h].at = "list" \/ (handler[h].at = "unmatch" /\ k \in handler[h].todo)

(* A match that counts as SATISFIED has evidence in force, or is about to  *)
(* be marked by the call that revoked it.                                  *)
MatchesBacked ==
    \A k \in Matches : match[k].state = "SATISFIED" /\ match[k].validity = "CURRENT" =>
        \/ /\ match[k].evidence # Nobody
           /\ formal_input_allowed(evidence[match[k].evidence])
        \/ \E h \in Handlers : WillUnmatch(h, k)

MatchingIndInv ==
    /\ TypeOK
    /\ \A e \in Evidences : Honest(evidence[e])
    /\ \A h \in Handlers : CallInv(h)
    /\ ~overlapped => OneCall /\ MatchesBacked

-----------------------------------------------------------------------------
(* Facts about the operators. *)

(* A finite set of naturals that is not empty has a greatest element: a    *)
(* least subset without one would have one after all.                      *)
LEMMA GreatestElement ==
    ASSUME NEW S, S \subseteq Nat, IsFiniteSet(S), S # {}
    PROVE  \E m \in S : \A n \in S : n <= m
<1> DEFINE Bad == {T \in FiniteSubsetsOf(S) :
                     T # {} /\ ~\E m \in T : \A n \in T : n <= m}
<1> SUFFICES ASSUME Bad # {} PROVE FALSE
  <2>1. S \in FiniteSubsetsOf(S)
    BY DEF FiniteSubsetsOf
  <2> QED
    BY <2>1
<1>1. IsWellFoundedOn(StrictSubsetOrdering(S), FiniteSubsetsOf(S))
  BY FS_StrictSubsetOrderingWellFounded
<1>2. PICK T \in Bad : \A U \in Bad : ~(<<U, T>> \in StrictSubsetOrdering(S))
  <2>1. Bad \subseteq FiniteSubsetsOf(S)
    OBVIOUS
  <2> HIDE DEF Bad
  <2> QED
    BY <1>1, <2>1, WFMin, Zenon
<1>3. T \subseteq S /\ IsFiniteSet(T) /\ T # {} /\ ~\E m \in T : \A n \in T : n <= m
  BY DEF FiniteSubsetsOf
<1>4. PICK x \in T : TRUE
  BY <1>3
<1> DEFINE U == T \ {x}
<1>5. U \subseteq S /\ IsFiniteSet(U) /\ U # T /\ U \subseteq T
  BY <1>3, FS_RemoveElement
<1>6. U \in FiniteSubsetsOf(S) /\ T \in FiniteSubsetsOf(S)
  BY <1>3, <1>5 DEF FiniteSubsetsOf
<1>7. <<U, T>> \in StrictSubsetOrdering(S)
  BY <1>3, <1>5 DEF StrictSubsetOrdering
<1>8. U \notin Bad
  BY <1>2, <1>7
<1>9. CASE U = {}
  BY <1>3, <1>9
<1>10. CASE \E m \in U : \A n \in U : n <= m
  <2>1. PICK m \in U : \A n \in U : n <= m
    BY <1>10
  <2>2. m \in Nat /\ x \in Nat /\ \A n \in T : n \in Nat /\ (n \in U \/ n = x)
    BY <1>3, <1>5
  <2>3. m \in T /\ x \in T
    BY <1>5
  <2>4. CASE x <= m
    BY <1>3, <2>1, <2>2, <2>3, <2>4
  <2>5. CASE ~(x <= m)
    BY <1>3, <2>1, <2>2, <2>3, <2>5
  <2> QED
    BY <2>4, <2>5
<1> QED
  BY <1>6, <1>8, <1>9, <1>10

(* The constant records have their types. *)
LEMMA ConstantTypes ==
    /\ NoRequirement \in Requirement /\ NoEvidence \in CompanyEvidence
    /\ NoMatch \in EvidenceMatch /\ NoCall \in Call
<1>1. NoRequirement \in Requirement
  BY DEF NoRequirement, Requirement
<1>2. NoEvidence \in CompanyEvidence
  BY DEF NoEvidence, CompanyEvidence
<1>3. NoMatch \in EvidenceMatch
  BY MatchingAssumption DEF NoMatch, EvidenceMatch
<1>4. NoCall \in Call
  BY <1>1, <1>2 DEF NoCall, Call, Steps, MatchState
<1> QED
  BY <1>1, <1>2, <1>3, <1>4

(* The initial states satisfy the invariant. *)
LEMMA InitInv == Init => MatchingIndInv
<1> SUFFICES ASSUME Init PROVE MatchingIndInv
  OBVIOUS
<1>1. PICK s \in {"DRAFT", "PUBLISHED"} :
        requirement = [q \in Requirements |->
             IF q = 1 THEN [NoRequirement EXCEPT !.state = s] ELSE NoRequirement]
  BY DEF Init
<1>2. \E item \in CompanyEvidence, e \in Evidences :
        /\ Honest(item)
        /\ evidence = [x \in Evidences |-> IF x = e THEN item ELSE NoEvidence]
  <2> DEFINE drafted(author) == [NoEvidence EXCEPT !.state = "DRAFT",
                                                   !.createdBy = author]
             published(author, reviewer) ==
               [NoEvidence EXCEPT !.state = "PUBLISHED", !.createdBy = author,
                                  !.review = "APPROVED", !.reviewedBy = reviewer]
  <2>1. ASSUME NEW author \in Users, NEW reviewer \in Users, author # reviewer
        PROVE  /\ drafted(author) \in CompanyEvidence /\ Honest(drafted(author))
               /\ published(author, reviewer) \in CompanyEvidence
               /\ Honest(published(author, reviewer))
    BY <2>1, MatchingAssumption DEF CompanyEvidence, Honest, NoEvidence
  <2>2. \E e \in Evidences, author, reviewer \in Users :
          \E item \in {drafted(author), published(author, reviewer)} :
            /\ author # reviewer
            /\ evidence = [x \in Evidences |-> IF x = e THEN item ELSE NoEvidence]
    BY DEF Init
  <2> HIDE DEF drafted, published
  <2> QED
    BY <2>1, <2>2
<1>3. PICK item \in CompanyEvidence, e \in Evidences :
        /\ Honest(item)
        /\ evidence = [x \in Evidences |-> IF x = e THEN item ELSE NoEvidence]
  BY <1>2
<1>4. requirement \in [Requirements -> Requirement]
  <2>1. [NoRequirement EXCEPT !.state = s] \in Requirement
    BY <1>1, ConstantTypes DEF Requirement
  <2> QED
    BY <1>1, <2>1, ConstantTypes
<1>5. evidence \in [Evidences -> CompanyEvidence]
  BY <1>3, ConstantTypes
<1>6. TypeOK
  BY <1>4, <1>5, ConstantTypes DEF Init, TypeOK
<1>7. \A x \in Evidences : Honest(evidence[x])
  BY <1>3 DEF Honest, NoEvidence
<1>8. \A h \in Handlers : handler[h].at = "new" /\ CallInv(h)
  BY DEF Init, NoCall, CallInv
<1>9. OneCall
  BY <1>8 DEF OneCall, InProgress
<1>10. MatchesBacked
  BY DEF Init, NoMatch, MatchesBacked
<1> QED
  BY <1>6, <1>7, <1>8, <1>9, <1>10 DEF MatchingIndInv

-----------------------------------------------------------------------------
(* A call that returns keeps nothing. *)
LEMMA DoneFacts ==
    ASSUME TypeOK, NEW h \in Handlers, Done(h)
    PROVE  /\ handler' \in [Handlers -> Call]
           /\ handler'[h].at = "returned"
           /\ \A g \in Handlers : g # h => handler'[g] = handler[g]
           /\ overlapped' = overlapped
<1>1. [NoCall EXCEPT !.at = "returned"] \in Call
      /\ [NoCall EXCEPT !.at = "returned"].at = "returned"
  BY ConstantTypes DEF Call, Steps
<1> QED
  BY <1>1 DEF Done, TypeOK

(* What calls know of their copies stays true. *)
LEMMA KnowledgeStays ==
    ASSUME NEW h \in Handlers, \A g \in Handlers : CallInv(g), CallInv(h)',
           \A g \in Handlers : g # h => handler'[g] = handler[g]
    PROVE  \A g \in Handlers : CallInv(g)'
BY DEF CallInv, Honest

(* Unless evidence is being revoked, a SATISFIED match has evidence in     *)
(* force.                                                                  *)
LEMMA InForce ==
    ASSUME MatchingIndInv, ~overlapped, NEW h \in Handlers, InProgress(h),
           handler[h].at \notin {"list", "unmatch"}, NEW k \in Matches,
           match[k].state = "SATISFIED", match[k].validity = "CURRENT"
    PROVE  match[k].evidence # Nobody /\ formal_input_allowed(evidence[match[k].evidence])
<1>1. \A g \in Handlers : ~WillUnmatch(g, k)
  BY DEF MatchingIndInv, OneCall, InProgress, WillUnmatch
<1> QED
  BY <1>1 DEF MatchingIndInv, MatchesBacked

(* The reads of a call. *)
LEMMA BeginInv ==
    ASSUME MatchingIndInv, NEW h \in Handlers, NEW c \in Call, Begin(h, c),
           c.at \in {"update", "publish_requirement", "stale", "review", "publish",
                     "archive", "store_match", "review_match"},
           c.at \in {"update", "publish_requirement", "stale", "store_match"} =>
              c.req \in Requirements,
           c.at \in {"update", "publish_requirement", "stale"} =>
              c.reqCopy = requirement[c.req],
           c.at \in {"update", "publish_requirement"} => c.reqCopy.state = "DRAFT",
           c.at = "stale" => c.reqCopy.state = "PUBLISHED",
           c.at \in {"review", "publish", "archive"} =>
              /\ c.ev \in Evidences /\ c.evCopy = evidence[c.ev]
              /\ c.evCopy.state # "ABSENT",
           c.at = "review" => c.user \in Users /\ c.user # c.evCopy.createdBy,
           c.at = "publish" => c.evCopy.review = "APPROVED" /\ c.evCopy.state = "DRAFT",
           c.at = "store_match" /\ c.decided = "SATISFIED" =>
              c.ev # Nobody /\ formal_input_allowed(evidence[c.ev]),
           c.at = "review_match" => c.link \in Matches,
           c.at = "review_match" /\ c.decided = "SATISFIED" =>
              /\ match[c.link].evidence # Nobody
              /\ formal_input_allowed(evidence[match[c.link].evidence])
    PROVE  MatchingIndInv'
<1> USE DEF MatchingIndInv
<1>1. /\ handler[h].at = "new" /\ handler'[h] = c
      /\ handler' \in [Handlers -> Call]
      /\ \A g \in Handlers : g # h => handler'[g] = handler[g]
      /\ requirement' = requirement /\ evidence' = evidence /\ match' = match
  BY DEF Begin, TypeOK
<1>2. overlapped' = (overlapped \/ \E g \in Handlers : InProgress(g))
  BY DEF Begin
<1>3. TypeOK' /\ \A e \in Evidences : Honest(evidence[e])'
  BY <1>1, <1>2 DEF TypeOK, Honest
<1>4. CallInv(h)'
  BY <1>1 DEF CallInv, Honest
<1>5. \A g \in Handlers : CallInv(g)'
  BY <1>1, <1>4, KnowledgeStays
<1>6. ASSUME ~overlapped' PROVE OneCall' /\ MatchesBacked'
  <2>1. ~overlapped /\ \A g \in Handlers : ~InProgress(g)
    BY <1>2, <1>6
  <2>2. Alone(h)'
    BY <1>1 DEF Alone, StillStored, formal_input_allowed
  <2>3. OneCall'
    BY <1>1, <2>1, <2>2 DEF OneCall, InProgress
  <2>4. \A k \in Matches, g \in Handlers : ~WillUnmatch(g, k)
    BY <2>1 DEF WillUnmatch, InProgress
  <2>5. MatchesBacked'
    BY <1>1, <2>1, <2>4 DEF MatchesBacked, formal_input_allowed
  <2> QED
    BY <2>3, <2>5
<1> QED
  BY <1>3, <1>5, <1>6

(* The reads of each handler. *)
LEMMA BeginsInv ==
    ASSUME MatchingIndInv, NEW h \in Handlers,
           \/ BeginUpdate(h) \/ BeginPublishRequirement(h) \/ BeginSupersede(h)
           \/ BeginReview(h) \/ BeginPublish(h) \/ BeginRevoke(h)
           \/ BeginMatch(h) \/ BeginReviewMatch(h)
    PROVE  MatchingIndInv'
<1>0. TypeOK
  BY DEF MatchingIndInv
<1>1. CASE BeginUpdate(h)
  <2>1. PICK q \in Requirements :
          /\ requirement[q].state = "DRAFT"
          /\ Begin(h, [NoCall EXCEPT !.at = "update", !.req = q,
                                     !.reqCopy = requirement[q]])
    BY <1>1 DEF BeginUpdate
  <2> DEFINE c == [NoCall EXCEPT !.at = "update", !.req = q,
                                     !.reqCopy = requirement[q]]
  <2>2. c \in Call /\ c.at = "update" /\ c.req = q /\ c.reqCopy = requirement[q]
    BY <1>0, <2>1, ConstantTypes DEF TypeOK, Call, Steps, NoCall
  <2>3. Begin(h, c)
    BY <2>1
  <2> HIDE DEF c
  <2> QED
    BY <2>1, <2>2, <2>3, BeginInv
<1>2. CASE BeginPublishRequirement(h)
  <2>1. PICK q \in Requirements :
          /\ requirement[q].state = "DRAFT"
          /\ Begin(h, [NoCall EXCEPT !.at = "publish_requirement", !.req = q,
                                     !.reqCopy = requirement[q]])
    BY <1>2 DEF BeginPublishRequirement
  <2> DEFINE c == [NoCall EXCEPT !.at = "publish_requirement", !.req = q,
                                     !.reqCopy = requirement[q]]
  <2>2. c \in Call /\ c.at = "publish_requirement" /\ c.req = q /\ c.reqCopy = requirement[q]
    BY <1>0, <2>1, ConstantTypes DEF TypeOK, Call, Steps, NoCall
  <2>3. Begin(h, c)
    BY <2>1
  <2> HIDE DEF c
  <2> QED
    BY <2>1, <2>2, <2>3, BeginInv
<1>3. CASE BeginSupersede(h)
  <2>1. PICK q \in Requirements :
          /\ requirement[q].state = "PUBLISHED"
          /\ Begin(h, [NoCall EXCEPT !.at = "stale", !.req = q,
                                     !.reqCopy = requirement[q]])
    BY <1>3 DEF BeginSupersede
  <2> DEFINE c == [NoCall EXCEPT !.at = "stale", !.req = q,
                                     !.reqCopy = requirement[q]]
  <2>2. c \in Call /\ c.at = "stale" /\ c.req = q /\ c.reqCopy = requirement[q]
    BY <1>0, <2>1, ConstantTypes DEF TypeOK, Call, Steps, NoCall
  <2>3. Begin(h, c)
    BY <2>1
  <2> HIDE DEF c
  <2> QED
    BY <2>1, <2>2, <2>3, BeginInv
<1>4. CASE BeginReview(h)
  <2>1. PICK e \in Evidences, u \in Users :
          /\ evidence[e].state # "ABSENT" /\ u # evidence[e].createdBy
          /\ Begin(h, [NoCall EXCEPT !.at = "review", !.ev = e, !.user = u,
                                     !.evCopy = evidence[e]])
    BY <1>4 DEF BeginReview
  <2> DEFINE c == [NoCall EXCEPT !.at = "review", !.ev = e, !.user = u,
                                     !.evCopy = evidence[e]]
  <2>2. c \in Call /\ c.at = "review" /\ c.ev = e /\ c.user = u /\ c.evCopy = evidence[e]
    BY <1>0, <2>1, ConstantTypes DEF TypeOK, Call, Steps, NoCall
  <2>3. Begin(h, c)
    BY <2>1
  <2> HIDE DEF c
  <2> QED
    BY <2>1, <2>2, <2>3, BeginInv
<1>5. CASE BeginPublish(h)
  <2>1. PICK e \in Evidences :
          /\ evidence[e].state = "DRAFT" /\ evidence[e].review = "APPROVED"
          /\ Begin(h, [NoCall EXCEPT !.at = "publish", !.ev = e,
                                     !.evCopy = evidence[e]])
    BY <1>5 DEF BeginPublish
  <2> DEFINE c == [NoCall EXCEPT !.at = "publish", !.ev = e,
                                     !.evCopy = evidence[e]]
  <2>2. c \in Call /\ c.at = "publish" /\ c.ev = e /\ c.evCopy = evidence[e]
    BY <1>0, <2>1, ConstantTypes DEF TypeOK, Call, Steps, NoCall
  <2>3. Begin(h, c)
    BY <2>1
  <2> HIDE DEF c
  <2> QED
    BY <2>1, <2>2, <2>3, BeginInv
<1>6. CASE BeginRevoke(h)
  <2>1. PICK e \in Evidences :
          /\ evidence[e].state # "ABSENT"
          /\ Begin(h, [NoCall EXCEPT !.at = "archive", !.ev = e,
                                     !.evCopy = evidence[e]])
    BY <1>6 DEF BeginRevoke
  <2> DEFINE c == [NoCall EXCEPT !.at = "archive", !.ev = e,
                                     !.evCopy = evidence[e]]
  <2>2. c \in Call /\ c.at = "archive" /\ c.ev = e /\ c.evCopy = evidence[e]
    BY <1>0, <2>1, ConstantTypes DEF TypeOK, Call, Steps, NoCall
  <2>3. Begin(h, c)
    BY <2>1
  <2> HIDE DEF c
  <2> QED
    BY <2>1, <2>2, <2>3, BeginInv
<1>7. CASE BeginMatch(h)
  <2>1. PICK q \in Requirements, e \in Evidences \cup {Nobody}, u \in Users,
             requested \in MatchState :
          /\ requested = "SATISFIED" => Proves(e)
          /\ Begin(h, [NoCall EXCEPT !.at = "store_match", !.req = q, !.ev = e, !.user = u,
                         !.decided = IF Proves(e) THEN requested ELSE "UNKNOWN"])
    BY <1>7 DEF BeginMatch
  <2>2. PICK d \in MatchState :
          /\ d = IF Proves(e) THEN requested ELSE "UNKNOWN"
          /\ d = "SATISFIED" => Proves(e)
    BY DEF MatchState
  <2> DEFINE c == [NoCall EXCEPT !.at = "store_match", !.req = q, !.ev = e, !.user = u,
                                 !.decided = d]
  <2>3. c \in Call /\ c.at = "store_match" /\ c.req = q /\ c.ev = e /\ c.decided = d
    BY ConstantTypes DEF Call, Steps, NoCall
  <2>4. Begin(h, c)
    BY <2>1, <2>2
  <2> HIDE DEF c
  <2> QED
    BY <2>2, <2>3, <2>4, BeginInv DEF Proves, evidence_usable
<1>8. CASE BeginReviewMatch(h)
  <2>1. PICK k \in Matches, u \in Users, d \in MatchState :
          /\ d = "SATISFIED" => Proves(match[k].evidence)
          /\ Begin(h, [NoCall EXCEPT !.at = "review_match", !.link = k, !.user = u,
                                     !.decided = d])
    BY <1>8 DEF BeginReviewMatch
  <2> DEFINE c == [NoCall EXCEPT !.at = "review_match", !.link = k, !.user = u,
                                 !.decided = d]
  <2>2. c \in Call /\ c.at = "review_match" /\ c.link = k /\ c.decided = d
    BY ConstantTypes DEF Call, Steps, NoCall
  <2>3. Begin(h, c)
    BY <2>1
  <2> HIDE DEF c
  <2> QED
    BY <2>1, <2>2, <2>3, BeginInv DEF Proves, evidence_usable
<1> QED
  BY <1>1, <1>2, <1>3, <1>4, <1>5, <1>6, <1>7, <1>8

(* New requirements and evidence are nobody's copy. *)
LEMMA CreateInv ==
    ASSUME MatchingIndInv, NEW h \in Handlers, create_requirement(h) \/ create_evidence(h)
    PROVE  MatchingIndInv'
<1> USE DEF MatchingIndInv
<1>1. /\ handler[h].at = "new" /\ Done(h) /\ match' = match
  BY DEF create_requirement, create_evidence, Create
<1>2. /\ handler' \in [Handlers -> Call] /\ handler'[h].at = "returned"
      /\ \A g \in Handlers : g # h => handler'[g] = handler[g]
      /\ overlapped' = overlapped
  BY <1>1, DoneFacts
<1>3. /\ requirement' \in [Requirements -> Requirement]
      /\ \A q \in Requirements : requirement[q].state # "ABSENT" =>
            requirement'[q] = requirement[q]
  <2>1. CASE create_requirement(h)
    <3>1. PICK q \in Requirements, m \in BOOLEAN :
            /\ requirement[q].state = "ABSENT"
            /\ requirement' = [requirement EXCEPT ![q] =
                  [NoRequirement EXCEPT !.state = "DRAFT", !.mandatory = m]]
      BY <2>1 DEF create_requirement, NextFree
    <3>2. [NoRequirement EXCEPT !.state = "DRAFT", !.mandatory = m] \in Requirement
      BY DEF NoRequirement, Requirement
    <3> QED
      BY <3>1, <3>2 DEF TypeOK
  <2>2. CASE create_evidence(h)
    BY <2>2 DEF create_evidence, TypeOK
  <2> QED
    BY <2>1, <2>2
<1>4. /\ evidence' \in [Evidences -> CompanyEvidence]
      /\ \A e \in Evidences : evidence[e].state # "ABSENT" => evidence'[e] = evidence[e]
      /\ \A e \in Evidences : Honest(evidence[e])'
  <2>1. CASE create_requirement(h)
    BY <2>1 DEF create_requirement, TypeOK, Honest
  <2>2. CASE create_evidence(h)
    <3>1. PICK e \in Evidences, u \in Users :
            /\ evidence[e].state = "ABSENT"
            /\ evidence' = [evidence EXCEPT ![e] =
                  [NoEvidence EXCEPT !.state = "DRAFT", !.createdBy = u]]
      BY <2>2 DEF create_evidence
    <3> DEFINE new == [NoEvidence EXCEPT !.state = "DRAFT", !.createdBy = u]
    <3>2. new \in CompanyEvidence /\ new.state = "DRAFT" /\ new.review = "PENDING"
      BY DEF NoEvidence, CompanyEvidence
    <3> HIDE DEF new
    <3>3. evidence' = [evidence EXCEPT ![e] = new]
      BY <3>1 DEF new
    <3> QED
      BY <3>1, <3>2, <3>3 DEF TypeOK, Honest
  <2> QED
    BY <2>1, <2>2
<1>5. TypeOK'
  BY <1>1, <1>2, <1>3, <1>4 DEF TypeOK
<1>6. \A g \in Handlers : CallInv(g)'
  <2>1. CallInv(h)'
    BY <1>2 DEF CallInv
  <2> QED
    BY <1>2, <2>1, KnowledgeStays
<1>7. ASSUME ~overlapped PROVE OneCall' /\ MatchesBacked'
  <2>1. \A e \in Evidences : formal_input_allowed(evidence[e]) =>
           evidence[e].state # "ABSENT" /\ evidence'[e] = evidence[e]
    BY <1>4 DEF formal_input_allowed
  <2>2. \A k \in Matches : match[k].evidence \in Evidences \cup {Nobody}
    BY DEF TypeOK, EvidenceMatch
  <2>3. ASSUME NEW g \in Handlers, g # h, Alone(g), CallInv(g) PROVE Alone(g)'
    <3> DEFINE c == handler[g]
    <3>0. c \in Call /\ handler'[g] = c
      BY <1>2, <2>3 DEF TypeOK
    <3>1. c.at \in {"update", "publish_requirement", "stale"} =>
            requirement'[c.req] = requirement[c.req]
      BY <1>3, <2>3 DEF Alone, CallInv
    <3>2. c.at \in {"review", "publish", "archive"} => evidence'[c.ev] = evidence[c.ev]
      BY <1>4, <2>3 DEF Alone, CallInv, StillStored
    <3>3. c.at = "store_match" /\ c.decided = "SATISFIED" =>
            c.ev # Nobody /\ formal_input_allowed(evidence[c.ev])'
      <4>1. c.ev \in Evidences \cup {Nobody}
        BY <3>0 DEF Call
      <4> QED
        BY <2>1, <2>3, <3>0, <4>1 DEF Alone, formal_input_allowed
    <3>4. c.at = "review_match" /\ c.decided = "SATISFIED" =>
            /\ match[c.link].evidence # Nobody
            /\ formal_input_allowed(evidence'[match[c.link].evidence])
      BY <2>1, <2>2, <2>3 DEF Alone, CallInv
    <3> HIDE DEF c
    <3> QED
      BY <1>1, <2>3, <3>0, <3>1, <3>2, <3>3, <3>4
         DEF Alone, StillStored, formal_input_allowed, c
  <2>4. OneCall'
    BY <1>2, <1>7, <2>3 DEF OneCall, InProgress
  <2>5. MatchesBacked'
    <3> SUFFICES ASSUME NEW k \in Matches, match[k].state = "SATISFIED",
                        match[k].validity = "CURRENT"
                 PROVE  \/ /\ match[k].evidence # Nobody
                           /\ formal_input_allowed(evidence'[match[k].evidence])
                        \/ \E g \in Handlers : WillUnmatch(g, k)'
      BY <1>1 DEF MatchesBacked, formal_input_allowed
    <3>1. CASE \E g \in Handlers : WillUnmatch(g, k)
      BY <1>1, <1>2, <3>1 DEF WillUnmatch
    <3>2. CASE match[k].evidence # Nobody /\ formal_input_allowed(evidence[match[k].evidence])
      BY <2>1, <2>2, <3>2
    <3> QED
      BY <1>7, <3>1, <3>2 DEF MatchesBacked
  <2> QED
    BY <2>4, <2>5
<1> QED
  BY <1>2, <1>4, <1>5, <1>6, <1>7

(* A call that ends alone leaves no call in progress. *)
LEMMA LastCallEnds ==
    ASSUME MatchingIndInv, ~overlapped, NEW h \in Handlers, InProgress(h), Done(h)
    PROVE  OneCall'
<1>1. /\ handler'[h].at = "returned"
      /\ \A g \in Handlers : g # h => handler'[g] = handler[g]
  BY DoneFacts DEF MatchingIndInv
<1>2. \A g \in Handlers : InProgress(g) => g = h
  BY DEF MatchingIndInv, OneCall
<1> QED
  BY <1>1, <1>2 DEF OneCall, InProgress

(* Writes of requirements do not touch matches and evidence. *)
LEMMA RequirementInv ==
    ASSUME MatchingIndInv, NEW h \in Handlers,
           \/ update_requirement_draft(h) \/ publish_requirement(h)
           \/ supersede_requirement(h)
    PROVE  MatchingIndInv'
<1> USE DEF MatchingIndInv
<1>1. /\ handler[h].at \in {"update", "publish_requirement", "successor"}
      /\ Done(h) /\ match' = match /\ evidence' = evidence
      /\ InProgress(h) /\ handler[h].reqCopy \in Requirement
      /\ handler[h].req \in Requirements
  BY DEF update_requirement_draft, publish_requirement, supersede_requirement,
         InProgress, TypeOK, Call, CallInv
<1>2. /\ handler' \in [Handlers -> Call] /\ handler'[h].at = "returned"
      /\ \A g \in Handlers : g # h => handler'[g] = handler[g]
      /\ overlapped' = overlapped
  BY <1>1, DoneFacts
<1>3. requirement' \in [Requirements -> Requirement]
  <2>1. CASE update_requirement_draft(h)
    <3>1. PICK m \in BOOLEAN :
            requirement' = [requirement EXCEPT ![handler[h].req] =
              [handler[h].reqCopy EXCEPT !.mandatory = m, !.text = 2]]
      BY <2>1 DEF update_requirement_draft
    <3>2. [handler[h].reqCopy EXCEPT !.mandatory = m, !.text = 2] \in Requirement
      BY <1>1 DEF Requirement
    <3> QED
      BY <1>1, <3>1, <3>2 DEF TypeOK
  <2>2. CASE publish_requirement(h)
    <3>1. [handler[h].reqCopy EXCEPT !.state = "PUBLISHED", !.validity = "CURRENT"]
            \in Requirement
      BY <1>1 DEF Requirement
    <3> QED
      BY <1>1, <2>2, <3>1 DEF publish_requirement, TypeOK
  <2>3. CASE supersede_requirement(h)
    <3>1. [handler[h].reqCopy EXCEPT !.state = "DRAFT", !.validity = "CURRENT"]
            \in Requirement
      BY <1>1 DEF Requirement
    <3> QED
      BY <1>1, <2>3, <3>1 DEF supersede_requirement, TypeOK
  <2> QED
    BY <2>1, <2>2, <2>3
<1>4. TypeOK' /\ \A e \in Evidences : Honest(evidence[e])'
  BY <1>1, <1>2, <1>3 DEF TypeOK, Honest
<1>5. \A g \in Handlers : CallInv(g)'
  <2>1. CallInv(h)'
    BY <1>2 DEF CallInv
  <2> QED
    BY <1>2, <2>1, KnowledgeStays
<1>6. ASSUME ~overlapped PROVE OneCall' /\ MatchesBacked'
  <2>1. OneCall'
    BY <1>1, <1>6, LastCallEnds
  <2>2. MatchesBacked'
    BY <1>1, <1>6, InForce DEF MatchesBacked, formal_input_allowed
  <2> QED
    BY <2>1, <2>2
<1> QED
  BY <1>2, <1>4, <1>5, <1>6

(* The first write of supersede_requirement. *)
LEMMA StaleInv ==
    ASSUME MatchingIndInv, NEW h \in Handlers, StaleSuperseded(h)
    PROVE  MatchingIndInv'
<1> USE DEF MatchingIndInv
<1>1. /\ handler[h].at = "stale" /\ UNCHANGED <<evidence, match, overlapped>>
      /\ InProgress(h) /\ handler[h] \in Call /\ handler[h].req \in Requirements
  BY DEF StaleSuperseded, InProgress, TypeOK, CallInv
<1>2. requirement' \in [Requirements -> Requirement]
  <2>1. [handler[h].reqCopy EXCEPT !.validity = "STALE"] \in Requirement
    BY <1>1 DEF Requirement, Call
  <2> QED
    BY <1>1, <2>1 DEF StaleSuperseded, TypeOK
<1>3. /\ handler' \in [Handlers -> Call]
      /\ handler'[h].at = "successor" /\ handler'[h].req = handler[h].req
      /\ \A g \in Handlers : g # h => handler'[g] = handler[g]
  <2>1. handler' = [handler EXCEPT ![h] = [handler[h] EXCEPT !.at = "successor"]]
    BY DEF StaleSuperseded
  <2>2. [handler[h] EXCEPT !.at = "successor"] \in Call
    BY <1>1 DEF Call, Steps
  <2> QED
    BY <1>1, <2>1, <2>2 DEF TypeOK, Call
<1>4. TypeOK' /\ \A e \in Evidences : Honest(evidence[e])'
  BY <1>1, <1>2, <1>3 DEF TypeOK, Honest
<1>5. \A g \in Handlers : CallInv(g)'
  <2>1. CallInv(h)'
    BY <1>1, <1>3 DEF CallInv
  <2> QED
    BY <1>3, <2>1, KnowledgeStays
<1>6. ASSUME ~overlapped PROVE OneCall' /\ MatchesBacked'
  <2>1. Alone(h)'
    BY <1>3 DEF Alone
  <2>2. OneCall'
    BY <1>1, <1>3, <1>6, <2>1 DEF OneCall, InProgress
  <2>3. MatchesBacked'
    BY <1>1, <1>6, InForce DEF MatchesBacked, formal_input_allowed
  <2> QED
    BY <2>2, <2>3
<1> QED
  BY <1>1, <1>4, <1>5, <1>6

(* Reviewing and publishing evidence: approval always names a reviewer,    *)
(* and evidence in force stays in force.                                   *)
LEMMA EvidenceInv ==
    ASSUME MatchingIndInv, NEW h \in Handlers, review_evidence(h) \/ publish_evidence(h)
    PROVE  MatchingIndInv'
<1> USE DEF MatchingIndInv
<1>1. /\ handler[h].at \in {"review", "publish"} /\ InProgress(h)
      /\ Done(h) /\ requirement' = requirement /\ match' = match
      /\ handler[h].evCopy \in CompanyEvidence /\ CallInv(h)
  BY DEF review_evidence, publish_evidence, InProgress, TypeOK, Call
<1>2. PICK e \in Evidences : e = handler[h].ev /\ evidence[e].expired \in BOOLEAN
  BY <1>1 DEF CallInv, TypeOK, CompanyEvidence
<1>3. /\ handler' \in [Handlers -> Call] /\ handler'[h].at = "returned"
      /\ \A g \in Handlers : g # h => handler'[g] = handler[g]
      /\ overlapped' = overlapped
  BY <1>1, DoneFacts
<1>4. PICK new \in CompanyEvidence :
        /\ evidence' = [evidence EXCEPT ![e] = new]
        /\ Honest(new) /\ new.review = "APPROVED"
        /\ \/ /\ handler[h].at = "review" /\ new.state = handler[h].evCopy.state
              /\ new.validity = handler[h].evCopy.validity
           \/ handler[h].at = "publish"
  <2>1. CASE review_evidence(h)
    <3> DEFINE new == [handler[h].evCopy EXCEPT !.review = "APPROVED",
                         !.reviewedBy = handler[h].user, !.expired = evidence[e].expired]
    <3>1. handler[h].at = "review" /\ handler[h].user \in Users
          /\ handler[h].user # handler[h].evCopy.createdBy
      BY <1>1, <2>1 DEF review_evidence, CallInv
    <3>2. new \in CompanyEvidence /\ Honest(new) /\ new.review = "APPROVED"
          /\ new.state = handler[h].evCopy.state
          /\ new.validity = handler[h].evCopy.validity
      BY <1>1, <1>2, <3>1, MatchingAssumption DEF CompanyEvidence, Honest
    <3>3. evidence' = [evidence EXCEPT ![e] = new]
      BY <1>2, <2>1 DEF review_evidence
    <3> HIDE DEF new
    <3> QED
      BY <3>1, <3>2, <3>3
  <2>2. CASE publish_evidence(h)
    <3> DEFINE new == [handler[h].evCopy EXCEPT !.state = "PUBLISHED",
                         !.validity = "CURRENT", !.expired = evidence[e].expired]
    <3>1. /\ handler[h].at = "publish" /\ handler[h].evCopy.review = "APPROVED"
          /\ Honest(handler[h].evCopy)
      BY <1>1, <2>2 DEF publish_evidence, CallInv
    <3>2. new \in CompanyEvidence /\ Honest(new) /\ new.review = "APPROVED"
      BY <1>1, <1>2, <3>1 DEF CompanyEvidence, Honest
    <3>3. evidence' = [evidence EXCEPT ![e] = new]
      BY <1>2, <2>2 DEF publish_evidence
    <3> HIDE DEF new
    <3> QED
      BY <3>1, <3>2, <3>3
  <2> QED
    BY <2>1, <2>2
<1>5. /\ evidence' \in [Evidences -> CompanyEvidence] /\ evidence'[e] = new
      /\ \A x \in Evidences : x # e => evidence'[x] = evidence[x]
  BY <1>4 DEF TypeOK
<1>6. TypeOK' /\ \A x \in Evidences : Honest(evidence[x])'
  BY <1>1, <1>3, <1>4, <1>5 DEF TypeOK, Honest
<1>7. \A g \in Handlers : CallInv(g)'
  <2>1. CallInv(h)'
    BY <1>3 DEF CallInv
  <2> QED
    BY <1>3, <2>1, KnowledgeStays
<1>8. ASSUME ~overlapped PROVE OneCall' /\ MatchesBacked'
  <2>1. OneCall'
    BY <1>1, <1>8, LastCallEnds
  <2>2. Alone(h)
    BY <1>1, <1>8 DEF OneCall
  <2>3. ASSUME NEW x \in Evidences, formal_input_allowed(evidence[x])
        PROVE  formal_input_allowed(evidence'[x])
    BY <1>1, <1>2, <1>4, <1>5, <2>2, <2>3 DEF formal_input_allowed, Alone, StillStored
  <2>4. \A k \in Matches : match[k].evidence \in Evidences \cup {Nobody}
    BY DEF TypeOK, EvidenceMatch
  <2>5. MatchesBacked'
    <3> SUFFICES ASSUME NEW k \in Matches, match[k].state = "SATISFIED",
                        match[k].validity = "CURRENT"
                 PROVE  /\ match[k].evidence # Nobody
                        /\ formal_input_allowed(evidence'[match[k].evidence])
      BY <1>1 DEF MatchesBacked, formal_input_allowed
    <3>1. /\ match[k].evidence # Nobody
          /\ formal_input_allowed(evidence[match[k].evidence])
      BY <1>1, <1>8, InForce
    <3> QED
      BY <2>3, <2>4, <3>1
  <2> QED
    BY <2>1, <2>5
<1> QED
  BY <1>3, <1>6, <1>7, <1>8

(* revoke_evidence archives the evidence: its matches are still to be      *)
(* marked.                                                                 *)
LEMMA ArchiveInv ==
    ASSUME MatchingIndInv, NEW h \in Handlers, RevokeArchive(h)
    PROVE  MatchingIndInv'
<1> USE DEF MatchingIndInv
<1>1. /\ handler[h].at = "archive" /\ InProgress(h) /\ handler[h] \in Call
      /\ handler[h].evCopy \in CompanyEvidence /\ CallInv(h)
      /\ requirement' = requirement /\ match' = match /\ overlapped' = overlapped
  BY DEF RevokeArchive, InProgress, TypeOK, Call
<1>2. PICK e \in Evidences : e = handler[h].ev /\ evidence[e].expired \in BOOLEAN
  BY <1>1 DEF CallInv, TypeOK, CompanyEvidence
<1> DEFINE new == [handler[h].evCopy EXCEPT !.state = "ARCHIVED",
                     !.validity = "INVALIDATED", !.expired = evidence[e].expired]
<1>3. new \in CompanyEvidence /\ Honest(new)
  BY <1>1, <1>2 DEF CompanyEvidence, CallInv, Honest
<1>4. evidence' = [evidence EXCEPT ![e] = new]
  BY <1>2 DEF RevokeArchive
<1> HIDE DEF new
<1>5. /\ evidence' \in [Evidences -> CompanyEvidence] /\ evidence'[e] = new
      /\ \A x \in Evidences : x # e => evidence'[x] = evidence[x]
  BY <1>3, <1>4 DEF TypeOK
<1>6. /\ handler' \in [Handlers -> Call]
      /\ handler'[h].at = "list" /\ handler'[h].ev = e
      /\ \A g \in Handlers : g # h => handler'[g] = handler[g]
  <2>1. handler' = [handler EXCEPT ![h] = [handler[h] EXCEPT !.at = "list"]]
    BY DEF RevokeArchive
  <2>2. [handler[h] EXCEPT !.at = "list"] \in Call
    BY <1>1 DEF Call, Steps
  <2> QED
    BY <1>1, <1>2, <2>1, <2>2 DEF TypeOK, Call
<1>7. TypeOK' /\ \A x \in Evidences : Honest(evidence[x])'
  BY <1>1, <1>3, <1>5, <1>6 DEF TypeOK, Honest
<1>8. \A g \in Handlers : CallInv(g)'
  <2>1. CallInv(h)'
    BY <1>6 DEF CallInv
  <2> QED
    BY <1>6, <2>1, KnowledgeStays
<1>9. ASSUME ~overlapped PROVE OneCall' /\ MatchesBacked'
  <2>1. Alone(h)'
    BY <1>6 DEF Alone
  <2>2. OneCall'
    BY <1>1, <1>6, <1>9, <2>1 DEF OneCall, InProgress
  <2>3. MatchesBacked'
    <3> SUFFICES ASSUME NEW k \in Matches, match[k].state = "SATISFIED",
                        match[k].validity = "CURRENT"
                 PROVE  \/ /\ match[k].evidence # Nobody
                           /\ formal_input_allowed(evidence'[match[k].evidence])
                        \/ WillUnmatch(h, k)'
      BY <1>1 DEF MatchesBacked, formal_input_allowed
    <3>1. /\ match[k].evidence # Nobody
          /\ formal_input_allowed(evidence[match[k].evidence])
          /\ match[k].evidence \in Evidences \cup {Nobody}
      BY <1>1, <1>9, InForce DEF TypeOK, EvidenceMatch
    <3>2. CASE match[k].evidence = e
      BY <1>1, <1>6, <3>2 DEF WillUnmatch
    <3>3. CASE match[k].evidence # e
      BY <1>5, <3>1, <3>3
    <3> QED
      BY <3>2, <3>3
  <2> QED
    BY <2>2, <2>3
<1> QED
  BY <1>1, <1>7, <1>8, <1>9

(* ... lists the matches that name it ... *)
LEMMA ListInv ==
    ASSUME MatchingIndInv, NEW h \in Handlers, RevokeList(h)
    PROVE  MatchingIndInv'
<1> USE DEF MatchingIndInv
<1> DEFINE found == {k \in Matches : /\ MatchExists(k)
                                     /\ match[k].evidence = handler[h].ev
                                     /\ match[k].validity = "CURRENT"}
<1>1. /\ handler[h].at = "list" /\ InProgress(h) /\ handler[h] \in Call /\ CallInv(h)
      /\ UNCHANGED <<requirement, evidence, match, overlapped>>
  BY DEF RevokeList, InProgress, TypeOK
<1>2. /\ handler' \in [Handlers -> Call]
      /\ handler'[h].at = "unmatch" /\ handler'[h].ev = handler[h].ev
      /\ handler'[h].todo = found
      /\ \A g \in Handlers : g # h => handler'[g] = handler[g]
  <2>1. handler' = [handler EXCEPT ![h] = [handler[h] EXCEPT !.at = "unmatch",
                                                           !.todo = found]]
    BY DEF RevokeList
  <2>2. found \in SUBSET Matches
    OBVIOUS
  <2> HIDE DEF found
  <2>3. [handler[h] EXCEPT !.at = "unmatch", !.todo = found] \in Call
    BY <1>1, <2>2 DEF Call, Steps
  <2> QED
    BY <1>1, <2>1, <2>3 DEF TypeOK, Call
<1>3. TypeOK' /\ \A x \in Evidences : Honest(evidence[x])'
  BY <1>1, <1>2 DEF TypeOK, Honest
<1>4. \A g \in Handlers : CallInv(g)'
  <2>1. CallInv(h)'
    BY <1>1, <1>2 DEF CallInv
  <2> QED
    BY <1>2, <2>1, KnowledgeStays
<1>5. ASSUME ~overlapped PROVE OneCall' /\ MatchesBacked'
  <2>1. Alone(h)'
    BY <1>2 DEF Alone
  <2>2. OneCall'
    BY <1>1, <1>2, <1>5, <2>1 DEF OneCall, InProgress
  <2>3. MatchesBacked'
    <3> SUFFICES ASSUME NEW k \in Matches, match[k].state = "SATISFIED",
                        match[k].validity = "CURRENT"
                 PROVE  \/ /\ match[k].evidence # Nobody
                           /\ formal_input_allowed(evidence[match[k].evidence])
                        \/ WillUnmatch(h, k)'
      BY <1>1 DEF MatchesBacked, formal_input_allowed
    <3>1. CASE \E g \in Handlers : WillUnmatch(g, k)
      <4>1. match[k].evidence = handler[h].ev
        BY <1>1, <1>5, <3>1 DEF OneCall, InProgress, WillUnmatch
      <4>2. k \in found
        BY <4>1 DEF MatchExists
      <4> QED
        BY <1>1, <1>2, <4>1, <4>2 DEF WillUnmatch
    <3> QED
      BY <1>5, <3>1 DEF MatchesBacked
  <2> QED
    BY <2>2, <2>3
<1> QED
  BY <1>1, <1>3, <1>4, <1>5

(* ... and marks them one after the other. *)
LEMMA UnmatchInv ==
    ASSUME MatchingIndInv, NEW h \in Handlers, revoke_evidence(h)
    PROVE  MatchingIndInv'
<1> USE DEF MatchingIndInv
<1>1. /\ handler[h].at = "unmatch" /\ InProgress(h) /\ handler[h] \in Call /\ CallInv(h)
      /\ UNCHANGED <<requirement, evidence>>
  BY DEF revoke_evidence, InProgress, TypeOK
<1>2. CASE handler[h].todo = {} /\ Done(h) /\ UNCHANGED match
  <2>1. /\ handler' \in [Handlers -> Call] /\ handler'[h].at = "returned"
        /\ \A g \in Handlers : g # h => handler'[g] = handler[g]
        /\ overlapped' = overlapped
    BY <1>2, DoneFacts
  <2>2. TypeOK' /\ \A x \in Evidences : Honest(evidence[x])'
    BY <1>1, <1>2, <2>1 DEF TypeOK, Honest
  <2>3. \A g \in Handlers : CallInv(g)'
    <3>1. CallInv(h)'
      BY <2>1 DEF CallInv
    <3> QED
      BY <2>1, <3>1, KnowledgeStays
  <2>4. ASSUME ~overlapped PROVE OneCall' /\ MatchesBacked'
    <3>1. OneCall'
      BY <1>1, <1>2, <2>4, LastCallEnds
    <3>2. \A k \in Matches, g \in Handlers : ~WillUnmatch(g, k)
      BY <1>1, <1>2, <2>4 DEF OneCall, InProgress, WillUnmatch
    <3>3. MatchesBacked'
      BY <1>1, <1>2, <2>4, <3>2 DEF MatchesBacked, formal_input_allowed
    <3> QED
      BY <3>1, <3>3
  <2> QED
    BY <2>1, <2>2, <2>3, <2>4
<1>3. ASSUME NEW k \in handler[h].todo,
             match' = [match EXCEPT ![k].state = "UNKNOWN", ![k].validity = "STALE"],
             handler' = [handler EXCEPT ![h].todo = @ \ {k}],
             overlapped' = overlapped
      PROVE  MatchingIndInv'
  <2>1. k \in Matches
    BY <1>1, <1>3 DEF Call
  <2>2. /\ match' \in [Matches -> EvidenceMatch]
        /\ match'[k].validity = "STALE"
        /\ \A j \in Matches : j # k => match'[j] = match[j]
    <3>1. match' = [match EXCEPT ![k] = [match[k] EXCEPT !.state = "UNKNOWN",
                                                        !.validity = "STALE"]]
      BY <1>3
    <3>2. /\ [match[k] EXCEPT !.state = "UNKNOWN", !.validity = "STALE"] \in EvidenceMatch
          /\ [match[k] EXCEPT !.state = "UNKNOWN", !.validity = "STALE"].validity = "STALE"
      BY <2>1 DEF TypeOK, EvidenceMatch, MatchState
    <3> QED
      BY <2>1, <3>1, <3>2 DEF TypeOK
  <2>3. /\ handler' \in [Handlers -> Call]
        /\ handler'[h].at = "unmatch" /\ handler'[h].ev = handler[h].ev
        /\ handler'[h].todo = handler[h].todo \ {k}
        /\ \A g \in Handlers : g # h => handler'[g] = handler[g]
    <3>1. handler' = [handler EXCEPT ![h] = [handler[h] EXCEPT
                                               !.todo = handler[h].todo \ {k}]]
      BY <1>3
    <3>2. [handler[h] EXCEPT !.todo = handler[h].todo \ {k}] \in Call
      BY <1>1 DEF Call
    <3> QED
      BY <1>1, <3>1, <3>2 DEF TypeOK, Call
  <2>4. TypeOK' /\ \A x \in Evidences : Honest(evidence[x])'
    BY <1>1, <1>3, <2>2, <2>3 DEF TypeOK, Honest
  <2>5. \A g \in Handlers : CallInv(g)'
    <3>1. CallInv(h)'
      BY <1>1, <2>3 DEF CallInv
    <3> QED
      BY <2>3, <3>1, KnowledgeStays
  <2>6. ASSUME ~overlapped PROVE OneCall' /\ MatchesBacked'
    <3>1. Alone(h)'
      BY <2>3 DEF Alone
    <3>2. OneCall'
      BY <1>1, <2>3, <2>6, <3>1 DEF OneCall, InProgress
    <3>3. MatchesBacked'
      <4> SUFFICES ASSUME NEW j \in Matches, match'[j].state = "SATISFIED",
                          match'[j].validity = "CURRENT"
                   PROVE  \/ /\ match'[j].evidence # Nobody
                             /\ formal_input_allowed(evidence[match'[j].evidence])
                          \/ WillUnmatch(h, j)'
        BY <1>1 DEF MatchesBacked, formal_input_allowed
      <4>1. j # k /\ match'[j] = match[j]
        BY <2>2
      <4>2. CASE \E g \in Handlers : WillUnmatch(g, j)
        <5>1. WillUnmatch(h, j)
          BY <1>1, <2>6, <4>2 DEF OneCall, InProgress, WillUnmatch
        <5> QED
          BY <1>1, <2>3, <4>1, <5>1 DEF WillUnmatch
      <4> QED
        BY <2>6, <4>1, <4>2 DEF MatchesBacked
    <3> QED
      BY <3>2, <3>3
  <2> QED
    BY <1>3, <2>4, <2>5, <2>6
<1> QED
  BY <1>2, <1>3 DEF revoke_evidence

(* Time takes nothing out of force that counts here. *)
LEMMA ExpireInv ==
    ASSUME MatchingIndInv, NEW e \in Evidences, Expire(e)
    PROVE  MatchingIndInv'
<1> USE DEF MatchingIndInv
<1>1. /\ evidence' = [evidence EXCEPT ![e] = [evidence[e] EXCEPT !.expired = TRUE]]
      /\ UNCHANGED <<requirement, match, handler, overlapped>>
  BY DEF Expire
<1>2. /\ evidence' \in [Evidences -> CompanyEvidence]
      /\ \A x \in Evidences : /\ evidence'[x].state = evidence[x].state
                               /\ evidence'[x].review = evidence[x].review
                               /\ evidence'[x].validity = evidence[x].validity
                               /\ evidence'[x].createdBy = evidence[x].createdBy
                               /\ evidence'[x].reviewedBy = evidence[x].reviewedBy
  <2>1. [evidence[e] EXCEPT !.expired = TRUE] \in CompanyEvidence
    BY DEF TypeOK, CompanyEvidence
  <2> QED
    BY <1>1, <2>1 DEF TypeOK, CompanyEvidence
<1>3. TypeOK' /\ \A x \in Evidences : Honest(evidence[x])'
  BY <1>1, <1>2 DEF TypeOK, Honest
<1>4. \A g \in Handlers : CallInv(g)'
  BY <1>1 DEF CallInv, Honest
<1>5. \A x \in Evidences : formal_input_allowed(evidence[x]) =>
                             formal_input_allowed(evidence'[x])
  BY <1>2 DEF formal_input_allowed
<1>6. \A k \in Matches : match[k].evidence \in Evidences \cup {Nobody}
  BY DEF TypeOK, EvidenceMatch
<1>7. ASSUME ~overlapped PROVE OneCall' /\ MatchesBacked'
  <2>1. ASSUME NEW g \in Handlers, Alone(g), CallInv(g) PROVE Alone(g)'
    <3>1. handler[g].ev \in Evidences \cup {Nobody}
      BY DEF TypeOK, Call
    <3>2. handler[g].at \in {"review", "publish", "archive"} =>
            StillStored(handler[g].evCopy, handler[g].ev)'
      BY <1>1, <1>2, <2>1 DEF Alone, CallInv, StillStored
    <3>3. handler[g].at = "store_match" /\ handler[g].decided = "SATISFIED" =>
            formal_input_allowed(evidence[handler[g].ev])'
      BY <1>1, <1>5, <2>1, <3>1 DEF Alone, formal_input_allowed
    <3>4. handler[g].at = "review_match" /\ handler[g].decided = "SATISFIED" =>
            formal_input_allowed(evidence[match[handler[g].link].evidence])'
      BY <1>1, <1>5, <1>6, <2>1 DEF Alone, CallInv, formal_input_allowed
    <3> QED
      BY <1>1, <2>1, <3>2, <3>3, <3>4 DEF Alone
  <2>2. OneCall'
    BY <1>1, <1>7, <2>1 DEF OneCall, InProgress
  <2>3. MatchesBacked'
    BY <1>1, <1>5, <1>6, <1>7 DEF MatchesBacked, WillUnmatch, formal_input_allowed
  <2> QED
    BY <2>2, <2>3
<1> QED
  BY <1>1, <1>3, <1>4, <1>7

(* A match is stored, or reviewed, as SATISFIED only on evidence in force. *)
LEMMA MatchInv ==
    ASSUME MatchingIndInv, NEW h \in Handlers, create_match(h) \/ review_match(h)
    PROVE  MatchingIndInv'
<1> USE DEF MatchingIndInv
<1>1. /\ handler[h].at \in {"store_match", "review_match"} /\ InProgress(h)
      /\ handler[h] \in Call /\ CallInv(h)
      /\ Done(h) /\ UNCHANGED <<requirement, evidence>>
  BY DEF create_match, review_match, InProgress, TypeOK
<1>2. /\ handler' \in [Handlers -> Call] /\ handler'[h].at = "returned"
      /\ \A g \in Handlers : g # h => handler'[g] = handler[g]
      /\ overlapped' = overlapped
  BY <1>1, DoneFacts
<1>3. PICK k \in Matches, new \in EvidenceMatch :
        /\ match' = [match EXCEPT ![k] = new]
        /\ new.state = handler[h].decided
        /\ \/ handler[h].at = "store_match" /\ new.evidence = handler[h].ev
           \/ /\ handler[h].at = "review_match" /\ k = handler[h].link
              /\ new.evidence = match[k].evidence
  <2>1. CASE create_match(h)
    <3> DEFINE new == [state |-> handler[h].decided, requirement |-> handler[h].req,
                       evidence |-> handler[h].ev, createdBy |-> handler[h].user,
                       validity |-> "CURRENT"]
    <3>1. handler[h].at = "store_match" /\ handler[h].req \in Requirements
      BY <1>1, <2>1 DEF create_match, CallInv
    <3>2. /\ new \in EvidenceMatch /\ new.state = handler[h].decided
          /\ new.evidence = handler[h].ev
      BY <1>1, <3>1 DEF Call, EvidenceMatch
    <3>3. \E k \in Matches : match' = [match EXCEPT ![k] = new]
      BY <2>1 DEF create_match
    <3> HIDE DEF new
    <3> QED
      BY <3>1, <3>2, <3>3
  <2>2. CASE review_match(h)
    <3>1. PICK k \in Matches : k = handler[h].link /\ handler[h].at = "review_match"
      BY <1>1, <2>2 DEF review_match, CallInv
    <3> DEFINE new == [match[k] EXCEPT !.state = handler[h].decided, !.validity = "CURRENT"]
    <3>2. /\ new \in EvidenceMatch /\ new.state = handler[h].decided
          /\ new.evidence = match[k].evidence
      <4>1. match[k] \in EvidenceMatch
        BY <1>1, <3>1 DEF TypeOK
      <4>2. handler[h].decided \in MatchState
        BY <1>1 DEF Call
      <4> QED
        BY <4>1, <4>2 DEF EvidenceMatch
    <3>3. match' = [match EXCEPT ![k] = new]
      BY <2>2, <3>1 DEF review_match
    <3> HIDE DEF new
    <3> QED
      BY <3>1, <3>2, <3>3
  <2> QED
    BY <2>1, <2>2
<1>4. /\ match' \in [Matches -> EvidenceMatch] /\ match'[k] = new
      /\ \A j \in Matches : j # k => match'[j] = match[j]
  BY <1>3 DEF TypeOK
<1>5. TypeOK' /\ \A x \in Evidences : Honest(evidence[x])'
  BY <1>1, <1>2, <1>4 DEF TypeOK, Honest
<1>6. \A g \in Handlers : CallInv(g)'
  <2>1. CallInv(h)'
    BY <1>2 DEF CallInv
  <2> QED
    BY <1>2, <2>1, KnowledgeStays
<1>7. ASSUME ~overlapped PROVE OneCall' /\ MatchesBacked'
  <2>1. OneCall'
    BY <1>1, <1>7, LastCallEnds
  <2>2. Alone(h)
    BY <1>1, <1>7 DEF OneCall
  <2>3. MatchesBacked'
    <3> SUFFICES ASSUME NEW j \in Matches, match'[j].state = "SATISFIED",
                        match'[j].validity = "CURRENT"
                 PROVE  /\ match'[j].evidence # Nobody
                        /\ formal_input_allowed(evidence[match'[j].evidence])
      BY <1>1 DEF MatchesBacked, formal_input_allowed
    <3>1. CASE j = k
      BY <1>3, <1>4, <2>2, <3>1 DEF Alone
    <3>2. CASE j # k
      BY <1>1, <1>4, <1>7, <3>2, InForce
    <3> QED
      BY <3>1, <3>2
  <2> QED
    BY <2>1, <2>3
<1> QED
  BY <1>2, <1>5, <1>6, <1>7

(* Every step keeps the invariant. *)
LEMMA NextInv == MatchingIndInv /\ [Next]_vars => MatchingIndInv'
<1> SUFFICES ASSUME MatchingIndInv, [Next]_vars PROVE MatchingIndInv'
  OBVIOUS
<1>1. CASE UNCHANGED vars
  BY <1>1 DEF vars, MatchingIndInv, TypeOK, Honest, CallInv, OneCall, Alone, StillStored,
              InProgress, MatchesBacked, WillUnmatch, formal_input_allowed
<1>2. CASE \E e \in Evidences : Expire(e)
  BY <1>2, ExpireInv
<1>3. CASE \E h \in Handlers : RequirementRequests(h)
  BY <1>3, CreateInv, BeginsInv, RequirementInv, StaleInv DEF RequirementRequests
<1>4. CASE \E h \in Handlers : EvidenceRequests(h)
  BY <1>4, CreateInv, BeginsInv, EvidenceInv, ArchiveInv, ListInv, UnmatchInv
     DEF EvidenceRequests
<1>5. CASE \E h \in Handlers : MatchRequests(h)
  BY <1>5, BeginsInv, MatchInv DEF MatchRequests
<1> QED
  BY <1>1, <1>2, <1>3, <1>4, <1>5 DEF Next

-----------------------------------------------------------------------------
(* The inductive invariant holds of every behaviour of the matching. *)
THEOREM Invariance == Spec => []MatchingIndInv
BY InitInv, NextInv, PTL DEF Spec

(* Whatever overlaps, published evidence was approved by somebody other    *)
(* than its author: no review and publication that overwrite each other    *)
(* lose the reviewer (services.py:443-489).                                *)
THEOREM ReviewedBeforePublished == Spec => []PublishedWasReviewed
<1>1. MatchingIndInv => PublishedWasReviewed
  BY DEF MatchingIndInv, PublishedWasReviewed, Honest
<1> QED
  BY <1>1, Invariance, PTL

(* While no two calls overlapped, coverage SATISFIED rests, for every      *)
(* requirement in force, on evidence that is published and not revoked     *)
(* (services.py:531-539, 584-588, 647-650).                                *)
THEOREM CoverageIsProved == Spec => []MatchingInv
<1>1. ASSUME MatchingIndInv, ~overlapped, evidence_coverage = "SATISFIED",
             \A h \in Handlers : ~InProgress(h), NEW q \in published_mandatory
      PROVE  /\ match[match_by_requirement(q)].evidence # Nobody
             /\ formal_input_allowed(evidence[match[match_by_requirement(q)].evidence])
  <2> DEFINE k == match_by_requirement(q)
  <2>1. unmapped = {} /\ {"UNSATISFIED", "PARTIAL", "UNKNOWN"} \cap mapped_states = {}
    BY <1>1 DEF evidence_coverage
  <2>2. CurrentMatches(q) # {}
    BY <2>1 DEF unmapped
  <2>3. CurrentMatches(q) \subseteq Matches
    BY DEF CurrentMatches
  <2>4. CurrentMatches(q) \subseteq Nat /\ IsFiniteSet(CurrentMatches(q))
    BY <2>3, MatchingAssumption, FS_Subset
  <2>5. \E m \in CurrentMatches(q) : \A j \in CurrentMatches(q) : j <= m
    BY <2>2, <2>4, GreatestElement
  <2>6. k \in CurrentMatches(q)
    BY <2>5 DEF match_by_requirement
  <2>7. /\ k \in Matches /\ match[k].state # "ABSENT" /\ match[k].validity = "CURRENT"
        /\ match[k].state \in mapped_states
    BY <2>1, <2>6 DEF CurrentMatches, MatchExists, mapped_states
  <2> HIDE DEF k
  <2>8. match[k].state = "SATISFIED"
    BY <1>1, <2>1, <2>7 DEF MatchingIndInv, TypeOK, EvidenceMatch, MatchState
  <2>9. \A h \in Handlers : ~WillUnmatch(h, k)
    BY <1>1 DEF WillUnmatch, InProgress
  <2> QED
    BY <1>1, <2>7, <2>8, <2>9 DEF MatchingIndInv, MatchesBacked, k
<1>2. MatchingIndInv => MatchingInv
  BY <1>1 DEF MatchingInv, MatchingIndInv, CoverageHasProof
<1> QED
  BY <1>2, Invariance, PTL

(* While no two calls overlapped, revoked evidence stays revoked, and a    *)
(* published requirement keeps its text, its publication and, once         *)
(* superseded, its STALE mark (services.py:264-362, 473-530).              *)
THEOREM RevocationLasts == Spec => NothingReturns
<1>1. ASSUME MatchingIndInv, Next, ~overlapped', NEW h \in Handlers
      PROVE  ~overlapped /\ (InProgress(h) => Alone(h) /\ CallInv(h))
  <2>1. ~overlapped
    BY <1>1, ZenonT(60) DEF Next, RequirementRequests, EvidenceRequests, MatchRequests, Expire,
      create_requirement, BeginUpdate, update_requirement_draft, BeginPublishRequirement,
      publish_requirement, BeginSupersede, StaleSuperseded, supersede_requirement,
      create_evidence, BeginReview, review_evidence, BeginPublish, publish_evidence,
      BeginRevoke, RevokeArchive, RevokeList, revoke_evidence, BeginMatch, create_match,
      BeginReviewMatch, review_match, Create, Begin, Done
  <2> QED
    BY <1>1, <2>1 DEF MatchingIndInv, OneCall
<1>2. ASSUME MatchingIndInv, Next PROVE RevokedStaysOut
  <2> SUFFICES ASSUME NEW e \in Evidences, ~overlapped', evidence[e].state = "ARCHIVED"
               PROVE  evidence'[e].state = "ARCHIVED"
    BY DEF RevokedStaysOut
  <2>0. evidence \in [Evidences -> CompanyEvidence]
    BY <1>2 DEF MatchingIndInv, TypeOK
  <2>1. CASE evidence' = evidence
    BY <2>1
  <2>2. CASE \E x \in Evidences : Expire(x)
    BY <2>0, <2>2 DEF Expire, CompanyEvidence
  <2>3. ASSUME NEW h \in Handlers, create_evidence(h) PROVE evidence'[e].state = "ARCHIVED"
    BY <2>0, <2>3 DEF create_evidence
  <2>4. ASSUME NEW h \in Handlers,
               review_evidence(h) \/ publish_evidence(h) \/ RevokeArchive(h)
        PROVE  evidence'[e].state = "ARCHIVED"
    <3>1. /\ Alone(h) /\ CallInv(h) /\ handler[h].at \in {"review", "publish", "archive"}
          /\ handler[h].evCopy \in CompanyEvidence
      BY <1>1, <1>2, <2>4 DEF review_evidence, publish_evidence, RevokeArchive, InProgress,
                             MatchingIndInv, TypeOK, Call
    <3>2. CASE handler[h].ev # e
      BY <2>0, <2>4, <3>2 DEF review_evidence, publish_evidence, RevokeArchive
    <3>3. CASE handler[h].ev = e
      <4>1. handler[h].evCopy.state = "ARCHIVED" /\ handler[h].at # "publish"
        BY <3>1, <3>3 DEF Alone, StillStored
      <4>2. CASE review_evidence(h)
        BY <2>0, <3>1, <3>3, <4>1, <4>2 DEF review_evidence, CompanyEvidence
      <4>3. CASE RevokeArchive(h)
        BY <2>0, <3>1, <3>3, <4>1, <4>3 DEF RevokeArchive, CompanyEvidence
      <4> QED
        BY <2>4, <4>1, <4>2, <4>3 DEF publish_evidence
    <3> QED
      BY <3>2, <3>3
  <2>5. ASSUME NEW h \in Handlers,
               \/ RequirementRequests(h) \/ MatchRequests(h) \/ RevokeList(h)
               \/ revoke_evidence(h) \/ BeginReview(h) \/ BeginPublish(h) \/ BeginRevoke(h)
        PROVE  evidence' = evidence
    BY <2>5 DEF RequirementRequests, MatchRequests,
      create_requirement, BeginUpdate, update_requirement_draft, BeginPublishRequirement,
      publish_requirement, BeginSupersede, StaleSuperseded, supersede_requirement,
      BeginReview, BeginPublish, BeginRevoke, RevokeList, revoke_evidence, BeginMatch,
      create_match, BeginReviewMatch, review_match, Begin
  <2> QED
    BY <1>2, <2>1, <2>2, <2>3, <2>4, <2>5 DEF Next, EvidenceRequests
<1>3. ASSUME MatchingIndInv, Next PROVE PublishedRequirementIsFixed
  <2> SUFFICES ASSUME NEW q \in Requirements, ~overlapped',
                      requirement[q].state = "PUBLISHED"
               PROVE  /\ requirement'[q].state = "PUBLISHED"
                      /\ requirement'[q].text = requirement[q].text
                      /\ requirement[q].validity = "STALE" =>
                           requirement'[q].validity = "STALE"
    BY DEF PublishedRequirementIsFixed
  <2>0. requirement \in [Requirements -> Requirement]
    BY <1>3 DEF MatchingIndInv, TypeOK
  <2>1. CASE requirement'[q] = requirement[q]
    BY <2>1
  <2>2. ASSUME NEW h \in Handlers, create_requirement(h) \/ supersede_requirement(h)
        PROVE  requirement'[q] = requirement[q]
    BY <2>0, <2>2 DEF create_requirement, supersede_requirement, NextFree
  <2>3. ASSUME NEW h \in Handlers, update_requirement_draft(h) \/ publish_requirement(h)
        PROVE  requirement'[q] = requirement[q]
    <3>1. /\ Alone(h) /\ handler[h].at \in {"update", "publish_requirement"}
      BY <1>1, <1>3, <2>3 DEF update_requirement_draft, publish_requirement, InProgress
    <3>2. handler[h].req # q
      BY <3>1 DEF Alone
    <3> QED
      BY <2>0, <2>3, <3>2 DEF update_requirement_draft, publish_requirement
  <2>4. ASSUME NEW h \in Handlers, StaleSuperseded(h)
        PROVE  \/ requirement'[q] = requirement[q]
               \/ requirement'[q] = [requirement[q] EXCEPT !.validity = "STALE"]
    <3>1. /\ Alone(h) /\ handler[h].at = "stale"
      BY <1>1, <1>3, <2>4 DEF StaleSuperseded, InProgress
    <3>2. CASE handler[h].req # q
      BY <2>0, <2>4, <3>2 DEF StaleSuperseded
    <3>3. CASE handler[h].req = q
      BY <2>0, <2>4, <3>1, <3>3 DEF StaleSuperseded, Alone
    <3> QED
      BY <3>2, <3>3
  <2>5. ASSUME requirement'[q] = [requirement[q] EXCEPT !.validity = "STALE"]
        PROVE  /\ requirement'[q].state = "PUBLISHED"
               /\ requirement'[q].text = requirement[q].text
               /\ requirement'[q].validity = "STALE"
    BY <2>0, <2>5 DEF Requirement
  <2>6. ASSUME NEW h \in Handlers,
               \/ EvidenceRequests(h) \/ MatchRequests(h) \/ BeginUpdate(h)
               \/ BeginPublishRequirement(h) \/ BeginSupersede(h)
        PROVE  requirement' = requirement
    BY <2>6 DEF EvidenceRequests, MatchRequests, BeginUpdate, BeginPublishRequirement,
      BeginSupersede, create_evidence, BeginReview, review_evidence, BeginPublish,
      publish_evidence, BeginRevoke, RevokeArchive, RevokeList, revoke_evidence,
      BeginMatch, create_match, BeginReviewMatch, review_match, Begin
  <2>7. CASE \E e \in Evidences : Expire(e)
    BY <2>7 DEF Expire
  <2> QED
    BY <1>3, <2>1, <2>2, <2>3, <2>4, <2>5, <2>6, <2>7 DEF Next, RequirementRequests
<1>4. MatchingIndInv /\ [Next]_vars =>
        [RevokedStaysOut /\ PublishedRequirementIsFixed]_vars
  BY <1>2, <1>3
<1> QED
  BY <1>4, Invariance, PTL DEF Spec, NothingReturns

-----------------------------------------------------------------------------
(* Precheck and readiness.  The cost baseline stays under dual control     *)
(* because every copy in flight does: whoever will write an approval is    *)
(* not the author of the copy, and whoever will publish holds an approved  *)
(* one.  A call that closes a condition was dated before the due date that *)
(* has passed since, if one has.                                           *)

(* A cost that names an approver names another than its author; what is    *)
(* published has one, and only that is free of the exploration mark        *)
(* (commercial services.py:196-239).                                       *)
CostIsSound(c) ==
    /\ c.state = "PUBLISHED" => c.approvedBy # Nobody
    /\ c.approvedBy # Nobody => c.approvedBy # c.createdBy
    /\ c.state # "ABSENT" => (c.exploration <=> c.state # "PUBLISHED")

(* What a call in flight has checked, on its copy (commercial              *)
(* services.py:196-239, evidence services.py:871-888).                     *)
CallsAreSound ==
    \A s \in Services :
        /\ service[s].at = "approve" =>
             /\ service[s].costCopy.state = "DRAFT"
             /\ service[s].costCopy.exploration
             /\ service[s].by \in People
             /\ service[s].by # service[s].costCopy.createdBy
        /\ service[s].at = "publish_cost" =>
             service[s].costCopy.approvedBy \notin {Nobody, service[s].costCopy.createdBy}
        /\ service[s].at = "close" =>
             /\ service[s].dated < clock
             /\ condition.due > 0 => service[s].dated < condition.due

(* Until calls overlap one at most is under way, and what a close found    *)
(* OPEN is still so.                                                       *)
OneCloses ==
    ~mixed =>
        /\ \A s \in Services : service[s].at = "close" => condition.state = "OPEN"
        /\ \A s, t \in Services : Readiness!Busy(s) /\ Readiness!Busy(t) => s = t

(* One of the stored prechecks is dated last. *)
NewestExists ==
    prechecks # {} => \E p \in prechecks : \A q \in prechecks : q.dated <= p.dated

(* The inductive invariant of precheck and readiness. *)
ReadinessIndInv ==
    /\ Readiness!TypeOK
    /\ Readiness!PassIffAllChecks
    /\ Readiness!NeverFormallyReady
    /\ CostIsSound(cost)
    /\ CallsAreSound
    /\ OneCloses
    /\ NewestExists

(* What there is before the first call. *)
LEMMA ReadinessDefaults ==
    /\ Readiness!NoCost \in Readiness!CostBaseline
    /\ Readiness!NoMatching \in Readiness!Matching
    /\ Readiness!NoCall \in Readiness!Call
    /\ Readiness!NoCall.at = "new"
<1>1. Readiness!NoCost \in Readiness!CostBaseline
  BY DEF Readiness!NoCost, Readiness!CostBaseline
<1>2. Readiness!NoMatching \in Readiness!Matching
  BY DEF Readiness!NoMatching, Readiness!Matching, Readiness!MatchState
<1> QED
  BY <1>1, <1>2 DEF Readiness!NoCall, Readiness!Call, Readiness!Steps,
     Readiness!ConditionState, Readiness!PrecheckDecision, Readiness!ReadinessDecision

LEMMA ReadinessInit == Readiness!Init => ReadinessIndInv
<1> SUFFICES ASSUME Readiness!Init PROVE ReadinessIndInv
  OBVIOUS
<1>1. /\ condition = Readiness!NoCondition /\ prechecks = {} /\ readiness = {}
      /\ clock = 1 /\ mixed = FALSE
      /\ service = [s \in Services |-> Readiness!NoCall]
  BY DEF Readiness!Init
<1>2. /\ profile \in Readiness!CompanyResponseProfile
      /\ cost \in Readiness!CostBaseline
      /\ policy \in Readiness!CommercialPolicy
      /\ CostIsSound(cost)
  <2>1. CASE /\ profile = [state |-> "ABSENT", inWindow |-> TRUE]
             /\ cost = Readiness!NoCost
             /\ policy = "ABSENT"
    <3>1. CostIsSound(Readiness!NoCost)
      BY DEF Readiness!NoCost, CostIsSound
    <3> QED
      BY <2>1, <3>1, ReadinessDefaults DEF Readiness!CompanyResponseProfile,
         Readiness!CommercialPolicy
  <2>2. CASE \E author, approver \in People :
               /\ author # approver
               /\ profile = [state |-> "PUBLISHED", inWindow |-> TRUE]
               /\ cost = [state |-> "PUBLISHED", review |-> "APPROVED",
                          createdBy |-> author, approvedBy |-> approver,
                          exploration |-> FALSE]
               /\ policy = "PUBLISHED"
    <3>1. PICK author \in People, approver \in People :
               /\ author # approver
               /\ profile = [state |-> "PUBLISHED", inWindow |-> TRUE]
               /\ cost = [state |-> "PUBLISHED", review |-> "APPROVED",
                          createdBy |-> author, approvedBy |-> approver,
                          exploration |-> FALSE]
               /\ policy = "PUBLISHED"
      BY <2>2
    <3>2. /\ cost \in Readiness!CostBaseline
          /\ cost.state = "PUBLISHED" /\ ~cost.exploration
          /\ cost.createdBy = author /\ cost.approvedBy = approver
      BY <3>1 DEF Readiness!CostBaseline
    <3>3. CostIsSound(cost)
      BY <3>1, <3>2, ReadinessAssumption DEF CostIsSound
    <3> QED
      BY <3>1, <3>2, <3>3 DEF Readiness!CompanyResponseProfile,
         Readiness!CommercialPolicy
  <2> QED
    BY <2>1, <2>2 DEF Readiness!Init
<1>3. Readiness!TypeOK
  BY <1>1, <1>2, ReadinessDefaults DEF Readiness!TypeOK, Readiness!NoCondition,
     Readiness!ConditionRequirement
<1>4. CallsAreSound /\ OneCloses
  BY <1>1, ReadinessDefaults DEF CallsAreSound, OneCloses, Readiness!Busy
<1> QED
  BY <1>1, <1>2, <1>3, <1>4 DEF ReadinessIndInv, Readiness!PassIffAllChecks,
     Readiness!NeverFormallyReady, NewestExists

(* A call that begins keeps the invariant if it has checked what it must.  *)
LEMMA CallBegins ==
    ASSUME ReadinessIndInv, NEW s \in Services, NEW call \in Readiness!Call,
           Readiness!Begin(s, call),
           call.at \notin {"new", "returned"},
           call.at = "approve" => /\ call.costCopy.state = "DRAFT"
                                  /\ call.costCopy.exploration
                                  /\ call.by \in People
                                  /\ call.by # call.costCopy.createdBy,
           call.at = "publish_cost" =>
               call.costCopy.approvedBy \notin {Nobody, call.costCopy.createdBy},
           call.at = "close" => condition.state = "OPEN" /\ condition.due = 0
    PROVE  ReadinessIndInv'
<1>0. /\ service \in [Services -> Readiness!Call] /\ clock \in Nat
      /\ \A t \in Services : service[t].dated \in Nat
      /\ condition.due \in Nat /\ mixed \in BOOLEAN
  BY DEF ReadinessIndInv, Readiness!TypeOK, Readiness!Call,
     Readiness!ConditionRequirement
<1> DEFINE new == [call EXCEPT !.dated = clock]
<1>1. /\ new \in Readiness!Call /\ new.at = call.at /\ new.costCopy = call.costCopy
      /\ new.by = call.by /\ new.dated = clock
  BY <1>0 DEF Readiness!Call
<1>2. service' = [service EXCEPT ![s] = new]
  BY DEF Readiness!Begin
<1> HIDE DEF new
<1>3. /\ clock' = clock + 1 /\ service[s].at = "new"
      /\ mixed' = (mixed \/ \E t \in Services : Readiness!Busy(t))
      /\ UNCHANGED <<profile, condition, cost, policy, prechecks, readiness>>
  BY DEF Readiness!Begin, Readiness!records
<1>4. service'[s] = new /\ \A t \in Services : t # s => service'[t] = service[t]
  BY <1>0, <1>2
<1>5. Readiness!TypeOK'
  <2>1. mixed' \in BOOLEAN /\ clock' \in Nat
    BY <1>0, <1>3
  <2>2. service' \in [Services -> Readiness!Call]
    BY <1>0, <1>1, <1>2
  <2> QED
    BY <1>3, <2>1, <2>2 DEF ReadinessIndInv, Readiness!TypeOK
<1>6. CallsAreSound'
  <2> SUFFICES ASSUME NEW t \in Services
               PROVE  /\ service'[t].at = "approve" =>
                           /\ service'[t].costCopy.state = "DRAFT"
                           /\ service'[t].costCopy.exploration
                           /\ service'[t].by \in People
                           /\ service'[t].by # service'[t].costCopy.createdBy
                      /\ service'[t].at = "publish_cost" =>
                           service'[t].costCopy.approvedBy \notin
                              {Nobody, service'[t].costCopy.createdBy}
                      /\ service'[t].at = "close" =>
                           /\ service'[t].dated < clock'
                           /\ condition'.due > 0 => service'[t].dated < condition'.due
    BY DEF CallsAreSound
  <2>1. CASE t = s
    BY <1>0, <1>1, <1>3, <1>4, <2>1
  <2>2. CASE t # s
    BY <1>0, <1>3, <1>4, <2>2 DEF ReadinessIndInv, CallsAreSound
  <2> QED
    BY <2>1, <2>2
<1>7. OneCloses'
  <2> SUFFICES ASSUME ~mixed'
               PROVE  /\ \A t \in Services : service'[t].at = "close" =>
                                               condition'.state = "OPEN"
                      /\ \A t, u \in Services :
                           service'[t].at \notin {"new", "returned"} /\
                           service'[u].at \notin {"new", "returned"} => t = u
    BY DEF OneCloses, Readiness!Busy
  <2>1. \A t \in Services : t # s => service'[t].at \in {"new", "returned"}
    BY <1>3, <1>4 DEF Readiness!Busy
  <2> QED
    BY <1>1, <1>3, <1>4, <2>1
<1> QED
  BY <1>3, <1>5, <1>6, <1>7 DEF ReadinessIndInv, Readiness!PassIffAllChecks,
     Readiness!NeverFormallyReady, NewestExists

(* Further reads of an assessment that is under way change nothing else. *)
LEMMA CallReads ==
    ASSUME ReadinessIndInv, NEW s \in Services, NEW call \in Readiness!Call, NEW from,
           from \notin {"new", "returned"}, Readiness!Read(s, from, call),
           call.at \notin {"approve", "publish_cost", "close"}
    PROVE  ReadinessIndInv'
<1>1. /\ service' = [service EXCEPT ![s] = call] /\ service[s].at = from
      /\ UNCHANGED <<profile, condition, cost, policy, prechecks, readiness, clock, mixed>>
  BY DEF Readiness!Read, Readiness!records
<1>2. /\ service'[s] = call /\ \A t \in Services : t # s => service'[t] = service[t]
      /\ Readiness!TypeOK'
  BY <1>1 DEF ReadinessIndInv, Readiness!TypeOK
<1>3. CallsAreSound'
  BY <1>1, <1>2 DEF ReadinessIndInv, CallsAreSound
<1>4. OneCloses'
  <2>1. \A t \in Services : Readiness!Busy(t)' => Readiness!Busy(t)
    BY <1>1, <1>2 DEF Readiness!Busy
  <2> QED
    BY <1>1, <1>2, <2>1 DEF ReadinessIndInv, OneCloses
<1> QED
  BY <1>1, <1>2, <1>3, <1>4 DEF ReadinessIndInv, Readiness!PassIffAllChecks,
     Readiness!NeverFormallyReady, NewestExists

(* A call that returns keeps the invariant if what it stored is sound.     *)
LEMMA CallReturns ==
    ASSUME ReadinessIndInv, NEW s \in Services, Readiness!Done(s),
           profile' \in Readiness!CompanyResponseProfile,
           condition' \in Readiness!ConditionRequirement,
           cost' \in Readiness!CostBaseline,
           policy' \in Readiness!CommercialPolicy,
           prechecks' \subseteq Readiness!PrecheckAssessment,
           readiness' \subseteq Readiness!StrategyReadinessAssessment,
           CostIsSound(cost'),
           Readiness!PassIffAllChecks', Readiness!NeverFormallyReady', NewestExists',
           condition'.due \in {0, condition.due},
           condition'.state = condition.state \/ condition.state = "ABSENT"
             \/ service[s].at = "close"
    PROVE  ReadinessIndInv'
<1>1. service' = [service EXCEPT ![s] = [Readiness!NoCall EXCEPT !.at = "returned"]]
      /\ UNCHANGED <<clock, mixed>>
  BY DEF Readiness!Done
<1>2. PICK over : over = [Readiness!NoCall EXCEPT !.at = "returned"]
  OBVIOUS
<1>3. over \in Readiness!Call /\ over.at = "returned"
  BY <1>2, ReadinessDefaults DEF Readiness!Call, Readiness!Steps
<1>4. /\ service'[s].at = "returned"
      /\ \A t \in Services : t # s => service'[t] = service[t]
      /\ Readiness!TypeOK'
  BY <1>1, <1>2, <1>3 DEF ReadinessIndInv, Readiness!TypeOK
<1>5. CallsAreSound'
  <2> SUFFICES ASSUME NEW t \in Services, t # s
               PROVE  /\ service[t].at = "approve" =>
                           /\ service[t].costCopy.state = "DRAFT"
                           /\ service[t].costCopy.exploration
                           /\ service[t].by \in People
                           /\ service[t].by # service[t].costCopy.createdBy
                      /\ service[t].at = "publish_cost" =>
                           service[t].costCopy.approvedBy \notin
                              {Nobody, service[t].costCopy.createdBy}
                      /\ service[t].at = "close" =>
                           /\ service[t].dated < clock
                           /\ condition'.due > 0 => service[t].dated < condition'.due
    BY <1>1, <1>4 DEF CallsAreSound
  <2> QED
    BY DEF ReadinessIndInv, CallsAreSound
<1>6. OneCloses'
  <2> SUFFICES ASSUME ~mixed
               PROVE  /\ \A t \in Services : service'[t].at = "close" =>
                                               condition'.state = "OPEN"
                      /\ \A t, u \in Services :
                           Readiness!Busy(t)' /\ Readiness!Busy(u)' => t = u
    BY <1>1 DEF OneCloses
  <2>1. /\ \A t \in Services : service[t].at = "close" => condition.state = "OPEN"
        /\ \A t, u \in Services : Readiness!Busy(t) /\ Readiness!Busy(u) => t = u
    BY DEF ReadinessIndInv, OneCloses
  <2>2. \A t \in Services : Readiness!Busy(t)' => Readiness!Busy(t) /\ t # s
    BY <1>4 DEF Readiness!Busy
  <2>3. ASSUME NEW t \in Services, service'[t].at = "close"
        PROVE  condition'.state = "OPEN"
    <3>1. t # s /\ service[t].at = "close" /\ condition.state = "OPEN"
      BY <1>4, <2>1, <2>3
    <3>2. service[s].at # "close"
      BY <2>1, <3>1 DEF Readiness!Busy
    <3> QED
      BY <3>1, <3>2
  <2> QED
    BY <2>1, <2>2, <2>3
<1> QED
  BY <1>4, <1>5, <1>6 DEF ReadinessIndInv

(* The response profile and the condition (evidence services.py:640-900).  *)
LEMMA ProfileInv ==
    ASSUME ReadinessIndInv, NEW s \in Services,
           Readiness!ProfileRequests(s) \/ Readiness!ConditionRequests(s)
    PROVE  ReadinessIndInv'
<1>0. /\ Readiness!TypeOK /\ profile \in Readiness!CompanyResponseProfile
      /\ condition \in Readiness!ConditionRequirement
      /\ service \in [Services -> Readiness!Call]
      /\ service[s].target \in Readiness!ConditionState
      /\ CostIsSound(cost)
  BY DEF ReadinessIndInv, Readiness!TypeOK, Readiness!Call
<1>1. ASSUME NEW p \in Readiness!CompanyResponseProfile, profile' = p,
             Readiness!Done(s),
             UNCHANGED <<condition, cost, policy, prechecks, readiness>>
      PROVE  ReadinessIndInv'
  BY <1>0, <1>1, CallReturns DEF ReadinessIndInv, Readiness!TypeOK,
     Readiness!PassIffAllChecks, Readiness!NeverFormallyReady, NewestExists
<1>2. ASSUME NEW c \in Readiness!ConditionRequirement, condition' = c,
             Readiness!Done(s), c.due \in {0, condition.due},
             condition.state = "ABSENT" \/ service[s].at = "close",
             UNCHANGED <<profile, cost, policy, prechecks, readiness>>
      PROVE  ReadinessIndInv'
  BY <1>0, <1>2, CallReturns DEF ReadinessIndInv, Readiness!TypeOK,
     Readiness!PassIffAllChecks, Readiness!NeverFormallyReady, NewestExists
<1>3. CASE Readiness!create_profile(s) \/ Readiness!publish_profile(s)
  <2>1. [profile EXCEPT !.state = "DRAFT"] \in Readiness!CompanyResponseProfile
        /\ [profile EXCEPT !.state = "PUBLISHED"] \in Readiness!CompanyResponseProfile
    BY <1>0 DEF Readiness!CompanyResponseProfile
  <2> QED
    BY <1>1, <1>3, <2>1 DEF Readiness!create_profile, Readiness!publish_profile,
       Readiness!Create
<1>4. CASE Readiness!BeginPublishProfile(s)
  <2> DEFINE new == [Readiness!NoCall EXCEPT !.at = "publish_profile"]
  <2>1. new \in Readiness!Call /\ new.at = "publish_profile"
    BY ReadinessDefaults DEF Readiness!Call, Readiness!Steps
  <2>2. Readiness!Begin(s, new)
    BY <1>4 DEF Readiness!BeginPublishProfile
  <2> HIDE DEF new
  <2> QED
    BY <2>1, <2>2, CallBegins
<1>5. CASE Readiness!create_condition(s)
  <2>1. [Readiness!NoCondition EXCEPT !.state = "OPEN"] \in Readiness!ConditionRequirement
        /\ [Readiness!NoCondition EXCEPT !.state = "OPEN"].due = 0
    BY DEF Readiness!NoCondition, Readiness!ConditionRequirement,
       Readiness!ConditionState
  <2> QED
    BY <1>2, <1>5, <2>1 DEF Readiness!create_condition, Readiness!Create
<1>6. CASE Readiness!transition_condition(s)
  <2>1. [condition EXCEPT !.state = service[s].target] \in Readiness!ConditionRequirement
        /\ [condition EXCEPT !.state = service[s].target].due = condition.due
    BY <1>0 DEF Readiness!ConditionRequirement
  <2> QED
    BY <1>2, <1>6, <2>1 DEF Readiness!transition_condition
<1>7. CASE Readiness!BeginClose(s)
  <2>1. PICK target \in Readiness!ConditionState \ {"OPEN"} :
          /\ Readiness!get_condition = "OPEN"
          /\ Readiness!Begin(s, [Readiness!NoCall EXCEPT !.at = "close",
                                                         !.target = target])
    BY <1>7, Zenon DEF Readiness!BeginClose
  <2> DEFINE new == [Readiness!NoCall EXCEPT !.at = "close", !.target = target]
  <2>2. new \in Readiness!Call /\ new.at = "close"
    BY ReadinessDefaults DEF Readiness!Call, Readiness!Steps
  <2>3. Readiness!Begin(s, new)
    BY <2>1
  <2> HIDE DEF new
  <2>4. condition.due \in Nat
    BY <1>0 DEF Readiness!ConditionRequirement
  <2>5. condition.state = "OPEN" /\ condition.due = 0
    BY <2>1, <2>4 DEF Readiness!get_condition
  <2> QED
    BY <2>2, <2>3, <2>5, CallBegins
<1> QED
  BY <1>3, <1>4, <1>5, <1>6, <1>7 DEF Readiness!ProfileRequests,
     Readiness!ConditionRequests

(* Cost and policy (commercial services.py:150-330). *)
LEMMA CostInv ==
    ASSUME ReadinessIndInv, NEW s \in Services,
           Readiness!CostRequests(s) \/ Readiness!PolicyRequests(s)
    PROVE  ReadinessIndInv'
<1>0. /\ Readiness!TypeOK /\ cost \in Readiness!CostBaseline
      /\ service \in [Services -> Readiness!Call]
      /\ service[s].costCopy \in Readiness!CostBaseline
      /\ service[s].by \in People \cup {Nobody}
      /\ CostIsSound(cost)
  BY DEF ReadinessIndInv, Readiness!TypeOK, Readiness!Call
<1>1. ASSUME NEW c \in Readiness!CostBaseline, cost' = c, CostIsSound(c),
             Readiness!Done(s),
             UNCHANGED <<profile, condition, policy, prechecks, readiness>>
      PROVE  ReadinessIndInv'
  BY <1>0, <1>1, CallReturns DEF ReadinessIndInv, Readiness!TypeOK,
     Readiness!PassIffAllChecks, Readiness!NeverFormallyReady, NewestExists
<1>2. CASE Readiness!create_cost_baseline(s)
  <2>1. PICK p \in People :
          cost' = [Readiness!NoCost EXCEPT !.state = "DRAFT", !.createdBy = p]
    BY <1>2, Zenon DEF Readiness!create_cost_baseline
  <2> DEFINE new == [Readiness!NoCost EXCEPT !.state = "DRAFT", !.createdBy = p]
  <2>2. /\ new \in Readiness!CostBaseline /\ new.state = "DRAFT"
        /\ new.approvedBy = Nobody /\ new.exploration
    BY DEF Readiness!NoCost, Readiness!CostBaseline
  <2>3. cost' = new
    BY <2>1
  <2> HIDE DEF new
  <2>4. CostIsSound(new)
    BY <2>2 DEF CostIsSound
  <2> QED
    BY <1>1, <1>2, <2>2, <2>3, <2>4 DEF Readiness!create_cost_baseline, Readiness!Create
<1>3. CASE Readiness!BeginApprove(s)
  <2>1. PICK p \in People :
          /\ cost.state # "ABSENT" /\ p # cost.createdBy /\ cost.approvedBy = Nobody
          /\ Readiness!Begin(s, [Readiness!NoCall EXCEPT !.at = "approve", !.by = p,
                                                         !.costCopy = cost])
    BY <1>3, Zenon DEF Readiness!BeginApprove
  <2> DEFINE new == [Readiness!NoCall EXCEPT !.at = "approve", !.by = p,
                                             !.costCopy = cost]
  <2>2. /\ new \in Readiness!Call /\ new.at = "approve" /\ new.by = p
        /\ new.costCopy = cost
    BY <1>0, ReadinessDefaults DEF Readiness!Call, Readiness!Steps
  <2>3. Readiness!Begin(s, new)
    BY <2>1
  <2> HIDE DEF new
  <2>4. cost.state = "DRAFT" /\ cost.exploration
    BY <1>0, <2>1 DEF CostIsSound, Readiness!CostBaseline
  <2> QED
    BY <2>1, <2>2, <2>3, <2>4, CallBegins
<1>4. CASE Readiness!approve_cost_baseline(s)
  <2> DEFINE new == [service[s].costCopy EXCEPT !.review = "APPROVED",
                                                !.approvedBy = service[s].by]
  <2>1. /\ new \in Readiness!CostBaseline /\ new.state = service[s].costCopy.state
        /\ new.approvedBy = service[s].by
        /\ new.createdBy = service[s].costCopy.createdBy
        /\ new.exploration = service[s].costCopy.exploration
    BY <1>0 DEF Readiness!CostBaseline
  <2>2. cost' = new
    BY <1>4 DEF Readiness!approve_cost_baseline
  <2> HIDE DEF new
  <2>3. /\ service[s].costCopy.state = "DRAFT" /\ service[s].costCopy.exploration
        /\ service[s].by \in People
        /\ service[s].by # service[s].costCopy.createdBy
    BY <1>4 DEF ReadinessIndInv, CallsAreSound, Readiness!approve_cost_baseline
  <2>4. CostIsSound(new)
    BY <2>1, <2>3 DEF CostIsSound
  <2> QED
    BY <1>1, <1>4, <2>1, <2>2, <2>4 DEF Readiness!approve_cost_baseline
<1>5. CASE Readiness!BeginPublishCost(s)
  <2> DEFINE new == [Readiness!NoCall EXCEPT !.at = "publish_cost", !.costCopy = cost]
  <2>1. /\ new \in Readiness!Call /\ new.at = "publish_cost" /\ new.costCopy = cost
    BY <1>0, ReadinessDefaults DEF Readiness!Call, Readiness!Steps
  <2>2. Readiness!Begin(s, new)
    BY <1>5 DEF Readiness!BeginPublishCost
  <2> HIDE DEF new
  <2>3. cost.approvedBy \notin {Nobody, cost.createdBy}
    BY <1>0, <1>5 DEF Readiness!BeginPublishCost, CostIsSound
  <2> QED
    BY <2>1, <2>2, <2>3, CallBegins
<1>6. CASE Readiness!publish_cost_baseline(s)
  <2> DEFINE new == [service[s].costCopy EXCEPT !.state = "PUBLISHED",
                                                !.exploration = FALSE]
  <2>1. /\ new \in Readiness!CostBaseline /\ new.state = "PUBLISHED"
        /\ new.approvedBy = service[s].costCopy.approvedBy
        /\ new.createdBy = service[s].costCopy.createdBy
        /\ new.exploration = FALSE
    BY <1>0 DEF Readiness!CostBaseline
  <2>2. cost' = new
    BY <1>6 DEF Readiness!publish_cost_baseline
  <2> HIDE DEF new
  <2>3. service[s].costCopy.approvedBy \notin {Nobody, service[s].costCopy.createdBy}
    BY <1>6 DEF ReadinessIndInv, CallsAreSound, Readiness!publish_cost_baseline
  <2>4. CostIsSound(new)
    BY <2>1, <2>3 DEF CostIsSound
  <2> QED
    BY <1>1, <1>6, <2>1, <2>2, <2>4 DEF Readiness!publish_cost_baseline
<1>7. CASE Readiness!create_policy(s) \/ Readiness!publish_policy(s)
  <2>1. /\ Readiness!Done(s) /\ policy' \in Readiness!CommercialPolicy
        /\ UNCHANGED <<profile, condition, cost, prechecks, readiness>>
    BY <1>7 DEF Readiness!create_policy, Readiness!publish_policy, Readiness!Create,
       Readiness!CommercialPolicy
  <2> QED
    BY <1>0, <2>1, CallReturns DEF ReadinessIndInv, Readiness!TypeOK,
       Readiness!PassIffAllChecks, Readiness!NeverFormallyReady, NewestExists
<1>8. CASE Readiness!BeginPublishPolicy(s)
  <2> DEFINE new == [Readiness!NoCall EXCEPT !.at = "publish_policy"]
  <2>1. new \in Readiness!Call /\ new.at = "publish_policy"
    BY ReadinessDefaults DEF Readiness!Call, Readiness!Steps
  <2>2. Readiness!Begin(s, new)
    BY <1>8 DEF Readiness!BeginPublishPolicy
  <2> HIDE DEF new
  <2> QED
    BY <2>1, <2>2, CallBegins
<1> QED
  BY <1>2, <1>3, <1>4, <1>5, <1>6, <1>7, <1>8 DEF Readiness!CostRequests,
     Readiness!PolicyRequests

(* decide and the five checks agree, although they are computed apart      *)
(* (services.py:1048-1090).                                                *)
LEMMA DecisionMatchesChecks ==
    ASSUME NEW read \in Readiness!Matching,
           NEW rules \in {"none", "supported", "unsupported"},
           NEW responded \in BOOLEAN, NEW open \in BOOLEAN
    PROVE  /\ Readiness!decide(read.coverage, rules, responded, open)
                \in Readiness!PrecheckDecision
           /\ Readiness!decide(read.coverage, rules, responded, open) = "PASS"
                <=> Readiness!PassedChecks(read, rules, responded, open)
                      = Readiness!Checks
<1>1. /\ read.coverage \in {"SATISFIED", "PARTIAL", "UNSATISFIED", "UNKNOWN"}
      /\ read.coverage = "SATISFIED" => read.subject = "SATISFIED"
  BY DEF Readiness!Matching, Readiness!MatchState
<1> DEFINE d == Readiness!decide(read.coverage, rules, responded, open)
<1>2. /\ d \in Readiness!PrecheckDecision
      /\ d = "PASS" <=> /\ rules = "supported" /\ read.coverage = "SATISFIED"
                        /\ responded /\ ~open
  BY <1>1 DEF Readiness!decide, Readiness!PrecheckDecision
<1>3. Readiness!PassedChecks(read, rules, responded, open) = Readiness!Checks
        <=> /\ rules = "supported" /\ read.subject = "SATISFIED" /\ responded
            /\ read.coverage = "SATISFIED" /\ ~open
  BY DEF Readiness!PassedChecks, Readiness!Checks
<1> QED
  BY <1>1, <1>2, <1>3

(* Storing a precheck keeps one that is dated last. *)
LEMMA NewestStays ==
    ASSUME ReadinessIndInv, NEW p \in Readiness!PrecheckAssessment,
           prechecks' = prechecks \cup {p}
    PROVE  NewestExists'
<1>1. \A q \in prechecks : q.dated \in Nat
  BY DEF ReadinessIndInv, Readiness!TypeOK, Readiness!PrecheckAssessment
<1>2. p.dated \in Nat
  BY DEF Readiness!PrecheckAssessment
<1>3. CASE prechecks = {}
  BY <1>2, <1>3 DEF NewestExists
<1>4. CASE prechecks # {}
  <2>1. PICK m \in prechecks : \A q \in prechecks : q.dated <= m.dated
    BY <1>4 DEF ReadinessIndInv, NewestExists
  <2>2. CASE m.dated <= p.dated
    BY <1>1, <1>2, <2>1, <2>2 DEF NewestExists
  <2>3. CASE p.dated <= m.dated
    BY <1>1, <1>2, <2>1, <2>3 DEF NewestExists
  <2> QED
    BY <1>1, <1>2, <2>1, <2>2, <2>3
<1> QED
  BY <1>3, <1>4

(* Precheck (services.py:985-1111). *)
LEMMA PrecheckInv ==
    ASSUME ReadinessIndInv, NEW s \in Services, Readiness!PrecheckRequests(s)
    PROVE  ReadinessIndInv'
<1>0. /\ Readiness!TypeOK /\ CostIsSound(cost)
      /\ service[s] \in Readiness!Call
      /\ profile \in Readiness!CompanyResponseProfile
  BY DEF ReadinessIndInv, Readiness!TypeOK
<1>1. CASE Readiness!BeginPrecheck(s)
  <2>1. PICK seen \in Readiness!Matching :
          Readiness!Begin(s, [Readiness!NoCall EXCEPT !.at = "profiles", !.read = seen])
    BY <1>1, Zenon DEF Readiness!BeginPrecheck
  <2> DEFINE new == [Readiness!NoCall EXCEPT !.at = "profiles", !.read = seen]
  <2>2. new \in Readiness!Call /\ new.at = "profiles"
    BY ReadinessDefaults DEF Readiness!Call, Readiness!Steps
  <2>3. Readiness!Begin(s, new)
    BY <2>1
  <2> HIDE DEF new
  <2> QED
    BY <2>2, <2>3, CallBegins
<1>2. CASE Readiness!PrecheckProfiles(s)
  <2> DEFINE new == [service[s] EXCEPT !.at = "conditions",
                                       !.responded = Readiness!profile_current]
  <2>0. Readiness!profile_current \in BOOLEAN
    BY DEF Readiness!profile_current
  <2>1. new \in Readiness!Call /\ new.at = "conditions"
    BY <1>0, <2>0 DEF Readiness!Call, Readiness!Steps
  <2>2. Readiness!Read(s, "profiles", new)
    BY <1>2 DEF Readiness!PrecheckProfiles
  <2> HIDE DEF new
  <2> QED
    BY <2>1, <2>2, CallReads
<1>3. CASE Readiness!PrecheckConditions(s)
  <2> DEFINE new == [service[s] EXCEPT !.at = "rules",
                                       !.open = Readiness!condition_is_blocking]
  <2>0. Readiness!condition_is_blocking \in BOOLEAN
    BY DEF Readiness!condition_is_blocking
  <2>1. new \in Readiness!Call /\ new.at = "rules"
    BY <1>0, <2>0 DEF Readiness!Call, Readiness!Steps
  <2>2. Readiness!Read(s, "conditions", new)
    BY <1>3 DEF Readiness!PrecheckConditions
  <2> HIDE DEF new
  <2> QED
    BY <2>1, <2>2, CallReads
<1>4. CASE Readiness!create_precheck(s)
  <2>1. PICK rules \in {"none", "supported", "unsupported"} :
          prechecks' = prechecks \cup
            {[dated |-> service[s].dated,
              decision |-> Readiness!decide(service[s].read.coverage, rules,
                             service[s].responded, service[s].open),
              checks |-> Readiness!PassedChecks(service[s].read, rules,
                           service[s].responded, service[s].open)]}
    BY <1>4 DEF Readiness!create_precheck
  <2>2. /\ service[s].read \in Readiness!Matching /\ service[s].dated \in Nat
        /\ service[s].responded \in BOOLEAN /\ service[s].open \in BOOLEAN
    BY <1>0 DEF Readiness!Call
  <2>3. PICK d : d = Readiness!decide(service[s].read.coverage, rules,
                             service[s].responded, service[s].open)
    OBVIOUS
  <2>4. PICK c : c = Readiness!PassedChecks(service[s].read, rules,
                           service[s].responded, service[s].open)
    OBVIOUS
  <2>5. /\ d \in Readiness!PrecheckDecision /\ c \in SUBSET Readiness!Checks
        /\ d = "PASS" <=> c = Readiness!Checks
    BY <2>2, <2>3, <2>4, DecisionMatchesChecks DEF Readiness!PassedChecks
  <2> DEFINE new == [dated |-> service[s].dated, decision |-> d, checks |-> c]
  <2>6. new \in Readiness!PrecheckAssessment /\ new.decision = d /\ new.checks = c
    BY <2>2, <2>5 DEF Readiness!PrecheckAssessment
  <2>7. prechecks' = prechecks \cup {new}
    BY <2>1, <2>3, <2>4
  <2> HIDE DEF new
  <2>8. Readiness!PassIffAllChecks'
    BY <2>5, <2>6, <2>7 DEF ReadinessIndInv, Readiness!PassIffAllChecks
  <2>9. NewestExists'
    BY <2>6, <2>7, NewestStays
  <2>10. /\ Readiness!Done(s)
         /\ UNCHANGED <<profile, condition, cost, policy, readiness>>
    BY <1>4 DEF Readiness!create_precheck
  <2>11. prechecks' \subseteq Readiness!PrecheckAssessment
    BY <1>0, <2>6, <2>7 DEF Readiness!TypeOK
  <2> QED
    BY <1>0, <2>8, <2>9, <2>10, <2>11, CallReturns DEF ReadinessIndInv,
       Readiness!TypeOK, Readiness!NeverFormallyReady
<1> QED
  BY <1>1, <1>2, <1>3, <1>4 DEF Readiness!PrecheckRequests

(* Readiness (commercial services.py:355-509). *)
LEMMA AssessmentInv ==
    ASSUME ReadinessIndInv, NEW s \in Services, Readiness!ReadinessRequests(s)
    PROVE  ReadinessIndInv'
<1>0. /\ Readiness!TypeOK /\ CostIsSound(cost)
      /\ service[s] \in Readiness!Call
  BY DEF ReadinessIndInv, Readiness!TypeOK
<1>1. CASE Readiness!BeginReadiness(s)
  <2>1. PICK d : d = IF prechecks = {} THEN "MISSING"
                     ELSE Readiness!CurrentPrecheck.decision
    OBVIOUS
  <2>2. d \in Readiness!PrecheckDecision \cup {"MISSING"}
    <3>1. CASE prechecks = {}
      BY <2>1, <3>1
    <3>2. CASE prechecks # {}
      <4>1. Readiness!CurrentPrecheck \in prechecks
        BY <3>2 DEF ReadinessIndInv, NewestExists, Readiness!CurrentPrecheck
      <4>2. Readiness!CurrentPrecheck.decision \in Readiness!PrecheckDecision
        BY <1>0, <4>1 DEF Readiness!TypeOK, Readiness!PrecheckAssessment
      <4> QED
        BY <2>1, <3>2, <4>2
    <3> QED
      BY <3>1, <3>2
  <2> DEFINE new == [Readiness!NoCall EXCEPT !.at = "response", !.precheck = d]
  <2>3. new \in Readiness!Call /\ new.at = "response"
    BY <2>2, ReadinessDefaults DEF Readiness!Call, Readiness!Steps
  <2>4. Readiness!Begin(s, new)
    BY <1>1, <2>1 DEF Readiness!BeginReadiness
  <2> HIDE DEF new
  <2> QED
    BY <2>3, <2>4, CallBegins
<1>2. CASE Readiness!ReadinessProfiles(s)
  <2> DEFINE new == [service[s] EXCEPT !.at = "market",
                                       !.responded = Readiness!profile_current]
  <2>0. Readiness!profile_current \in BOOLEAN
    BY DEF Readiness!profile_current
  <2>1. new \in Readiness!Call /\ new.at = "market"
    BY <1>0, <2>0 DEF Readiness!Call, Readiness!Steps
  <2>2. Readiness!Read(s, "response", new)
    BY <1>2 DEF Readiness!ReadinessProfiles
  <2> HIDE DEF new
  <2> QED
    BY <2>1, <2>2, CallReads
<1>3. CASE Readiness!ReadinessMarket(s)
  <2>1. PICK item \in {"UNKNOWN", "READY", "NOT_READY"} :
          Readiness!Read(s, "market", [service[s] EXCEPT !.at = "costs",
                                                         !.marketItem = item])
    BY <1>3 DEF Readiness!ReadinessMarket
  <2> DEFINE new == [service[s] EXCEPT !.at = "costs", !.marketItem = item]
  <2>2. new \in Readiness!Call /\ new.at = "costs"
    BY <1>0 DEF Readiness!Call, Readiness!Steps, Readiness!ReadinessDecision
  <2>3. Readiness!Read(s, "market", new)
    BY <2>1
  <2> HIDE DEF new
  <2> QED
    BY <2>2, <2>3, CallReads
<1>4. CASE Readiness!ReadinessCosts(s)
  <2>1. PICK item : item = CASE cost.state = "PUBLISHED" -> "READY"
                             [] cost.state = "DRAFT" -> "NOT_READY"
                             [] OTHER -> "UNKNOWN"
    OBVIOUS
  <2>2. item \in Readiness!ReadinessDecision
    BY <2>1 DEF Readiness!ReadinessDecision
  <2> DEFINE new == [service[s] EXCEPT !.at = "policies", !.costItem = item]
  <2>3. new \in Readiness!Call /\ new.at = "policies"
    BY <1>0, <2>2 DEF Readiness!Call, Readiness!Steps
  <2>4. Readiness!Read(s, "costs", new)
    BY <1>4, <2>1 DEF Readiness!ReadinessCosts
  <2> HIDE DEF new
  <2> QED
    BY <2>3, <2>4, CallReads
<1>5. CASE Readiness!create_readiness(s)
  <2>1. PICK policyItem : policyItem = IF policy = "PUBLISHED" THEN "READY"
                                       ELSE "NOT_READY"
    OBVIOUS
  <2>2. PICK decision : decision =
            Readiness!overall(Readiness!items(service[s], policyItem))
    OBVIOUS
  <2>3. decision \in {"UNKNOWN", "NOT_READY"}
    <3>1. "UNKNOWN" \in Readiness!items(service[s], policyItem)
      BY DEF Readiness!items, Readiness!scenario_item
    <3> QED
      BY <2>2, <3>1 DEF Readiness!overall
  <2> DEFINE new == [decision |-> decision, watermark |-> decision # "READY"]
  <2>4. /\ new \in Readiness!StrategyReadinessAssessment
        /\ new.decision = decision /\ new.watermark
    BY <2>3 DEF Readiness!StrategyReadinessAssessment, Readiness!ReadinessDecision
  <2>5. readiness' = readiness \cup {new}
    BY <1>5, <2>1, <2>2 DEF Readiness!create_readiness
  <2> HIDE DEF new
  <2>6. Readiness!NeverFormallyReady'
    BY <2>3, <2>4, <2>5 DEF ReadinessIndInv, Readiness!NeverFormallyReady
  <2>7. /\ Readiness!Done(s)
        /\ UNCHANGED <<profile, condition, cost, policy, prechecks>>
    BY <1>5 DEF Readiness!create_readiness
  <2>8. readiness' \subseteq Readiness!StrategyReadinessAssessment
    BY <1>0, <2>4, <2>5 DEF Readiness!TypeOK
  <2> QED
    BY <1>0, <2>6, <2>7, <2>8, CallReturns DEF ReadinessIndInv,
       Readiness!TypeOK, Readiness!PassIffAllChecks, NewestExists
<1> QED
  BY <1>1, <1>2, <1>3, <1>4, <1>5 DEF Readiness!ReadinessRequests

(* Time passes: a call under way began before the due date that passes now *)
(* (services.py:871-888).                                                  *)
LEMMA TimeInv ==
    ASSUME ReadinessIndInv, Readiness!DuePasses \/ Readiness!WindowEnds
    PROVE  ReadinessIndInv'
<1>0. /\ Readiness!TypeOK /\ clock \in Nat
      /\ profile \in Readiness!CompanyResponseProfile
      /\ condition \in Readiness!ConditionRequirement
  BY DEF ReadinessIndInv, Readiness!TypeOK
<1>1. CASE Readiness!DuePasses
  <2>1. /\ condition' = [condition EXCEPT !.due = clock]
        /\ UNCHANGED <<profile, cost, policy, prechecks, readiness, clock, service, mixed>>
    BY <1>1 DEF Readiness!DuePasses
  <2>2. /\ condition' \in Readiness!ConditionRequirement
        /\ condition'.due = clock /\ condition'.state = condition.state
    BY <1>0, <2>1 DEF Readiness!ConditionRequirement
  <2>3. Readiness!TypeOK'
    BY <1>0, <2>1, <2>2 DEF Readiness!TypeOK
  <2>4. CallsAreSound'
    BY <2>1, <2>2 DEF ReadinessIndInv, CallsAreSound
  <2>5. OneCloses'
    BY <2>1, <2>2 DEF ReadinessIndInv, OneCloses, Readiness!Busy
  <2> QED
    BY <2>1, <2>3, <2>4, <2>5 DEF ReadinessIndInv, Readiness!PassIffAllChecks,
       Readiness!NeverFormallyReady, NewestExists
<1>2. CASE Readiness!WindowEnds
  <2>1. /\ profile' = [profile EXCEPT !.inWindow = FALSE]
        /\ UNCHANGED <<condition, cost, policy, prechecks, readiness, clock, service, mixed>>
    BY <1>2 DEF Readiness!WindowEnds
  <2>2. profile' \in Readiness!CompanyResponseProfile
    BY <1>0, <2>1 DEF Readiness!CompanyResponseProfile
  <2>3. Readiness!TypeOK'
    BY <1>0, <2>1, <2>2 DEF Readiness!TypeOK
  <2> QED
    BY <2>1, <2>3 DEF ReadinessIndInv, Readiness!PassIffAllChecks,
       Readiness!NeverFormallyReady, NewestExists, CallsAreSound, OneCloses,
       Readiness!Busy
<1> QED
  BY <1>1, <1>2

(* Every step keeps the invariant. *)
LEMMA ReadinessNext ==
    ReadinessIndInv /\ [Readiness!Next]_(Readiness!vars) => ReadinessIndInv'
<1> SUFFICES ASSUME ReadinessIndInv, [Readiness!Next]_(Readiness!vars)
             PROVE  ReadinessIndInv'
  OBVIOUS
<1>1. CASE Readiness!Next
  BY <1>1, ProfileInv, CostInv, PrecheckInv, AssessmentInv, TimeInv DEF Readiness!Next
<1>2. CASE UNCHANGED Readiness!vars
  BY <1>2 DEF Readiness!vars, ReadinessIndInv, Readiness!TypeOK,
     Readiness!PassIffAllChecks, Readiness!NeverFormallyReady, NewestExists,
     CallsAreSound, OneCloses, Readiness!Busy
<1> QED
  BY <1>1, <1>2

(* The inductive invariant holds in every behaviour of precheck, cost,     *)
(* policy and readiness calls, however they overlap.                       *)
THEOREM ReadinessInvariance == Readiness!Spec => []ReadinessIndInv
  BY ReadinessInit, ReadinessNext, PTL DEF Readiness!Spec

(* Whatever overlaps, for any number of people and calls: a precheck is a  *)
(* PASS exactly when its five checks passed, a cost that counts was        *)
(* approved by another than its author, and no readiness is formal         *)
(* (services.py:1048-1090, commercial services.py:196-509).                *)
THEOREM ReadinessIsHonest ==
    /\ Readiness!Spec => []Readiness!ReadinessInv
    /\ MCSpec => []ReadinessInv
<1>1. ReadinessIndInv => Readiness!CostIsDualControlled
  BY DEF ReadinessIndInv, CostIsSound, Readiness!CostIsDualControlled
<1>2. ReadinessIndInv => Readiness!ReadinessInv
  BY <1>1 DEF ReadinessIndInv, Readiness!ReadinessInv
<1>3. Readiness!Spec => []Readiness!ReadinessInv
  BY <1>2, ReadinessInvariance, PTL
<1>4. MCInit => Readiness!Init
  BY DEF MCInit
<1>5. MCNext => [Readiness!Next]_(Readiness!vars)
  BY Zenon DEF MCNext, Readiness!vars, readinessVars
<1>6. UNCHANGED <<focus, vars, readinessVars>> => UNCHANGED Readiness!vars
  BY Zenon DEF Readiness!vars, readinessVars
<1>7. MCSpec => Readiness!Spec
  BY <1>4, <1>5, <1>6, PTL DEF MCSpec, Readiness!Spec
<1>8. Readiness!ReadinessInv => ReadinessInv
  BY DEF ReadinessInv
<1> QED
  BY <1>3, <1>7, <1>8, PTL

(* The condition changes only when a call closes it, or when it is created *)
(* or its due date passes, which leave what was closed as it is.           *)
LEMMA WhoClosesIt ==
    ASSUME ReadinessIndInv, Readiness!Next, condition'.state # condition.state,
           condition.state # "ABSENT"
    PROVE  \E s \in Services : Readiness!transition_condition(s)
<1>1. ASSUME NEW s \in Services,
             \/ Readiness!create_profile(s) \/ Readiness!publish_profile(s)
             \/ Readiness!create_cost_baseline(s) \/ Readiness!approve_cost_baseline(s)
             \/ Readiness!publish_cost_baseline(s)
             \/ Readiness!create_policy(s) \/ Readiness!publish_policy(s)
             \/ Readiness!create_precheck(s) \/ Readiness!create_readiness(s)
      PROVE  FALSE
  <2>1. UNCHANGED condition
    BY <1>1, Zenon DEF Readiness!create_profile, Readiness!publish_profile,
       Readiness!create_cost_baseline, Readiness!approve_cost_baseline,
       Readiness!publish_cost_baseline, Readiness!create_policy,
       Readiness!publish_policy, Readiness!create_precheck, Readiness!create_readiness
  <2> QED
    BY <2>1
<1>2. ASSUME NEW s \in Services, NEW call, NEW from,
             Readiness!Begin(s, call) \/ Readiness!Read(s, from, call)
      PROVE  FALSE
  BY <1>2 DEF Readiness!Begin, Readiness!Read, Readiness!records
<1>3. ASSUME NEW s \in Services,
             \/ Readiness!BeginPublishProfile(s) \/ Readiness!BeginClose(s)
             \/ Readiness!BeginApprove(s) \/ Readiness!BeginPublishCost(s)
             \/ Readiness!BeginPublishPolicy(s) \/ Readiness!BeginPrecheck(s)
             \/ Readiness!PrecheckProfiles(s) \/ Readiness!PrecheckConditions(s)
             \/ Readiness!BeginReadiness(s) \/ Readiness!ReadinessProfiles(s)
             \/ Readiness!ReadinessMarket(s) \/ Readiness!ReadinessCosts(s)
      PROVE  FALSE
  <2>1. \E call, from : Readiness!Begin(s, call) \/ Readiness!Read(s, from, call)
    BY <1>3, Zenon DEF Readiness!BeginPublishProfile, Readiness!BeginClose,
       Readiness!BeginApprove, Readiness!BeginPublishCost,
       Readiness!BeginPublishPolicy, Readiness!BeginPrecheck,
       Readiness!PrecheckProfiles, Readiness!PrecheckConditions,
       Readiness!BeginReadiness, Readiness!ReadinessProfiles,
       Readiness!ReadinessMarket, Readiness!ReadinessCosts
  <2> QED
    BY <1>2, <2>1
<1>4. ~\E s \in Services : Readiness!create_condition(s)
  BY DEF Readiness!create_condition
<1>5. ~Readiness!DuePasses
  <2>1. condition \in Readiness!ConditionRequirement
    BY DEF ReadinessIndInv, Readiness!TypeOK
  <2> QED
    BY <2>1 DEF Readiness!DuePasses, Readiness!ConditionRequirement
<1>6. ~Readiness!WindowEnds
  BY DEF Readiness!WindowEnds
<1> QED
  BY <1>1, <1>3, <1>4, <1>5, <1>6 DEF Readiness!Next, Readiness!ProfileRequests,
     Readiness!ConditionRequests, Readiness!CostRequests, Readiness!PolicyRequests,
     Readiness!PrecheckRequests, Readiness!ReadinessRequests

(* Prechecks are only added. *)
LEMMA PrechecksGrow ==
    ASSUME Readiness!Next
    PROVE  prechecks \subseteq prechecks'
<1>1. ASSUME NEW s \in Services, Readiness!create_precheck(s)
      PROVE  prechecks \subseteq prechecks'
  BY <1>1 DEF Readiness!create_precheck
<1>2. ASSUME NEW s \in Services,
             \/ Readiness!ProfileRequests(s) \/ Readiness!ConditionRequests(s)
             \/ Readiness!CostRequests(s) \/ Readiness!PolicyRequests(s)
      PROVE  prechecks' = prechecks
  BY <1>2, Zenon DEF Readiness!ProfileRequests, Readiness!ConditionRequests,
     Readiness!CostRequests, Readiness!PolicyRequests, Readiness!create_profile,
     Readiness!BeginPublishProfile, Readiness!publish_profile,
     Readiness!create_condition, Readiness!BeginClose,
     Readiness!transition_condition, Readiness!create_cost_baseline,
     Readiness!BeginApprove, Readiness!approve_cost_baseline,
     Readiness!BeginPublishCost, Readiness!publish_cost_baseline,
     Readiness!create_policy, Readiness!BeginPublishPolicy,
     Readiness!publish_policy, Readiness!Begin, Readiness!records
<1>3. ASSUME NEW s \in Services,
             \/ Readiness!PrecheckRequests(s) /\ ~Readiness!create_precheck(s)
             \/ Readiness!ReadinessRequests(s)
      PROVE  prechecks' = prechecks
  BY <1>3, Zenon DEF Readiness!PrecheckRequests, Readiness!ReadinessRequests,
     Readiness!BeginPrecheck, Readiness!PrecheckProfiles,
     Readiness!PrecheckConditions, Readiness!BeginReadiness,
     Readiness!ReadinessProfiles, Readiness!ReadinessMarket,
     Readiness!ReadinessCosts, Readiness!create_readiness, Readiness!Begin,
     Readiness!Read, Readiness!records
<1>4. CASE Readiness!DuePasses \/ Readiness!WindowEnds
  BY <1>4 DEF Readiness!DuePasses, Readiness!WindowEnds
<1> QED
  BY <1>1, <1>2, <1>3, <1>4 DEF Readiness!Next

(* No step takes back a precheck for an older one, a condition left open   *)
(* past its due date is closed only by a call that began in time, and      *)
(* without overlap it is closed once (services.py:871-888, 1091-1111).     *)
THEOREM DecisionsLast == Readiness!Spec => DecisionsStand
<1> DEFINE Stand == /\ Readiness!NewestPrecheckCounts
                    /\ Readiness!OverdueStaysOpen
                    /\ Readiness!ClosedOnce
<1>1. ASSUME ReadinessIndInv, ReadinessIndInv', Readiness!Next
      PROVE  Readiness!NewestPrecheckCounts
  <2> SUFFICES ASSUME prechecks # {}
               PROVE  Readiness!CurrentPrecheck'.dated >= Readiness!CurrentPrecheck.dated
    BY DEF Readiness!NewestPrecheckCounts
  <2>1. PICK p : p = Readiness!CurrentPrecheck
    OBVIOUS
  <2>2. p \in prechecks
    BY <1>1, <2>1 DEF ReadinessIndInv, NewestExists, Readiness!CurrentPrecheck
  <2>3. p \in prechecks'
    BY <1>1, <2>2, PrechecksGrow
  <2>4. \E q \in prechecks' : \A r \in prechecks' : r.dated <= q.dated
    BY <1>1, <2>3 DEF ReadinessIndInv, NewestExists
  <2>5. PICK n : n = CHOOSE q \in prechecks' : \A r \in prechecks' : r.dated <= q.dated
    OBVIOUS
  <2>6. n \in prechecks' /\ p.dated <= n.dated
    BY <2>3, <2>4, <2>5
  <2>7. n.dated \in Nat /\ p.dated \in Nat
    BY <1>1, <2>2, <2>6 DEF ReadinessIndInv, Readiness!TypeOK,
       Readiness!PrecheckAssessment
  <2>8. n = Readiness!CurrentPrecheck'
    BY <2>5 DEF Readiness!CurrentPrecheck
  <2> QED
    BY <2>1, <2>6, <2>7, <2>8
<1>2. ASSUME ReadinessIndInv, Readiness!Next
      PROVE  Readiness!OverdueStaysOpen
  <2> SUFFICES ASSUME condition.state = "OPEN", condition.due > 0,
                      condition'.state # "OPEN"
               PROVE  \E s \in Services : /\ service[s].at = "close"
                                          /\ service[s].dated < condition.due
    BY DEF Readiness!OverdueStaysOpen
  <2>1. PICK s \in Services : Readiness!transition_condition(s)
    BY <1>2, WhoClosesIt
  <2> QED
    BY <1>2, <2>1 DEF Readiness!transition_condition, ReadinessIndInv, CallsAreSound
<1>3. ASSUME ReadinessIndInv, Readiness!Next
      PROVE  Readiness!ClosedOnce
  <2> SUFFICES ASSUME ~mixed', condition.state \notin {"ABSENT", "OPEN"},
                      condition'.state # condition.state
               PROVE  FALSE
    BY DEF Readiness!ClosedOnce
  <2>1. PICK s \in Services : Readiness!transition_condition(s)
    BY <1>3, WhoClosesIt
  <2>2. service[s].at = "close" /\ ~mixed
    BY <2>1 DEF Readiness!transition_condition, Readiness!Done
  <2> QED
    BY <1>3, <2>2 DEF ReadinessIndInv, OneCloses
<1>4. ReadinessIndInv /\ ReadinessIndInv' /\ [Readiness!Next]_(Readiness!vars) =>
        [Stand]_(Readiness!vars)
  BY <1>1, <1>2, <1>3
<1> QED
  BY <1>4, ReadinessInvariance, PTL DEF Readiness!Spec, DecisionsStand,
     Readiness!DecisionsStand

=============================================================================
