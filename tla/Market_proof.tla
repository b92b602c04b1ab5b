---------------------------- MODULE Market_proof ----------------------------
(***************************************************************************)
(* What market governance promises, for any number of competitors, keys,   *)
(* sources, profiles, priors and people and any length of a deduplication  *)
(* input.                                                                  *)
(*                                                                         *)
(* A command is one step.  That the index is a one-to-one map needs that a *)
(* competitor without a record has no key; that readiness is backed needs  *)
(* that whatever is reviewed was reviewed by a privacy role and that no    *)
(* profile in use is without a source.  The deduplication run is a fact    *)
(* about finite sets: a map from n positions is one-to-one exactly when it *)
(* has n values.                                                           *)
(*                                                                         *)
(* PrivacyRecords: newest first, with ties broken by id, is a strict       *)
(* order, and a walk stands at the record it returned last.  A record that *)
(* stays in the list unchanged is therefore either returned already or     *)
(* still ahead of the walk. That a key has one answer per change is a      *)
(* count: every entry of the journal is one stored version or one that     *)
(* was lost with its audit write.                                          *)
(***************************************************************************)
EXTENDS MCMarket, FiniteSetTheorems, WellFoundedInduction, TLAPS

(* Only a competitor that was added has a key (governance.py:145-152). *)
KeyedWhenNamed ==
    \A c \in Competitors : competitor[c].state = "ABSENT" <=> competitor[c].key = NoOne

(* The review is by a privacy role and its trace stays (398-440, 722-750). *)
ReviewedByOfficer ==
    /\ \A s \in Sources : source[s].state = "REVIEWED" => source[s].reviewedBy \in Officers
    /\ \A m \in Priors : prior[m].state \in {"REVIEWED", "PUBLISHED"} =>
         prior[m].reviewedBy \in Officers

(* A profile that is in use has a source at all (531-580). *)
ProfilesHaveSources ==
    \A p \in Profiles : profile[p].state \in {"DRAFT", "PUBLISHED"} =>
        profile[p].sources # {}

(* The inductive invariant. *)
MarketIndInv ==
    /\ TypeOK
    /\ KeyedWhenNamed
    /\ SubjectIndexAgrees
    /\ UnknownExcludesNamed
    /\ ReviewedByOfficer
    /\ ProfilesRestOnReviewed
    /\ ProfilesHaveSources
    /\ DeduplicationIsComplete

-----------------------------------------------------------------------------
(* A finite set has more than one element when it has two of them. *)
LEMMA MoreThanOne ==
    ASSUME NEW S, IsFiniteSet(S)
    PROVE  Cardinality(S) > 1 <=> \E x, y \in S : x # y
<1>1. Cardinality(S) \in Nat
  BY FS_CardinalityType
<1>2. Cardinality(S) = 0 <=> S = {}
  BY FS_EmptySet
<1>3. Cardinality(S) = 1 <=> \E x : S = {x}
  BY FS_Singleton
<1>4. ASSUME Cardinality(S) > 1 PROVE \E x, y \in S : x # y
  <2>1. Cardinality(S) # 0 /\ Cardinality(S) # 1
    BY <1>1, <1>4
  <2>2. S # {} /\ \A x : S # {x}
    BY <1>2, <1>3, <2>1, Zenon
  <2> QED
    BY <2>2
<1>5. ASSUME NEW x \in S, NEW y \in S, x # y PROVE Cardinality(S) > 1
  <2>1. S # {} /\ \A z : S # {z}
    BY <1>5
  <2> QED
    BY <1>1, <1>2, <1>3, <2>1
<1> QED
  BY <1>4, <1>5

(* What create_subject_deduplication_run computes: the canonical keys are  *)
(* those of the input, and none is repeated exactly when there are as many *)
(* of them as inputs (governance.py:933-960).                              *)
LEMMA DeduplicationCounts ==
    ASSUME NEW input \in Inputs,
           NEW canonical,
           canonical = UNION {canonical_subject_key(input[i]) : i \in DOMAIN input}
    PROVE  /\ canonical \subseteq SubjectKeys
           /\ canonical = {input[i].key : i \in DOMAIN input}
           /\ (Repeated(input) = {}) <=> (Len(input) = Cardinality(canonical))
<1>1. PICK n \in 1..MaxInputs : input \in [1..n -> Spellings]
  BY DEF Inputs
<1>2. n \in Nat /\ DOMAIN input = 1..n /\ Len(input) = n
  BY <1>1, MarketAssumption
<1>3. \A i \in 1..n : input[i].key \in SubjectKeys
  BY <1>1 DEF Spellings
<1>4. canonical = {input[i].key : i \in 1..n} /\ canonical \subseteq SubjectKeys
  BY <1>2, <1>3 DEF canonical_subject_key
<1>5. IsFiniteSet(1..n) /\ Cardinality(1..n) = n
  BY <1>2, FS_Interval
<1> DEFINE f == [i \in 1..n |-> input[i].key]
<1>6. f \in Surjection(1..n, canonical)
  BY <1>4 DEF Surjection
<1>7. (Cardinality(canonical) = n) <=> f \in Injection(1..n, canonical)
  <2> HIDE DEF f
  <2> QED
    BY <1>5, <1>6, FS_Surjection
<1>8. f \in Injection(1..n, canonical) <=>
        \A i, j \in 1..n : input[i].key = input[j].key => i = j
  BY <1>4 DEF Injection, IsInjective
<1>9. \A k : Cardinality({i \in 1..n : input[i].key = k}) > 1 <=>
        \E i, j \in 1..n : i # j /\ input[i].key = k /\ input[j].key = k
  <2> SUFFICES ASSUME NEW k
               PROVE  Cardinality({i \in 1..n : input[i].key = k}) > 1 <=>
                        \E i, j \in 1..n : i # j /\ input[i].key = k /\ input[j].key = k
    OBVIOUS
  <2> DEFINE Same == {i \in 1..n : input[i].key = k}
  <2>1. IsFiniteSet(Same)
    BY <1>5, FS_Subset
  <2>2. Cardinality(Same) > 1 <=> \E i, j \in Same : i # j
    <3> HIDE DEF Same
    <3> QED
      BY <2>1, MoreThanOne
  <2> QED
    BY <2>2
<1>10. Repeated(input) = {k \in SubjectKeys :
                            Cardinality({i \in 1..n : input[i].key = k}) > 1}
  <2>1. ASSUME NEW k PROVE {i \in DOMAIN input : k \in canonical_subject_key(input[i])}
                             = {i \in 1..n : input[i].key = k}
    BY <1>2 DEF canonical_subject_key
  <2> QED
    BY <2>1 DEF Repeated
<1>11. (Repeated(input) = {}) <=>
         \A i, j \in 1..n : input[i].key = input[j].key => i = j
  <2> DEFINE Many(k) == Cardinality({i \in 1..n : input[i].key = k}) > 1
  <2>1. Repeated(input) = {k \in SubjectKeys : Many(k)}
    BY <1>10
  <2>2. \A k : Many(k) <=>
          \E i, j \in 1..n : i # j /\ input[i].key = k /\ input[j].key = k
    BY <1>9
  <2> HIDE DEF Many
  <2> QED
    BY <1>3, <2>1, <2>2
<1> QED
  BY <1>2, <1>4, <1>7, <1>8, <1>11

-----------------------------------------------------------------------------
(* Initially there is nothing but the empty deduplication run. *)
LEMMA InitInv == Init => MarketIndInv
<1> SUFFICES ASSUME Init PROVE MarketIndInv
  OBVIOUS
<1> USE MarketAssumption DEF Init
<1>1. dedup \in SubjectDeduplicationRun
  BY DEF NoRun, SubjectDeduplicationRun
<1>2. TypeOK
  BY <1>1 DEF TypeOK, Competitor, CompetitorSource, CompetitorProfile,
     MarketPriorVersion, UnknownEntrantProfileVersion, Instants, SourceReviewState,
     PublicationState
<1>3. DeduplicationIsComplete
  BY FS_EmptySet DEF NoRun, DeduplicationIsComplete
<1> QED
  BY <1>2, <1>3 DEF MarketIndInv, KeyedWhenNamed, SubjectIndexAgrees,
     UnknownExcludesNamed, ReviewedByOfficer, ProfilesRestOnReviewed,
     ProfilesHaveSources

(* QuarantineUnknowns changes states only, and leaves no published profile *)
(* that does not exclude the key.                                          *)
LEMMA QuarantineFacts ==
    ASSUME TypeOK, NEW key \in SubjectKeys
    PROVE  /\ QuarantineUnknowns(key) \in [Unknowns -> UnknownEntrantProfileVersion]
           /\ \A u \in Unknowns :
                QuarantineUnknowns(key)[u].state = "PUBLISHED" =>
                  /\ QuarantineUnknowns(key)[u] = unknown[u]
                  /\ key \in unknown[u].excluded
<1> SUFFICES ASSUME NEW u \in Unknowns
             PROVE  /\ QuarantineUnknowns(key)[u] \in UnknownEntrantProfileVersion
                    /\ QuarantineUnknowns(key)[u].state = "PUBLISHED" =>
                         /\ QuarantineUnknowns(key)[u] = unknown[u]
                         /\ key \in unknown[u].excluded
  BY DEF QuarantineUnknowns
<1>1. unknown[u] \in UnknownEntrantProfileVersion
  BY DEF TypeOK
<1>2. CASE unknown[u].state = "PUBLISHED" /\ key \notin unknown[u].excluded
  <2>1. QuarantineUnknowns(key)[u] = [unknown[u] EXCEPT !.state = "QUARANTINED"]
    BY <1>2 DEF QuarantineUnknowns
  <2> QED
    BY <1>1, <2>1 DEF UnknownEntrantProfileVersion, PublicationState
<1>3. CASE ~(unknown[u].state = "PUBLISHED" /\ key \notin unknown[u].excluded)
  <2>1. QuarantineUnknowns(key)[u] = unknown[u]
    BY <1>3 DEF QuarantineUnknowns
  <2> QED
    BY <1>1, <1>3, <2>1
<1> QED
  BY <1>2, <1>3

(* A competitor takes a key only when the key is free, gives up the old    *)
(* one when it is renamed, and what it newly names is excluded by every    *)
(* unknown entrant profile that stays published.                           *)
LEMMA CompetitorInv ==
    ASSUME MarketIndInv, CompetitorRequests
    PROVE  MarketIndInv'
<1> USE MarketAssumption DEF MarketIndInv
<1>1. UNCHANGED <<source, profile, prior, dedup, marketTime>>
  BY DEF CompetitorRequests, add_competitor, update_competitor_draft, archive_competitor
<1>2. /\ competitor \in [Competitors -> Competitor]
      /\ subjectIndex \in [SubjectKeys -> Competitors \cup {NoOne}]
      /\ unknown \in [Unknowns -> UnknownEntrantProfileVersion]
  BY DEF TypeOK
<1>3. /\ ReviewedByOfficer' /\ ProfilesRestOnReviewed' /\ ProfilesHaveSources'
      /\ DeduplicationIsComplete'
  BY <1>1 DEF ReviewedByOfficer, ProfilesRestOnReviewed, ProfilesHaveSources,
              DeduplicationIsComplete
<1>4. ASSUME NEW c \in Competitors, NEW key \in SubjectKeys, NEW new \in Competitor,
             KeyIsFree(c, key), competitor' = [competitor EXCEPT ![c] = new],
             new.key = key, new.state # "ABSENT",
             subjectIndex' = MoveIndex(c, key),
             \/ unknown' = QuarantineUnknowns(key)
             \/ /\ unknown' = unknown /\ key = competitor[c].key
                /\ competitor[c].state = "NAMED"
      PROVE  /\ TypeOK' /\ KeyedWhenNamed' /\ SubjectIndexAgrees'
             /\ UnknownExcludesNamed'
  <2>1. /\ competitor' \in [Competitors -> Competitor] /\ competitor'[c] = new
        /\ \A d \in Competitors : d # c => competitor'[d] = competitor[d]
    BY <1>2, <1>4
  <2>2. /\ subjectIndex' \in [SubjectKeys -> Competitors \cup {NoOne}]
        /\ subjectIndex'[key] = c
        /\ \A k \in SubjectKeys : k # key =>
             subjectIndex'[k] = IF k = competitor[c].key THEN NoOne ELSE subjectIndex[k]
    BY <1>2, <1>4 DEF MoveIndex
  <2>3. /\ unknown' \in [Unknowns -> UnknownEntrantProfileVersion]
        /\ \A u \in Unknowns : unknown'[u].state = "PUBLISHED" =>
             /\ unknown'[u] = unknown[u]
             /\ key \in unknown[u].excluded
    <3>1. CASE unknown' = QuarantineUnknowns(key)
      BY <3>1, QuarantineFacts
    <3>2. CASE /\ unknown' = unknown /\ key = competitor[c].key
               /\ competitor[c].state = "NAMED"
      <4>1. key \in NamedSubjects
        BY <3>2 DEF NamedSubjects
      <4> QED
        BY <1>2, <3>2, <4>1 DEF UnknownExcludesNamed
    <3> QED
      BY <1>4, <3>1, <3>2
  <2>4. TypeOK'
    BY <1>1, <2>1, <2>2, <2>3 DEF TypeOK
  <2>5. KeyedWhenNamed'
    BY <1>4, <2>1 DEF KeyedWhenNamed
  <2>6. SubjectIndexAgrees'
    <3>1. ASSUME NEW d \in Competitors, competitor'[d].state # "ABSENT"
          PROVE  subjectIndex'[competitor'[d].key] = d
      <4>1. CASE d = c
        BY <1>4, <2>1, <2>2, <4>1
      <4>2. CASE d # c
        <5>1. /\ competitor'[d] = competitor[d] /\ competitor[d] \in Competitor
              /\ competitor[d].key \in SubjectKeys
              /\ subjectIndex[competitor[d].key] = d
          BY <1>2, <2>1, <3>1, <4>2 DEF SubjectIndexAgrees, KeyedWhenNamed, Competitor
        <5>2. competitor[d].key # key
          BY <1>4, <4>2, <5>1 DEF KeyIsFree
        <5>3. competitor[d].key # competitor[c].key
          <6>1. CASE competitor[c].state = "ABSENT"
            BY <5>1, <6>1 DEF KeyedWhenNamed
          <6>2. CASE competitor[c].state # "ABSENT"
            BY <4>2, <5>1, <6>2 DEF SubjectIndexAgrees
          <6> QED
            BY <6>1, <6>2
        <5> QED
          BY <2>2, <5>1, <5>2, <5>3
      <4> QED
        BY <4>1, <4>2
    <3>2. ASSUME NEW k \in SubjectKeys, subjectIndex'[k] # NoOne
          PROVE  competitor'[subjectIndex'[k]].key = k
      <4>1. CASE k = key
        BY <1>4, <2>1, <2>2, <4>1
      <4>2. CASE k # key
        <5>1. /\ subjectIndex'[k] = subjectIndex[k] /\ k # competitor[c].key
              /\ subjectIndex[k] \in Competitors
              /\ competitor[subjectIndex[k]].key = k
          BY <1>2, <2>2, <3>2, <4>2 DEF SubjectIndexAgrees
        <5> QED
          BY <2>1, <5>1
      <4> QED
        BY <4>1, <4>2
    <3> QED
      BY <3>1, <3>2 DEF SubjectIndexAgrees
  <2>7. UnknownExcludesNamed'
    <3>1. NamedSubjects' \subseteq NamedSubjects \cup {key}
      BY <1>4, <2>1 DEF NamedSubjects
    <3> QED
      BY <2>3, <3>1 DEF UnknownExcludesNamed
  <2> QED
    BY <2>4, <2>5, <2>6, <2>7
<1>5. ASSUME NEW c \in Competitors, NEW k \in Spellings, add_competitor(c, k)
      PROVE  /\ TypeOK' /\ KeyedWhenNamed' /\ SubjectIndexAgrees'
             /\ UnknownExcludesNamed'
  <2>1. PICK key \in SubjectKeys :
          /\ KeyIsFree(c, key) /\ unknown' = QuarantineUnknowns(key)
          /\ competitor' = [competitor EXCEPT ![c] = [state |-> "NAMED", key |-> key]]
          /\ subjectIndex' = [subjectIndex EXCEPT ![key] = c]
          /\ competitor[c].state = "ABSENT"
    BY <1>5 DEF add_competitor, canonical_subject_key, Spellings
  <2>2. subjectIndex' = MoveIndex(c, key)
    BY <1>2, <2>1 DEF MoveIndex, KeyedWhenNamed
  <2>3. [state |-> "NAMED", key |-> key] \in Competitor
    BY DEF Competitor
  <2> QED
    BY <1>4, <2>1, <2>2, <2>3
<1>6. ASSUME NEW c \in Competitors, NEW k \in Spellings, update_competitor_draft(c, k)
      PROVE  /\ TypeOK' /\ KeyedWhenNamed' /\ SubjectIndexAgrees'
             /\ UnknownExcludesNamed'
  <2>1. PICK key \in SubjectKeys :
          /\ KeyIsFree(c, key) /\ competitor[c].state = "NAMED"
          /\ competitor' = [competitor EXCEPT ![c].key = key]
          /\ subjectIndex' = MoveIndex(c, key)
          /\ unknown' = IF key # competitor[c].key THEN QuarantineUnknowns(key)
                        ELSE unknown
    BY <1>6 DEF update_competitor_draft, canonical_subject_key, Spellings
  <2> DEFINE new == [competitor[c] EXCEPT !.key = key]
  <2>2. new \in Competitor /\ new.key = key /\ new.state = "NAMED"
    BY <1>2, <2>1 DEF Competitor
  <2>3. competitor' = [competitor EXCEPT ![c] = new]
    BY <2>1
  <2> HIDE DEF new
  <2> QED
    BY <1>4, <2>1, <2>2, <2>3
<1>7. ASSUME NEW c \in Competitors, archive_competitor(c)
      PROVE  /\ TypeOK' /\ KeyedWhenNamed' /\ SubjectIndexAgrees'
             /\ UnknownExcludesNamed'
  <2>1. /\ competitor' \in [Competitors -> Competitor]
        /\ competitor'[c].key = competitor[c].key /\ competitor'[c].state = "ARCHIVED"
        /\ competitor[c].state = "NAMED"
        /\ \A d \in Competitors : d # c => competitor'[d] = competitor[d]
        /\ UNCHANGED <<subjectIndex, unknown>>
    BY <1>2, <1>7 DEF archive_competitor, Competitor
  <2>2. NamedSubjects' \subseteq NamedSubjects
    BY <2>1 DEF NamedSubjects
  <2> QED
    BY <1>1, <1>2, <2>1, <2>2 DEF TypeOK, KeyedWhenNamed, SubjectIndexAgrees,
                                  UnknownExcludesNamed
<1> QED
  BY <1>3, <1>5, <1>6, <1>7 DEF CompetitorRequests

(* What the subjects' part of the invariant depends on. *)
LEMMA SubjectsStay ==
    ASSUME MarketIndInv, UNCHANGED <<competitor, subjectIndex, unknown>>
    PROVE  KeyedWhenNamed' /\ SubjectIndexAgrees' /\ UnknownExcludesNamed'
  BY DEF MarketIndInv, KeyedWhenNamed, SubjectIndexAgrees, UnknownExcludesNamed,
         NamedSubjects

(* A source that a profile in use names is reviewed: it is not reviewed    *)
(* again, and when it is quarantined the profile goes with it.             *)
LEMMA SourceInv ==
    ASSUME MarketIndInv, SourceRequests
    PROVE  MarketIndInv'
<1> USE DEF MarketIndInv
<1>1. UNCHANGED <<competitor, subjectIndex, prior, unknown, dedup, marketTime>>
  BY DEF SourceRequests, add_source, review_source, quarantine_source
<1>2. /\ source \in [Sources -> CompetitorSource]
      /\ profile \in [Profiles -> CompetitorProfile]
  BY DEF TypeOK
<1>3. KeyedWhenNamed' /\ SubjectIndexAgrees' /\ UnknownExcludesNamed'
      /\ DeduplicationIsComplete'
  BY <1>1, SubjectsStay DEF DeduplicationIsComplete
<1>4. ASSUME NEW s \in Sources, NEW new \in CompetitorSource,
             source' = [source EXCEPT ![s] = new], UNCHANGED profile,
             source[s].state # "REVIEWED",
             new.state = "REVIEWED" => new.reviewedBy \in Officers
      PROVE  MarketIndInv'
  <2>1. /\ source' \in [Sources -> CompetitorSource] /\ source'[s] = new
        /\ \A x \in Sources : x # s => source'[x] = source[x]
    BY <1>2, <1>4
  <2>2. TypeOK'
    BY <1>1, <1>4, <2>1 DEF TypeOK
  <2>3. ReviewedByOfficer'
    BY <1>1, <1>4, <2>1 DEF ReviewedByOfficer
  <2>4. ProfilesRestOnReviewed' /\ ProfilesHaveSources'
    BY <1>2, <1>4, <2>1 DEF ProfilesRestOnReviewed, ProfilesHaveSources,
                            CompetitorProfile
  <2> QED
    BY <1>3, <2>2, <2>3, <2>4
<1>5. ASSUME NEW s \in Sources, NEW c \in Competitors \cup {NoOne},
             NEW t \in Instants, add_source(s, c, t)
      PROVE  MarketIndInv'
  <2> DEFINE new == [state |-> "DRAFT", competitor |-> c, resolved |-> FALSE,
                     until |-> t, reviewedBy |-> NoOne]
  <2>1. new \in CompetitorSource /\ new.state = "DRAFT"
    BY DEF CompetitorSource, SourceReviewState
  <2>2. /\ source' = [source EXCEPT ![s] = new] /\ UNCHANGED profile
        /\ source[s].state # "REVIEWED"
    BY <1>5 DEF add_source
  <2> HIDE DEF new
  <2> QED
    BY <1>4, <2>1, <2>2
<1>6. ASSUME NEW s \in Sources, NEW x \in People, NEW c \in Competitors,
             review_source(x, s, c)
      PROVE  MarketIndInv'
  <2> DEFINE new == [source[s] EXCEPT !.state = "REVIEWED", !.competitor = c,
                                      !.resolved = TRUE, !.reviewedBy = x]
  <2>1. x \in Officers /\ source[s].state = "DRAFT"
    BY <1>6 DEF review_source, Reviewable
  <2>2. new \in CompetitorSource /\ new.reviewedBy = x
    BY <1>2 DEF CompetitorSource, SourceReviewState
  <2>3. source' = [source EXCEPT ![s] = new] /\ UNCHANGED profile
    BY <1>2, <1>6 DEF review_source
  <2> HIDE DEF new
  <2> QED
    BY <1>4, <2>1, <2>2, <2>3
<1>7. ASSUME NEW s \in Sources, NEW x \in People, quarantine_source(x, s)
      PROVE  MarketIndInv'
  <2>1. /\ source' \in [Sources -> CompetitorSource]
        /\ source'[s].state = "QUARANTINED"
        /\ \A y \in Sources : y # s => source'[y] = source[y]
    BY <1>2, <1>7 DEF quarantine_source, CompetitorSource, SourceReviewState
  <2>2. ASSUME NEW p \in Profiles
        PROVE  /\ profile'[p] \in CompetitorProfile
               /\ profile'[p].state \in {"DRAFT", "PUBLISHED"} =>
                    profile'[p] = profile[p] /\ s \notin profile[p].sources
    <3>1. profile[p] \in CompetitorProfile
      BY <1>2
    <3>2. CASE s \in profile[p].sources
      <4>1. profile'[p] = [profile[p] EXCEPT !.state = "QUARANTINED"]
        BY <1>7, <3>2 DEF quarantine_source, QuarantineProfiles
      <4> QED
        BY <3>1, <4>1 DEF CompetitorProfile, PublicationState
    <3>3. CASE s \notin profile[p].sources
      <4>1. profile'[p] = profile[p]
        BY <1>7, <3>3 DEF quarantine_source, QuarantineProfiles
      <4> QED
        BY <3>1, <3>3, <4>1
    <3> QED
      BY <3>2, <3>3
  <2>3. profile' \in [Profiles -> CompetitorProfile]
    BY <1>7, <2>2 DEF quarantine_source, QuarantineProfiles
  <2>4. TypeOK'
    BY <1>1, <2>1, <2>3 DEF TypeOK
  <2>5. ReviewedByOfficer'
    BY <1>1, <2>1 DEF ReviewedByOfficer
  <2>6. ProfilesRestOnReviewed' /\ ProfilesHaveSources'
    BY <1>2, <2>1, <2>2 DEF ProfilesRestOnReviewed, ProfilesHaveSources,
                            CompetitorProfile
  <2> QED
    BY <1>3, <2>4, <2>5, <2>6
<1> QED
  BY <1>5, <1>6, <1>7 DEF SourceRequests

(* A profile is added on reviewed sources and publication keeps them. *)
LEMMA ProfileInv ==
    ASSUME MarketIndInv, ProfileRequests
    PROVE  MarketIndInv'
<1> USE DEF MarketIndInv
<1>1. UNCHANGED <<competitor, subjectIndex, source, prior, unknown, dedup, marketTime>>
  BY DEF ProfileRequests, add_profile, publish_profile
<1>2. PICK p \in Profiles, new \in CompetitorProfile :
        /\ profile' = [profile EXCEPT ![p] = new]
        /\ new.sources # {}
        /\ \A s \in new.sources : /\ source[s].state = "REVIEWED"
                                  /\ source[s].competitor = new.competitor
                                  /\ source[s].reviewedBy \in Officers
  <2>1. ASSUME NEW p \in Profiles, NEW c \in Competitors, NEW srcs \in SUBSET Sources,
               add_profile(p, c, srcs)
        PROVE  \E new \in CompetitorProfile :
                   /\ profile' = [profile EXCEPT ![p] = new]
                   /\ new.sources # {}
                   /\ \A s \in new.sources : /\ source[s].state = "REVIEWED"
                                             /\ source[s].competitor = new.competitor
                                             /\ source[s].reviewedBy \in Officers
    <3> DEFINE new == [state |-> "DRAFT", competitor |-> c, sources |-> srcs]
    <3>1. new \in CompetitorProfile /\ new.sources = srcs /\ new.competitor = c
      BY DEF CompetitorProfile, PublicationState
    <3>2. /\ profile' = [profile EXCEPT ![p] = new] /\ srcs # {}
          /\ \A s \in srcs : source[s].state = "REVIEWED" /\ source[s].competitor = c
      BY <2>1 DEF add_profile, SourceIsUsable
    <3>3. \A s \in srcs : source[s].reviewedBy \in Officers
      BY <3>2 DEF ReviewedByOfficer
    <3> HIDE DEF new
    <3> QED
      BY <3>1, <3>2, <3>3
  <2>2. ASSUME NEW p \in Profiles, publish_profile(p)
        PROVE  \E new \in CompetitorProfile :
                   /\ profile' = [profile EXCEPT ![p] = new]
                   /\ new.sources # {}
                   /\ \A s \in new.sources : /\ source[s].state = "REVIEWED"
                                             /\ source[s].competitor = new.competitor
                                             /\ source[s].reviewedBy \in Officers
    <3> DEFINE new == [profile[p] EXCEPT !.state = "PUBLISHED"]
    <3>1. /\ new \in CompetitorProfile /\ new.sources = profile[p].sources
          /\ new.competitor = profile[p].competitor
      BY DEF TypeOK, CompetitorProfile, PublicationState
    <3>2. profile' = [profile EXCEPT ![p] = new] /\ profile[p].state = "DRAFT"
      BY <2>2 DEF publish_profile
    <3>3. /\ new.sources # {}
          /\ \A s \in new.sources : /\ source[s].state = "REVIEWED"
                                    /\ source[s].competitor = new.competitor
                                    /\ source[s].reviewedBy \in Officers
      <4> HIDE DEF new
      <4> QED
        BY <3>1, <3>2 DEF ProfilesRestOnReviewed, ProfilesHaveSources
    <3> HIDE DEF new
    <3> QED
      BY <3>1, <3>2, <3>3
  <2>3. CASE \E p \in Profiles, c \in Competitors, srcs \in SUBSET Sources :
               add_profile(p, c, srcs)
    BY <2>1, <2>3
  <2>4. CASE \E p \in Profiles : publish_profile(p)
    BY <2>2, <2>4
  <2> QED
    BY <2>3, <2>4 DEF ProfileRequests
<1>3. /\ profile' \in [Profiles -> CompetitorProfile] /\ profile'[p] = new
      /\ \A q \in Profiles : q # p => profile'[q] = profile[q]
  BY <1>2 DEF TypeOK
<1>4. TypeOK'
  BY <1>1, <1>3 DEF TypeOK
<1>5. ProfilesRestOnReviewed' /\ ProfilesHaveSources'
  BY <1>1, <1>2, <1>3 DEF ProfilesRestOnReviewed, ProfilesHaveSources
<1> QED
  BY <1>1, <1>4, <1>5, SubjectsStay DEF ReviewedByOfficer, DeduplicationIsComplete

(* A prior is reviewed by a privacy role before it is published. *)
LEMMA PriorInv ==
    ASSUME MarketIndInv, PriorRequests
    PROVE  MarketIndInv'
<1> USE DEF MarketIndInv
<1>1. UNCHANGED <<competitor, subjectIndex, source, profile, unknown, dedup, marketTime>>
  BY DEF PriorRequests, add_market_prior, review_market_prior, publish_market_prior
<1>2. PICK m \in Priors :
        \/ \E v \in Units, f, t \in Instants : add_market_prior(m, v, f, t)
        \/ \E x \in People : review_market_prior(x, m)
        \/ publish_market_prior(m)
  BY DEF PriorRequests
<1>3. prior \in [Priors -> MarketPriorVersion] /\ prior[m] \in MarketPriorVersion
  BY DEF TypeOK
<1>4. /\ prior' \in [Priors -> MarketPriorVersion]
      /\ prior'[m].state \in {"REVIEWED", "PUBLISHED"} =>
           prior'[m].reviewedBy \in Officers
      /\ \A q \in Priors : q # m => prior'[q] = prior[q]
  <2>1. ASSUME NEW v \in Units, NEW f \in Instants, NEW t \in Instants,
               add_market_prior(m, v, f, t)
        PROVE  /\ prior' \in [Priors -> MarketPriorVersion]
               /\ prior'[m].state = "DRAFT"
               /\ \A q \in Priors : q # m => prior'[q] = prior[q]
    <3>1. [state |-> "DRAFT", unit |-> v, from |-> f, until |-> t, reviewedBy |-> NoOne]
            \in MarketPriorVersion
      BY DEF MarketPriorVersion, PublicationState
    <3> QED
      BY <1>3, <2>1, <3>1 DEF add_market_prior
  <2>2. ASSUME NEW x \in People, review_market_prior(x, m)
        PROVE  /\ prior' \in [Priors -> MarketPriorVersion]
               /\ prior'[m].reviewedBy \in Officers
               /\ \A q \in Priors : q # m => prior'[q] = prior[q]
    BY <1>3, <2>2 DEF review_market_prior, MarketPriorVersion, PublicationState
  <2>3. ASSUME publish_market_prior(m)
        PROVE  /\ prior' \in [Priors -> MarketPriorVersion]
               /\ prior'[m].reviewedBy \in Officers
               /\ \A q \in Priors : q # m => prior'[q] = prior[q]
    BY <1>3, <2>3 DEF publish_market_prior, MarketPriorVersion, PublicationState,
                      ReviewedByOfficer
  <2> QED
    BY <1>2, <2>1, <2>2, <2>3
<1>5. TypeOK' /\ ReviewedByOfficer'
  BY <1>1, <1>4 DEF TypeOK, ReviewedByOfficer
<1> QED
  BY <1>1, <1>5, SubjectsStay DEF ProfilesRestOnReviewed, ProfilesHaveSources,
                                  DeduplicationIsComplete

(* An unknown entrant profile is published only when it still excludes     *)
(* everybody who is named.                                                 *)
LEMMA UnknownInv ==
    ASSUME MarketIndInv, UnknownRequests
    PROVE  MarketIndInv'
<1> USE DEF MarketIndInv
<1>1. UNCHANGED <<competitor, subjectIndex, source, profile, prior, dedup, marketTime>>
  BY DEF UnknownRequests, add_unknown_profile, publish_unknown_profile
<1>2. PICK u \in Unknowns :
        \/ \E e \in SUBSET SubjectKeys, t \in Instants : add_unknown_profile(u, e, t)
        \/ publish_unknown_profile(u)
  BY DEF UnknownRequests
<1>3. /\ unknown \in [Unknowns -> UnknownEntrantProfileVersion]
      /\ unknown[u] \in UnknownEntrantProfileVersion
  BY DEF TypeOK
<1>4. /\ unknown' \in [Unknowns -> UnknownEntrantProfileVersion]
      /\ unknown'[u].state = "PUBLISHED" => NamedSubjects \subseteq unknown'[u].excluded
      /\ \A v \in Unknowns : v # u => unknown'[v] = unknown[v]
  <2>1. ASSUME NEW e \in SUBSET SubjectKeys, NEW t \in Instants,
               add_unknown_profile(u, e, t)
        PROVE  /\ unknown' \in [Unknowns -> UnknownEntrantProfileVersion]
               /\ unknown'[u].state = "DRAFT"
               /\ \A v \in Unknowns : v # u => unknown'[v] = unknown[v]
    <3>1. [state |-> "DRAFT", excluded |-> e, until |-> t]
            \in UnknownEntrantProfileVersion
      BY DEF UnknownEntrantProfileVersion, PublicationState
    <3> QED
      BY <1>3, <2>1, <3>1 DEF add_unknown_profile
  <2>2. ASSUME publish_unknown_profile(u)
        PROVE  /\ unknown' \in [Unknowns -> UnknownEntrantProfileVersion]
               /\ NamedSubjects \subseteq unknown'[u].excluded
               /\ \A v \in Unknowns : v # u => unknown'[v] = unknown[v]
    <3>1. /\ unknown' = [unknown EXCEPT ![u].state = "PUBLISHED"]
          /\ NamedSubjects \subseteq unknown[u].excluded
      BY <2>2 DEF publish_unknown_profile, StillExcludesNamed
    <3> QED
      BY <1>3, <3>1 DEF UnknownEntrantProfileVersion, PublicationState
  <2> QED
    BY <1>2, <2>1, <2>2
<1>5. TypeOK'
  BY <1>1, <1>4 DEF TypeOK
<1>6. UnknownExcludesNamed'
  BY <1>1, <1>4 DEF UnknownExcludesNamed, NamedSubjects
<1> QED
  BY <1>1, <1>5, <1>6 DEF KeyedWhenNamed, SubjectIndexAgrees, ReviewedByOfficer,
     ProfilesRestOnReviewed, ProfilesHaveSources, DeduplicationIsComplete

(* A deduplication run reads the competitors and changes nothing else. *)
LEMMA DeduplicationInv ==
    ASSUME MarketIndInv, DeduplicationRequests
    PROVE  MarketIndInv'
<1> USE DEF MarketIndInv
<1>1. PICK input \in Inputs : create_subject_deduplication_run(input)
  BY DEF DeduplicationRequests
<1>2. UNCHANGED <<competitor, subjectIndex, source, profile, prior, unknown, marketTime>>
  BY <1>1 DEF create_subject_deduplication_run
<1>3. PICK canonical :
        canonical = UNION {canonical_subject_key(input[i]) : i \in DOMAIN input}
  OBVIOUS
<1>4. dedup' = [input |-> input, canonical |-> canonical,
                duplicates |-> Repeated(input), matches |-> canonical \cap NamedSubjects]
  BY <1>1, <1>3 DEF create_subject_deduplication_run
<1>5. /\ canonical \subseteq SubjectKeys
      /\ canonical = {input[i].key : i \in DOMAIN input}
      /\ (Repeated(input) = {}) <=> (Len(input) = Cardinality(canonical))
  BY <1>3, DeduplicationCounts
<1>6. Repeated(input) \subseteq SubjectKeys
  BY DEF Repeated
<1>7. dedup' \in SubjectDeduplicationRun
  BY <1>4, <1>5, <1>6 DEF SubjectDeduplicationRun
<1>8. TypeOK'
  BY <1>2, <1>7 DEF TypeOK
<1>9. DeduplicationIsComplete'
  BY <1>4, <1>5 DEF DeduplicationIsComplete
<1> QED
  BY <1>2, <1>8, <1>9, SubjectsStay DEF ReviewedByOfficer, ProfilesRestOnReviewed,
                                        ProfilesHaveSources

-----------------------------------------------------------------------------
(* Every command and the clock keep the inductive invariant. *)
LEMMA NextInv == MarketIndInv /\ [Next]_marketVars => MarketIndInv'
<1> SUFFICES ASSUME MarketIndInv, [Next]_marketVars
             PROVE  MarketIndInv'
  OBVIOUS
<1>1. CASE Tick \/ UNCHANGED marketVars
  <2>1. /\ UNCHANGED <<competitor, subjectIndex, source, profile, prior, unknown, dedup>>
        /\ marketTime' \in 0..MaxMarketTime
    BY <1>1, MarketAssumption DEF Tick, marketVars, MarketIndInv, TypeOK
  <2> QED
    BY <2>1, SubjectsStay DEF MarketIndInv, TypeOK, ReviewedByOfficer,
       ProfilesRestOnReviewed, ProfilesHaveSources, DeduplicationIsComplete
<1> QED
  BY <1>1, CompetitorInv, SourceInv, ProfileInv, PriorInv, UnknownInv,
     DeduplicationInv DEF Next

(* The inductive invariant holds in every state that the commands of market *)
(* governance reach (governance.py:129-1028).                               *)
THEOREM Invariance == Spec => []MarketIndInv
  BY InitInv, NextInv, PTL DEF Spec

(* Readiness rests on something a privacy role reviewed that has not run    *)
(* out: a published profile has a source, and a usable source was reviewed  *)
(* (governance.py:994-1028).                                                *)
LEMMA ReadinessRestsOnReview == MarketIndInv => ReadinessIsBacked
<1> SUFFICES ASSUME MarketIndInv, NEW v \in Units, readiness(v) = "PROBABILISTIC"
             PROVE  \/ \E s \in Sources : source[s].reviewedBy \in Officers
                                           /\ source[s].state = "REVIEWED"
                                           /\ source[s].until > marketTime
                    \/ \E m \in Priors : prior[m].reviewedBy \in Officers
                                          /\ prior[m].unit = v
                                          /\ prior[m].until > marketTime
  BY DEF ReadinessIsBacked
<1>1. CASE \E p \in Profiles : /\ profile[p].state = "PUBLISHED"
                              /\ \A s \in profile[p].sources : SourceIsUsable(s)
  <2>1. PICK p \in Profiles, s \in Sources :
          s \in profile[p].sources /\ SourceIsUsable(s)
    BY <1>1 DEF MarketIndInv, ProfilesHaveSources, TypeOK, CompetitorProfile
  <2> QED
    BY <2>1 DEF MarketIndInv, ReviewedByOfficer, SourceIsUsable
<1>2. CASE \E m \in Priors : /\ prior[m].unit = v /\ prior[m].state = "PUBLISHED"
                             /\ marketTime < prior[m].until
  BY <1>2 DEF MarketIndInv, ReviewedByOfficer, TypeOK, MarketPriorVersion, Instants
<1> QED
  BY <1>1, <1>2 DEF readiness

(* What market governance promises: one competitor per subject, nobody      *)
(* counted twice, profiles on reviewed sources, readiness that is backed    *)
(* and deduplication that finds every repetition (governance.py:145-1028).  *)
THEOREM MarketIsConsistent == Spec => []MarketInv
<1>1. MarketIndInv => MarketInv
  BY ReadinessRestsOnReview DEF MarketIndInv, MarketInv
<1> QED
  BY <1>1, Invariance, PTL

(* No command takes a source, a profile or an unknown entrant profile out   *)
(* of quarantine (governance.py:430, 618, 881).                             *)
THEOREM QuarantineIsFinal == Spec => QuarantinedStaysOut
<1> DEFINE Out == /\ \A s \in Sources : source[s].state = "QUARANTINED" =>
                       source'[s].state = "QUARANTINED"
                  /\ \A p \in Profiles : profile[p].state = "QUARANTINED" =>
                       profile'[p].state = "QUARANTINED"
                  /\ \A u \in Unknowns : unknown[u].state = "QUARANTINED" =>
                       unknown'[u].state = "QUARANTINED"
<1>1. TypeOK /\ [Next]_marketVars => [Out]_marketVars
  <2> SUFFICES ASSUME TypeOK, Next PROVE Out
    OBVIOUS
  <2>1. ASSUME NEW s \in Sources, source[s].state = "QUARANTINED"
        PROVE  source'[s].state = "QUARANTINED"
    <3>1. CASE UNCHANGED source
      BY <2>1, <3>1
    <3>2. CASE SourceRequests
      BY <2>1, <3>2 DEF SourceRequests, add_source, review_source, Reviewable,
                        quarantine_source, TypeOK
    <3> QED
      BY <3>1, <3>2 DEF Next, CompetitorRequests, add_competitor,
         update_competitor_draft, archive_competitor, ProfileRequests, add_profile,
         publish_profile, PriorRequests, add_market_prior, review_market_prior,
         publish_market_prior, UnknownRequests, add_unknown_profile,
         publish_unknown_profile, DeduplicationRequests,
         create_subject_deduplication_run, Tick
  <2>2. ASSUME NEW p \in Profiles, profile[p].state = "QUARANTINED"
        PROVE  profile'[p].state = "QUARANTINED"
    <3>1. CASE UNCHANGED profile
      BY <2>2, <3>1
    <3>2. CASE ProfileRequests
      BY <2>2, <3>2 DEF ProfileRequests, add_profile, publish_profile, TypeOK
    <3>3. ASSUME NEW s \in Sources, profile' = QuarantineProfiles(s)
          PROVE  profile'[p].state = "QUARANTINED"
      <4>1. profile[p] \in CompetitorProfile
        BY DEF TypeOK
      <4>2. profile'[p] = profile[p]
              \/ profile'[p] = [profile[p] EXCEPT !.state = "QUARANTINED"]
        BY <3>3 DEF QuarantineProfiles
      <4> QED
        BY <2>2, <4>1, <4>2 DEF CompetitorProfile
    <3> QED
      BY <3>1, <3>2, <3>3 DEF Next, CompetitorRequests, add_competitor,
         update_competitor_draft, archive_competitor, SourceRequests, add_source,
         review_source, quarantine_source, PriorRequests, add_market_prior,
         review_market_prior, publish_market_prior, UnknownRequests,
         add_unknown_profile, publish_unknown_profile, DeduplicationRequests,
         create_subject_deduplication_run, Tick
  <2>3. ASSUME NEW u \in Unknowns, unknown[u].state = "QUARANTINED"
        PROVE  unknown'[u].state = "QUARANTINED"
    <3>1. CASE UNCHANGED unknown
      BY <2>3, <3>1
    <3>2. CASE UnknownRequests
      BY <2>3, <3>2 DEF UnknownRequests, add_unknown_profile, publish_unknown_profile,
                        TypeOK
    <3>3. ASSUME NEW key \in SubjectKeys, unknown' = QuarantineUnknowns(key)
          PROVE  unknown'[u].state = "QUARANTINED"
      BY <2>3, <3>3 DEF QuarantineUnknowns
    <3>4. CASE CompetitorRequests
      <4>1. \/ UNCHANGED unknown
            \/ \E key \in SubjectKeys : unknown' = QuarantineUnknowns(key)
        BY <3>4 DEF CompetitorRequests, add_competitor, update_competitor_draft,
                    archive_competitor, canonical_subject_key, Spellings
      <4> QED
        BY <3>1, <3>3, <4>1
    <3> QED
      BY <3>1, <3>2, <3>4 DEF Next, SourceRequests, add_source,
         review_source, quarantine_source, ProfileRequests, add_profile,
         publish_profile, PriorRequests, add_market_prior, review_market_prior,
         publish_market_prior, DeduplicationRequests,
         create_subject_deduplication_run, Tick
  <2> QED
    BY <2>1, <2>2, <2>3
<1>2. MarketIndInv => TypeOK
  BY DEF MarketIndInv
<1> QED
  BY <1>1, <1>2, Invariance, PTL DEF Spec, QuarantinedStaysOut

-----------------------------------------------------------------------------
(* The privacy records.                                                    *)

AbsentIsUnversioned ==
    \A r \in Records : record[r].type = Privacy!None => record[r].version = 0

(* What the tables of states say of the way a record has come: only a      *)
(* request can be completed or rejected, only an incident resolved or      *)
(* closed, and the states in between were passed (services.py:70-95).      *)
PathsAreKept ==
    \A r \in Records :
        LET x == record[r] IN
        /\ x.state \in {"COMPLETED", "REJECTED"} => x.type = "data_subject_request"
        /\ x.state \in {"RESOLVED", "CLOSED"} => x.type = "incident"
        /\ x.type = "data_subject_request" =>
             x.state = "RECEIVED" \/ "IDENTITY_VERIFIED" \in past[r]
        /\ x.state = "REMEDIATING" => "REMEDIATING" \in past[r]
        /\ x.state \in {"RESOLVED", "CLOSED"} =>
             {"REMEDIATING", "RESOLVED"} \subseteq past[r]

(* A walk goes from newer to older records and stands at the last one it   *)
(* returned (services.py:221-250).                                         *)
WalkIsOrdered ==
    /\ \A i \in DOMAIN walk.seen : record[walk.seen[i]].type # Privacy!None
    /\ \A i, j \in DOMAIN walk.seen : i < j => Privacy!Newer(walk.seen[i], walk.seen[j])
    /\ walk.end = "no" => walk.seen = <<>> /\ walk.stable = {}
    /\ walk.end = "walking" => /\ walk.seen # <<>>
                               /\ walk.at = walk.seen[Len(walk.seen)]

(* What it has still to return is older than that. *)
StableIsAhead ==
    /\ \A r \in walk.stable : /\ record[r].type # Privacy!None
                              /\ r \in Privacy!Matching(walk.type, walk.filter)
    /\ walk.end = "walking" =>
         \A r \in walk.stable : \/ \E i \in DOMAIN walk.seen : walk.seen[i] = r
                                \/ Privacy!Newer(walk.at, r)

(* The inductive invariant of the privacy records. *)
PrivacyIndInv ==
    /\ Privacy!TypeOK
    /\ AbsentIsUnversioned
    /\ Privacy!CheckedByAnother
    /\ PathsAreKept
    /\ Privacy!OneAnswerPerChange
    /\ WalkIsOrdered
    /\ StableIsAhead
    /\ Privacy!WalkMissesNothing

-----------------------------------------------------------------------------
(* A finite set has as many elements in either module. *)
LEMMA PrivacyCardinality == \A S : Privacy!Cardinality(S) = Cardinality(S)
BY DEF Privacy!Cardinality, Cardinality

(* A set of naturals that is not empty has a least element. *)
LEMMA LeastNatural ==
    ASSUME NEW S, S \subseteq Nat, S # {}
    PROVE  \E m \in S : \A n \in S : m <= n
<1> DEFINE Less == {ss \in Nat \X Nat : ss[1] < ss[2]}
<1>1. IsWellFoundedOn(Less, Nat)
  BY NatLessThanWellFounded DEF OpToRel
<1>2. PICK m \in S : \A n \in S : ~(<<n, m>> \in Less)
  BY <1>1, WFMin, Zenon
<1>3. \A n \in S : ~(n < m)
  BY <1>2
<1> QED
  BY <1>3

(* Creation times and ids order the records (services.py:221-235). *)
LEMMA NewerIsAnOrder ==
    ASSUME Privacy!TypeOK, NEW r \in Records, NEW q \in Records, NEW p \in Records
    PROVE  /\ ~Privacy!Newer(r, r)
           /\ r # q => Privacy!Newer(r, q) \/ Privacy!Newer(q, r)
           /\ Privacy!Newer(r, q) /\ Privacy!Newer(q, p) => Privacy!Newer(r, p)
<1>1. /\ r \in Nat /\ q \in Nat /\ p \in Nat
      /\ record[r].born \in Nat /\ record[q].born \in Nat /\ record[p].born \in Nat
  BY PrivacyAssumption DEF Privacy!TypeOK, Privacy!MarketResourceRecord
<1> QED
  BY <1>1 DEF Privacy!Newer

(* The newest of some records is the one that has the fewest newer ones,   *)
(* none; First chooses it.                                                 *)
LEMMA FirstIsNewest ==
    ASSUME Privacy!TypeOK, NEW rest, rest \subseteq Records, rest # {}
    PROVE  /\ Privacy!First(rest) \in rest
           /\ \A q \in rest \ {Privacy!First(rest)} : Privacy!Newer(Privacy!First(rest), q)
<1> DEFINE above(r) == {q \in rest : Privacy!Newer(q, r)}
           heights == {Cardinality(above(r)) : r \in rest}
<1>1. IsFiniteSet(rest)
  BY PrivacyAssumption, FS_Subset
<1>2. \A r \in rest : IsFiniteSet(above(r)) /\ Cardinality(above(r)) \in Nat
  BY <1>1, FS_Subset, FS_CardinalityType
<1>3. heights \subseteq Nat /\ heights # {}
  BY <1>2
<1>4. PICK h \in heights : \A n \in heights : h <= n
  BY <1>3, LeastNatural
<1>5. PICK r \in rest : h = Cardinality(above(r))
  BY Zenon
<1>6. ASSUME NEW q \in rest, Privacy!Newer(q, r) PROVE FALSE
  <2>1. above(q) \subseteq above(r)
    BY <1>6, NewerIsAnOrder
  <2>2. q \in above(r) /\ q \notin above(q)
    BY <1>6, NewerIsAnOrder
  <2>3. /\ Cardinality(above(q)) <= Cardinality(above(r))
        /\ Cardinality(above(q)) # Cardinality(above(r))
    BY <1>2, <2>1, <2>2, FS_Subset
  <2>4. Cardinality(above(q)) \in heights
    OBVIOUS
  <2>5. h <= Cardinality(above(q))
    BY <1>4, <2>4
  <2> QED
    BY <1>2, <1>5, <2>3, <2>5, SMTT(20)
<1>7. \A q \in rest \ {r} : Privacy!Newer(r, q)
  BY <1>6, NewerIsAnOrder
<1>8. \E f \in rest : \A q \in rest \ {f} : Privacy!Newer(f, q)
  BY <1>7
<1> HIDE DEF above, heights
<1> QED
  BY <1>8, Zenon DEF Privacy!First

(* Where the tables lead (services.py:70-95): what needs a checker is      *)
(* reached by an action that has one, and no path skips a step.            *)
LEMMA NextStateFacts ==
    ASSUME NEW type, NEW from, NEW act,
           NEW target \in Privacy!next_state(type, from, act)
    PROVE  /\ target \in Privacy!MarketResourceState
           /\ target \in {"APPROVED", "NOT_REQUIRED", "PUBLISHED", "FROZEN"} =>
                act \in Privacy!INDEPENDENT_CHECKER_ACTIONS
           /\ target \in {"COMPLETED", "REJECTED"} => type = "data_subject_request"
           /\ type = "data_subject_request" /\ from = "RECEIVED" =>
                target = "IDENTITY_VERIFIED"
           /\ target = "RESOLVED" => type = "incident" /\ from = "REMEDIATING"
           /\ target = "CLOSED" => type = "incident" /\ from = "RESOLVED"
<1>1. CASE act = "transition"
  <2>1. PICK row \in Privacy!DYNAMIC_TRANSITIONS :
          row[1] = type /\ row[2] = from /\ target \in row[3]
    BY <1>1 DEF Privacy!next_state
  <2>2. target \in Privacy!MarketResourceState
    BY <2>1 DEF Privacy!MarketResourceState
  <2> QED
    BY <2>1, <2>2 DEF Privacy!DYNAMIC_TRANSITIONS
<1>2. CASE act # "transition"
  <2>1. PICK row \in Privacy!FIXED_TRANSITIONS :
          type \in row[1] /\ row[2] = act /\ from \in row[3] /\ target = row[4]
    BY <1>2 DEF Privacy!next_state
  <2>2. target \in Privacy!MarketResourceState
    BY <2>1 DEF Privacy!MarketResourceState
  <2> QED
    BY <2>1, <2>2 DEF Privacy!FIXED_TRANSITIONS, Privacy!Assessments,
                      Privacy!INDEPENDENT_CHECKER_ACTIONS
<1> QED
  BY <1>1, <1>2

(* Where a record begins. *)
LEMMA InitialStateFacts ==
    ASSUME NEW type \in Privacy!ResourceTypes
    PROVE  /\ Privacy!INITIAL_STATES[type] \in Privacy!MarketResourceState
           /\ Privacy!INITIAL_STATES[type] \notin
                {"APPROVED", "NOT_REQUIRED", "PUBLISHED", "FROZEN", "COMPLETED",
                 "REJECTED", "REMEDIATING", "RESOLVED", "CLOSED"}
           /\ type = "data_subject_request" => Privacy!INITIAL_STATES[type] = "RECEIVED"
           /\ type # Privacy!None
<1>1. Privacy!INITIAL_STATES[type] \in Privacy!MarketResourceState
  BY DEF Privacy!MarketResourceState
<1> QED
  BY <1>1 DEF Privacy!ResourceTypes, Privacy!INITIAL_STATES, Privacy!None

(* There is no record and no walk. *)
LEMMA PrivacyInit == Privacy!Init => PrivacyIndInv
<1> SUFFICES ASSUME Privacy!Init PROVE PrivacyIndInv
  OBVIOUS
<1>1. /\ record = [r \in Records |-> Privacy!NoRecord]
      /\ journal = [k \in Keys |-> [id |-> Privacy!NoId, version |-> 0]]
      /\ lost = [r \in Records |-> 0]
      /\ past = [r \in Records |-> {}]
      /\ birth = 0
      /\ walk = [type |-> Privacy!None, filter |-> Privacy!None, at |-> Privacy!NoId,
                 end |-> "no", seen |-> <<>>, stable |-> {}]
  BY DEF Privacy!Init
<1>2. Privacy!TypeOK
  <2>1. Privacy!NoRecord \in Privacy!MarketResourceRecord
    BY PrivacyAssumption DEF Privacy!NoRecord, Privacy!MarketResourceRecord
  <2>2. walk \in Privacy!Walk
    BY <1>1 DEF Privacy!Walk
  <2>3. /\ record \in [Records -> Privacy!MarketResourceRecord]
        /\ journal \in [Keys -> Privacy!Answer]
    BY <1>1, <2>1, PrivacyAssumption DEF Privacy!Answer
  <2>4. /\ lost \in [Records -> 0..MaxVersion] /\ birth \in 0..MaxBirth
        /\ past \in [Records -> SUBSET Privacy!MarketResourceState]
    BY <1>1, PrivacyAssumption
  <2> QED
    BY <2>2, <2>3, <2>4 DEF Privacy!TypeOK
<1>3. \A r \in Records : /\ record[r].version = 0
                         /\ record[r].type = Privacy!None /\ record[r].state = Privacy!None
  BY <1>1 DEF Privacy!NoRecord
<1>4. AbsentIsUnversioned /\ Privacy!CheckedByAnother /\ PathsAreKept
  BY <1>3 DEF AbsentIsUnversioned, Privacy!CheckedByAnother, PathsAreKept, Privacy!None
<1>5. Privacy!OneAnswerPerChange
  <2> SUFFICES ASSUME NEW r \in Records
               PROVE  Privacy!Cardinality({k \in Keys : journal[k].id = r}) + lost[r]
                        = record[r].version
    BY DEF Privacy!OneAnswerPerChange
  <2>1. {k \in Keys : journal[k].id = r} = {}
    BY <1>1, PrivacyAssumption DEF Privacy!NoId
  <2>2. Privacy!Cardinality({k \in Keys : journal[k].id = r}) = 0
    BY <2>1, PrivacyCardinality, FS_EmptySet
  <2> QED
    BY <1>1, <1>3, <2>2
<1>6. WalkIsOrdered /\ StableIsAhead /\ Privacy!WalkMissesNothing
  BY <1>1 DEF WalkIsOrdered, StableIsAhead, Privacy!WalkMissesNothing
<1> QED
  BY <1>2, <1>4, <1>5, <1>6 DEF PrivacyIndInv

(* A key that was not used is answered with this change, or the change is  *)
(* counted as lost: there is one more of either.                           *)
LEMMA AnswerCounts ==
    ASSUME PrivacyIndInv, NEW k \in Keys, NEW r \in Records, NEW audited \in BOOLEAN,
           Privacy!NotReplayed(k), NEW version \in 0..MaxVersion,
           version = record[r].version + 1,
           Privacy!Answered(k, r, version, audited),
           NEW new, record' = [record EXCEPT ![r] = new], new.version = version
    PROVE  /\ Privacy!OneAnswerPerChange'
           /\ journal' \in [Keys -> Privacy!Answer]
           /\ lost' \in [Records -> 0..MaxVersion]
<1>0. /\ record \in [Records -> Privacy!MarketResourceRecord]
      /\ journal \in [Keys -> Privacy!Answer] /\ lost \in [Records -> 0..MaxVersion]
  BY DEF PrivacyIndInv, Privacy!TypeOK
<1>1. /\ record'[r].version = record[r].version + 1
      /\ \A q \in Records \ {r} : record'[q] = record[q]
      /\ \A q \in Records : record[q].version \in Nat
  BY <1>0, PrivacyAssumption DEF Privacy!MarketResourceRecord
<1> DEFINE answers(q) == {key \in Keys : journal[key].id = q}
           answersNow(q) == {key \in Keys : journal'[key].id = q}
<1>2. \A q \in Records : /\ IsFiniteSet(answers(q)) /\ Cardinality(answers(q)) \in Nat
                         /\ Cardinality(answers(q)) + lost[q] = record[q].version
  <2> SUFFICES ASSUME NEW q \in Records
               PROVE  /\ IsFiniteSet(answers(q)) /\ Cardinality(answers(q)) \in Nat
                      /\ Cardinality(answers(q)) + lost[q] = record[q].version
    OBVIOUS
  <2>1. IsFiniteSet(answers(q))
    BY PrivacyAssumption, FS_Subset
  <2>2. Cardinality(answers(q)) \in Nat
    BY <2>1, FS_CardinalityType
  <2>3. Privacy!Cardinality(answers(q)) = Cardinality(answers(q))
    BY PrivacyCardinality, Zenon
  <2>4. Privacy!Cardinality(answers(q)) + lost[q] = record[q].version
    BY DEF PrivacyIndInv, Privacy!OneAnswerPerChange
  <2> QED
    BY <2>1, <2>2, <2>3, <2>4
<1>3. k \notin answers(r)
  BY PrivacyAssumption DEF Privacy!NotReplayed, Privacy!NoId
<1>4. CASE audited
  <2>1. /\ journal' = [journal EXCEPT ![k] = [id |-> r, version |-> version]]
        /\ lost' = lost
    BY <1>4 DEF Privacy!Answered
  <2>2. journal' \in [Keys -> Privacy!Answer]
    BY <1>0, <2>1 DEF Privacy!Answer
  <2>3. answersNow(r) = answers(r) \cup {k}
    BY <1>0, <2>1
  <2>4. \A q \in Records \ {r} : answersNow(q) = answers(q)
    BY <1>0, <2>1, PrivacyAssumption DEF Privacy!NotReplayed, Privacy!NoId
  <2>5. Cardinality(answersNow(r)) = Cardinality(answers(r)) + 1
    BY <1>2, <1>3, <2>3, FS_AddElement
  <2>6. \A q \in Records : Cardinality(answersNow(q)) + lost'[q] = record'[q].version
    <3> SUFFICES ASSUME NEW q \in Records
                 PROVE  Cardinality(answersNow(q)) + lost'[q] = record'[q].version
      OBVIOUS
    <3>1. lost[q] \in Nat
      BY <1>0
    <3>2. CASE q = r
      <4> HIDE DEF answers, answersNow
      <4> QED
        BY <1>1, <1>2, <2>1, <2>5, <3>1, <3>2
    <3>3. CASE q # r
      <4>1. answersNow(q) = answers(q) /\ record'[q] = record[q]
        BY <1>1, <2>4, <3>3
      <4> HIDE DEF answers, answersNow
      <4> QED
        BY <1>2, <2>1, <4>1
    <3> QED
      BY <3>2, <3>3
  <2>7. \A q \in Records : Privacy!Cardinality(answersNow(q)) = Cardinality(answersNow(q))
    BY PrivacyCardinality, Zenon
  <2>8. Privacy!OneAnswerPerChange'
    BY <2>6, <2>7 DEF Privacy!OneAnswerPerChange
  <2> QED
    BY <1>0, <2>1, <2>2, <2>8
<1>5. CASE ~audited
  <2>1. journal' = journal /\ lost' = [lost EXCEPT ![r] = lost[r] + 1]
    BY <1>0, <1>5 DEF Privacy!Answered
  <2>2. lost[r] + 1 \in 0..MaxVersion
    <3>1. lost[r] \in Nat /\ Cardinality(answers(r)) \in Nat
          /\ Cardinality(answers(r)) + lost[r] = record[r].version
      BY <1>0, <1>2
    <3> HIDE DEF answers
    <3> QED
      BY <3>1, PrivacyAssumption
  <2>3. lost' \in [Records -> 0..MaxVersion]
    BY <1>0, <2>1, <2>2
  <2>4. \A q \in Records : Privacy!Cardinality({key \in Keys : journal[key].id = q}) + lost'[q]
                             = record'[q].version
    <3> SUFFICES ASSUME NEW q \in Records
                 PROVE  Privacy!Cardinality(answers(q)) + lost'[q] = record'[q].version
      OBVIOUS
    <3>1. Privacy!Cardinality(answers(q)) = Cardinality(answers(q))
      BY PrivacyCardinality, Zenon
    <3>2. lost[q] \in Nat
      BY <1>0
    <3> HIDE DEF answers
    <3>3. CASE q = r
      BY <1>0, <1>1, <1>2, <2>1, <3>1, <3>2, <3>3
    <3>4. CASE q # r
      BY <1>0, <1>1, <1>2, <2>1, <3>1, <3>2, <3>4
    <3> QED
      BY <3>3, <3>4
  <2>5. Privacy!OneAnswerPerChange'
    BY <2>1, <2>4 DEF Privacy!OneAnswerPerChange
  <2> QED
    BY <1>0, <2>1, <2>3, <2>5
<1> QED
  BY <1>4, <1>5

(* A command leaves a walk as it is: a record that is new is not one the   *)
(* walk has seen or waits for, and a change moves no record in the order   *)
(* and takes out of what the walk owes the one record it may move out of   *)
(* the filter.                                                             *)
LEMMA WalkSurvives ==
    ASSUME PrivacyIndInv, NEW r \in Records, NEW new \in Privacy!MarketResourceRecord,
           record' = [record EXCEPT ![r] = new], new.type # Privacy!None,
           \/ record[r].type = Privacy!None /\ walk' = walk
           \/ /\ new.type = record[r].type /\ new.born = record[r].born
              /\ walk' = Privacy!StillStable(r)
    PROVE  walk' \in Privacy!Walk /\ WalkIsOrdered' /\ StableIsAhead'
           /\ Privacy!WalkMissesNothing'
<1>0. /\ record \in [Records -> Privacy!MarketResourceRecord] /\ walk \in Privacy!Walk
      /\ WalkIsOrdered /\ StableIsAhead /\ Privacy!WalkMissesNothing
  BY DEF PrivacyIndInv, Privacy!TypeOK
<1>1. /\ record'[r] = new /\ \A q \in Records \ {r} : record'[q] = record[q]
  BY <1>0
<1>2. /\ walk.seen \in Seq(Records) /\ walk.stable \in SUBSET Records
      /\ \A i \in DOMAIN walk.seen : walk.seen[i] \in Records
  <2>1. walk.seen \in Seq(Records) /\ walk.stable \in SUBSET Records
    BY <1>0 DEF Privacy!Walk
  <2> QED
    BY <2>1
<1>3. walk.end = "walking" => walk.at \in Records /\ record[walk.at].type # Privacy!None
  <2> SUFFICES ASSUME walk.end = "walking"
               PROVE  walk.at \in Records /\ record[walk.at].type # Privacy!None
    OBVIOUS
  <2>1. walk.seen # <<>> /\ walk.at = walk.seen[Len(walk.seen)]
    BY <1>0 DEF WalkIsOrdered
  <2>2. Len(walk.seen) \in DOMAIN walk.seen
    BY <1>2, <2>1
  <2> QED
    BY <1>0, <1>2, <2>1, <2>2 DEF WalkIsOrdered
<1>4. CASE record[r].type = Privacy!None /\ walk' = walk
  <2>1. /\ \A i \in DOMAIN walk.seen : walk.seen[i] # r
        /\ \A q \in walk.stable : q # r
        /\ walk.end = "walking" => walk.at # r
    BY <1>0, <1>3, <1>4 DEF WalkIsOrdered, StableIsAhead
  <2>2. WalkIsOrdered'
    BY <1>0, <1>1, <1>2, <1>4, <2>1 DEF WalkIsOrdered, Privacy!Newer
  <2>3. StableIsAhead'
    BY <1>0, <1>1, <1>2, <1>3, <1>4, <2>1
       DEF StableIsAhead, Privacy!Newer, Privacy!Matching
  <2>4. Privacy!WalkMissesNothing'
    BY <1>0, <1>4 DEF Privacy!WalkMissesNothing
  <2> QED
    BY <1>0, <1>4, <2>2, <2>3, <2>4
<1>5. CASE /\ new.type = record[r].type /\ new.born = record[r].born
           /\ walk' = Privacy!StillStable(r)
  <2>1. PICK kept : kept = IF walk.filter = Privacy!None THEN walk.stable
                                                         ELSE walk.stable \ {r}
    BY Zenon
  <2>2. walk' = [walk EXCEPT !.stable = kept]
    BY <1>5, <2>1, Zenon DEF Privacy!StillStable
  <2>3. kept \subseteq walk.stable /\ (walk.filter # Privacy!None => r \notin kept)
    BY <2>1
  <2>4. /\ walk' \in Privacy!Walk /\ walk'.stable = kept
        /\ walk'.seen = walk.seen /\ walk'.at = walk.at /\ walk'.end = walk.end
        /\ walk'.type = walk.type /\ walk'.filter = walk.filter
    BY <1>0, <1>2, <2>2, <2>3 DEF Privacy!Walk
  <2>5. \A q \in Records : /\ record'[q].born = record[q].born
                           /\ record'[q].type = record[q].type
    BY <1>1, <1>5
  <2>6. WalkIsOrdered'
    <3>1. \A i \in DOMAIN walk.seen : record'[walk.seen[i]].type # Privacy!None
      BY <1>0, <1>2, <2>5 DEF WalkIsOrdered
    <3>2. \A i, j \in DOMAIN walk.seen : i < j =>
             Privacy!Newer(walk.seen[i], walk.seen[j])'
      BY <1>0, <1>2, <2>4, <2>5 DEF WalkIsOrdered, Privacy!Newer
    <3>3. walk.end = "no" => kept = {}
      BY <1>0, <2>3 DEF WalkIsOrdered
    <3> QED
      BY <1>0, <2>4, <3>1, <3>2, <3>3 DEF WalkIsOrdered
  <2>7. \A q \in kept : q \in Privacy!Matching(walk.type, walk.filter)'
    <3> SUFFICES ASSUME NEW q \in kept
                 PROVE  q \in Privacy!Matching(walk.type, walk.filter)'
      OBVIOUS
    <3>1. q \in Records /\ q \in Privacy!Matching(walk.type, walk.filter)
      BY <1>0, <1>2, <2>3 DEF StableIsAhead
    <3>2. walk.filter # Privacy!None => record'[q] = record[q]
      BY <1>1, <2>3, <3>1
    <3> QED
      BY <2>4, <2>5, <3>1, <3>2 DEF Privacy!Matching
  <2>8. StableIsAhead'
    <3>1. \A q \in kept : record'[q].type # Privacy!None
      BY <1>0, <1>2, <2>3, <2>5 DEF StableIsAhead
    <3>2. walk.end = "walking" =>
            \A q \in kept : \/ \E i \in DOMAIN walk.seen : walk.seen[i] = q
                            \/ Privacy!Newer(walk.at, q)'
      BY <1>0, <1>2, <1>3, <2>3, <2>4, <2>5 DEF StableIsAhead, Privacy!Newer
    <3> QED
      BY <2>4, <2>7, <3>1, <3>2 DEF StableIsAhead
  <2>9. Privacy!WalkMissesNothing'
    BY <1>0, <2>3, <2>4 DEF Privacy!WalkMissesNothing
  <2> QED
    BY <2>4, <2>6, <2>8, <2>9
<1> QED
  BY <1>4, <1>5

(* A record is created. *)
LEMMA CreateKeeps ==
    ASSUME PrivacyIndInv, NEW person \in Staff, NEW k \in Keys, NEW r \in Records,
           NEW type \in Privacy!ResourceTypes, NEW audited \in BOOLEAN,
           Privacy!create(person, k, r, type, audited)
    PROVE  PrivacyIndInv'
<1>0. /\ record \in [Records -> Privacy!MarketResourceRecord] /\ birth \in 0..MaxBirth
      /\ past \in [Records -> SUBSET Privacy!MarketResourceState]
  BY DEF PrivacyIndInv, Privacy!TypeOK
<1>1. PICK new : new = [type |-> type, state |-> Privacy!INITIAL_STATES[type], version |-> 1,
                        maker |-> person, by |-> person, born |-> birth]
  OBVIOUS
<1>2. /\ Privacy!NotReplayed(k) /\ record[r].type = Privacy!None
      /\ record' = [record EXCEPT ![r] = new]
      /\ past' = [past EXCEPT ![r] = {Privacy!INITIAL_STATES[type]}]
      /\ Privacy!Answered(k, r, 1, audited) /\ birth' = birth /\ walk' = walk
  BY <1>1 DEF Privacy!create
<1>3. /\ new \in Privacy!MarketResourceRecord
      /\ new.type = type /\ new.version = 1 /\ new.state = Privacy!INITIAL_STATES[type]
  BY <1>0, <1>1, InitialStateFacts, PrivacyAssumption DEF Privacy!MarketResourceRecord
<1>4. /\ record'[r] = new /\ \A q \in Records \ {r} : record'[q] = record[q]
      /\ \A q \in Records \ {r} : past'[q] = past[q]
      /\ record' \in [Records -> Privacy!MarketResourceRecord]
      /\ past' \in [Records -> SUBSET Privacy!MarketResourceState]
  BY <1>0, <1>2, <1>3, InitialStateFacts
<1>5. 1 = record[r].version + 1 /\ 1 \in 0..MaxVersion
  BY <1>2, PrivacyAssumption DEF PrivacyIndInv, AbsentIsUnversioned
<1>6. /\ Privacy!OneAnswerPerChange' /\ journal' \in [Keys -> Privacy!Answer]
      /\ lost' \in [Records -> 0..MaxVersion]
  BY <1>2, <1>3, <1>5, AnswerCounts
<1>7. /\ walk' \in Privacy!Walk /\ WalkIsOrdered' /\ StableIsAhead'
      /\ Privacy!WalkMissesNothing'
  BY <1>2, <1>3, InitialStateFacts, WalkSurvives
<1>8. Privacy!TypeOK'
  BY <1>0, <1>2, <1>4, <1>6, <1>7 DEF Privacy!TypeOK
<1>9. AbsentIsUnversioned'
  BY <1>3, <1>4, InitialStateFacts DEF PrivacyIndInv, AbsentIsUnversioned
<1>10. Privacy!CheckedByAnother'
  BY <1>3, <1>4, InitialStateFacts DEF PrivacyIndInv, Privacy!CheckedByAnother
<1>11. PathsAreKept'
  <2>1. /\ new.state \notin {"COMPLETED", "REJECTED", "REMEDIATING", "RESOLVED", "CLOSED"}
        /\ new.type = "data_subject_request" => new.state = "RECEIVED"
    BY <1>3, InitialStateFacts
  <2> QED
    BY <1>4, <2>1 DEF PrivacyIndInv, PathsAreKept
<1> QED
  BY <1>6, <1>7, <1>8, <1>9, <1>10, <1>11 DEF PrivacyIndInv

(* A record goes on to another state. *)
LEMMA ActionKeeps ==
    ASSUME PrivacyIndInv, NEW person \in Staff, NEW k \in Keys, NEW r \in Records,
           NEW act, NEW audited \in BOOLEAN,
           NEW target \in Privacy!next_state(record[r].type, record[r].state, act),
           Privacy!action(person, k, r, act, target, audited)
    PROVE  PrivacyIndInv'
<1>0. /\ record \in [Records -> Privacy!MarketResourceRecord] /\ birth \in 0..MaxBirth
      /\ record[r] \in Privacy!MarketResourceRecord
      /\ past \in [Records -> SUBSET Privacy!MarketResourceState]
  BY DEF PrivacyIndInv, Privacy!TypeOK
<1>1. PICK new : new = [record[r] EXCEPT !.state = target, !.version = @ + 1, !.by = person]
  OBVIOUS
<1>2. /\ Privacy!NotReplayed(k) /\ record[r].type # Privacy!None
      /\ act \in Privacy!INDEPENDENT_CHECKER_ACTIONS => record[r].maker # person
      /\ record[r].version < MaxVersion
      /\ walk' = Privacy!StillStable(r) /\ birth' = birth
      /\ Privacy!Answered(k, r, record[r].version + 1, audited)
      /\ past' = [past EXCEPT ![r] = past[r] \cup {target}]
  BY <1>0 DEF Privacy!action
<1>3. record' = [record EXCEPT ![r] = new]
  BY <1>0, <1>1 DEF Privacy!action
<1>4. target \in Privacy!MarketResourceState
  BY NextStateFacts
<1>5. record[r].version + 1 \in 0..MaxVersion
  BY <1>0, <1>2, PrivacyAssumption DEF Privacy!MarketResourceRecord
<1>6. /\ new \in Privacy!MarketResourceRecord
      /\ new.type = record[r].type /\ new.born = record[r].born
      /\ new.maker = record[r].maker /\ new.by = person
      /\ new.version = record[r].version + 1 /\ new.state = target
  BY <1>0, <1>1, <1>4, <1>5 DEF Privacy!MarketResourceRecord
<1>7. /\ record'[r] = new /\ \A q \in Records \ {r} : record'[q] = record[q]
      /\ record' \in [Records -> Privacy!MarketResourceRecord]
      /\ past'[r] = past[r] \cup {target} /\ \A q \in Records \ {r} : past'[q] = past[q]
      /\ past' \in [Records -> SUBSET Privacy!MarketResourceState]
  BY <1>0, <1>2, <1>3, <1>4, <1>6
<1>8. /\ Privacy!OneAnswerPerChange' /\ journal' \in [Keys -> Privacy!Answer]
      /\ lost' \in [Records -> 0..MaxVersion]
  BY <1>2, <1>3, <1>5, <1>6, AnswerCounts
<1>9. /\ walk' \in Privacy!Walk /\ WalkIsOrdered' /\ StableIsAhead'
      /\ Privacy!WalkMissesNothing'
  BY <1>2, <1>3, <1>6, WalkSurvives
<1>10. Privacy!TypeOK'
  BY <1>0, <1>2, <1>7, <1>8, <1>9 DEF Privacy!TypeOK
<1>11. AbsentIsUnversioned'
  BY <1>2, <1>6, <1>7 DEF PrivacyIndInv, AbsentIsUnversioned
<1>12. Privacy!CheckedByAnother'
  <2>1. target \in {"APPROVED", "NOT_REQUIRED", "PUBLISHED", "FROZEN"} =>
          new.by # new.maker
    BY <1>2, <1>6, NextStateFacts
  <2> QED
    BY <1>6, <1>7, <2>1 DEF PrivacyIndInv, Privacy!CheckedByAnother
<1>13. PathsAreKept'
  <2>1. PathsAreKept
    BY DEF PrivacyIndInv
  <2>2. /\ target \in {"COMPLETED", "REJECTED"} => record[r].type = "data_subject_request"
        /\ record[r].type = "data_subject_request" /\ record[r].state = "RECEIVED" =>
             target = "IDENTITY_VERIFIED"
        /\ target = "RESOLVED" =>
             record[r].type = "incident" /\ record[r].state = "REMEDIATING"
        /\ target = "CLOSED" => record[r].type = "incident" /\ record[r].state = "RESOLVED"
    BY NextStateFacts
  <2>3. record[r].type = "data_subject_request" =>
          record[r].state = "RECEIVED" \/ "IDENTITY_VERIFIED" \in past[r]
    BY <2>1 DEF PathsAreKept
  <2>4. /\ record[r].state = "REMEDIATING" => "REMEDIATING" \in past[r]
        /\ record[r].state = "RESOLVED" => {"REMEDIATING", "RESOLVED"} \subseteq past[r]
    BY <2>1 DEF PathsAreKept
  <2>5. ASSUME NEW q \in Records, q # r
        PROVE  record'[q] = record[q] /\ past'[q] = past[q]
    BY <1>7, <2>5
  <2>6. /\ target \in {"RESOLVED", "CLOSED"} =>
             {"REMEDIATING", "RESOLVED"} \subseteq past'[r]
        /\ new.type = "data_subject_request" => "IDENTITY_VERIFIED" \in past'[r]
        /\ target = "REMEDIATING" => "REMEDIATING" \in past'[r]
    BY <1>6, <1>7, <2>2, <2>3, <2>4
  <2>7. ASSUME NEW q \in Records
        PROVE  LET x == record'[q] IN
               /\ x.state \in {"COMPLETED", "REJECTED"} => x.type = "data_subject_request"
               /\ x.state \in {"RESOLVED", "CLOSED"} => x.type = "incident"
               /\ x.type = "data_subject_request" =>
                    x.state = "RECEIVED" \/ "IDENTITY_VERIFIED" \in past'[q]
               /\ x.state = "REMEDIATING" => "REMEDIATING" \in past'[q]
               /\ x.state \in {"RESOLVED", "CLOSED"} =>
                    {"REMEDIATING", "RESOLVED"} \subseteq past'[q]
    <3>1. CASE q = r
      BY <1>6, <1>7, <2>2, <2>6, <3>1
    <3>2. CASE q # r
      BY <2>1, <2>5, <3>2 DEF PathsAreKept
    <3> QED
      BY <3>1, <3>2
  <2> QED
    BY <2>7 DEF PathsAreKept
<1> QED
  BY <1>8, <1>9, <1>10, <1>11, <1>12, <1>13 DEF PrivacyIndInv

(* A page is read.  rest are the records that come after what was seen,    *)
(* and the walk owes nothing that was neither seen nor is among them.      *)
LEMMA PageKeeps ==
    ASSUME PrivacyIndInv, NEW type \in Privacy!ResourceTypes,
           NEW filter \in Privacy!MarketResourceState \cup {Privacy!None},
           NEW rest, rest \subseteq Privacy!Matching(type, filter),
           NEW stable \in SUBSET Records, walk.end \in {"no", "walking"},
           \A q \in rest : \A i \in DOMAIN walk.seen : Privacy!Newer(walk.seen[i], q),
           \A r \in stable : /\ r \in Privacy!Matching(type, filter)
                             /\ r \in rest \/ \E i \in DOMAIN walk.seen : walk.seen[i] = r,
           rest = {} => walk.stable \subseteq stable,
           Privacy!Page(type, filter, rest, stable),
           UNCHANGED <<record, journal, lost, past, birth>>
    PROVE  PrivacyIndInv'
<1>0. /\ Privacy!TypeOK /\ walk \in Privacy!Walk
      /\ WalkIsOrdered /\ StableIsAhead
  BY DEF PrivacyIndInv, Privacy!TypeOK
<1>1. /\ walk.seen \in Seq(Records) /\ Len(walk.seen) \in Nat
      /\ DOMAIN walk.seen = 1..Len(walk.seen)
      /\ \A i \in DOMAIN walk.seen : walk.seen[i] \in Records
  <2>1. walk.seen \in Seq(Records)
    BY <1>0 DEF Privacy!Walk
  <2> QED
    BY <2>1
<1>2. rest \subseteq Records
  BY DEF Privacy!Matching
<1>3. /\ AbsentIsUnversioned' /\ Privacy!CheckedByAnother' /\ PathsAreKept'
      /\ Privacy!OneAnswerPerChange'
  BY DEF PrivacyIndInv, AbsentIsUnversioned, Privacy!CheckedByAnother, PathsAreKept,
         Privacy!OneAnswerPerChange
<1>4. walk' \in Privacy!Walk => Privacy!TypeOK'
  BY <1>0 DEF Privacy!TypeOK
<1>5. CASE rest = {}
  <2>1. walk' = [walk EXCEPT !.end = "done"]
    BY <1>5 DEF Privacy!Page
  <2>2. /\ walk' \in Privacy!Walk /\ walk'.end = "done" /\ walk'.seen = walk.seen
        /\ walk'.stable = walk.stable /\ walk'.type = walk.type
        /\ walk'.filter = walk.filter
    BY <1>0, <2>1 DEF Privacy!Walk
  <2>3. WalkIsOrdered'
    BY <1>0, <2>2 DEF WalkIsOrdered, Privacy!Newer
  <2>4. StableIsAhead'
    BY <1>0, <2>2 DEF StableIsAhead, Privacy!Matching
  <2>5. Privacy!WalkMissesNothing'
    BY <1>5, <2>2 DEF Privacy!WalkMissesNothing
  <2> QED
    BY <1>3, <1>4, <2>2, <2>3, <2>4, <2>5 DEF PrivacyIndInv
<1>6. CASE rest # {}
  <2>1. PICK f \in rest : f = Privacy!First(rest)
                          /\ \A q \in rest \ {f} : Privacy!Newer(f, q)
    BY <1>0, <1>2, <1>6, FirstIsNewest
  <2>2. PICK n \in Nat : n = Len(walk.seen)
    BY <1>1
  <2>3. PICK seen : seen = Append(walk.seen, f)
    OBVIOUS
  <2>4. /\ seen \in Seq(Records) /\ Len(seen) = n + 1 /\ seen # <<>>
        /\ DOMAIN seen = 1..(n + 1) /\ seen[n + 1] = f
        /\ \A i \in 1..n : seen[i] = walk.seen[i]
    BY <1>1, <1>2, <2>1, <2>2, <2>3
  <2>5. PICK end : end = IF Privacy!HasMore(rest) THEN "walking" ELSE "done"
    BY Zenon
  <2>6. end \in {"walking", "done"} /\ (end = "done" => ~Privacy!HasMore(rest))
    BY <2>5
  <2>7. walk' = [type |-> type, filter |-> filter, at |-> f, stable |-> stable,
                 seen |-> seen, end |-> end]
    BY <1>6, <2>1, <2>3, <2>5, Zenon DEF Privacy!Page
  <2>8. /\ walk'.type = type /\ walk'.filter = filter /\ walk'.at = f
        /\ walk'.stable = stable /\ walk'.seen = seen /\ walk'.end = end
    BY <2>7
  <2>9. walk' \in Privacy!Walk
    BY <1>2, <2>1, <2>4, <2>6, <2>7 DEF Privacy!Walk
  <2>10. \A q \in Privacy!Matching(type, filter) : record[q].type # Privacy!None
    BY InitialStateFacts DEF Privacy!Matching
  <2>11. \A i \in DOMAIN seen : record[seen[i]].type # Privacy!None
    <3> SUFFICES ASSUME NEW i \in 1..(n + 1) PROVE record[seen[i]].type # Privacy!None
      BY <2>4
    <3>1. CASE i = n + 1
      BY <2>1, <2>4, <2>10, <3>1
    <3>2. CASE i \in 1..n
      BY <1>0, <1>1, <2>2, <2>4, <3>2 DEF WalkIsOrdered
    <3> QED
      BY <3>1, <3>2
  <2>12. \A i, j \in DOMAIN seen : i < j => Privacy!Newer(seen[i], seen[j])
    <3> SUFFICES ASSUME NEW i \in 1..(n + 1), NEW j \in 1..(n + 1), i < j
                 PROVE  Privacy!Newer(seen[i], seen[j])
      BY <2>4
    <3>1. i \in 1..n
      OBVIOUS
    <3>2. CASE j = n + 1
      BY <1>1, <2>1, <2>2, <2>4, <3>1, <3>2
    <3>3. CASE j \in 1..n
      BY <1>0, <1>1, <2>2, <2>4, <3>1, <3>3 DEF WalkIsOrdered
    <3> QED
      BY <3>2, <3>3
  <2>13. WalkIsOrdered'
    <3>1. \A i, j \in DOMAIN seen : i < j => Privacy!Newer(seen[i], seen[j])'
      BY <2>12 DEF Privacy!Newer
    <3> QED
      BY <2>4, <2>6, <2>8, <2>11, <3>1 DEF WalkIsOrdered
  <2>14. \A r \in stable : \/ \E i \in DOMAIN seen : seen[i] = r
                           \/ r \in rest \ {f}
    <3> SUFFICES ASSUME NEW r \in stable, r \notin rest \ {f}
                 PROVE  \E i \in DOMAIN seen : seen[i] = r
      OBVIOUS
    <3>1. CASE r = f
      BY <2>4, <3>1
    <3>2. CASE \E i \in DOMAIN walk.seen : walk.seen[i] = r
      BY <1>1, <2>2, <2>4, <3>2
    <3> QED
      BY <3>1, <3>2
  <2>15. StableIsAhead'
    <3>1. \A r \in stable : \/ \E i \in DOMAIN seen : seen[i] = r
                            \/ Privacy!Newer(f, r)'
      BY <2>1, <2>14 DEF Privacy!Newer
    <3>2. \A r \in stable : /\ record'[r].type # Privacy!None
                            /\ r \in Privacy!Matching(type, filter)'
      BY <2>10 DEF Privacy!Matching
    <3> QED
      BY <2>8, <3>1, <3>2 DEF StableIsAhead
  <2>16. Privacy!WalkMissesNothing'
    <3> SUFFICES ASSUME end = "done", NEW r \in stable
                 PROVE  \E i \in DOMAIN seen : seen[i] = r
      BY <2>8 DEF Privacy!WalkMissesNothing
    <3>1. IsFiniteSet(rest)
      BY <1>2, PrivacyAssumption, FS_Subset
    <3>2. ~(Cardinality(rest) > 1)
      BY <2>6, PrivacyCardinality DEF Privacy!HasMore
    <3>3. \A x, y \in rest : x = y
      BY <3>1, <3>2, MoreThanOne
    <3> QED
      BY <2>1, <2>14, <3>3
  <2> QED
    BY <1>3, <1>4, <2>9, <2>13, <2>15, <2>16 DEF PrivacyIndInv
<1> QED
  BY <1>5, <1>6

(* Every step of the privacy service keeps the invariant. *)
LEMMA PrivacyNext == PrivacyIndInv /\ [Privacy!Next]_(Privacy!privacyVars) => PrivacyIndInv'
<1> SUFFICES ASSUME PrivacyIndInv, [Privacy!Next]_(Privacy!privacyVars)
             PROVE  PrivacyIndInv'
  OBVIOUS
<1>1. CASE Privacy!CommandRequests
  <2>1. PICK person \in Staff, k \in Keys, r \in Records, audited \in BOOLEAN :
          \/ \E t \in Privacy!ResourceTypes : Privacy!create(person, k, r, t, audited)
          \/ \E act \in Privacy!ACTION_SPECS :
               \E target \in Privacy!next_state(record[r].type, record[r].state, act) :
                  Privacy!action(person, k, r, act, target, audited)
    BY <1>1, Zenon DEF Privacy!CommandRequests
  <2> QED
    BY <2>1, CreateKeeps, ActionKeeps
<1>2. ASSUME NEW t \in Privacy!ResourceTypes,
             NEW f \in Privacy!MarketResourceState \cup {Privacy!None},
             Privacy!list_first(t, f)
      PROVE  PrivacyIndInv'
  <2>1. /\ walk.end = "no"
        /\ Privacy!Page(t, f, Privacy!Matching(t, f), Privacy!Matching(t, f))
        /\ UNCHANGED <<record, journal, lost, past, birth>>
    BY <1>2, Zenon DEF Privacy!list_first
  <2>2. walk.seen = <<>> /\ walk.stable = {}
    BY <2>1 DEF PrivacyIndInv, WalkIsOrdered
  <2>3. \A q \in Privacy!Matching(t, f) :
          \A i \in DOMAIN walk.seen : Privacy!Newer(walk.seen[i], q)
    BY <2>2
  <2>4. Privacy!Matching(t, f) \in SUBSET Records
    BY DEF Privacy!Matching
  <2> QED
    BY <2>1, <2>2, <2>3, <2>4, PageKeeps
<1>3. CASE Privacy!list_next
  <2>0. /\ Privacy!TypeOK /\ walk \in Privacy!Walk /\ WalkIsOrdered /\ StableIsAhead
        /\ Privacy!WalkMissesNothing
    BY DEF PrivacyIndInv, Privacy!TypeOK
  <2>1. walk.end = "walking" /\ UNCHANGED <<record, journal, lost, past, birth>>
    BY <1>3, Zenon DEF Privacy!list_next
  <2>2. CASE walk.at \in Privacy!Matching(walk.type, walk.filter)
    <3>1. PICK rest : rest = Privacy!After(walk.type, walk.filter, walk.at)
      OBVIOUS
    <3>2. Privacy!Page(walk.type, walk.filter, rest, walk.stable)
      BY <1>3, <2>2, <3>1, Zenon DEF Privacy!list_next
    <3>3. /\ rest \subseteq Privacy!Matching(walk.type, walk.filter)
          /\ \A q \in rest : q \in Records /\ Privacy!Newer(walk.at, q)
      BY <3>1 DEF Privacy!After, Privacy!Matching
    <3>4. /\ walk.seen \in Seq(Records) /\ walk.stable \in SUBSET Records
          /\ walk.filter \in Privacy!MarketResourceState \cup {Privacy!None}
          /\ walk.type \in Privacy!ResourceTypes \cup {Privacy!None}
      BY <2>0 DEF Privacy!Walk
    <3>5. walk.seen # <<>> /\ walk.at = walk.seen[Len(walk.seen)]
      BY <2>0, <2>1 DEF WalkIsOrdered
    <3>6. PICK n \in Nat \ {0} : n = Len(walk.seen) /\ DOMAIN walk.seen = 1..n
                                 /\ \A i \in 1..n : walk.seen[i] \in Records
      BY <3>4, <3>5
    <3>7. walk.type \in Privacy!ResourceTypes
      <4>1. record[walk.at].type # Privacy!None
        BY <2>0, <3>5, <3>6 DEF WalkIsOrdered
      <4> QED
        BY <2>2, <3>4, <4>1 DEF Privacy!Matching
    <3>8. \A q \in rest : \A i \in DOMAIN walk.seen : Privacy!Newer(walk.seen[i], q)
      <4> SUFFICES ASSUME NEW q \in rest, NEW i \in 1..n
                   PROVE  Privacy!Newer(walk.seen[i], q)
        BY <3>6
      <4>1. CASE i = n
        BY <3>3, <3>5, <3>6, <4>1
      <4>2. CASE i < n
        <5>1. Privacy!Newer(walk.seen[i], walk.at)
          BY <2>0, <3>5, <3>6, <4>2 DEF WalkIsOrdered
        <5>2. walk.seen[i] \in Records /\ walk.at \in Records /\ q \in Records
              /\ Privacy!Newer(walk.at, q)
          BY <3>3, <3>5, <3>6
        <5> QED
          BY <2>0, <5>1, <5>2, NewerIsAnOrder
      <4> QED
        BY <4>1, <4>2
    <3>9. \A r \in walk.stable :
            /\ r \in Privacy!Matching(walk.type, walk.filter)
            /\ r \in rest \/ \E i \in DOMAIN walk.seen : walk.seen[i] = r
      BY <2>0, <2>1, <3>1 DEF StableIsAhead, Privacy!After
    <3>10. PICK type, filter, stable :
             type = walk.type /\ filter = walk.filter /\ stable = walk.stable
      OBVIOUS
    <3>11. /\ type \in Privacy!ResourceTypes
           /\ filter \in Privacy!MarketResourceState \cup {Privacy!None}
           /\ rest \subseteq Privacy!Matching(type, filter)
           /\ stable \in SUBSET Records
      BY <3>3, <3>4, <3>7, <3>10 DEF Privacy!Matching
    <3>12. Privacy!Page(type, filter, rest, stable)
      BY <3>2, <3>10 DEF Privacy!Page
    <3>13. \A r \in stable :
             /\ r \in Privacy!Matching(type, filter)
             /\ r \in rest \/ \E i \in DOMAIN walk.seen : walk.seen[i] = r
      BY <3>9, <3>10 DEF Privacy!Matching
    <3>14. walk.end \in {"no", "walking"} /\ (rest = {} => walk.stable \subseteq stable)
      BY <2>1, <3>10
    <3>15. UNCHANGED <<record, journal, lost, past, birth>>
      BY <2>1
    <3> QED
      BY <3>8, <3>11, <3>12, <3>13, <3>14, <3>15, PageKeeps
  <2>3. CASE walk.at \notin Privacy!Matching(walk.type, walk.filter)
    <3>1. walk' = [walk EXCEPT !.end = "INVALID_CURSOR"]
      BY <1>3, <2>3, Zenon DEF Privacy!list_next
    <3>2. /\ walk' \in Privacy!Walk /\ walk'.end = "INVALID_CURSOR"
          /\ walk'.seen = walk.seen /\ walk'.stable = walk.stable
          /\ walk'.type = walk.type /\ walk'.filter = walk.filter
      BY <2>0, <3>1 DEF Privacy!Walk
    <3>3. Privacy!TypeOK'
      BY <2>0, <2>1, <3>2 DEF Privacy!TypeOK
    <3>4. WalkIsOrdered' /\ StableIsAhead' /\ Privacy!WalkMissesNothing'
      BY <2>0, <2>1, <3>2 DEF WalkIsOrdered, StableIsAhead, Privacy!WalkMissesNothing,
                              Privacy!Newer, Privacy!Matching
    <3> QED
      BY <2>1, <3>3, <3>4 DEF PrivacyIndInv, AbsentIsUnversioned,
         Privacy!CheckedByAnother, PathsAreKept, Privacy!OneAnswerPerChange
  <2> QED
    BY <2>2, <2>3
<1>4. CASE Privacy!Tick \/ UNCHANGED Privacy!privacyVars
  <2>1. /\ UNCHANGED <<record, journal, lost, past, walk>>
        /\ birth' = birth \/ (birth < MaxBirth /\ birth' = birth + 1)
    BY <1>4, Zenon DEF Privacy!Tick, Privacy!privacyVars
  <2>2. birth' \in 0..MaxBirth
    BY <2>1, PrivacyAssumption DEF PrivacyIndInv, Privacy!TypeOK
  <2>3. Privacy!TypeOK'
    BY <2>1, <2>2 DEF PrivacyIndInv, Privacy!TypeOK
  <2>4. WalkIsOrdered' /\ StableIsAhead' /\ Privacy!WalkMissesNothing'
    BY <2>1 DEF PrivacyIndInv, WalkIsOrdered, StableIsAhead, Privacy!WalkMissesNothing,
                Privacy!Newer, Privacy!Matching
  <2> QED
    BY <2>1, <2>3, <2>4 DEF PrivacyIndInv, AbsentIsUnversioned,
       Privacy!CheckedByAnother, PathsAreKept, Privacy!OneAnswerPerChange
<1> QED
  BY <1>1, <1>2, <1>3, <1>4 DEF Privacy!Next, Privacy!ReadRequests

(* What is proved of the privacy records rests on this invariant, for any  *)
(* number of records, keys and people.                                     *)
THEOREM PrivacyInvariance == Privacy!Spec => []PrivacyIndInv
BY PrivacyInit, PrivacyNext, PTL DEF Privacy!Spec

(* What stands was checked by another, no step of a path is skipped, every *)
(* change was answered once or its answer was lost, and a walk returns     *)
(* every record that stayed, once (privacy services.py:70-330).            *)
THEOREM PrivacyIsKept ==
    /\ Privacy!Spec => []Privacy!PrivacyInv
    /\ MCSpec => []PrivacyInv
<1>1. ASSUME PrivacyIndInv PROVE Privacy!PrivacyInv
  <2>1. Privacy!NothingIsSkipped
    BY <1>1 DEF PrivacyIndInv, PathsAreKept, Privacy!NothingIsSkipped
  <2>2. Privacy!WalkNeverRepeats
    <3> SUFFICES ASSUME NEW i \in DOMAIN walk.seen, NEW j \in DOMAIN walk.seen,
                        i # j, walk.seen[i] = walk.seen[j]
                 PROVE  FALSE
      BY DEF Privacy!WalkNeverRepeats
    <3>1. Privacy!TypeOK /\ WalkIsOrdered /\ walk.seen \in Seq(Records)
      BY <1>1 DEF PrivacyIndInv, Privacy!TypeOK, Privacy!Walk
    <3>2. i \in Nat /\ j \in Nat /\ walk.seen[i] \in Records
      BY <3>1
    <3>3. i < j \/ j < i
      BY <3>2
    <3>4. Privacy!Newer(walk.seen[i], walk.seen[i])
      BY <3>1, <3>3 DEF WalkIsOrdered
    <3> QED
      BY <3>1, <3>2, <3>4, NewerIsAnOrder
  <2> QED
    BY <1>1, <2>1, <2>2 DEF PrivacyIndInv, Privacy!PrivacyInv
<1>2. Privacy!Spec => []Privacy!PrivacyInv
  BY <1>1, PrivacyInvariance, PTL
<1>3. MCInit => Privacy!Init
  BY DEF MCInit
<1>4. MCNext => [Privacy!Next]_(Privacy!privacyVars)
  BY WalkAssumption
     DEF MCNext, Privacy!privacyVars, privacyVars, Privacy!Next, Privacy!ReadRequests
<1>5. UNCHANGED <<focus, marketVars, privacyVars>> => UNCHANGED Privacy!privacyVars
  BY Zenon DEF Privacy!privacyVars, privacyVars
<1>6. MCSpec => Privacy!Spec
  BY <1>3, <1>4, <1>5, PTL DEF MCSpec, Privacy!Spec
<1>7. Privacy!PrivacyInv => PrivacyInv
  BY DEF PrivacyInv
<1> QED
  BY <1>2, <1>6, <1>7, PTL

=============================================================================
