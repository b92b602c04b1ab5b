---------------------------- MODULE MarketGovernance ---------------------------
(***************************************************************************)
(* Competitors, their sources and profiles, market priors and unknown      *)
(* entrants (modules/market/application/governance.py).  A command holds   *)
(* the service's lock from its first read to its last write, so a command  *)
(* is one step; the audit write that follows changes nothing of this state *)
(* whether it succeeds or not.                                             *)
(***************************************************************************)
EXTENDS Naturals, Sequences, FiniteSets

CONSTANTS
    Competitors,    \* competitor ids
    SubjectKeys,    \* canonical subject keys
    Styles,         \* ways of writing a key that normalise to it
    Sources,        \* competitor source ids
    Profiles,       \* competitor profile ids
    Priors,         \* market prior ids
    Unknowns,       \* unknown entrant profile ids
    Units,          \* decision units
    Officers,       \* people with a privacy role
    Analysts,       \* people without one
    MaxMarketTime,  \* bound on time
    MaxInputs       \* bound on the keys of a deduplication run

VARIABLES
    competitor,     \* named competitors
    subjectIndex,   \* canonical key -> competitor
    source,         \* competitor sources
    profile,        \* competitor profiles
    prior,          \* market priors
    unknown,        \* unknown entrant profiles
    dedup,          \* the latest deduplication run
    marketTime      \* the clock

marketVars == <<competitor, subjectIndex, source, profile, prior, unknown, dedup,
                marketTime>>

NoOne == "none"

ASSUME MarketAssumption ==
    /\ NoOne \notin Competitors \cup SubjectKeys
    /\ MaxMarketTime \in Nat /\ MaxInputs \in Nat

People == Officers \cup Analysts

(* Instants; the last one is beyond the clock's bound. *)
Instants == 0..(MaxMarketTime + 1)

SourceReviewState == {"ABSENT", "DRAFT", "REVIEWED", "QUARANTINED"}

PublicationState == {"ABSENT", "DRAFT", "REVIEWED", "PUBLISHED", "QUARANTINED"}

Competitor == [state : {"ABSENT", "NAMED", "ARCHIVED"}, key : SubjectKeys \cup {NoOne}]

CompetitorSource ==
    [state : SourceReviewState, competitor : Competitors \cup {NoOne},
     resolved : BOOLEAN, until : Instants, reviewedBy : People \cup {NoOne}]

CompetitorProfile ==
    [state : PublicationState, competitor : Competitors \cup {NoOne},
     sources : SUBSET Sources]

MarketPriorVersion ==
    [state : PublicationState, unit : Units \cup {NoOne}, from : Instants,
     until : Instants, reviewedBy : People \cup {NoOne}]

UnknownEntrantProfileVersion ==
    [state : PublicationState, excluded : SUBSET SubjectKeys, until : Instants]

(* A key as somebody wrote it: what it normalises to, and how. *)
Spellings == [key : SubjectKeys, style : Styles]

Inputs == UNION {[1..n -> Spellings] : n \in 1..MaxInputs}

SubjectDeduplicationRun ==
    [input : Inputs \cup {<<>>}, canonical : SUBSET SubjectKeys,
     duplicates : SUBSET SubjectKeys, matches : SUBSET SubjectKeys]

TypeOK ==
    /\ competitor \in [Competitors -> Competitor]
    /\ subjectIndex \in [SubjectKeys -> Competitors \cup {NoOne}]
    /\ source \in [Sources -> CompetitorSource]
    /\ profile \in [Profiles -> CompetitorProfile]
    /\ prior \in [Priors -> MarketPriorVersion]
    /\ unknown \in [Unknowns -> UnknownEntrantProfileVersion]
    /\ dedup \in SubjectDeduplicationRun
    /\ marketTime \in 0..MaxMarketTime

NoRun == [input |-> <<>>, canonical |-> {}, duplicates |-> {}, matches |-> {}]

Init ==
    /\ competitor = [c \in Competitors |-> [state |-> "ABSENT", key |-> NoOne]]
    /\ subjectIndex = [k \in SubjectKeys |-> NoOne]
    /\ source = [s \in Sources |->
         [state |-> "ABSENT", competitor |-> NoOne, resolved |-> FALSE,
          until |-> 0, reviewedBy |-> NoOne]]
    /\ profile = [p \in Profiles |->
         [state |-> "ABSENT", competitor |-> NoOne, sources |-> {}]]
    /\ prior = [m \in Priors |->
         [state |-> "ABSENT", unit |-> NoOne, from |-> 0, until |-> 0,
          reviewedBy |-> NoOne]]
    /\ unknown = [u \in Unknowns |->
         [state |-> "ABSENT", excluded |-> {}, until |-> 0]]
    /\ dedup = NoRun
    /\ marketTime = 0

-----------------------------------------------------------------------------
(* Competitors.                                                            *)

(* Case and blanks are dropped: the set of the one key a spelling means. *)
canonical_subject_key(spelling) == {spelling.key}

NamedSubjects == {competitor[c].key : c \in {d \in Competitors : competitor[d].state = "NAMED"}}

(* Published unknown profiles that do not exclude a key newly named. *)
QuarantineUnknowns(key) ==
    [u \in Unknowns |->
       IF unknown[u].state = "PUBLISHED" /\ key \notin unknown[u].excluded
       THEN [unknown[u] EXCEPT !.state = "QUARANTINED"] ELSE unknown[u]]

KeyIsFree(c, key) == subjectIndex[key] \in {NoOne, c}

add_competitor(c, spelling) ==
    /\ competitor[c].state = "ABSENT"
    /\ \E key \in canonical_subject_key(spelling) :
         /\ KeyIsFree(c, key)
         /\ competitor' = [competitor EXCEPT ![c] = [state |-> "NAMED", key |-> key]]
         /\ subjectIndex' = [subjectIndex EXCEPT ![key] = c]
         /\ unknown' = QuarantineUnknowns(key)
    /\ UNCHANGED <<source, profile, prior, dedup, marketTime>>

MoveIndex(c, key) ==
    [k \in SubjectKeys |-> IF k = key THEN c
                           ELSE IF k = competitor[c].key THEN NoOne
                           ELSE subjectIndex[k]]

(* The caller's ETag is of the competitor as it is. *)
update_competitor_draft(c, spelling) ==
    /\ competitor[c].state = "NAMED"
    /\ \E key \in canonical_subject_key(spelling) :
         /\ KeyIsFree(c, key)
         /\ competitor' = [competitor EXCEPT ![c].key = key]
         /\ subjectIndex' = MoveIndex(c, key)
         /\ unknown' = IF key # competitor[c].key THEN QuarantineUnknowns(key)
                       ELSE unknown
    /\ UNCHANGED <<source, profile, prior, dedup, marketTime>>

(* The index keeps the key of an archived competitor. *)
archive_competitor(c) ==
    /\ competitor[c].state = "NAMED"
    /\ competitor' = [competitor EXCEPT ![c].state = "ARCHIVED"]
    /\ UNCHANGED <<subjectIndex, source, profile, prior, unknown, dedup, marketTime>>

(* Keys that are written more than once in an input, however spelled. *)
Repeated(input) ==
    {k \in SubjectKeys :
       Cardinality({i \in DOMAIN input : k \in canonical_subject_key(input[i])}) > 1}

create_subject_deduplication_run(input) ==
    LET canonical == UNION {canonical_subject_key(input[i]) : i \in DOMAIN input}
    IN  /\ dedup' = [input |-> input, canonical |-> canonical,
                     duplicates |-> Repeated(input),
                     matches |-> canonical \cap NamedSubjects]
        /\ UNCHANGED <<competitor, subjectIndex, source, profile, prior, unknown,
                       marketTime>>

-----------------------------------------------------------------------------
(* Sources and profiles.                                                   *)

add_source(s, c, until) ==
    /\ source[s].state = "ABSENT"
    /\ c # NoOne => competitor[c].state = "NAMED"
    /\ until > marketTime
    /\ source' = [source EXCEPT ![s] =
         [state |-> "DRAFT", competitor |-> c, resolved |-> FALSE, until |-> until,
          reviewedBy |-> NoOne]]
    /\ UNCHANGED <<competitor, subjectIndex, profile, prior, unknown, dedup, marketTime>>

(* Mutant: a source that was taken out may be reviewed again. *)
ReviewableAny(s) == source[s].state \in {"DRAFT", "QUARANTINED"}

Reviewable(s) == source[s].state = "DRAFT"

(* The review may resolve a source to any competitor, an archived one too. *)
review_source(person, s, c) ==
    /\ person \in Officers
    /\ competitor[c].state # "ABSENT"
    /\ source[s].until > marketTime
    /\ Reviewable(s)
    /\ source' = [source EXCEPT ![s].state = "REVIEWED", ![s].competitor = c,
                                ![s].resolved = TRUE, ![s].reviewedBy = person]
    /\ UNCHANGED <<competitor, subjectIndex, profile, prior, unknown, dedup, marketTime>>

(* Mutant: the profiles that rest on the source are left. *)
QuarantineProfilesNone(s) == profile

QuarantineProfiles(s) ==
    [p \in Profiles |->
       IF s \in profile[p].sources THEN [profile[p] EXCEPT !.state = "QUARANTINED"]
       ELSE profile[p]]

quarantine_source(person, s) ==
    /\ person \in Officers
    /\ source[s].state \in {"DRAFT", "REVIEWED"}
    /\ source' = [source EXCEPT ![s].state = "QUARANTINED"]
    /\ profile' = QuarantineProfiles(s)
    /\ UNCHANGED <<competitor, subjectIndex, prior, unknown, dedup, marketTime>>

SourceIsUsable(s) ==
    /\ source[s].state = "REVIEWED"
    /\ source[s].resolved
    /\ source[s].until > marketTime

add_profile(p, c, sources) ==
    /\ profile[p].state = "ABSENT"
    /\ competitor[c].state = "NAMED"
    /\ sources # {}
    /\ \A s \in sources : SourceIsUsable(s) /\ source[s].competitor = c
    /\ profile' = [profile EXCEPT ![p] =
         [state |-> "DRAFT", competitor |-> c, sources |-> sources]]
    /\ UNCHANGED <<competitor, subjectIndex, source, prior, unknown, dedup, marketTime>>

(* Whether the competitor was archived since is not asked. *)
publish_profile(p) ==
    /\ profile[p].state = "DRAFT"
    /\ \A s \in profile[p].sources : SourceIsUsable(s)
    /\ profile' = [profile EXCEPT ![p].state = "PUBLISHED"]
    /\ UNCHANGED <<competitor, subjectIndex, source, prior, unknown, dedup, marketTime>>

-----------------------------------------------------------------------------
(* Priors, unknown entrants and readiness.                                 *)

add_market_prior(m, unit, from, until) ==
    /\ prior[m].state = "ABSENT"
    /\ from < until
    /\ until > marketTime
    /\ prior' = [prior EXCEPT ![m] =
         [state |-> "DRAFT", unit |-> unit, from |-> from, until |-> until,
          reviewedBy |-> NoOne]]
    /\ UNCHANGED <<competitor, subjectIndex, source, profile, unknown, dedup, marketTime>>

review_market_prior(person, m) ==
    /\ person \in Officers
    /\ prior[m].state = "DRAFT"
    /\ prior' = [prior EXCEPT ![m].state = "REVIEWED", ![m].reviewedBy = person]
    /\ UNCHANGED <<competitor, subjectIndex, source, profile, unknown, dedup, marketTime>>

publish_market_prior(m) ==
    /\ prior[m].state = "REVIEWED"
    /\ prior[m].until > marketTime
    /\ prior' = [prior EXCEPT ![m].state = "PUBLISHED"]
    /\ UNCHANGED <<competitor, subjectIndex, source, profile, unknown, dedup, marketTime>>

add_unknown_profile(u, excluded, until) ==
    /\ unknown[u].state = "ABSENT"
    /\ until > marketTime
    /\ NamedSubjects \subseteq excluded
    /\ unknown' = [unknown EXCEPT ![u] =
         [state |-> "DRAFT", excluded |-> excluded, until |-> until]]
    /\ UNCHANGED <<competitor, subjectIndex, source, profile, prior, dedup, marketTime>>

StillExcludesNamed(u) == NamedSubjects \subseteq unknown[u].excluded

publish_unknown_profile(u) ==
    /\ unknown[u].state = "DRAFT"
    /\ unknown[u].until > marketTime
    /\ StillExcludesNamed(u)
    /\ unknown' = [unknown EXCEPT ![u].state = "PUBLISHED"]
    /\ UNCHANGED <<competitor, subjectIndex, source, profile, prior, dedup, marketTime>>

readiness(unit) ==
    IF \/ \E p \in Profiles : /\ profile[p].state = "PUBLISHED"
                              /\ \A s \in profile[p].sources : SourceIsUsable(s)
       \/ \E m \in Priors : /\ prior[m].unit = unit
                            /\ prior[m].state = "PUBLISHED"
                            /\ prior[m].from <= marketTime
                            /\ marketTime < prior[m].until
    THEN "PROBABILISTIC" ELSE "PRESSURE_ONLY"

Tick ==
    /\ marketTime < MaxMarketTime
    /\ marketTime' = marketTime + 1
    /\ UNCHANGED <<competitor, subjectIndex, source, profile, prior, unknown, dedup>>

CompetitorRequests ==
    \E c \in Competitors :
        \/ \E k \in Spellings : add_competitor(c, k) \/ update_competitor_draft(c, k)
        \/ archive_competitor(c)

SourceRequests ==
    \E s \in Sources :
        \/ \E c \in Competitors \cup {NoOne}, t \in Instants : add_source(s, c, t)
        \/ \E x \in People, c \in Competitors : review_source(x, s, c)
        \/ \E x \in People : quarantine_source(x, s)

ProfileRequests ==
    \E p \in Profiles :
        \/ \E c \in Competitors, srcs \in SUBSET Sources : add_profile(p, c, srcs)
        \/ publish_profile(p)

PriorRequests ==
    \E m \in Priors :
        \/ \E v \in Units, f, t \in Instants : add_market_prior(m, v, f, t)
        \/ \E x \in People : review_market_prior(x, m)
        \/ publish_market_prior(m)

UnknownRequests ==
    \E u \in Unknowns :
        \/ \E e \in SUBSET SubjectKeys, t \in Instants : add_unknown_profile(u, e, t)
        \/ publish_unknown_profile(u)

DeduplicationRequests ==
    \E input \in Inputs : create_subject_deduplication_run(input)

Next ==
    \/ CompetitorRequests
    \/ SourceRequests
    \/ ProfileRequests
    \/ PriorRequests
    \/ UnknownRequests
    \/ DeduplicationRequests
    \/ Tick

Spec == Init /\ [][Next]_marketVars

-----------------------------------------------------------------------------
(* Properties.                                                             *)

(* The subject index and the competitors agree in both directions, through *)
(* every rename and archiving, so no two competitors ever share a subject  *)
(* (governance.py:145-152, 236-263).                                       *)
SubjectIndexAgrees ==
    /\ \A c \in Competitors :
         competitor[c].state # "ABSENT" => subjectIndex[competitor[c].key] = c
    /\ \A k \in SubjectKeys :
         subjectIndex[k] # NoOne => competitor[subjectIndex[k]].key = k

(* A published unknown entrant profile excludes every competitor that is   *)
(* named now, whichever came first, so that nobody is counted twice        *)
(* (governance.py:153-172, 264-286, 884-900).                              *)
UnknownExcludesNamed ==
    \A u \in Unknowns :
        unknown[u].state = "PUBLISHED" => NamedSubjects \subseteq unknown[u].excluded

(* A draft or published profile rests on reviewed sources of its own       *)
(* competitor only: quarantining a source takes every profile that names   *)
(* it along (governance.py:495-512).                                       *)
ProfilesRestOnReviewed ==
    \A p \in Profiles : profile[p].state \in {"DRAFT", "PUBLISHED"} =>
        \A s \in profile[p].sources :
            /\ source[s].state = "REVIEWED"
            /\ source[s].competitor = profile[p].competitor
            /\ source[s].reviewedBy \in Officers

(* What was quarantined is never used again (governance.py:430, 618, 881). *)
QuarantinedStaysOut ==
    [][/\ \A s \in Sources : source[s].state = "QUARANTINED" =>
            source'[s].state = "QUARANTINED"
       /\ \A p \in Profiles : profile[p].state = "QUARANTINED" =>
            profile'[p].state = "QUARANTINED"
       /\ \A u \in Unknowns : unknown[u].state = "QUARANTINED" =>
            unknown'[u].state = "QUARANTINED"]_marketVars

(* Probabilities are used only while something reviewed by a privacy role  *)
(* is still within its period, and never after all of it has run out       *)
(* (governance.py:994-1028).                                               *)
ReadinessIsBacked ==
    \A v \in Units : readiness(v) = "PROBABILISTIC" =>
        \/ \E s \in Sources : source[s].reviewedBy \in Officers
                              /\ source[s].state = "REVIEWED"
                              /\ source[s].until > marketTime
        \/ \E m \in Priors : prior[m].reviewedBy \in Officers
                             /\ prior[m].unit = v
                             /\ prior[m].until > marketTime

(* A deduplication run loses no subject and finds every repetition: as     *)
(* many inputs as canonical keys exactly when nothing repeats              *)
(* (governance.py:933-960).                                                *)
DeduplicationIsComplete ==
    /\ dedup.canonical = {dedup.input[i].key : i \in DOMAIN dedup.input}
    /\ (dedup.duplicates = {}) <=> (Len(dedup.input) = Cardinality(dedup.canonical))
    /\ dedup.matches \subseteq dedup.canonical

(* What market governance promises of subjects, sources, profiles and      *)
(* readiness together (governance.py:145-1028).                            *)
MarketInv ==
    /\ TypeOK
    /\ SubjectIndexAgrees
    /\ UnknownExcludesNamed
    /\ ProfilesRestOnReviewed
    /\ ReadinessIsBacked
    /\ DeduplicationIsComplete

=============================================================================
