----------------------------- MODULE PrivacyRecords ----------------------------
(***************************************************************************)
(* The privacy records of modules/market/privacy: one service for twelve   *)
(* types of record, each with its own table of states.  A command holds    *)
(* the command lock throughout; the record is saved before the audit is    *)
(* written and the journal entry after it, so an audit failure leaves a    *)
(* change nobody was answered about.  A reader walks the list page by      *)
(* page, newest first, without any lock between the pages.                 *)
(***************************************************************************)
EXTENDS Naturals, FiniteSets, Sequences

CONSTANTS
    Records,        \* record ids, positive numbers: their order breaks ties
    Keys,           \* idempotency keys
    Staff,          \* people who write
    MaxVersion,     \* bound on state_version
    MaxBirth        \* bound on creation times

VARIABLES
    record,         \* stored records
    journal,        \* key -> the change it was answered with
    lost,           \* history: changes whose answer was lost, per record
    past,           \* history: states a record has been in
    birth,          \* the clock creations read
    walk            \* a reader's walk through the list

privacyVars == <<record, journal, lost, past, birth, walk>>

None == "none"

(* No record: record ids are positive. *)
NoId == 0

INITIAL_STATES ==
    [processing_record |-> "DRAFT", legal_basis_evidence |-> "CURRENT",
     notice_consent_record |-> "CURRENT", pia_record |-> "DRAFT",
     cross_border_assessment |-> "DRAFT", provider_policy |-> "DRAFT",
     dsr_policy |-> "DRAFT", load_profile |-> "DRAFT",
     data_subject_request |-> "RECEIVED", incident_policy |-> "DRAFT",
     incident |-> "OPEN", consent_withdrawal |-> "RECORDED"]

ResourceTypes == DOMAIN INITIAL_STATES

Assessments == {"cross_border_assessment", "provider_policy"}

(* <<types, action, states it starts in, state it ends in>> *)
FIXED_TRANSITIONS ==
    {<<{"pia_record", "incident_policy"} \cup Assessments, "approve", {"DRAFT"}, "APPROVED">>,
     <<{"pia_record"}, "revoke", {"APPROVED"}, "REVOKED">>,
     <<Assessments, "mark-not-required", {"DRAFT"}, "NOT_REQUIRED">>,
     <<Assessments, "revoke", {"APPROVED", "NOT_REQUIRED"}, "REVOKED">>,
     <<Assessments, "expire", {"APPROVED", "NOT_REQUIRED"}, "EXPIRED">>,
     <<{"dsr_policy"}, "publish", {"DRAFT"}, "PUBLISHED">>,
     <<{"dsr_policy"}, "archive", {"PUBLISHED"}, "ARCHIVED">>,
     <<{"load_profile"}, "freeze", {"DRAFT"}, "FROZEN">>,
     <<{"data_subject_request"}, "verify-identity", {"RECEIVED"}, "IDENTITY_VERIFIED">>,
     <<{"data_subject_request"}, "complete", {"IN_PROGRESS", "READY_TO_COMPLETE"}, "COMPLETED">>,
     <<{"incident"}, "close", {"RESOLVED"}, "CLOSED">>}

DYNAMIC_TRANSITIONS ==
    {<<"data_subject_request", "IDENTITY_VERIFIED", {"IN_PROGRESS", "REJECTED"}>>,
     <<"data_subject_request", "IN_PROGRESS",
       {"WAITING_FOR_INFORMATION", "READY_TO_COMPLETE", "REJECTED"}>>,
     <<"data_subject_request", "WAITING_FOR_INFORMATION", {"IN_PROGRESS", "REJECTED"}>>,
     <<"data_subject_request", "READY_TO_COMPLETE", {"IN_PROGRESS"}>>,
     <<"incident", "OPEN", {"TRIAGED", "CONTAINED"}>>,
     <<"incident", "TRIAGED", {"CONTAINED", "REMEDIATING"}>>,
     <<"incident", "CONTAINED", {"REMEDIATING"}>>,
     <<"incident", "REMEDIATING", {"RESOLVED"}>>}

MarketResourceState ==
    {INITIAL_STATES[t] : t \in ResourceTypes} \cup {row[4] : row \in FIXED_TRANSITIONS}
      \cup UNION {row[3] : row \in DYNAMIC_TRANSITIONS}

MarketResourceRecord ==
    [type : ResourceTypes \cup {None}, state : MarketResourceState \cup {None},
     version : 0..MaxVersion, maker : Staff \cup {None}, by : Staff \cup {None},
     born : 0..MaxBirth]

(* What a key was answered with; NoId for a key not used yet. *)
Answer == [id : Records \cup {NoId}, version : 0..MaxVersion]

Walk ==
    [type : ResourceTypes \cup {None}, filter : MarketResourceState \cup {None}, at : Records \cup {NoId},
     end : {"no", "walking", "done", "INVALID_CURSOR"}, seen : Seq(Records),
     stable : SUBSET Records]

TypeOK ==
    /\ record \in [Records -> MarketResourceRecord]
    /\ journal \in [Keys -> Answer]
    /\ lost \in [Records -> 0..MaxVersion]
    /\ past \in [Records -> SUBSET MarketResourceState]
    /\ birth \in 0..MaxBirth
    /\ walk \in Walk

NoRecord == [type |-> None, state |-> None, version |-> 0, maker |-> None,
             by |-> None, born |-> 0]

Init ==
    /\ record = [r \in Records |-> NoRecord]
    /\ journal = [k \in Keys |-> [id |-> NoId, version |-> 0]]
    /\ lost = [r \in Records |-> 0]
    /\ past = [r \in Records |-> {}]
    /\ birth = 0
    /\ walk = [type |-> None, filter |-> None, at |-> NoId, end |-> "no", seen |-> <<>>, stable |-> {}]

-----------------------------------------------------------------------------
(* Commands.                                                               *)

(* A key used before is answered from the journal, or refused when the     *)
(* request is another one: neither changes anything.                       *)
NotReplayed(k) == journal[k].id = NoId

(* The audit after the save: on success the key is answered. *)
Answered(k, r, version, audited) ==
    IF audited
    THEN /\ journal' = [journal EXCEPT ![k] = [id |-> r, version |-> version]]
         /\ UNCHANGED lost
    ELSE /\ lost' = [lost EXCEPT ![r] = @ + 1]
         /\ UNCHANGED journal

(* Records a walk began with and that no change took out of its filter. *)
StillStable(changed) ==
    [walk EXCEPT !.stable =
       IF walk.filter = None THEN @ ELSE @ \ {changed}]

create(person, k, r, type, audited) ==
    /\ NotReplayed(k)
    /\ record[r].type = None
    /\ record' = [record EXCEPT ![r] =
         [type |-> type, state |-> INITIAL_STATES[type], version |-> 1,
          maker |-> person, by |-> person, born |-> birth]]
    /\ past' = [past EXCEPT ![r] = {INITIAL_STATES[type]}]
    /\ Answered(k, r, 1, audited)
    /\ UNCHANGED <<birth, walk>>

INDEPENDENT_CHECKER_ACTIONS == {"approve", "mark-not-required", "publish", "freeze"}

(* The states an action may lead to: none, one, or for a transition the    *)
(* ones the caller may name as target.                                     *)
next_state(type, state, action) ==
    IF action = "transition"
    THEN UNION {row[3] : row \in {d \in DYNAMIC_TRANSITIONS : d[1] = type /\ d[2] = state}}
    ELSE {row[4] : row \in {f \in FIXED_TRANSITIONS :
                              type \in f[1] /\ f[2] = action /\ state \in f[3]}}

ACTION_SPECS == {row[2] : row \in FIXED_TRANSITIONS} \cup {"transition"}

(* The target is one of next_state. *)
action(person, k, r, act, target, audited) ==
    /\ NotReplayed(k)
    /\ record[r].type # None
    /\ act \in INDEPENDENT_CHECKER_ACTIONS => record[r].maker # person
    /\ record[r].version < MaxVersion
    /\ record' = [record EXCEPT ![r].state = target, ![r].version = @ + 1, ![r].by = person]
    /\ past' = [past EXCEPT ![r] = @ \cup {target}]
    /\ walk' = StillStable(r)
    /\ Answered(k, r, record[r].version + 1, audited)
    /\ UNCHANGED birth

Tick == birth < MaxBirth /\ birth' = birth + 1 /\ UNCHANGED <<record, journal, lost, past, walk>>

-----------------------------------------------------------------------------
(* Reading page by page, pages of one record.                              *)

Newer(r, q) == record[r].born > record[q].born \/ (record[r].born = record[q].born /\ r > q)

Matching(type, filter) ==
    {r \in Records : record[r].type = type /\ (filter = None \/ record[r].state = filter)}

First(set) == CHOOSE r \in set : \A q \in set \ {r} : Newer(r, q)

After(type, filter, at) == {r \in Matching(type, filter) : Newer(at, r)}

(* Mutant: there is more only when more than one further page exists. *)
HasMorePages(rest) == Cardinality(rest) > 2

HasMore(rest) == Cardinality(rest) > 1

(* The page that begins with the first of rest. *)
Page(type, filter, rest, stable) ==
    walk' = IF rest = {} THEN [walk EXCEPT !.end = "done"]
            ELSE [type |-> type, filter |-> filter, at |-> First(rest), stable |-> stable,
                  seen |-> Append(walk.seen, First(rest)),
                  end |-> IF HasMore(rest) THEN "walking" ELSE "done"]

list_first(type, filter) ==
    /\ walk.end = "no"
    /\ Page(type, filter, Matching(type, filter), Matching(type, filter))
    /\ UNCHANGED <<record, journal, lost, past, birth>>

(* The cursor names the last record of the page before; when that record   *)
(* no longer matches the filter the walk cannot go on.                     *)
list_next ==
    /\ walk.end = "walking"
    /\ IF walk.at \in Matching(walk.type, walk.filter)
       THEN Page(walk.type, walk.filter, After(walk.type, walk.filter, walk.at), walk.stable)
       ELSE walk' = [walk EXCEPT !.end = "INVALID_CURSOR"]
    /\ UNCHANGED <<record, journal, lost, past, birth>>

CommandRequests ==
    \E person \in Staff, k \in Keys, r \in Records, audited \in BOOLEAN :
        \/ \E t \in ResourceTypes : create(person, k, r, t, audited)
        \/ \E act \in ACTION_SPECS :
             \E target \in next_state(record[r].type, record[r].state, act) :
                action(person, k, r, act, target, audited)

ReadRequests ==
    \/ \E t \in ResourceTypes, f \in MarketResourceState \cup {None} : list_first(t, f)
    \/ list_next

Next == CommandRequests \/ ReadRequests \/ Tick

Spec == Init /\ [][Next]_privacyVars

-----------------------------------------------------------------------------
(* Properties.                                                             *)

(* Whatever stands as approved, not required, published or frozen was made *)
(* so by somebody other than its maker (privacy services.py:287-288).      *)
CheckedByAnother ==
    \A r \in Records :
        record[r].state \in {"APPROVED", "NOT_REQUIRED", "PUBLISHED", "FROZEN"}
          => record[r].by # record[r].maker

(* A data subject's request is completed or rejected only after the        *)
(* identity was verified, and an incident is closed only after it was      *)
(* remedied, along every path of the two tables (services.py:70-95).       *)
NothingIsSkipped ==
    \A r \in Records :
        /\ record[r].state \in {"COMPLETED", "REJECTED"} => "IDENTITY_VERIFIED" \in past[r]
        /\ record[r].state = "CLOSED" => {"REMEDIATING", "RESOLVED"} \subseteq past[r]

(* Every change has exactly one answer, however often its key is sent, or  *)
(* lost it when the audit failed (services.py:150-190, 285-330).           *)
OneAnswerPerChange ==
    \A r \in Records :
        Cardinality({k \in Keys : journal[k].id = r}) + lost[r] = record[r].version

(* A walk never returns a record twice, whatever is created or changed     *)
(* between its pages (services.py:221-250).                                *)
WalkNeverRepeats ==
    \A i, j \in DOMAIN walk.seen : i # j => walk.seen[i] # walk.seen[j]

(* A walk that ends has returned every record that was there when it began *)
(* and that no change took out of its filter (services.py:244-262).        *)
WalkMissesNothing ==
    walk.end = "done" => \A r \in walk.stable : \E i \in DOMAIN walk.seen : walk.seen[i] = r

(* What the privacy records promise their writers, their callers and their *)
(* readers together (services.py:70-330).                                  *)
PrivacyInv ==
    /\ TypeOK
    /\ CheckedByAnother
    /\ NothingIsSkipped
    /\ OneAnswerPerChange
    /\ WalkNeverRepeats
    /\ WalkMissesNothing

=============================================================================
