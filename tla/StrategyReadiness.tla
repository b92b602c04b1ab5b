--------------------------- MODULE StrategyReadiness ---------------------------
(***************************************************************************)
(* Precheck and strategy readiness of one decision unit: the response      *)
(* profile, one condition, the precheck assessments                        *)
(* (modules/evidence/application/services.py), the cost baseline, the      *)
(* commercial policy and the readiness assessments                         *)
(* (modules/commercial/application/services.py).                           *)
(*                                                                         *)
(* create_precheck and create_readiness read one list after another while  *)
(* other handlers write; nothing they compute is withdrawn when an input   *)
(* changes later.  What the matches (EvidenceMatching), the rules          *)
(* (RulePublication) and the market say may be anything when it is read.   *)
(***************************************************************************)
EXTENDS Naturals, FiniteSets

CONSTANTS
    People,     \* authors, owners, approvers
    Services,   \* handler calls
    Nobody      \* no person

VARIABLES
    profile,    \* the response profile
    condition,  \* the condition
    cost,       \* the cost baseline
    policy,     \* the commercial policy
    prechecks,  \* stored precheck assessments
    readiness,  \* stored readiness assessments
    clock,      \* the time; every assessment is dated when its call begins
    service,    \* what each handler call is doing
    mixed       \* history: two calls were in progress together

vars == <<profile, condition, cost, policy, prechecks, readiness, clock,
          service, mixed>>

MatchState == {"SATISFIED", "PARTIAL", "UNSATISFIED", "UNKNOWN"}

(* evidence_coverage and subject_qualification, as create_precheck         *)
(* computes them from the matches; the subject can be SATISFIED although   *)
(* a requirement is unmapped.                                              *)
Matching ==
    {i \in [coverage : MatchState, subject : MatchState] :
        i.coverage # "UNKNOWN" => i.subject = i.coverage}

CompanyResponseProfile == [state : {"ABSENT", "DRAFT", "PUBLISHED"},
                           inWindow : BOOLEAN]

ConditionState == {"OPEN", "SATISFIED", "WAIVED", "FAILED", "EXPIRED"}

(* due: the time at which due_at passed, 0 before.  Owner and independent  *)
(* reviewer must differ and are never looked at again.                     *)
ConditionRequirement == [state : ConditionState \cup {"ABSENT"}, due : Nat]

CostBaseline ==
    [state : {"ABSENT", "DRAFT", "PUBLISHED"}, review : {"PENDING", "APPROVED"},
     createdBy : People \cup {Nobody}, approvedBy : People \cup {Nobody},
     exploration : BOOLEAN]

CommercialPolicy == {"ABSENT", "DRAFT", "PUBLISHED"}

PrecheckDecision == {"PASS", "CONDITIONAL", "BLOCKED", "UNKNOWN"}

(* checks: the names of the checks that passed. *)
Checks == {"rules_available", "subject_qualification", "substantive_response",
           "evidence_coverage", "deadline_closure"}

PrecheckAssessment == [dated : Nat, decision : PrecheckDecision,
                       checks : SUBSET Checks]

ReadinessDecision == {"READY", "CONDITIONAL", "NOT_READY", "UNKNOWN"}

StrategyReadinessAssessment ==
    [decision : ReadinessDecision, watermark : BOOLEAN]

Steps == {"new", "publish_profile", "close", "approve", "publish_cost",
          "publish_policy", "matches", "profiles", "conditions", "rules",
          "prechecks", "response", "market", "costs", "policies", "returned"}

NoCost == [state |-> "ABSENT", review |-> "PENDING", createdBy |-> Nobody,
           approvedBy |-> Nobody, exploration |-> TRUE]

NoMatching == [coverage |-> "UNKNOWN", subject |-> "UNKNOWN"]

NoCondition == [state |-> "ABSENT", due |-> 0]

(* A handler call: its step, its caller, the time it began, the cost it    *)
(* read, the condition state it will write, and what it has read for an    *)
(* assessment.                                                             *)
Call == [at : Steps, by : People \cup {Nobody}, dated : Nat,
         costCopy : CostBaseline, target : ConditionState, read : Matching,
         responded : BOOLEAN, open : BOOLEAN,
         precheck : PrecheckDecision \cup {"MISSING"},
         marketItem : ReadinessDecision, costItem : ReadinessDecision]

NoCall == [at |-> "new", by |-> Nobody, dated |-> 0, costCopy |-> NoCost,
           target |-> "OPEN", read |-> NoMatching, responded |-> FALSE,
           open |-> FALSE, precheck |-> "MISSING", marketItem |-> "UNKNOWN",
           costItem |-> "UNKNOWN"]

TypeOK ==
    /\ profile \in CompanyResponseProfile
    /\ condition \in ConditionRequirement
    /\ cost \in CostBaseline
    /\ policy \in CommercialPolicy
    /\ prechecks \subseteq PrecheckAssessment
    /\ readiness \subseteq StrategyReadinessAssessment
    /\ clock \in Nat
    /\ service \in [Services -> Call]
    /\ mixed \in BOOLEAN

(* Earlier calls have written nothing, or have published the profile, the  *)
(* cost and the policy.                                                    *)
Init ==
    /\ \/ /\ profile = [state |-> "ABSENT", inWindow |-> TRUE]
          /\ cost = NoCost
          /\ policy = "ABSENT"
       \/ \E author, approver \in People :
             /\ author # approver
             /\ profile = [state |-> "PUBLISHED", inWindow |-> TRUE]
             /\ cost = [state |-> "PUBLISHED", review |-> "APPROVED",
                        createdBy |-> author, approvedBy |-> approver,
                        exploration |-> FALSE]
             /\ policy = "PUBLISHED"
    /\ condition = NoCondition
    /\ prechecks = {}
    /\ readiness = {}
    /\ clock = 1
    /\ service = [s \in Services |-> NoCall]
    /\ mixed = FALSE

records == <<profile, condition, cost, policy, prechecks, readiness>>

-----------------------------------------------------------------------------
Busy(s) == service[s].at \notin {"new", "returned"}

(* A call begins; clock.now() is read here. *)
Begin(s, call) ==
    /\ service[s].at = "new"
    /\ service' = [service EXCEPT ![s] = [call EXCEPT !.dated = clock]]
    /\ clock' = clock + 1
    /\ mixed' = (mixed \/ \E t \in Services : Busy(t))
    /\ UNCHANGED records

(* One more read of a call that is under way. *)
Read(s, from, call) ==
    /\ service[s].at = from
    /\ service' = [service EXCEPT ![s] = call]
    /\ UNCHANGED <<records, clock, mixed>>

Done(s) ==
    /\ service' = [service EXCEPT ![s] = [NoCall EXCEPT !.at = "returned"]]
    /\ UNCHANGED <<clock, mixed>>

Create(s) == service[s].at = "new" /\ Done(s)

-----------------------------------------------------------------------------
(* The response profile and the condition.                                 *)

(* Evidence that is not usable is refused. *)
create_profile(s) ==
    /\ Create(s)
    /\ profile.state = "ABSENT"
    /\ profile' = [profile EXCEPT !.state = "DRAFT"]
    /\ UNCHANGED <<condition, cost, policy, prechecks, readiness>>

BeginPublishProfile(s) ==
    /\ profile.state = "DRAFT"
    /\ Begin(s, [NoCall EXCEPT !.at = "publish_profile"])

publish_profile(s) ==
    /\ service[s].at = "publish_profile"
    /\ profile' = [profile EXCEPT !.state = "PUBLISHED"]
    /\ Done(s)
    /\ UNCHANGED <<condition, cost, policy, prechecks, readiness>>

create_condition(s) ==
    /\ Create(s)
    /\ condition.state = "ABSENT"
    /\ condition' = [NoCondition EXCEPT !.state = "OPEN"]
    /\ UNCHANGED <<profile, cost, policy, prechecks, readiness>>

(* get_condition shows an OPEN condition as EXPIRED once it is overdue. *)
get_condition == IF condition.state = "OPEN" /\ condition.due > 0
                 THEN "EXPIRED" ELSE condition.state

(* satisfy, waive, fail and expire: any holder of the role, the reviewer   *)
(* of record or not.                                                       *)
BeginClose(s) ==
    \E target \in ConditionState \ {"OPEN"} :
        /\ get_condition = "OPEN"
        /\ Begin(s, [NoCall EXCEPT !.at = "close", !.target = target])

transition_condition(s) ==
    /\ service[s].at = "close"
    /\ condition' = [condition EXCEPT !.state = service[s].target]
    /\ Done(s)
    /\ UNCHANGED <<profile, cost, policy, prechecks, readiness>>

condition_is_blocking == condition.state \in {"EXPIRED", "FAILED", "OPEN"}

-----------------------------------------------------------------------------
(* Cost and policy.                                                        *)

create_cost_baseline(s) ==
    /\ Create(s)
    /\ cost.state = "ABSENT"
    /\ \E p \in People :
         cost' = [NoCost EXCEPT !.state = "DRAFT", !.createdBy = p]
    /\ UNCHANGED <<profile, condition, policy, prechecks, readiness>>

BeginApprove(s) ==
    \E p \in People :
        /\ cost.state # "ABSENT"
        /\ p # cost.createdBy
        /\ cost.approvedBy = Nobody
        /\ Begin(s, [NoCall EXCEPT !.at = "approve", !.by = p,
                                   !.costCopy = cost])

approve_cost_baseline(s) ==
    /\ service[s].at = "approve"
    /\ cost' = [service[s].costCopy EXCEPT !.review = "APPROVED",
                                           !.approvedBy = service[s].by]
    /\ Done(s)
    /\ UNCHANGED <<profile, condition, policy, prechecks, readiness>>

BeginPublishCost(s) ==
    /\ cost.review = "APPROVED" /\ cost.approvedBy # Nobody
    /\ cost.state = "DRAFT"
    /\ Begin(s, [NoCall EXCEPT !.at = "publish_cost", !.costCopy = cost])

publish_cost_baseline(s) ==
    /\ service[s].at = "publish_cost"
    /\ cost' = [service[s].costCopy EXCEPT !.state = "PUBLISHED",
                                           !.exploration = FALSE]
    /\ Done(s)
    /\ UNCHANGED <<profile, condition, policy, prechecks, readiness>>

create_policy(s) ==
    /\ Create(s)
    /\ policy = "ABSENT"
    /\ policy' = "DRAFT"
    /\ UNCHANGED <<profile, condition, cost, prechecks, readiness>>

BeginPublishPolicy(s) ==
    /\ policy = "DRAFT"
    /\ Begin(s, [NoCall EXCEPT !.at = "publish_policy"])

publish_policy(s) ==
    /\ service[s].at = "publish_policy"
    /\ policy' = "PUBLISHED"
    /\ Done(s)
    /\ UNCHANGED <<profile, condition, cost, prechecks, readiness>>

-----------------------------------------------------------------------------
(* Precheck: matches, profiles, conditions and rules are read in turn.     *)

BeginPrecheck(s) ==
    \E seen \in Matching :
        Begin(s, [NoCall EXCEPT !.at = "profiles", !.read = seen])

profile_current == profile.state = "PUBLISHED" /\ profile.inWindow

PrecheckProfiles(s) ==
    Read(s, "profiles", [service[s] EXCEPT !.at = "conditions",
                                           !.responded = profile_current])

PrecheckConditions(s) ==
    Read(s, "conditions", [service[s] EXCEPT !.at = "rules",
                                             !.open = condition_is_blocking])

(* Mutant: open conditions are reported but do not block. *)
decide_open(coverage, rules, responded, open) ==
    CASE rules = "none" \/ coverage = "UNKNOWN" -> "UNKNOWN"
      [] rules # "none" /\ coverage # "UNKNOWN"
         /\ (coverage = "UNSATISFIED" \/ rules = "unsupported") -> "BLOCKED"
      [] rules = "supported" /\ coverage \in {"PARTIAL", "SATISFIED"}
         /\ (coverage = "PARTIAL" \/ ~responded) -> "CONDITIONAL"
      [] OTHER -> "PASS"

decide(coverage, rules, responded, open) ==
    CASE rules = "none" \/ coverage = "UNKNOWN" -> "UNKNOWN"
      [] rules # "none" /\ coverage # "UNKNOWN"
         /\ (coverage = "UNSATISFIED" \/ rules = "unsupported" \/ open)
           -> "BLOCKED"
      [] rules = "supported" /\ ~open /\ coverage \in {"PARTIAL", "SATISFIED"}
         /\ (coverage = "PARTIAL" \/ ~responded) -> "CONDITIONAL"
      [] OTHER -> "PASS"

PassedChecks(read, rules, responded, open) ==
    {c \in Checks :
        \/ c = "rules_available" /\ rules = "supported"
        \/ c = "subject_qualification" /\ read.subject = "SATISFIED"
        \/ c = "substantive_response" /\ responded
        \/ c = "evidence_coverage" /\ read.coverage = "SATISFIED"
        \/ c = "deadline_closure" /\ ~open}

create_precheck(s) ==
    /\ service[s].at = "rules"
    /\ \E rules \in {"none", "supported", "unsupported"} :
         LET c == service[s] IN
         prechecks' = prechecks \cup
           {[dated |-> c.dated,
             decision |-> decide(c.read.coverage, rules, c.responded, c.open),
             checks |-> PassedChecks(c.read, rules, c.responded, c.open)]}
    /\ Done(s)
    /\ UNCHANGED <<profile, condition, cost, policy, readiness>>

(* Mutant: the oldest assessment is taken. *)
OldestPrecheck ==
    CHOOSE p \in prechecks : \A q \in prechecks : p.dated <= q.dated

(* The last of the list, which is ordered by the time the call began. *)
CurrentPrecheck ==
    CHOOSE p \in prechecks : \A q \in prechecks : q.dated <= p.dated

-----------------------------------------------------------------------------
(* Readiness: prechecks, profiles, market, costs and policies in turn.     *)

BeginReadiness(s) ==
    Begin(s, [NoCall EXCEPT !.at = "response",
                !.precheck = IF prechecks = {} THEN "MISSING"
                             ELSE CurrentPrecheck.decision])

ReadinessProfiles(s) ==
    Read(s, "response", [service[s] EXCEPT !.at = "market",
                                           !.responded = profile_current])

(* market, data use and model: UNKNOWN without the port, else each of them *)
(* is READY or NOT_READY; only the worst of the three matters.             *)
ReadinessMarket(s) ==
    \E item \in {"UNKNOWN", "READY", "NOT_READY"} :
        Read(s, "market", [service[s] EXCEPT !.at = "costs",
                                             !.marketItem = item])

ReadinessCosts(s) ==
    Read(s, "costs", [service[s] EXCEPT !.at = "policies",
                        !.costItem = CASE cost.state = "PUBLISHED" -> "READY"
                                       [] cost.state = "DRAFT" -> "NOT_READY"
                                       [] OTHER -> "UNKNOWN"])

precheck_item(decision) ==
    CASE decision = "PASS" -> "READY"
      [] decision = "CONDITIONAL" -> "CONDITIONAL"
      [] decision = "BLOCKED" -> "NOT_READY"
      [] OTHER -> "UNKNOWN"

(* The scenario port is not there yet. *)
scenario_item == "UNKNOWN"

items(call, policyItem) ==
    {precheck_item(call.precheck),
     IF call.responded THEN "READY" ELSE "NOT_READY",
     call.costItem, policyItem, call.marketItem, scenario_item}

overall(decisions) ==
    CASE "NOT_READY" \in decisions -> "NOT_READY"
      [] "NOT_READY" \notin decisions /\ "UNKNOWN" \in decisions -> "UNKNOWN"
      [] decisions \cap {"NOT_READY", "UNKNOWN"} = {}
         /\ "CONDITIONAL" \in decisions -> "CONDITIONAL"
      [] OTHER -> "READY"

create_readiness(s) ==
    /\ service[s].at = "policies"
    /\ LET policyItem == IF policy = "PUBLISHED" THEN "READY" ELSE "NOT_READY"
           decision   == overall(items(service[s], policyItem))
       IN  readiness' = readiness \cup
             {[decision |-> decision, watermark |-> decision # "READY"]}
    /\ Done(s)
    /\ UNCHANGED <<profile, condition, cost, policy, prechecks>>

-----------------------------------------------------------------------------
(* Time passes a due date or the end of a validity window.                 *)

DuePasses ==
    /\ condition.state # "ABSENT" /\ condition.due = 0
    /\ condition' = [condition EXCEPT !.due = clock]
    /\ UNCHANGED <<profile, cost, policy, prechecks, readiness, clock,
                   service, mixed>>

WindowEnds ==
    /\ profile.state # "ABSENT" /\ profile.inWindow
    /\ profile' = [profile EXCEPT !.inWindow = FALSE]
    /\ UNCHANGED <<condition, cost, policy, prechecks, readiness,
                   clock, service, mixed>>

(* What the HTTP routes of each resource do. *)
ProfileRequests(s) ==
    create_profile(s) \/ BeginPublishProfile(s) \/ publish_profile(s)

ConditionRequests(s) ==
    create_condition(s) \/ BeginClose(s) \/ transition_condition(s)

CostRequests(s) ==
    \/ create_cost_baseline(s)
    \/ BeginApprove(s) \/ approve_cost_baseline(s)
    \/ BeginPublishCost(s) \/ publish_cost_baseline(s)

PolicyRequests(s) ==
    create_policy(s) \/ BeginPublishPolicy(s) \/ publish_policy(s)

PrecheckRequests(s) ==
    \/ BeginPrecheck(s) \/ PrecheckProfiles(s) \/ PrecheckConditions(s)
    \/ create_precheck(s)

ReadinessRequests(s) ==
    \/ BeginReadiness(s) \/ ReadinessProfiles(s) \/ ReadinessMarket(s)
    \/ ReadinessCosts(s) \/ create_readiness(s)

Next ==
    \/ \E s \in Services :
         \/ ProfileRequests(s) \/ ConditionRequests(s)
         \/ CostRequests(s) \/ PolicyRequests(s)
         \/ PrecheckRequests(s) \/ ReadinessRequests(s)
    \/ DuePasses \/ WindowEnds

Spec == Init /\ [][Next]_vars

-----------------------------------------------------------------------------
(* Properties.                                                             *)

(* A stored precheck is a PASS exactly when all five checks it lists       *)
(* passed, although the lists behind them were read at different times     *)
(* and the decision and the checks are computed apart                      *)
(* (services.py:1048-1090).                                                *)
PassIffAllChecks ==
    \A p \in prechecks : p.decision = "PASS" <=> p.checks = Checks

(* The precheck that readiness goes by is never replaced by one whose call *)
(* began earlier, however late that call stores its result                 *)
(* (services.py:1091-1111, 1157-1160).                                     *)
NewestPrecheckCounts ==
    prechecks # {} => CurrentPrecheck'.dated >= CurrentPrecheck.dated

(* Whatever overlaps, a cost baseline that counts was approved by somebody *)
(* other than its author, and only what is published is free of the        *)
(* exploration mark (commercial services.py:196-239).                      *)
CostIsDualControlled ==
    /\ cost.state = "PUBLISHED" =>
         cost.approvedBy \notin {Nobody, cost.createdBy}
    /\ cost.state # "ABSENT" => (cost.exploration <=> cost.state # "PUBLISHED")

(* While the scenario port is missing no interleaving of publications and  *)
(* assessments yields a readiness without the exploration watermark, nor   *)
(* one that is READY or CONDITIONAL (commercial services.py:473-509).      *)
NeverFormallyReady ==
    \A r \in readiness : r.decision \in {"UNKNOWN", "NOT_READY"} /\ r.watermark

(* A condition that was left OPEN past its due date can no longer be       *)
(* closed, not even by expire: whatever still changes it is a command that *)
(* began in time (services.py:871-888).                                    *)
OverdueStaysOpen ==
    (/\ condition.state = "OPEN" /\ condition.due > 0
     /\ condition'.state # "OPEN") =>
       \E s \in Services : /\ service[s].at = "close"
                           /\ service[s].dated < condition.due

(* While no two calls overlapped, a condition that was closed is not       *)
(* closed a second time (services.py:887-888).                             *)
ClosedOnce ==
    (~mixed' /\ condition.state \notin {"ABSENT", "OPEN"}) =>
       condition'.state = condition.state

(* What the stored prechecks, costs and readiness assessments promise      *)
(* together (services.py:1048-1090, commercial services.py:196-509).       *)
ReadinessInv ==
    /\ TypeOK
    /\ PassIffAllChecks
    /\ CostIsDualControlled
    /\ NeverFormallyReady

(* No step takes back a precheck for an older one, closes a condition late *)
(* or closes it twice (services.py:871-888, 1091-1111).                    *)
DecisionsStand ==
    [][/\ NewestPrecheckCounts
       /\ OverdueStaysOpen
       /\ ClosedOnce]_vars

=============================================================================
