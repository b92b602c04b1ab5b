----------------------------- MODULE GovernanceGates ---------------------------
(***************************************************************************)
(* The gates in front of real data and of customers' keys                  *)
(* (core/security/gates.py), the expiry of retention periods               *)
(* (governance/application/retention.py) and the invalidation of what      *)
(* depends on a changed item (governance/domain/invalidation.py).          *)
(* Assessors, the caller that stores retention jobs and the delivery of    *)
(* events are outside the repository: they are modelled as they may act.   *)
(***************************************************************************)
EXTENDS Naturals, FiniteSets

CONSTANTS
    EvidenceKeys,   \* evidence a gate may need
    Required,       \* the keys each gate requires
    RetentionHolds, \* legal holds on the retained item
    Edges,          \* lineage edges: [kind, fields]
    Fields,         \* fields of the changed item
    MaxGateTime,    \* bound on time
    MaxRequests     \* bound on the evaluations of one retention job

VARIABLES
    assessment,     \* the provider's assessment of each gate
    process,        \* the application: down, or up with its settings
    job,            \* the retention job; blocked: when formal use was blocked, if it was
    placed,         \* legal holds in force
    asked,          \* expiry events emitted and dispositions requested
    delivered,      \* changes delivered so far, with the fields they name
    invalidated,    \* stored invalidations, by fingerprint
    clock           \* the time

gateVars == <<assessment, process, job, placed, asked, delivered, invalidated, clock>>

None == "none"
GateName == {"REAL_DATA_MODE", "BYOK_SECRET_GATE"}
Status == {"PASS", "FAIL", "UNKNOWN"}

NoAssessment == [status |-> "UNKNOWN", validity |-> "STALE", at |-> 0, expires |-> 0,
                 evidence |-> [k \in {} |-> None]]

Init ==
    /\ assessment = [g \in GateName |-> NoAssessment]
    /\ process = [up |-> FALSE, settings |-> {}]
    /\ job = [state |-> "SCHEDULED", expires |-> 1, blocked |-> {}]
    /\ placed = {}
    /\ asked = [expired |-> 0, disposed |-> 0]
    /\ delivered = {}
    /\ invalidated = {}
    /\ clock = 0

-----------------------------------------------------------------------------
required_evidence(g) == Required[g]

(* A failure outweighs whatever is missing, unknown or expired. *)
build_status(g, evidence, now) ==
    LET bad(s) == \E k \in required_evidence(g) \cap DOMAIN evidence : evidence[k].status = s
    IN  IF bad("FAIL") THEN "FAIL"
        ELSE IF required_evidence(g) \ DOMAIN evidence # {} \/ bad("UNKNOWN")
                \/ \E k \in required_evidence(g) \cap DOMAIN evidence : evidence[k].expires <= now
        THEN "UNKNOWN" ELSE "PASS"

build_machine_assessment(g, evidence, expires) ==
    /\ assessment' = [assessment EXCEPT ![g] =
         [status |-> build_status(g, evidence, clock),
          validity |-> IF expires > clock THEN "CURRENT" ELSE "STALE",
          at |-> clock, expires |-> expires, evidence |-> evidence]]
    /\ UNCHANGED <<process, job, placed, asked, delivered, invalidated, clock>>

(* current: an assessment that ran out is shown as stale, not stored so.   *)
current(g) ==
    IF assessment[g].expires <= clock THEN [assessment[g] EXCEPT !.validity = "STALE"]
    ELSE assessment[g]

require(g) ==
    /\ current(g).status = "PASS"
    /\ current(g).validity = "CURRENT"
    /\ current(g).expires > clock

(* assert_startup_allowed, once per start of the process. *)
StartUp(settings) ==
    /\ ~process.up
    /\ \A g \in settings : require(g)
    /\ process' = [up |-> TRUE, settings |-> settings]
    /\ UNCHANGED <<assessment, job, placed, asked, delivered, invalidated, clock>>

ShutDown ==
    /\ process.up
    /\ process' = [up |-> FALSE, settings |-> {}]
    /\ UNCHANGED <<assessment, job, placed, asked, delivered, invalidated, clock>>

-----------------------------------------------------------------------------
(* evaluate_retention_expiry, called by a scheduler as often as it likes,  *)
(* also for a job that is done; the caller stores the returned job.        *)
BlockedAt == IF job.blocked = {} THEN {clock} ELSE job.blocked

evaluate_retention_expiry ==
    /\ clock >= job.expires
    /\ asked.expired + asked.disposed < MaxRequests
    /\ job' = [job EXCEPT !.state = IF placed # {} THEN "WAITING_FOR_HOLD_RELEASE"
                                    ELSE "DISPOSITION_RUNNING",
                          !.blocked = BlockedAt]
    /\ asked' = [asked EXCEPT !.expired = IF job.blocked = {} THEN @ + 1 ELSE @,
                              !.disposed = IF placed = {} THEN @ + 1 ELSE @]
    /\ UNCHANGED <<assessment, process, placed, delivered, invalidated, clock>>

(* The executor of the disposition. *)
Dispose(state) ==
    /\ job.state = "DISPOSITION_RUNNING"
    /\ state \in {"COMPLETED", "FAILED_RETRYABLE", "ESCALATED"}
    /\ job' = [job EXCEPT !.state = state]
    /\ UNCHANGED <<assessment, process, placed, asked, delivered, invalidated, clock>>

SetHold(h) ==
    /\ placed' = IF h \in placed THEN placed \ {h} ELSE placed \cup {h}
    /\ UNCHANGED <<assessment, process, job, asked, delivered, invalidated, clock>>

-----------------------------------------------------------------------------
DependencyType == {"COMPUTATIONAL", "AUTHORIZATION", "POLICY", "EVIDENTIAL", "PRESENTATIONAL"}

Silent == {"DRAFT_CREATED", "SNAPSHOT_FROZEN"}
Ending == {"REVOKE", "DELETE", "RETENTION_EXPIRED"}
UpstreamChangeType == Silent \cup Ending \cup
    {"PUBLISH_EFFECTIVE", "AUTHORIZATION_WITHDRAWN", "PURPOSE_ENDED", "PROVIDER_POLICY_EXPIRED",
     "MODEL_POLICY_EFFECTIVE"}

(* The effect of a change on a kind of dependency; none for the rest. *)
INVALIDATION_MATRIX(change, kind) ==
    CASE change = "PUBLISH_EFFECTIVE" -> "STALE"
      [] change \in Ending -> "INVALIDATED"
      [] change \in {"AUTHORIZATION_WITHDRAWN", "PURPOSE_ENDED"} ->
           IF kind = "AUTHORIZATION" THEN "INVALIDATED" ELSE None
      [] change = "PROVIDER_POLICY_EXPIRED" ->
           IF kind \in {"POLICY", "AUTHORIZATION"} THEN "INVALIDATED" ELSE None
      [] change = "MODEL_POLICY_EFFECTIVE" ->
           IF kind \in {"POLICY", "COMPUTATIONAL"} THEN "STALE" ELSE None
      [] OTHER -> None

(* Mutant: a change that names no fields touches none. *)
touches_named(edge, fields) == edge.fields \cap fields # {}

(* A change that names no fields touches every edge. *)
touches(edge, fields) == fields = {} \/ edge.fields \cap fields # {}

(* Delivery of a change, possibly again: the repository keeps one row per  *)
(* fingerprint of event, edge and effect.  An event is named by its type;  *)
(* the end of retention is delivered only after it was emitted.            *)
propagate_change(change, fields) ==
    /\ change = "RETENTION_EXPIRED" => asked.expired > 0
    /\ delivered' = delivered \cup {<<change, fields>>}
    /\ invalidated' = invalidated \cup
         {<<change, e, INVALIDATION_MATRIX(change, e.kind)>> :
            e \in {x \in Edges : INVALIDATION_MATRIX(change, x.kind) # None /\ touches(x, fields)}}
    /\ UNCHANGED <<assessment, process, job, placed, asked, clock>>

Tick ==
    /\ clock < MaxGateTime
    /\ clock' = clock + 1
    /\ UNCHANGED <<assessment, process, job, placed, asked, delivered, invalidated>>

GateEvidence == [status : Status, expires : 0..MaxGateTime]

GateSteps ==
    \/ \E g \in GateName, K \in SUBSET EvidenceKeys, expires \in 0..MaxGateTime :
         \E evidence \in [K -> GateEvidence] : build_machine_assessment(g, evidence, expires)
    \/ \E settings \in SUBSET GateName : StartUp(settings)
    \/ ShutDown

RetentionSteps ==
    \/ evaluate_retention_expiry
    \/ \E state \in {"COMPLETED", "FAILED_RETRYABLE", "ESCALATED"} : Dispose(state)
    \/ \E h \in RetentionHolds : SetHold(h)

InvalidationSteps ==
    \E change \in UpstreamChangeType, fields \in SUBSET Fields : propagate_change(change, fields)

Next == GateSteps \/ RetentionSteps \/ InvalidationSteps \/ Tick

Spec == Init /\ [][Next]_gateVars

-----------------------------------------------------------------------------
TypeOK ==
    /\ \A g \in GateName : assessment[g].status \in Status /\ assessment[g].at \in 0..clock
    /\ process.settings \subseteq GateName
    /\ job.state \in {"SCHEDULED", "WAITING_FOR_HOLD_RELEASE", "DISPOSITION_RUNNING", "COMPLETED",
                      "FAILED_RETRYABLE", "ESCALATED"}
    /\ placed \subseteq RetentionHolds
    /\ clock \in 0..MaxGateTime

(* A gate that lets a request or a start through has an assessment that    *)
(* has not run out and for which every required piece of evidence was      *)
(* there, had passed and had not expired when the assessment was made.     *)
OpenGateIsProved ==
    \A g \in GateName : require(g) =>
      /\ clock < assessment[g].expires
      /\ \A k \in Required[g] :
           /\ k \in DOMAIN assessment[g].evidence
           /\ assessment[g].evidence[k].status = "PASS"
           /\ assessment[g].at < assessment[g].evidence[k].expires

(* However often a retention job is evaluated, with and without holds,     *)
(* before and after its disposition: formal use is blocked no later than   *)
(* anything else happens, from one moment that never changes, and the end  *)
(* of retention is announced once.                                         *)
BlockedOnce ==
    /\ asked.expired = (IF job.blocked = {} THEN 0 ELSE 1)
    /\ job.blocked = {} => asked.disposed = 0 /\ job.state = "SCHEDULED"
    /\ \A t \in job.blocked : job.expires <= t

(* Delivered changes arrive: a change that ends its source, delivered for  *)
(* all fields, has invalidated every dependent, even one that an earlier   *)
(* or later publication only made stale; the silent changes have left no   *)
(* trace, and however often a change is delivered an edge keeps one effect *)
(* of it.                                                                  *)
EndingReachesAll ==
    /\ \A change \in Ending : <<change, {}>> \in delivered =>
         \A e \in Edges : <<change, e, "INVALIDATED">> \in invalidated
    /\ \A v \in invalidated :
         /\ v[1] \notin Silent
         /\ \E fields \in SUBSET Fields :
              <<v[1], fields>> \in delivered /\ (fields = {} \/ v[2].fields \cap fields # {})
         /\ \A w \in invalidated : v[1] = w[1] /\ v[2] = w[2] => v = w

(* What gates, retention and invalidation promise together. *)
GatesInv ==
    /\ TypeOK
    /\ OpenGateIsProved
    /\ BlockedOnce
    /\ EndingReachesAll

=============================================================================
