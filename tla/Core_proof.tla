------------------------------- MODULE Core_proof ------------------------------
(***************************************************************************)
(* Proofs about the foundations in MCCore, for any values of their         *)
(* constants.                                                              *)
(*                                                                         *)
(* AccessControl: the permissions an identity reports are those the guards *)
(* grant, and what is served lies in the caller's scope.                   *)
(*                                                                         *)
(* GovernanceGates: an assessment rests on what was proved when it was     *)
(* made and only ages; a retention job is blocked once; what is invalid is *)
(* so by a delivered change, and the end of a source reaches every edge.   *)
(*                                                                         *)
(* ProjectDrafts: a version hash names the payload it was computed from,   *)
(* and a walk has returned or still owes each item that stays put, as the  *)
(* time of a last version only advances.                                   *)
(*                                                                         *)
(* AuditChain: every event names the last of its scope before it, because  *)
(* the writer that holds the lock knows the head of its chain; a log made  *)
(* of a chain's events verifies only when it is a beginning of the chain.  *)
(***************************************************************************)
EXTENDS MCCore, FiniteSetTheorems, SequenceTheorems, WellFoundedInduction, TLAPS

-----------------------------------------------------------------------------
(* Access control.                                                         *)

(* The roles a guard accepts for a permission. *)
Accepts(p) == IF p \in DOMAIN Access!FR01Roles THEN Access!FR01Roles[p]
              ELSE Access!FR0304Roles[p]

(* The two tables say the same of each role: the guards of its permissions *)
(* accept it, and those of no other.                                       *)
LEMMA TablesAgree ==
    ASSUME NEW r \in Access!Role, NEW p \in Access!Permission
    PROVE  p \in Access!DOMAIN_ROLE_PERMISSIONS(r) <=> r \in Accepts(p)
<1>1. Accepts("fr-01:read") =
        {"PROJECT_MANAGER", "RULE_EDITOR", "BID_MANAGER",
         "TENANT_ADMIN", "DOCUMENT_STEWARD", "LEGAL_PRIVACY",
         "AUDITOR", "APPROVER"}
  BY DEF Accepts, Access!FR01Roles
<1>2. Accepts("fr-01:write") =
        {"PROJECT_MANAGER", "RULE_EDITOR", "BID_MANAGER",
         "TENANT_ADMIN"}
  BY DEF Accepts, Access!FR01Roles
<1>3. Accepts("fr-01:publish") =
        {"BID_MANAGER", "LEGAL_PRIVACY", "PROJECT_MANAGER",
         "RULE_EDITOR"}
  BY DEF Accepts, Access!FR01Roles
<1>4. Accepts("fr-03:read") =
        {"PROJECT_MANAGER", "DOCUMENT_STEWARD",
         "COMMERCIAL_ANALYST", "PRIVACY_OFFICER", "BID_MANAGER",
         "DOCUMENT_SPECIALIST", "TECHNICAL_LEAD", "APPROVER"}
  BY DEF Accepts, Access!FR01Roles, Access!FR0304Roles, Access!Permission
<1>5. Accepts("fr-03:author") =
        {"DOCUMENT_SPECIALIST", "TECHNICAL_LEAD"}
  BY DEF Accepts, Access!FR01Roles, Access!FR0304Roles, Access!Permission
<1>6. Accepts("fr-03:review") =
        {"DOCUMENT_STEWARD"}
  BY DEF Accepts, Access!FR01Roles, Access!FR0304Roles, Access!Permission
<1>7. Accepts("fr-03:condition") =
        {"PRIVACY_OFFICER", "BID_MANAGER", "APPROVER"}
  BY DEF Accepts, Access!FR01Roles, Access!FR0304Roles, Access!Permission
<1>8. Accepts("fr-04:read") =
        {"PROJECT_MANAGER", "COMMERCIAL_ANALYST", "PRIVACY_OFFICER",
         "BID_MANAGER", "FINANCE_AUTHOR", "FINANCE_APPROVER"}
  BY DEF Accepts, Access!FR01Roles, Access!FR0304Roles, Access!Permission
<1>9. Accepts("fr-04:create") =
        {"COMMERCIAL_ANALYST", "FINANCE_AUTHOR"}
  BY DEF Accepts, Access!FR01Roles, Access!FR0304Roles, Access!Permission
<1>10. Accepts("fr-04:approve") =
        {"FINANCE_APPROVER"}
  BY DEF Accepts, Access!FR01Roles, Access!FR0304Roles, Access!Permission
<1> USE <1>1, <1>2, <1>3, <1>4, <1>5, <1>6, <1>7, <1>8, <1>9, <1>10
        DEF Access!Permission, Access!DOMAIN_ROLE_PERMISSIONS, Access!FR01_READ_WRITE
<1>11. CASE r = "PROJECT_MANAGER"
  BY <1>11
<1>12. CASE r = "RULE_EDITOR"
  BY <1>12
<1>13. CASE r = "BID_MANAGER"
  BY <1>13
<1>14. CASE r = "TENANT_ADMIN"
  BY <1>14
<1>15. CASE r = "DOCUMENT_STEWARD"
  BY <1>15
<1>16. CASE r = "LEGAL_PRIVACY"
  BY <1>16
<1>17. CASE r = "AUDITOR"
  BY <1>17
<1>18. CASE r = "APPROVER"
  BY <1>18
<1>19. CASE r = "COMMERCIAL_ANALYST"
  BY <1>19
<1>20. CASE r = "PRIVACY_OFFICER"
  BY <1>20
<1>21. CASE r = "DOCUMENT_SPECIALIST"
  BY <1>21
<1>22. CASE r = "TECHNICAL_LEAD"
  BY <1>22
<1>23. CASE r = "FINANCE_AUTHOR"
  BY <1>23
<1>24. CASE r = "FINANCE_APPROVER"
  BY <1>24
<1>25. CASE r = "SYSTEM_ADMIN"
  BY <1>25
<1> QED
  BY <1>11, <1>12, <1>13, <1>14, <1>15, <1>16, <1>17, <1>18, <1>19, <1>20, <1>21,
     <1>22, <1>23, <1>24, <1>25 DEF Access!Role

(* A request passes a guard exactly when its permission is reported and a  *)
(* second factor is there if one is needed.                                *)
LEMMA GuardsGrant ==
    ASSUME NEW roles \in SUBSET Access!Role, NEW p \in Access!Permission, NEW mfa \in BOOLEAN
    PROVE  Access!Fr01Guard(p, mfa, roles) \/ Access!RoleGuard(p, mfa, roles)
             <=> p \in Access!permissions(roles) /\ (p \in Access!NeedsMfa => mfa)
<1>1. p \in Access!permissions(roles) <=> roles \cap Accepts(p) # {}
  BY TablesAgree DEF Access!permissions
<1>2. DOMAIN Access!FR0304Roles = Access!Permission \ DOMAIN Access!FR01Roles
  BY DEF Access!FR0304Roles
<1> QED
  BY <1>1, <1>2 DEF Accepts, Access!Fr01Guard, Access!RoleGuard

LEMMA AccessInit == Access!Init => Access!AccessInv
<1> SUFFICES ASSUME Access!Init PROVE Access!AccessInv
  OBVIOUS
<1>1. identity.scope \in Access!TenantScope
  BY TenantsAssumption DEF Access!Init, Access!TenantScope
<1> QED
  BY <1>1 DEF Access!Init, Access!AccessInv, Access!TypeOK,
              Access!ProjectionMatchesGuards, Access!ServedIsInScope

(* A token's roles are known ones. *)
LEMMA AuthenticateInv ==
    ASSUME Access!AccessInv, NEW n \in 1..MaxRoles, NEW roles \in Access!kSubset(n, Access!Role),
           NEW mfa \in BOOLEAN, NEW scope \in Access!TenantScope,
           Access!authenticate(roles, mfa, scope)
    PROVE  Access!AccessInv'
<1>1. roles \subseteq Access!Role
  BY DEF Access!kSubset
<1> QED
  BY <1>1 DEF Access!authenticate, Access!AccessInv, Access!TypeOK,
              Access!ProjectionMatchesGuards, Access!ServedIsInScope

(* A request is answered as the guards and the scope say. *)
LEMMA RequestIsAnswered ==
    ASSUME Access!AccessInv, NEW p \in Access!Permission, NEW i \in ScopedItems,
           Access!request(p, i)
    PROVE  Access!AccessInv'
<1>1. identity' = identity /\ Access!TypeOK
  BY DEF Access!request, Access!AccessInv
<1>2. Access!Fr01Guard(p, identity.mfa, identity.roles)
        \/ Access!RoleGuard(p, identity.mfa, identity.roles)
        <=> p \in Access!permissions(identity.roles) /\ (p \in Access!NeedsMfa => identity.mfa)
  BY <1>1, GuardsGrant DEF Access!TypeOK
<1>3. PICK w \in {"denied", "served", "not found"} : answer' = <<w, p, i>>
  BY Zenon DEF Access!request
<1>4. Access!TypeOK'
  <2>1. answer'[1] \in {"none", "served", "denied", "not found"}
    BY <1>3
  <2>2. identity'.roles = identity.roles /\ identity'.scope = identity.scope
          /\ identity'.mfa = identity.mfa
    BY <1>1
  <2> QED
    BY <1>1, <2>1, <2>2 DEF Access!TypeOK
<1>5. Access!ProjectionMatchesGuards'
  BY <1>1, <1>2, Zenon DEF Access!request, Access!ProjectionMatchesGuards
<1>6. Access!ServedIsInScope'
  BY <1>1 DEF Access!request, Access!ServedIsInScope, Access!assert_allows, Access!_scope_ok
<1> QED
  BY <1>4, <1>5, <1>6 DEF Access!AccessInv

LEMMA AccessNext == Access!AccessInv /\ [Access!Next]_(Access!accessVars) => Access!AccessInv'
<1> SUFFICES ASSUME Access!AccessInv, [Access!Next]_(Access!accessVars)
             PROVE  Access!AccessInv'
  OBVIOUS
<1>1. CASE UNCHANGED Access!accessVars
  BY <1>1 DEF Access!accessVars, Access!AccessInv, Access!TypeOK,
              Access!ProjectionMatchesGuards, Access!ServedIsInScope
<1>2. CASE Access!Next
  BY <1>2, AuthenticateInv, RequestIsAnswered DEF Access!Next
<1> QED
  BY <1>1, <1>2

(* What /me reports is what the guards grant, and nobody is served an item *)
(* outside the caller's scope (core/auth.py, the repositories' filters),   *)
(* for any tenants, items and tokens.                                      *)
THEOREM AccessIsSound ==
    /\ Access!Spec => []Access!AccessInv
    /\ MCSpec => []AccessInv
<1>1. Access!Spec => []Access!AccessInv
  BY AccessInit, AccessNext, PTL DEF Access!Spec
<1>2. MCInit => Access!Init
  BY DEF MCInit
<1>3. MCNext => [Access!Next]_(Access!accessVars)
  BY Zenon DEF MCNext, accessVars, Access!accessVars
<1>4. UNCHANGED <<focus, updates, auditVars, draftVars, gateVars, accessVars>>
        => UNCHANGED Access!accessVars
  BY Zenon DEF accessVars, Access!accessVars
<1>5. MCSpec => Access!Spec
  BY <1>2, <1>3, <1>4, PTL DEF MCSpec, Access!Spec
<1>6. Access!AccessInv => AccessInv
  BY DEF AccessInv
<1> QED
  BY <1>1, <1>5, <1>6, PTL

-----------------------------------------------------------------------------
(* Gates, retention and invalidation.                                      *)

Assessment == [status : Gates!Status, validity : {"CURRENT", "STALE"}, at : Nat, expires : Nat,
               evidence : UNION {[K -> Gates!GateEvidence] : K \in SUBSET EvidenceKeys}]

RetentionStates == {"SCHEDULED", "WAITING_FOR_HOLD_RELEASE", "DISPOSITION_RUNNING", "COMPLETED",
                    "FAILED_RETRYABLE", "ESCALATED"}

GatesTypeOK ==
    /\ assessment \in [Gates!GateName -> Assessment]
    /\ process \in [up : BOOLEAN, settings : SUBSET Gates!GateName]
    /\ job \in [state : RetentionStates, expires : Nat, blocked : SUBSET Nat]
    /\ placed \subseteq RetentionHolds
    /\ asked \in [expired : Nat, disposed : Nat]
    /\ clock \in 0..MaxGateTime

(* The evidence of an assessment that passed was complete when it was made.*)
Passed(a, g) ==
    a.status = "PASS" => \A k \in Required[g] :
      /\ k \in DOMAIN a.evidence
      /\ a.evidence[k].status = "PASS"
      /\ a.at < a.evidence[k].expires

AssessmentsHold ==
    \A g \in Gates!GateName : assessment[g].at <= clock /\ Passed(assessment[g], g)

(* What is stored as invalidated is the effect of a delivered change.      *)
Effects ==
    \A v \in invalidated : \E change \in Gates!UpstreamChangeType, e \in Edges :
      /\ v = <<change, e, Gates!INVALIDATION_MATRIX(change, e.kind)>>
      /\ Gates!INVALIDATION_MATRIX(change, e.kind) # Gates!None
      /\ \E fields \in SUBSET Fields :
           <<change, fields>> \in delivered /\ Gates!touches(e, fields)

EndsReachAll ==
    \A change \in Gates!Ending : <<change, {}>> \in delivered =>
      \A e \in Edges : <<change, e, "INVALIDATED">> \in invalidated

GatesIndInv ==
    /\ GatesTypeOK
    /\ AssessmentsHold
    /\ Gates!BlockedOnce
    /\ Effects
    /\ EndsReachAll

LEMMA GatesInit == Gates!Init => GatesIndInv
<1> SUFFICES ASSUME Gates!Init PROVE GatesIndInv
  OBVIOUS
<1> USE DEF Gates!Init
<1>1. Gates!NoAssessment \in Assessment
  <2>1. [k \in {} |-> Gates!None] \in [{} -> Gates!GateEvidence]
    OBVIOUS
  <2>2. [k \in {} |-> Gates!None]
          \in UNION {[K -> Gates!GateEvidence] : K \in SUBSET EvidenceKeys}
    BY <2>1
  <2> QED
    BY <2>2 DEF Gates!NoAssessment, Assessment, Gates!Status
<1>2. GatesTypeOK
  BY <1>1, GatesAssumption DEF GatesTypeOK, RetentionStates
<1>3. AssessmentsHold
  BY DEF AssessmentsHold, Passed, Gates!NoAssessment
<1>4. Gates!BlockedOnce /\ Effects /\ EndsReachAll
  BY DEF Gates!BlockedOnce, Effects, EndsReachAll
<1> QED
  BY <1>2, <1>3, <1>4 DEF GatesIndInv

(* An assessment passes only with complete evidence (gates.py).            *)
LEMMA AssessInv ==
    ASSUME GatesIndInv, NEW g \in Gates!GateName, NEW K \in SUBSET EvidenceKeys,
           NEW expires \in 0..MaxGateTime, NEW evidence \in [K -> Gates!GateEvidence],
           Gates!build_machine_assessment(g, evidence, expires)
    PROVE  GatesIndInv'
<1> DEFINE new == [status |-> Gates!build_status(g, evidence, clock),
                   validity |-> IF expires > clock THEN "CURRENT" ELSE "STALE",
                   at |-> clock, expires |-> expires, evidence |-> evidence]
<1>1. /\ assessment' = [assessment EXCEPT ![g] = new]
      /\ UNCHANGED <<process, job, placed, asked, delivered, invalidated, clock>>
  BY DEF Gates!build_machine_assessment
<1>2. clock \in Nat /\ assessment \in [Gates!GateName -> Assessment]
  BY GatesAssumption DEF GatesIndInv, GatesTypeOK
<1>3. new \in Assessment
  BY <1>2, GatesAssumption DEF Assessment, Gates!build_status, Gates!Status
<1>4. Passed(new, g)
  BY <1>2, GatesAssumption
     DEF Passed, Gates!build_status, Gates!required_evidence, Gates!GateEvidence, Gates!Status
<1> HIDE DEF new
<1>5. new.at = clock
  BY DEF new
<1>6. GatesTypeOK'
  BY <1>1, <1>2, <1>3 DEF GatesIndInv, GatesTypeOK
<1>7. AssessmentsHold'
  <2> SUFFICES ASSUME NEW h \in Gates!GateName
               PROVE  assessment'[h].at <= clock /\ Passed(assessment'[h], h)
    BY <1>1 DEF AssessmentsHold
  <2>1. CASE h = g
    BY <1>1, <1>2, <1>4, <1>5, <2>1
  <2>2. CASE h # g
    BY <1>1, <1>2, <2>2 DEF GatesIndInv, AssessmentsHold
  <2> QED
    BY <2>1, <2>2
<1> QED
  BY <1>1, <1>6, <1>7 DEF GatesIndInv, Gates!BlockedOnce, Effects, EndsReachAll

(* The steps that leave the assessments alone, or only let time pass. *)
LEMMA AssessmentsStay ==
    ASSUME GatesIndInv, assessment' = assessment, clock' \in 0..MaxGateTime, clock <= clock'
    PROVE  AssessmentsHold'
<1> SUFFICES ASSUME NEW g \in Gates!GateName
             PROVE  assessment[g].at <= clock' /\ Passed(assessment[g], g)
  BY DEF AssessmentsHold
<1>1. /\ assessment[g].at \in Nat /\ assessment[g].at <= clock /\ Passed(assessment[g], g)
      /\ clock \in Nat /\ clock' \in Nat
  BY GatesAssumption DEF GatesIndInv, GatesTypeOK, AssessmentsHold, Assessment
<1> QED
  BY <1>1

(* The process, its settings and time. *)
LEMMA ProcessInv ==
    ASSUME GatesIndInv,
           Gates!ShutDown \/ Gates!Tick \/ \E s \in SUBSET Gates!GateName : Gates!StartUp(s)
    PROVE  GatesIndInv'
<1>1. /\ UNCHANGED <<assessment, job, placed, asked, delivered, invalidated>>
      /\ process' \in [up : BOOLEAN, settings : SUBSET Gates!GateName]
      /\ clock' \in 0..MaxGateTime /\ clock <= clock'
  <2> USE GatesAssumption DEF GatesIndInv, GatesTypeOK
  <2>1. CASE Gates!Tick
    BY <2>1 DEF Gates!Tick
  <2>2. CASE Gates!ShutDown
    BY <2>2 DEF Gates!ShutDown
  <2>3. ASSUME NEW s \in SUBSET Gates!GateName, Gates!StartUp(s)
        PROVE  /\ UNCHANGED <<assessment, job, placed, asked, delivered, invalidated>>
               /\ process' \in [up : BOOLEAN, settings : SUBSET Gates!GateName]
               /\ clock' \in 0..MaxGateTime /\ clock <= clock'
    BY <2>3 DEF Gates!StartUp
  <2> QED
    BY <2>1, <2>2, <2>3
<1>2. GatesTypeOK'
  BY <1>1 DEF GatesIndInv, GatesTypeOK
<1> QED
  BY <1>1, <1>2, AssessmentsStay
     DEF GatesIndInv, Gates!BlockedOnce, Effects, EndsReachAll

(* Formal use is blocked once, before anything else (retention.py).        *)
LEMMA RetentionInv ==
    ASSUME GatesIndInv, Gates!RetentionSteps
    PROVE  GatesIndInv'
<1>1. UNCHANGED <<assessment, process, delivered, invalidated, clock>>
  BY DEF Gates!RetentionSteps, Gates!evaluate_retention_expiry, Gates!Dispose, Gates!SetHold
<1>2. /\ job.expires \in Nat /\ job.blocked \in SUBSET Nat /\ job.state \in RetentionStates
      /\ asked.expired \in Nat /\ asked.disposed \in Nat /\ clock \in Nat
      /\ GatesTypeOK /\ Gates!BlockedOnce
  BY GatesAssumption DEF GatesIndInv, GatesTypeOK
<1>3. GatesTypeOK' /\ Gates!BlockedOnce'
  <2>1. CASE Gates!evaluate_retention_expiry
    <3> DEFINE at == IF job.blocked = {} THEN {clock} ELSE job.blocked
               state == IF placed # {} THEN "WAITING_FOR_HOLD_RELEASE" ELSE "DISPOSITION_RUNNING"
    <3>0. job' = [job EXCEPT !.state = state, !.blocked = at]
      BY <2>1 DEF Gates!evaluate_retention_expiry, Gates!BlockedAt
    <3>1. /\ job'.expires = job.expires /\ job'.blocked = at
          /\ job' \in [state : RetentionStates, expires : Nat, blocked : SUBSET Nat]
      <4>1. state \in RetentionStates /\ at \in SUBSET Nat
        BY <1>2 DEF RetentionStates
      <4> HIDE DEF at, state
      <4> QED
        BY <1>2, <3>0, <4>1 DEF GatesTypeOK
    <3>2. /\ asked' \in [expired : Nat, disposed : Nat]
          /\ asked'.expired = IF job.blocked = {} THEN asked.expired + 1 ELSE asked.expired
      <4> DEFINE e == IF job.blocked = {} THEN asked.expired + 1 ELSE asked.expired
                 d == IF placed = {} THEN asked.disposed + 1 ELSE asked.disposed
      <4>1. asked' = [asked EXCEPT !.expired = e, !.disposed = d]
        BY <2>1, Zenon DEF Gates!evaluate_retention_expiry
      <4>2. e \in Nat /\ d \in Nat
        BY <1>2
      <4> HIDE DEF e, d
      <4>3. asked'.expired = e /\ asked' \in [expired : Nat, disposed : Nat]
        BY <1>2, <4>1, <4>2 DEF GatesTypeOK
      <4> QED
        BY <4>3 DEF e
    <3>3. clock >= job.expires /\ placed' = placed
      BY <2>1 DEF Gates!evaluate_retention_expiry
    <3>4. GatesTypeOK'
      BY <1>1, <1>2, <3>1, <3>2, <3>3 DEF GatesTypeOK
    <3> QED
      BY <1>2, <3>1, <3>2, <3>3, <3>4 DEF Gates!BlockedOnce
  <2>2. ASSUME NEW state \in {"COMPLETED", "FAILED_RETRYABLE", "ESCALATED"}, Gates!Dispose(state)
        PROVE  GatesTypeOK' /\ Gates!BlockedOnce'
    BY <1>1, <1>2, <2>2 DEF Gates!Dispose, GatesTypeOK, RetentionStates, Gates!BlockedOnce
  <2>3. ASSUME NEW h \in RetentionHolds, Gates!SetHold(h)
        PROVE  GatesTypeOK' /\ Gates!BlockedOnce'
    BY <1>1, <1>2, <2>3 DEF Gates!SetHold, GatesTypeOK, Gates!BlockedOnce
  <2> QED
    BY <2>1, <2>2, <2>3 DEF Gates!RetentionSteps
<1> QED
  BY <1>1, <1>3 DEF GatesIndInv, AssessmentsHold, Effects, EndsReachAll

(* Every effect of a change is stored with it (invalidation.py).           *)
LEMMA PropagateInv ==
    ASSUME GatesIndInv, NEW change \in Gates!UpstreamChangeType, NEW fields \in SUBSET Fields,
           Gates!propagate_change(change, fields)
    PROVE  GatesIndInv'
<1> DEFINE Hit == {x \in Edges : /\ Gates!INVALIDATION_MATRIX(change, x.kind) # Gates!None
                                 /\ Gates!touches(x, fields)}
<1>1. /\ UNCHANGED <<assessment, process, job, placed, asked, clock>>
      /\ delivered' = delivered \cup {<<change, fields>>}
      /\ invalidated' = invalidated \cup
            {<<change, e, Gates!INVALIDATION_MATRIX(change, e.kind)>> : e \in Hit}
  BY DEF Gates!propagate_change
<1>2. Effects'
  <2> SUFFICES ASSUME NEW v \in invalidated'
               PROVE  \E c \in Gates!UpstreamChangeType, e \in Edges :
                        /\ v = <<c, e, Gates!INVALIDATION_MATRIX(c, e.kind)>>
                        /\ Gates!INVALIDATION_MATRIX(c, e.kind) # Gates!None
                        /\ \E f \in SUBSET Fields :
                             <<c, f>> \in delivered' /\ Gates!touches(e, f)
    BY Zenon DEF Effects
  <2>1. CASE v \in invalidated
    BY <1>1, <2>1 DEF GatesIndInv, Effects
  <2>2. ASSUME NEW e \in Hit, v = <<change, e, Gates!INVALIDATION_MATRIX(change, e.kind)>>
        PROVE  \E c \in Gates!UpstreamChangeType, x \in Edges :
                        /\ v = <<c, x, Gates!INVALIDATION_MATRIX(c, x.kind)>>
                        /\ Gates!INVALIDATION_MATRIX(c, x.kind) # Gates!None
                        /\ \E f \in SUBSET Fields :
                             <<c, f>> \in delivered' /\ Gates!touches(x, f)
    BY <1>1, <2>2
  <2> QED
    BY <1>1, <2>1, <2>2
<1>3. EndsReachAll'
  <2> SUFFICES ASSUME NEW c \in Gates!Ending, <<c, {}>> \in delivered', NEW e \in Edges
               PROVE  <<c, e, "INVALIDATED">> \in invalidated'
    BY DEF EndsReachAll
  <2>1. CASE <<c, {}>> \in delivered
    BY <1>1, <2>1 DEF GatesIndInv, EndsReachAll
  <2>2. CASE c = change /\ fields = {}
    <3>1. Gates!INVALIDATION_MATRIX(c, e.kind) = "INVALIDATED"
      BY DEF Gates!INVALIDATION_MATRIX, Gates!Ending
    <3>2. e \in Hit
      BY <2>2, <3>1 DEF Gates!touches, Gates!None
    <3> QED
      BY <1>1, <2>2, <3>1, <3>2
  <2> QED
    BY <1>1, <2>1, <2>2
<1> QED
  BY <1>1, <1>2, <1>3 DEF GatesIndInv, GatesTypeOK, AssessmentsHold, Gates!BlockedOnce

LEMMA GatesNext == GatesIndInv /\ [Gates!Next]_(Gates!gateVars) => GatesIndInv'
<1> SUFFICES ASSUME GatesIndInv, [Gates!Next]_(Gates!gateVars) PROVE GatesIndInv'
  OBVIOUS
<1>1. CASE UNCHANGED Gates!gateVars
  BY <1>1 DEF Gates!gateVars, GatesIndInv, GatesTypeOK, AssessmentsHold, Gates!BlockedOnce,
              Effects, EndsReachAll
<1>2. CASE Gates!GateSteps
  BY <1>2, AssessInv, ProcessInv DEF Gates!GateSteps
<1>3. CASE Gates!Tick
  BY <1>3, ProcessInv
<1>4. CASE Gates!RetentionSteps
  BY <1>4, RetentionInv
<1>5. CASE Gates!InvalidationSteps
  BY <1>5, PropagateInv DEF Gates!InvalidationSteps
<1> QED
  BY <1>1, <1>2, <1>3, <1>4, <1>5 DEF Gates!Next

(* The inductive invariant of gates, retention and invalidation. *)
THEOREM GatesInvariance == Gates!Spec => []GatesIndInv
BY GatesInit, GatesNext, PTL DEF Gates!Spec

(* An open gate is proved, a retention job blocks formal use once and      *)
(* before anything else, and the end of a source reaches every dependent   *)
(* (gates.py, retention.py, invalidation.py), for any gates' evidence,     *)
(* holds and lineage.                                                      *)
THEOREM GatesAreSound ==
    /\ Gates!Spec => []Gates!GatesInv
    /\ MCSpec => []GatesInv
<1>1. ASSUME GatesIndInv PROVE Gates!GatesInv
  <2>1. Gates!TypeOK
    BY <1>1, GatesAssumption
       DEF GatesIndInv, GatesTypeOK, AssessmentsHold, Assessment, RetentionStates, Gates!TypeOK
  <2>2. Gates!OpenGateIsProved
    <3> SUFFICES ASSUME NEW g \in Gates!GateName, Gates!require(g)
                 PROVE  /\ clock < assessment[g].expires
                        /\ \A k \in Required[g] :
                             /\ k \in DOMAIN assessment[g].evidence
                             /\ assessment[g].evidence[k].status = "PASS"
                             /\ assessment[g].at < assessment[g].evidence[k].expires
      BY DEF Gates!OpenGateIsProved
    <3>1. assessment[g] \in Assessment /\ clock \in Nat /\ Passed(assessment[g], g)
      BY <1>1, GatesAssumption DEF GatesIndInv, GatesTypeOK, AssessmentsHold
    <3>2. assessment[g].expires > clock /\ assessment[g].status = "PASS"
      BY <3>1 DEF Gates!require, Gates!current, Assessment
    <3> QED
      BY <3>1, <3>2 DEF Passed, Assessment
  <2>3. Gates!EndingReachesAll
    <3>1. ASSUME NEW v \in invalidated
          PROVE  /\ v[1] \notin Gates!Silent
                 /\ \E fields \in SUBSET Fields :
                      <<v[1], fields>> \in delivered /\ (fields = {} \/ v[2].fields \cap fields # {})
                 /\ v = <<v[1], v[2], Gates!INVALIDATION_MATRIX(v[1], v[2].kind)>>
      <4>1. PICK change \in Gates!UpstreamChangeType, e \in Edges :
              /\ v = <<change, e, Gates!INVALIDATION_MATRIX(change, e.kind)>>
              /\ Gates!INVALIDATION_MATRIX(change, e.kind) # Gates!None
              /\ \E fields \in SUBSET Fields :
                   <<change, fields>> \in delivered /\ Gates!touches(e, fields)
        BY <1>1 DEF GatesIndInv, Effects
      <4>2. v[1] = change /\ v[2] = e
        BY <4>1
      <4>3. change \notin Gates!Silent
        BY <4>1 DEF Gates!INVALIDATION_MATRIX, Gates!Silent, Gates!Ending
      <4> QED
        BY <4>1, <4>2, <4>3 DEF Gates!touches
    <3>2. \A v, w \in invalidated : v[1] = w[1] /\ v[2] = w[2] => v = w
      BY <3>1
    <3> QED
      BY <1>1, <3>1, <3>2 DEF GatesIndInv, EndsReachAll, Gates!EndingReachesAll
  <2> QED
    BY <1>1, <2>1, <2>2, <2>3 DEF GatesIndInv, Gates!GatesInv
<1>2. Gates!Spec => []Gates!GatesInv
  BY <1>1, GatesInvariance, PTL
<1>3. MCInit => Gates!Init
  BY DEF MCInit
<1>4. MCNext => [Gates!Next]_(Gates!gateVars)
  BY Zenon DEF MCNext, gateVars, Gates!gateVars, GateSteps, ChangeSteps, Gates!Next
<1>5. UNCHANGED <<focus, updates, auditVars, draftVars, gateVars, accessVars>>
        => UNCHANGED Gates!gateVars
  BY Zenon DEF gateVars, Gates!gateVars
<1>6. MCSpec => Gates!Spec
  BY <1>3, <1>4, <1>5, PTL DEF MCSpec, Gates!Spec
<1>7. Gates!GatesInv => GatesInv
  BY DEF GatesInv
<1> QED
  BY <1>2, <1>6, <1>7, PTL

-----------------------------------------------------------------------------
(* Drafts.                                                                 *)

NameOrNone == Names \cup {Drafts!None}
NotesOrNone == Notes \cup {Drafts!None}

(* The hashes a stored version may carry. *)
Hashes ==
    {<<>>} \cup {<<"create", n, m>> : n \in NameOrNone, m \in NotesOrNone}
           \cup {<<"update", n, m>> : n \in NameOrNone, m \in NotesOrNone}
           \cup {<<"update", n>> : n \in NameOrNone}

Draft == [state : {"ABSENT", "DRAFT", "ARCHIVED"}, name : NameOrNone, notes : NotesOrNone,
          hash : Hashes, at : Nat]

DraftsTypeOK ==
    /\ item \in [Drafts!Items -> Draft]
    /\ seen \in [Editors -> [of : Drafts!Items \cup {0}, name : NameOrNone, etag : Hashes]]
    /\ edit \in [Editors -> [kind : {Drafts!None, "update", "archive"},
                             of : Drafts!Items \cup {0}, copy : Draft]]
    /\ walk \in [open : BOOLEAN, list : SUBSET Drafts!Items, cursor : Nat \X Nat,
                 got : SUBSET Drafts!Items, owed : SUBSET Drafts!Items, more : BOOLEAN]
    /\ time \in 0..MaxDraftTime

(* A hash is made of the name it was computed for. *)
Explains(hash, name) ==
    \/ hash = <<>> /\ name = Drafts!None
    \/ \E m \in NotesOrNone : hash = <<"create", name, m>> \/ hash = <<"update", name, m>>
    \/ hash = <<"update", name>>

(* Stored versions and the copies requests hold have hashes of their names *)
(* and times that have come.                                               *)
Genuine(d) == Explains(d.hash, d.name) /\ d.at <= time

HashesAreNames ==
    /\ \A i \in Drafts!Items : Genuine(item[i])
    /\ \A c \in Editors : /\ Genuine(edit[c].copy)
                          /\ Explains(seen[c].etag, seen[c].name)
                          /\ edit[c].kind # Drafts!None =>
                               edit[c].of \in Drafts!Items /\ edit[c].copy.state # "ABSENT"

(* What a walk owes it has returned, or still has before it. *)
WalkOwes ==
    /\ walk.got \subseteq walk.list
    /\ walk.open => \A i \in walk.owed :
         /\ i \in walk.list
         /\ item[i].state # "ABSENT"
         /\ i \in walk.got \/ (walk.more /\ Drafts!Before(walk.cursor, Drafts!Key(i)))

DraftsIndInv == DraftsTypeOK /\ HashesAreNames /\ WalkOwes

-----------------------------------------------------------------------------
(* One hash, one name. *)
LEMMA HashNamesOne ==
    ASSUME NEW hash, NEW a, NEW b, Explains(hash, a), Explains(hash, b) PROVE a = b
BY DEF Explains

(* The hashes of new versions are made of the new names. *)
LEMMA NewHashes ==
    ASSUME NEW i \in Drafts!Items, NEW copy \in Draft, NEW name \in NameOrNone,
           NEW notes \in NotesOrNone
    PROVE  /\ Drafts!CreateHash(i, name, notes) \in Hashes
           /\ Explains(Drafts!CreateHash(i, name, notes), name)
           /\ Drafts!UpdateHash(i, copy, name, notes) \in Hashes
           /\ Explains(Drafts!UpdateHash(i, copy, name, notes),
                       IF name = Drafts!None THEN copy.name ELSE name)
<1> DEFINE kept == IF name = Drafts!None THEN copy.name ELSE name
<1>1. kept \in NameOrNone
  BY DEF Draft
<1>2. Drafts!UpdateHash(i, copy, name, notes) =
        IF i \in Projects THEN <<"update", kept, notes>> ELSE <<"update", kept>>
  BY DEF Drafts!UpdateHash
<1> HIDE DEF kept
<1>3. /\ Drafts!UpdateHash(i, copy, name, notes) \in Hashes
      /\ Explains(Drafts!UpdateHash(i, copy, name, notes), kept)
  BY <1>1, <1>2 DEF Hashes, Explains
<1> QED
  BY <1>3 DEF kept, Hashes, Explains, Drafts!CreateHash

(* The order of the list: time of the version, then id. *)
LEMMA BeforeIsAnOrder ==
    ASSUME NEW a \in Nat \X Nat, NEW b \in Nat \X Nat, NEW c \in Nat \X Nat
    PROVE  /\ Drafts!Before(a, b) /\ Drafts!Before(b, c) => Drafts!Before(a, c)
           /\ a[2] # b[2] => Drafts!Before(a, b) \/ Drafts!Before(b, a)
<1>1. /\ a[1] \in Nat /\ a[2] \in Nat /\ b[1] \in Nat /\ b[2] \in Nat
      /\ c[1] \in Nat /\ c[2] \in Nat
  OBVIOUS
<1> QED
  BY <1>1 DEF Drafts!Before

LEMMA KeyType ==
    ASSUME DraftsTypeOK, NEW i \in Drafts!Items
    PROVE  Drafts!Key(i) \in Nat \X Nat /\ Drafts!Key(i)[2] = i /\ i \in Nat \ {0}
BY DraftsAssumption DEF DraftsTypeOK, Drafts!Items, Draft, Drafts!Key

(* A set of naturals that is not empty has a least element. *)
LEMMA LeastNatural ==
    ASSUME NEW S, S \subseteq Nat, S # {}
    PROVE  \E m \in S : \A n \in S : m <= n
<1> DEFINE Less == {ss \in Nat \X Nat : ss[1] < ss[2]}
<1>1. IsWellFoundedOn(Less, Nat)
  BY NatLessThanWellFounded DEF OpToRel
<1>2. PICK m \in S : \A n \in S : ~(<<n, m>> \in Less)
  BY <1>1, WFMin, Zenon
<1>3. \A n \in S : ~(n < m)
  BY <1>2
<1> QED
  BY <1>3

(* First picks the one item that comes before all others (services.py). *)
LEMMA FirstIsLeast ==
    ASSUME DraftsTypeOK, NEW S \in SUBSET Drafts!Items, S # {}
    PROVE  /\ Drafts!First(S) \in S
           /\ \A j \in S : j # Drafts!First(S) =>
                Drafts!Before(Drafts!Key(Drafts!First(S)), Drafts!Key(j))
<1>1. \A i \in S : item[i].at \in Nat /\ i \in Nat
  BY KeyType DEF DraftsTypeOK, Draft
<1> DEFINE Times == {item[i].at : i \in S}
<1>2. PICK t \in Times : \A u \in Times : t <= u
  BY <1>1, LeastNatural, ZenonT(60)
<1> DEFINE Ids == {i \in S : item[i].at = t}
<1>3. PICK i \in Ids : \A j \in Ids : i <= j
  <2>1. Ids \subseteq Nat /\ Ids # {}
    BY <1>1, <1>2
  <2> QED
    BY <2>1, LeastNatural
<1>4. \A j \in S : j # i => Drafts!Before(Drafts!Key(i), Drafts!Key(j))
  <2> SUFFICES ASSUME NEW j \in S, j # i
               PROVE  Drafts!Before(Drafts!Key(i), Drafts!Key(j))
    OBVIOUS
  <2>1. /\ item[i].at = t /\ t <= item[j].at /\ item[i].at \in Nat /\ item[j].at \in Nat
        /\ i \in Nat /\ j \in Nat
    BY <1>1, <1>2, <1>3
  <2>2. item[j].at = t => i <= j
    BY <1>3
  <2>3. item[i].at < item[j].at \/ (item[i].at = item[j].at /\ i < j)
    BY <2>1, <2>2
  <2> QED
    BY <2>3 DEF Drafts!Before, Drafts!Key
<1>5. \E k \in S : \A j \in S : j # k => Drafts!Before(Drafts!Key(k), Drafts!Key(j))
  BY <1>3, <1>4
<1> QED
  BY <1>5, Zenon DEF Drafts!First

-----------------------------------------------------------------------------
LEMMA DraftsInit == Drafts!Init => DraftsIndInv
<1> SUFFICES ASSUME Drafts!Init PROVE DraftsIndInv
  OBVIOUS
<1> USE DEF Drafts!Init
<1>1. Drafts!Nobody \in Draft /\ <<>> \in Hashes
  BY DEF Drafts!Nobody, Draft, NameOrNone, NotesOrNone, Hashes
<1>2. DraftsTypeOK
  BY <1>1, DraftsAssumption
     DEF DraftsTypeOK, Drafts!NoEdit, Drafts!NoWalk, NameOrNone
<1>3. HashesAreNames
  BY DraftsAssumption
     DEF HashesAreNames, Genuine, Explains, Drafts!Nobody, Drafts!NoEdit
<1>4. WalkOwes
  BY DEF WalkOwes, Drafts!NoWalk
<1> QED
  BY <1>2, <1>3, <1>4 DEF DraftsIndInv

(* Two items or versions of one item: a walk still owes what moves on.     *)
LEMMA WalkStays ==
    ASSUME DraftsIndInv, walk' = walk,
           \A i \in walk.owed : item'[i].state = item[i].state /\ item'[i].at = item[i].at
    PROVE  WalkOwes'
BY DEF DraftsIndInv, WalkOwes, Drafts!Key

(* A new item has the hash of its name. *)
LEMMA CreateInv ==
    ASSUME DraftsIndInv, NEW i \in Drafts!Items, NEW name \in Names, NEW notes \in Notes,
           Drafts!create(i, name, notes)
    PROVE  DraftsIndInv'
<1> DEFINE new == [state |-> "DRAFT", name |-> name, notes |-> notes,
                   hash |-> Drafts!CreateHash(i, name, notes), at |-> time]
<1>1. /\ item[i].state = "ABSENT" /\ item' = [item EXCEPT ![i] = new]
      /\ UNCHANGED <<seen, edit, walk, time>>
  BY DEF Drafts!create
<1>2. DraftsTypeOK /\ item[i] \in Draft /\ time \in Nat
  BY DraftsAssumption DEF DraftsIndInv, DraftsTypeOK
<1>3. new \in Draft /\ new.at = time /\ Explains(new.hash, new.name)
  BY <1>2, NewHashes DEF Draft, NameOrNone, NotesOrNone
<1> HIDE DEF new
<1>4. DraftsTypeOK'
  BY <1>1, <1>2, <1>3 DEF DraftsTypeOK
<1>5. \A j \in Drafts!Items : item'[j] = IF j = i THEN new ELSE item[j]
  BY <1>1, <1>2 DEF DraftsTypeOK
<1>6. HashesAreNames'
  BY <1>1, <1>2, <1>3, <1>5 DEF DraftsIndInv, HashesAreNames, Genuine
<1>7. WalkOwes'
  BY <1>1, <1>2, <1>5 DEF DraftsIndInv, DraftsTypeOK, WalkOwes, Drafts!Key
<1> QED
  BY <1>4, <1>6, <1>7 DEF DraftsIndInv

(* A reader learns a name with its hash. *)
LEMMA GetInv ==
    ASSUME DraftsIndInv, NEW c \in Editors, NEW i \in Drafts!Items, Drafts!get(c, i)
    PROVE  DraftsIndInv'
<1> DEFINE new == [of |-> i, name |-> item[i].name, etag |-> item[i].hash]
<1>1. seen' = [seen EXCEPT ![c] = new] /\ UNCHANGED <<item, edit, walk, time>>
  BY DEF Drafts!get
<1>2. DraftsTypeOK /\ item[i] \in Draft
  BY DEF DraftsIndInv, DraftsTypeOK
<1>3. /\ new \in [of : Drafts!Items \cup {0}, name : NameOrNone, etag : Hashes]
      /\ Explains(new.etag, new.name)
  BY <1>2 DEF Draft, DraftsIndInv, HashesAreNames, Genuine
<1> HIDE DEF new
<1>4. DraftsTypeOK'
  BY <1>1, <1>2, <1>3 DEF DraftsTypeOK
<1>5. \A d \in Editors : seen'[d] = IF d = c THEN new ELSE seen[d]
  BY <1>1, <1>2 DEF DraftsTypeOK
<1>6. HashesAreNames'
  BY <1>1, <1>3, <1>5 DEF DraftsIndInv, HashesAreNames, Genuine
<1> QED
  BY <1>1, <1>4, <1>6, WalkStays DEF DraftsIndInv

(* A request takes a copy and gives it the hash of the new name. *)
LEMMA BeginInv ==
    ASSUME DraftsIndInv, NEW c \in Editors, NEW i \in Drafts!Items,
           \/ Drafts!BeginArchive(c, i)
           \/ \E name \in NameOrNone, notes \in NotesOrNone :
                Drafts!BeginUpdate(c, i, name, notes)
    PROVE  DraftsIndInv'
<1>1. DraftsTypeOK /\ item[i] \in Draft /\ time \in Nat /\ Genuine(item[i])
  BY DraftsAssumption DEF DraftsIndInv, DraftsTypeOK, HashesAreNames
<1>2. PICK kind \in {"update", "archive"}, copy \in Draft :
        /\ edit' = [edit EXCEPT ![c] = [kind |-> kind, of |-> i, copy |-> copy]]
        /\ Genuine(copy) /\ copy.state # "ABSENT"
        /\ UNCHANGED <<item, seen, walk, time>>
  <2>1. ASSUME Drafts!BeginArchive(c, i)
        PROVE  \E kind \in {"update", "archive"}, copy \in Draft :
                 /\ edit' = [edit EXCEPT ![c] = [kind |-> kind, of |-> i, copy |-> copy]]
                 /\ Genuine(copy) /\ copy.state # "ABSENT"
                 /\ UNCHANGED <<item, seen, walk, time>>
    <3> DEFINE copy == [item[i] EXCEPT !.state = "ARCHIVED"]
    <3>1. copy \in Draft /\ Genuine(copy) /\ copy.state # "ABSENT"
      BY <1>1 DEF Draft, Genuine
    <3> HIDE DEF copy
    <3>2. /\ edit' = [edit EXCEPT ![c] = [kind |-> "archive", of |-> i, copy |-> copy]]
          /\ UNCHANGED <<item, seen, walk, time>>
      BY <2>1 DEF copy, Drafts!BeginArchive
    <3> QED
      BY <3>1, <3>2
  <2>2. ASSUME NEW name \in NameOrNone, NEW notes \in NotesOrNone,
               Drafts!BeginUpdate(c, i, name, notes)
        PROVE  \E kind \in {"update", "archive"}, copy \in Draft :
                 /\ edit' = [edit EXCEPT ![c] = [kind |-> kind, of |-> i, copy |-> copy]]
                 /\ Genuine(copy) /\ copy.state # "ABSENT"
                 /\ UNCHANGED <<item, seen, walk, time>>
    <3> DEFINE kept == IF name = Drafts!None THEN item[i].name ELSE name
               noted == IF notes = Drafts!None THEN item[i].notes ELSE notes
               hash == Drafts!UpdateHash(i, item[i], name, notes)
               copy == [item[i] EXCEPT !.name = kept, !.notes = noted, !.hash = hash, !.at = time]
    <3>1. kept \in NameOrNone /\ noted \in NotesOrNone /\ hash \in Hashes /\ Explains(hash, kept)
      BY <1>1, NewHashes DEF Draft
    <3>2. item[i].state = "DRAFT"
      BY <2>2 DEF Drafts!BeginUpdate, Drafts!Updatable
    <3>3. /\ edit' = [edit EXCEPT ![c] = [kind |-> "update", of |-> i, copy |-> copy]]
          /\ UNCHANGED <<item, seen, walk, time>>
      BY <2>2, Zenon DEF Drafts!BeginUpdate
    <3> HIDE DEF kept, noted, hash
    <3>4. /\ copy \in Draft /\ copy.state # "ABSENT"
          /\ copy.name = kept /\ copy.hash = hash /\ copy.at = time
      BY <1>1, <3>1, <3>2 DEF Draft
    <3>5. time <= time
      BY <1>1
    <3> HIDE DEF copy
    <3>6. Genuine(copy)
      BY <3>1, <3>4, <3>5, Zenon DEF Genuine
    <3> QED
      BY <3>3, <3>4, <3>6
  <2> QED
    BY <2>1, <2>2
<1>3. DraftsTypeOK'
  BY <1>1, <1>2 DEF DraftsTypeOK
<1>4. \A d \in Editors : edit'[d] = IF d = c THEN [kind |-> kind, of |-> i, copy |-> copy]
                                   ELSE edit[d]
  BY <1>1, <1>2 DEF DraftsTypeOK
<1>5. HashesAreNames'
  BY <1>2, <1>4 DEF DraftsIndInv, HashesAreNames, Genuine
<1> QED
  BY <1>2, <1>3, <1>5, WalkStays DEF DraftsIndInv

(* A copy that is stored moves its item on, or the walk no longer owes it. *)
LEMMA StoreInv ==
    ASSUME DraftsIndInv, NEW c \in Editors, Drafts!Store(c)
    PROVE  DraftsIndInv'
<1>1. PICK i, copy, owed :
        /\ i = edit[c].of /\ copy = edit[c].copy
        /\ item' = [item EXCEPT ![i] = copy]
        /\ edit' = [edit EXCEPT ![c] = Drafts!NoEdit]
        /\ walk' = [walk EXCEPT !.owed = owed]
        /\ owed = IF copy.at < item[i].at THEN walk.owed \ {i} ELSE walk.owed
        /\ UNCHANGED <<seen, time>>
  BY DEF Drafts!Store
<1>2. /\ DraftsTypeOK /\ HashesAreNames /\ WalkOwes
      /\ i \in Drafts!Items /\ copy \in Draft /\ Genuine(copy) /\ copy.state # "ABSENT"
      /\ item[i] \in Draft
  BY <1>1 DEF DraftsIndInv, DraftsTypeOK, HashesAreNames, Drafts!Store
<1>3. Drafts!Nobody \in Draft /\ 0 <= time /\ time' = time
  BY <1>1, <1>2, DraftsAssumption
     DEF Drafts!Nobody, Draft, NameOrNone, NotesOrNone, Hashes, DraftsTypeOK
<1>4. \A j \in Drafts!Items : item'[j] = IF j = i THEN copy ELSE item[j]
  BY <1>1, <1>2 DEF DraftsTypeOK
<1>5. \A d \in Editors : edit'[d] = IF d = c THEN Drafts!NoEdit ELSE edit[d]
  BY <1>1, <1>2 DEF DraftsTypeOK
<1>6. /\ walk'.open = walk.open /\ walk'.list = walk.list /\ walk'.cursor = walk.cursor
      /\ walk'.got = walk.got /\ walk'.more = walk.more /\ walk'.owed = owed
      /\ walk' \in [open : BOOLEAN, list : SUBSET Drafts!Items, cursor : Nat \X Nat,
                    got : SUBSET Drafts!Items, owed : SUBSET Drafts!Items, more : BOOLEAN]
  BY <1>1, <1>2 DEF DraftsTypeOK
<1>7. DraftsTypeOK'
  BY <1>1, <1>2, <1>3, <1>6 DEF DraftsTypeOK, Drafts!NoEdit
<1>8. HashesAreNames'
  <2>1. \A j \in Drafts!Items : Genuine(item[j])'
    BY <1>2, <1>3, <1>4 DEF HashesAreNames, Genuine
  <2>2. \A d \in Editors : Explains(seen[d].etag, seen[d].name)'
    BY <1>1, <1>2 DEF HashesAreNames
  <2>3. ASSUME NEW d \in Editors
        PROVE  /\ Genuine(edit[d].copy)'
               /\ (edit[d].kind # Drafts!None =>
                     edit[d].of \in Drafts!Items /\ edit[d].copy.state # "ABSENT")'
    <3>1. CASE d = c
      <4>1. Explains(Drafts!Nobody.hash, Drafts!Nobody.name) /\ Drafts!Nobody.at = 0
        BY DEF Explains, Drafts!Nobody
      <4>2. edit'[d].copy = Drafts!Nobody /\ edit'[d].kind = Drafts!None
        BY <1>5, <3>1 DEF Drafts!NoEdit
      <4> QED
        BY <1>3, <4>1, <4>2 DEF Genuine
    <3>2. CASE d # c
      <4>1. edit'[d] = edit[d]
        BY <1>5, <3>2
      <4> QED
        BY <1>2, <1>3, <4>1 DEF HashesAreNames, Genuine
    <3> QED
      BY <3>1, <3>2
  <2> QED
    BY <2>1, <2>2, <2>3 DEF HashesAreNames
<1>9. WalkOwes'
  <2> SUFFICES ASSUME walk.open, NEW j \in owed
               PROVE  /\ j \in walk.list
                      /\ item'[j].state # "ABSENT"
                      /\ \/ j \in walk.got
                         \/ walk.more /\ Drafts!Before(walk.cursor, Drafts!Key(j)')
    BY <1>2, <1>6 DEF WalkOwes, Drafts!Before
  <2>1. /\ j \in walk.owed /\ j \in Drafts!Items /\ j \in walk.list /\ item[j].state # "ABSENT"
        /\ j \in walk.got \/ (walk.more /\ Drafts!Before(walk.cursor, Drafts!Key(j)))
    BY <1>1, <1>2 DEF WalkOwes, DraftsTypeOK
  <2>2. CASE j # i
    BY <1>4, <2>1, <2>2 DEF Drafts!Key
  <2>3. CASE j = i
    <3>1. ~(copy.at < item[i].at)
      BY <1>1, <2>3
    <3>2. item[j].at \in Nat /\ item'[j].at \in Nat /\ item[j].at <= item'[j].at
      BY <1>2, <1>4, <2>3, <3>1 DEF Draft
    <3>3. /\ walk.cursor \in Nat \X Nat /\ walk.cursor[1] \in Nat /\ walk.cursor[2] \in Nat
          /\ j \in Nat
      BY <1>2, <2>1, KeyType DEF DraftsTypeOK
    <3>4. Drafts!Before(walk.cursor, Drafts!Key(j)) =>
            Drafts!Before(walk.cursor, Drafts!Key(j)')
      BY <3>2, <3>3 DEF Drafts!Before, Drafts!Key
    <3> QED
      BY <1>2, <1>4, <2>1, <2>3, <3>4
  <2> QED
    BY <2>2, <2>3
<1> QED
  BY <1>7, <1>8, <1>9 DEF DraftsIndInv

-----------------------------------------------------------------------------
(* A walk starts before every item it owes. *)
LEMMA ListInv ==
    ASSUME DraftsIndInv, NEW l \in {Projects, DraftUnits}, Drafts!list(l)
    PROVE  DraftsIndInv'
<1> DEFINE owed == {i \in l : item[i].state # "ABSENT"}
<1>1. /\ walk' = [Drafts!NoWalk EXCEPT !.open = TRUE, !.list = l, !.owed = owed]
      /\ UNCHANGED <<item, seen, edit, time>>
  BY DEF Drafts!list
<1>2. /\ walk' \in [open : BOOLEAN, list : SUBSET Drafts!Items, cursor : Nat \X Nat,
                    got : SUBSET Drafts!Items, owed : SUBSET Drafts!Items, more : BOOLEAN]
      /\ walk'.cursor = <<0, 0>> /\ walk'.got = {} /\ walk'.more /\ walk'.list = l
      /\ walk'.owed = owed
  BY <1>1 DEF Drafts!NoWalk, Drafts!Items
<1>3. DraftsTypeOK' /\ HashesAreNames'
  BY <1>1, <1>2 DEF DraftsIndInv, DraftsTypeOK, HashesAreNames, Genuine
<1>4. \A i \in owed : Drafts!Before(<<0, 0>>, Drafts!Key(i))
  <2> SUFFICES ASSUME NEW i \in owed PROVE Drafts!Before(<<0, 0>>, Drafts!Key(i))
    OBVIOUS
  <2>1. i \in Nat \ {0} /\ item[i].at \in Nat
    BY KeyType DEF DraftsIndInv, DraftsTypeOK, Draft, Drafts!Items
  <2> QED
    BY <2>1 DEF Drafts!Before, Drafts!Key
<1>5. WalkOwes'
  BY <1>1, <1>2, <1>4 DEF WalkOwes, Drafts!Key
<1> QED
  BY <1>3, <1>5 DEF DraftsIndInv

(* A page returns the first of what is left; the rest is still before the  *)
(* new cursor.                                                             *)
LEMMA PaginateInv == ASSUME DraftsIndInv, Drafts!paginate PROVE DraftsIndInv'
<1> DEFINE first == Drafts!First(Drafts!Rest)
           Left == {i \in walk.owed : i \notin walk.got}
<1>1. /\ walk.open /\ walk.more /\ UNCHANGED <<item, seen, edit, time>>
      /\ DraftsTypeOK /\ HashesAreNames /\ WalkOwes
  BY DEF Drafts!paginate, DraftsIndInv
<1>2. Drafts!Rest \in SUBSET Drafts!Items /\ Drafts!Rest \subseteq walk.list
  BY <1>1 DEF Drafts!Rest, DraftsTypeOK
<1>3. Left \subseteq Drafts!Rest
  BY <1>1 DEF WalkOwes, Drafts!Rest
<1>4. HashesAreNames'
  BY <1>1 DEF HashesAreNames, Genuine
<1>5. CASE Drafts!Rest = {}
  <2>1. walk' = [walk EXCEPT !.more = FALSE]
    BY <1>5 DEF Drafts!paginate
  <2>2. DraftsTypeOK'
    BY <1>1, <2>1 DEF DraftsTypeOK
  <2>3. walk'.got = walk.got /\ walk'.list = walk.list /\ walk'.owed = walk.owed
    BY <1>1, <2>1 DEF DraftsTypeOK
  <2>4. WalkOwes'
    BY <1>1, <1>3, <1>5, <2>3 DEF WalkOwes
  <2> QED
    BY <1>4, <2>2, <2>4 DEF DraftsIndInv
<1>6. CASE Drafts!Rest # {}
  <2>1. walk' = [walk EXCEPT !.got = walk.got \cup {first}, !.cursor = Drafts!NextCursor(first),
                             !.more = Drafts!Rest \ {first} # {}]
    BY <1>6 DEF Drafts!paginate
  <2>2. /\ first \in Drafts!Rest
        /\ \A j \in Drafts!Rest : j # first => Drafts!Before(Drafts!Key(first), Drafts!Key(j))
    BY <1>1, <1>2, <1>6, FirstIsLeast
  <2> HIDE DEF first
  <2>3. Drafts!NextCursor(first) = Drafts!Key(first) /\ Drafts!Key(first) \in Nat \X Nat
    BY <1>1, <1>2, <2>2, KeyType DEF Drafts!NextCursor
  <2>4. /\ walk'.got = walk.got \cup {first} /\ walk'.cursor = Drafts!Key(first)
        /\ walk'.list = walk.list /\ walk'.owed = walk.owed /\ walk'.open = walk.open
        /\ walk'.more = (Drafts!Rest \ {first} # {})
        /\ walk' \in [open : BOOLEAN, list : SUBSET Drafts!Items, cursor : Nat \X Nat,
                      got : SUBSET Drafts!Items, owed : SUBSET Drafts!Items, more : BOOLEAN]
    BY <1>1, <1>2, <2>1, <2>2, <2>3 DEF DraftsTypeOK
  <2>5. DraftsTypeOK'
    BY <1>1, <2>4 DEF DraftsTypeOK
  <2>6. WalkOwes'
    <3>1. walk'.got \subseteq walk'.list
      BY <1>1, <1>2, <2>2, <2>4 DEF WalkOwes
    <3>2. ASSUME NEW i \in walk.owed
          PROVE  /\ i \in walk.list /\ item[i].state # "ABSENT"
                 /\ \/ i \in walk.got \cup {first}
                    \/ /\ Drafts!Rest \ {first} # {}
                       /\ Drafts!Before(Drafts!Key(first), Drafts!Key(i))
      BY <1>1, <1>3, <2>2 DEF WalkOwes
    <3> QED
      BY <1>1, <2>4, <3>1, <3>2 DEF WalkOwes, Drafts!Key, Drafts!Before
  <2> QED
    BY <1>4, <2>5, <2>6 DEF DraftsIndInv
<1> QED
  BY <1>5, <1>6

(* Time passes. *)
LEMMA TickInv == ASSUME DraftsIndInv, Drafts!Tick PROVE DraftsIndInv'
<1>1. /\ UNCHANGED <<item, seen, edit, walk>> /\ time \in Nat /\ time' = time + 1
      /\ time' \in 0..MaxDraftTime /\ DraftsTypeOK /\ HashesAreNames
  BY DraftsAssumption DEF Drafts!Tick, DraftsIndInv, DraftsTypeOK
<1>2. DraftsTypeOK'
  BY <1>1 DEF DraftsTypeOK
<1>3. \A d \in Draft : d.at <= time => d.at <= time'
  BY <1>1 DEF Draft
<1>4. HashesAreNames'
  BY <1>1, <1>3 DEF DraftsTypeOK, HashesAreNames, Genuine
<1> QED
  BY <1>1, <1>2, <1>4, WalkStays DEF DraftsIndInv

LEMMA DraftsNext == DraftsIndInv /\ [Drafts!Next]_(Drafts!draftVars) => DraftsIndInv'
<1> SUFFICES ASSUME DraftsIndInv, [Drafts!Next]_(Drafts!draftVars) PROVE DraftsIndInv'
  OBVIOUS
<1>1. CASE UNCHANGED Drafts!draftVars
  BY <1>1 DEF Drafts!draftVars, DraftsIndInv, DraftsTypeOK, HashesAreNames, Genuine, WalkOwes,
              Drafts!Key
<1>2. ASSUME NEW S \in {Projects, DraftUnits}, Drafts!ItemRequests(S) PROVE DraftsIndInv'
  <2>1. S \subseteq Drafts!Items
    BY DEF Drafts!Items
  <2> QED
    BY <1>2, <2>1, CreateInv, GetInv, BeginInv DEF Drafts!ItemRequests, NameOrNone, NotesOrNone
<1>3. CASE \E c \in Editors : Drafts!Store(c)
  BY <1>3, StoreInv
<1>4. CASE Drafts!list(Projects) \/ Drafts!list(DraftUnits)
  BY <1>4, ListInv
<1>5. CASE Drafts!paginate \/ Drafts!Tick
  BY <1>5, PaginateInv, TickInv
<1> QED
  BY <1>1, <1>2, <1>3, <1>4, <1>5
     DEF Drafts!Next, Drafts!ProjectRequests, Drafts!UnitRequests

(* The inductive invariant of drafts and walks over them. *)
THEOREM DraftsInvariance == Drafts!Spec => []DraftsIndInv
BY DraftsInit, DraftsNext, PTL DEF Drafts!Spec

(* A client whose ETag matches knows the item's name, and a finished walk  *)
(* has returned every item that was there throughout and was not written   *)
(* back with an older version (projects services.py), for any ids, clients *)
(* and interleaved requests.                                               *)
THEOREM DraftsAreSound ==
    /\ Drafts!Spec => []Drafts!DraftsInv
    /\ MCSpec => []DraftsInv
<1>1. ASSUME DraftsIndInv PROVE Drafts!DraftsInv
  <2>1. Drafts!TypeOK
    BY <1>1, DraftsAssumption
       DEF DraftsIndInv, DraftsTypeOK, HashesAreNames, Genuine, WalkOwes, Draft, Drafts!TypeOK
  <2>2. Drafts!MatchingEtagKnowsName
    BY <1>1, HashNamesOne
       DEF DraftsIndInv, HashesAreNames, Genuine, Drafts!MatchingEtagKnowsName
  <2>3. Drafts!DraftWalkMissesNothing
    BY <1>1 DEF DraftsIndInv, WalkOwes, Drafts!DraftWalkMissesNothing
  <2> QED
    BY <2>1, <2>2, <2>3 DEF Drafts!DraftsInv
<1>2. Drafts!Spec => []Drafts!DraftsInv
  BY <1>1, DraftsInvariance, PTL
<1>3. MCInit => Drafts!Init
  BY DEF MCInit
<1>4. MCNext => [Drafts!Next]_(Drafts!draftVars)
  BY Zenon DEF MCNext, draftVars, Drafts!draftVars, DraftSteps, Drafts!Next
<1>5. UNCHANGED <<focus, updates, auditVars, draftVars, gateVars, accessVars>>
        => UNCHANGED Drafts!draftVars
  BY Zenon DEF draftVars, Drafts!draftVars
<1>6. MCSpec => Drafts!Spec
  BY <1>3, <1>4, <1>5, PTL DEF MCSpec, Drafts!Spec
<1>7. Drafts!DraftsInv => DraftsInv
  BY DEF DraftsInv
<1> QED
  BY <1>2, <1>6, <1>7, PTL

-----------------------------------------------------------------------------
(* The audit chain.                                                        *)

(* How many elements of a set of positions are not after i. *)
Rank(M, i) == Cardinality({j \in M : j <= i})

(* Ranks number the elements of a set of positions in their order. *)
LEMMA Ranks ==
    ASSUME NEW m \in Nat, NEW M \in SUBSET (1..m)
    PROVE  /\ Cardinality(M) \in Nat
           /\ \A i \in M : Rank(M, i) \in 1..Cardinality(M)
           /\ \A i, j \in M : i < j => Rank(M, i) < Rank(M, j)
           /\ \A k \in 1..Cardinality(M) : \E i \in M : Rank(M, i) = k
<1> DEFINE Upto(i) == {j \in M : j <= i}
<1>1. IsFiniteSet(M) /\ Cardinality(M) \in Nat
  <2>1. 1 \in Int /\ m \in Int
    OBVIOUS
  <2>2. IsFiniteSet(1..m)
    BY <2>1, FS_Interval
  <2>3. IsFiniteSet(M)
    BY <2>2, FS_Subset
  <2> QED
    BY <2>3, FS_CardinalityType
<1>2. ASSUME NEW i \in M
      PROVE  /\ IsFiniteSet(Upto(i)) /\ Cardinality(Upto(i)) \in Nat
             /\ 1 <= Cardinality(Upto(i)) /\ Cardinality(Upto(i)) <= Cardinality(M)
  <2>1. IsFiniteSet(Upto(i)) /\ Cardinality(Upto(i)) <= Cardinality(M)
    BY <1>1, FS_Subset
  <2>2. Cardinality(Upto(i)) \in Nat
    BY <2>1, FS_CardinalityType
  <2>3. i \in Upto(i)
    OBVIOUS
  <2>4. Cardinality(Upto(i)) # 0
    <3> HIDE DEF Upto
    <3> QED
      BY <2>1, <2>3, FS_EmptySet
  <2> QED
    BY <2>1, <2>2, <2>4
<1>3. ASSUME NEW i \in M, NEW j \in M, i < j
      PROVE  Cardinality(Upto(i)) < Cardinality(Upto(j))
  <2>0. \A x \in M : x \in Int
    OBVIOUS
  <2>1. Upto(i) \in SUBSET (Upto(j) \ {j}) /\ j \in Upto(j)
    <3>1. ASSUME NEW x \in M, x <= i PROVE x <= j /\ x # j
      BY <1>3, <2>0, <3>1
    <3>2. j <= j
      BY <2>0
    <3> QED
      BY <3>1, <3>2, Zenon
  <2>2. /\ IsFiniteSet(Upto(j) \ {j})
        /\ Cardinality(Upto(j) \ {j}) = Cardinality(Upto(j)) - 1
    BY <1>2, <2>1, FS_RemoveElement
  <2>3. Cardinality(Upto(i)) <= Cardinality(Upto(j) \ {j})
    BY <2>1, <2>2, FS_Subset
  <2> QED
    BY <1>2, <2>2, <2>3
<1> DEFINE N == Cardinality(M)
           f == [i \in M |-> Cardinality(Upto(i))]
<1>4. f \in Injection(M, 1..N)
  <2>1. f \in [M -> 1..N]
    BY <1>1, <1>2
  <2>2. \A i, j \in M : f[i] = f[j] => i = j
    <3> SUFFICES ASSUME NEW i \in M, NEW j \in M, i # j PROVE f[i] # f[j]
      OBVIOUS
    <3>1. i < j \/ j < i
      OBVIOUS
    <3> QED
      BY <1>2, <1>3, <3>1
  <2> QED
    BY <2>1, <2>2 DEF Injection, IsInjective
<1>5. IsFiniteSet(1..N) /\ Cardinality(1..N) = N
  BY <1>1, FS_Interval
<1>6. f \in Surjection(M, 1..N)
  BY <1>1, <1>4, <1>5, FS_Injection
<1>7. \A k \in 1..N : \E i \in M : f[i] = k
  BY <1>6 DEF Surjection
<1> QED
  BY <1>1, <1>2, <1>3, <1>7 DEF Rank

(* Nth numbers a scope's events in the order of the list. *)
LEMMA NthNumbers ==
    ASSUME NEW S, events \in Seq(S), NEW s
    PROVE  /\ Cardinality(Matches(s)) \in Nat
           /\ \A k \in 1..Cardinality(Matches(s)) : Nth(s, k) \in Matches(s)
           /\ \A i \in Matches(s) : \E k \in 1..Cardinality(Matches(s)) : Nth(s, k) = i
           /\ \A k, l \in 1..Cardinality(Matches(s)) : k < l => Nth(s, k) < Nth(s, l)
<1> DEFINE M == Matches(s)
           N == Cardinality(Matches(s))
<1>1. M \in SUBSET (1..Len(events)) /\ Len(events) \in Nat
  BY DEF Matches
<1>2. /\ N \in Nat
      /\ \A i \in M : Rank(M, i) \in 1..N
      /\ \A i, j \in M : i < j => Rank(M, i) < Rank(M, j)
      /\ \A k \in 1..N : \E i \in M : Rank(M, i) = k
  BY <1>1, Ranks
<1>3. ASSUME NEW k \in 1..N PROVE Nth(s, k) \in M /\ Rank(M, Nth(s, k)) = k
  <2>1. \E i \in Matches(s) : Cardinality({j \in Matches(s) : j <= i}) = k
    BY <1>2 DEF Rank
  <2> QED
    BY <2>1 DEF Nth, Rank
<1>4. \A i, j \in M : Rank(M, i) = Rank(M, j) => i = j
  <2> SUFFICES ASSUME NEW i \in M, NEW j \in M, i # j PROVE Rank(M, i) # Rank(M, j)
    OBVIOUS
  <2>1. i \in Nat /\ j \in Nat
    BY <1>1
  <2>2. i < j \/ j < i
    BY <2>1
  <2> HIDE DEF M, N
  <2> QED
    BY <1>2, <2>2
<1>5. ASSUME NEW i \in M PROVE \E k \in 1..N : Nth(s, k) = i
  BY <1>2, <1>3, <1>4
<1>6. ASSUME NEW k \in 1..N, NEW l \in 1..N, k < l PROVE Nth(s, k) < Nth(s, l)
  <2>1. Nth(s, k) \in M /\ Nth(s, l) \in M /\ Nth(s, k) \in Nat /\ Nth(s, l) \in Nat
    BY <1>1, <1>3
  <2>2. Nth(s, k) # Nth(s, l) /\ ~(Nth(s, l) < Nth(s, k))
    BY <1>2, <1>3, <1>6, <2>1
  <2> QED
    BY <2>1, <2>2
<1> QED
  BY <1>2, <1>3, <1>5, <1>6

-----------------------------------------------------------------------------
HandlerSteps == {"idle", "changed", "waiting", "linked"}

AuditTypeOK ==
    /\ \E S : events \in Seq(S)
    /\ available \in BOOLEAN
    /\ lock \in Handlers \cup {None}
    /\ \E P : handler \in [Handlers -> [step : HandlerSteps, scope : Scopes \cup {None},
                                       outcome : Outcomes \cup {None}, previous : P]]

(* The event at place j is the last of its scope before place i. *)
Precedes(j, i) ==
    /\ j < i /\ events[j].scope = events[i].scope
    /\ \A k \in DOMAIN events : j < k /\ k < i => events[k].scope # events[i].scope

(* An event is genuine, and holds the hash of the one before it. *)
Linked(i) ==
    /\ events[i] = AuditEvent(i, events[i].scope, events[i].outcome, events[i].previous_hash)
    /\ \/ /\ events[i].previous_hash = GENESIS_HASH
          /\ \A k \in DOMAIN events : k < i => events[k].scope # events[i].scope
       \/ \E j \in DOMAIN events : Precedes(j, i) /\ events[i].previous_hash = events[j].event_hash

EventsAreLinked == \A i \in DOMAIN events : Linked(i)

(* The handler that has read the head of its chain holds the lock, and the *)
(* head is still what it read.                                             *)
WriterKnowsHead ==
    \A h \in Handlers : handler[h].step = "linked" =>
      /\ lock = h
      /\ handler[h].previous = latest_hash(handler[h].scope)

AuditIndInv == AuditTypeOK /\ EventsAreLinked /\ WriterKnowsHead

(* latest_hash reads the last event of the scope. *)
LEMMA LatestIsLast ==
    ASSUME NEW S, events \in Seq(S), NEW s
    PROVE  \/ Matches(s) = {} /\ latest_hash(s) = GENESIS_HASH
           \/ \E j \in Matches(s) : /\ \A k \in Matches(s) : k <= j
                                    /\ latest_hash(s) = events[j].event_hash
<1> SUFFICES ASSUME Matches(s) # {}
             PROVE  \E j \in Matches(s) : /\ \A k \in Matches(s) : k <= j
                                          /\ latest_hash(s) = events[j].event_hash
  BY DEF latest_hash
<1> DEFINE Bounds == {b \in Nat : \A k \in Matches(s) : k <= b}
<1>1. Matches(s) \subseteq 1..Len(events) /\ Len(events) \in Nat
  BY DEF Matches
<1>2. PICK b \in Bounds : \A n \in Bounds : b <= n
  <2>1. Len(events) \in Bounds
    BY <1>1
  <2> QED
    BY <2>1, LeastNatural
<1>3. b \in Matches(s)
  <2> SUFFICES ASSUME b \notin Matches(s) PROVE FALSE
    OBVIOUS
  <2>1. PICK k \in Matches(s) : TRUE
    OBVIOUS
  <2>2. k \in Nat \ {0} /\ k <= b /\ b \in Nat
    BY <1>1
  <2>3. \A n \in Matches(s) : n \in Nat /\ n <= b /\ n # b
    BY <1>1
  <2>4. b - 1 \in Bounds
    BY <2>2, <2>3
  <2> QED
    BY <1>2, <2>2, <2>4
<1>4. \E j \in Matches(s) : \A k \in Matches(s) : k <= j
  BY <1>3
<1> DEFINE last == CHOOSE j \in Matches(s) : \A k \in Matches(s) : k <= j
<1>5. last \in Matches(s) /\ \A k \in Matches(s) : k <= last
  BY <1>4
<1>6. latest_hash(s) = events[last].event_hash
  BY DEF latest_hash
<1> QED
  BY <1>5, <1>6

LEMMA AuditInit == Init => AuditIndInv
<1> SUFFICES ASSUME Init PROVE AuditIndInv
  OBVIOUS
<1> USE DEF Init
<1>1. events \in Seq({}) /\ DOMAIN events = {}
  OBVIOUS
<1>2. handler \in [Handlers -> [step : HandlerSteps, scope : Scopes \cup {None},
                                outcome : Outcomes \cup {None}, previous : {GENESIS_HASH}]]
  BY DEF Idle, HandlerSteps
<1>3. AuditTypeOK
  BY <1>1, <1>2 DEF AuditTypeOK
<1>4. EventsAreLinked /\ WriterKnowsHead
  BY <1>1 DEF EventsAreLinked, WriterKnowsHead, Idle
<1> QED
  BY <1>3, <1>4 DEF AuditIndInv

(* Handlers move, and one of them takes the lock and reads the head. *)
LEMMA HandlersInv ==
    ASSUME AuditIndInv, NEW h \in Handlers,
           \/ \E s \in Scopes, o \in Outcomes : require_audit(h, s, o)
           \/ BeginWrite(h) \/ Acquire(h)
    PROVE  AuditIndInv'
<1>1. AuditTypeOK /\ UNCHANGED <<events, available>>
  BY DEF AuditIndInv, require_audit, BeginWrite, Acquire
<1>2. PICK P : handler \in [Handlers -> [step : HandlerSteps, scope : Scopes \cup {None},
                                         outcome : Outcomes \cup {None}, previous : P]]
  BY <1>1 DEF AuditTypeOK
<1> DEFINE H == [step : HandlerSteps, scope : Scopes \cup {None}, outcome : Outcomes \cup {None},
                previous : P \cup {GENESIS_HASH, latest_hash(handler[h].scope)}]
<1>3. PICK new \in H :
        /\ handler' = [handler EXCEPT ![h] = new]
        /\ \/ new.step # "linked" /\ handler[h].step # "linked" /\ lock' = lock
           \/ /\ lock = None /\ lock' = h /\ new.step = "linked"
              /\ new.previous = latest_hash(new.scope)
  <2>0. handler[h] \in [step : HandlerSteps, scope : Scopes \cup {None},
                        outcome : Outcomes \cup {None}, previous : P]
    BY <1>2
  <2>1. ASSUME NEW s \in Scopes, NEW o \in Outcomes, require_audit(h, s, o)
        PROVE  \E new \in H : /\ handler' = [handler EXCEPT ![h] = new]
                              /\ new.step # "linked" /\ handler[h].step # "linked" /\ lock' = lock
    <3> DEFINE new == [step |-> "changed", scope |-> s, outcome |-> o, previous |-> GENESIS_HASH]
    <3>1. new \in H /\ new.step # "linked"
      BY DEF HandlerSteps
    <3> QED
      BY <2>1, <3>1 DEF require_audit
  <2>2. ASSUME BeginWrite(h)
        PROVE  \E new \in H : /\ handler' = [handler EXCEPT ![h] = new]
                              /\ new.step # "linked" /\ handler[h].step # "linked" /\ lock' = lock
    <3> DEFINE new == IF available THEN [handler[h] EXCEPT !.step = "waiting"] ELSE Idle
    <3>1. new \in H /\ new.step # "linked"
      BY <2>0 DEF HandlerSteps, Idle
    <3> HIDE DEF H
    <3>2. handler' = [handler EXCEPT ![h] = new] /\ handler[h].step # "linked" /\ lock' = lock
      BY <2>2 DEF BeginWrite
    <3> QED
      BY <3>1, <3>2
  <2>3. ASSUME Acquire(h)
        PROVE  \E new \in H : /\ handler' = [handler EXCEPT ![h] = new]
                              /\ lock = None /\ lock' = h /\ new.step = "linked"
                              /\ new.previous = latest_hash(new.scope)
    <3> DEFINE new == [handler[h] EXCEPT !.step = "linked",
                                         !.previous = latest_hash(handler[h].scope)]
    <3>1. /\ new \in H /\ new.step = "linked" /\ new.scope = handler[h].scope
          /\ new.previous = latest_hash(new.scope)
      BY <2>0 DEF HandlerSteps
    <3>2. handler' = [handler EXCEPT ![h] = new] /\ lock = None /\ lock' = h
      BY <1>2, <2>3 DEF Acquire
    <3> QED
      BY <3>1, <3>2
  <2> QED
    BY <2>1, <2>2, <2>3
<1>4. handler' \in [Handlers -> H]
  <2>1. \A d \in Handlers : handler[d] \in H
    BY <1>2
  <2> HIDE DEF H
  <2> QED
    BY <1>2, <1>3, <2>1
<1>5. \A d \in Handlers : handler'[d] = IF d = h THEN new ELSE handler[d]
  BY <1>2, <1>3
<1>6. AuditTypeOK'
  <2>1. \E Q : handler' \in [Handlers -> [step : HandlerSteps, scope : Scopes \cup {None},
                                           outcome : Outcomes \cup {None}, previous : Q]]
    BY <1>4
  <2> QED
    BY <1>1, <1>3, <2>1 DEF AuditTypeOK
<1>7. EventsAreLinked'
  BY <1>1 DEF AuditIndInv, EventsAreLinked, Linked, Precedes
<1>8. WriterKnowsHead'
  <2>1. \A s : latest_hash(s)' = latest_hash(s)
    BY <1>1 DEF latest_hash, Matches
  <2> HIDE DEF H
  <2>2. lock = None => \A d \in Handlers : handler[d].step # "linked"
    BY HandlersAssumption DEF AuditIndInv, WriterKnowsHead
  <2> QED
    BY <1>3, <1>5, <2>1, <2>2 DEF AuditIndInv, WriterKnowsHead
<1> QED
  BY <1>6, <1>7, <1>8 DEF AuditIndInv

(* The writer that holds the lock appends the next link and lets go. *)
LEMMA AppendInv ==
    ASSUME AuditIndInv, NEW h \in Handlers, AppendEvent(h)
    PROVE  AuditIndInv'
<1>1. PICK P : handler \in [Handlers -> [step : HandlerSteps, scope : Scopes \cup {None},
                                         outcome : Outcomes \cup {None}, previous : P]]
  BY DEF AuditIndInv, AuditTypeOK
<1>2. PICK S : events \in Seq(S)
  BY DEF AuditIndInv, AuditTypeOK
<1>3. /\ handler[h].step = "linked" /\ handler' = [handler EXCEPT ![h] = Idle]
      /\ lock' = None /\ available' = available /\ available \in BOOLEAN
  BY DEF AppendEvent, AuditIndInv, AuditTypeOK
<1>4. handler' \in [Handlers -> [step : HandlerSteps, scope : Scopes \cup {None},
                                 outcome : Outcomes \cup {None}, previous : P \cup {GENESIS_HASH}]]
  BY <1>1, <1>3 DEF Idle, HandlerSteps
<1>5. WriterKnowsHead'
  <2>1. \A d \in Handlers : handler'[d] = IF d = h THEN Idle ELSE handler[d]
    BY <1>1, <1>3
  <2>2. \A d \in Handlers : handler'[d].step # "linked"
    BY <1>3, <2>1 DEF AuditIndInv, WriterKnowsHead, Idle
  <2> QED
    BY <2>2 DEF WriterKnowsHead
<1>6. CASE events' = events
  <2>1. AuditTypeOK'
    BY <1>2, <1>3, <1>4, <1>6 DEF AuditTypeOK
  <2>2. EventsAreLinked'
    BY <1>6 DEF AuditIndInv, EventsAreLinked, Linked, Precedes
  <2> QED
    BY <1>5, <2>1, <2>2 DEF AuditIndInv
<1>a. PICK s, o, p, n : /\ s = handler[h].scope /\ o = handler[h].outcome
                        /\ p = handler[h].previous /\ n = Len(events) + 1
  OBVIOUS
<1> DEFINE e == AuditEvent(n, s, o, p)
<1>7. CASE events' = Append(events, e)
  <2>1. /\ n \in Nat /\ DOMAIN events = 1..(n - 1) /\ DOMAIN events' = 1..n
        /\ events' \in Seq(S \cup {e})
        /\ events'[n] = e /\ \A i \in DOMAIN events : events'[i] = events[i]
    <3> HIDE DEF e
    <3>1. events \in Seq(S \cup {e}) /\ Len(events) \in Nat
      <4>1. events \in Seq(S \cup {e})
        BY <1>2
      <4> QED
        BY <4>1, LenProperties
    <3>2. DOMAIN events = 1..Len(events)
      BY <3>1, LenProperties
    <3>3. /\ events' \in Seq(S \cup {e}) /\ Len(events') = n
          /\ events'[n] = e /\ \A i \in 1..Len(events) : events'[i] = events[i]
      BY <1>7, <1>a, <3>1, AppendProperties
    <3>4. DOMAIN events' = 1..n
      BY <3>3, LenProperties
    <3> QED
      BY <1>a, <3>1, <3>2, <3>3, <3>4
  <2>2. AuditTypeOK'
    BY <1>3, <1>4, <2>1 DEF AuditTypeOK
  <2>3. e.scope = s /\ e.outcome = o /\ e.previous_hash = p /\ e = AuditEvent(n, s, o, p)
    BY DEF AuditEvent
  <2>4. ASSUME NEW i \in DOMAIN events PROVE Linked(i)'
    <3>1. Linked(i) /\ i < n /\ i \in Nat
      BY <2>1 DEF AuditIndInv, EventsAreLinked
    <3>2. \A k \in DOMAIN events' : k < i => k \in DOMAIN events
      BY <2>1, <3>1
    <3> HIDE DEF e
    <3>3. \A j \in DOMAIN events : Precedes(j, i) => Precedes(j, i)'
      BY <2>1, <3>1, <3>2 DEF Precedes
    <3> QED
      BY <2>1, <3>1, <3>2, <3>3 DEF Linked
  <2>5. Linked(n)'
    <3>1. p = latest_hash(s)
      BY <1>3, <1>a DEF AuditIndInv, WriterKnowsHead
    <3>2. \A k \in DOMAIN events' : k < n => k \in DOMAIN events
      BY <2>1
    <3>3. CASE Matches(s) = {} /\ latest_hash(s) = GENESIS_HASH
      <4>1. \A k \in DOMAIN events : events[k].scope # s
        BY <3>3 DEF Matches
      <4> HIDE DEF e
      <4> QED
        BY <2>1, <2>3, <3>1, <3>2, <3>3, <4>1 DEF Linked
    <3>4. ASSUME NEW j \in Matches(s), \A k \in Matches(s) : k <= j,
                 latest_hash(s) = events[j].event_hash
          PROVE  Linked(n)'
      <4>1. j \in DOMAIN events /\ events[j].scope = s
        BY DEF Matches
      <4>2. \A k \in DOMAIN events : j < k => events[k].scope # s
        <5> SUFFICES ASSUME NEW k \in DOMAIN events, j < k, events[k].scope = s PROVE FALSE
          OBVIOUS
        <5>1. k <= j
          BY <3>4 DEF Matches
        <5>2. j \in Nat /\ k \in Nat
          BY <2>1, <4>1
        <5> QED
          BY <5>1, <5>2
      <4>3. j < n
        BY <2>1, <4>1
      <4> HIDE DEF e
      <4>4. Precedes(j, n)'
        BY <2>1, <2>3, <3>2, <4>1, <4>2, <4>3 DEF Precedes
      <4> QED
        BY <2>1, <2>3, <3>1, <3>4, <4>1, <4>3, <4>4 DEF Linked
    <3> QED
      BY <1>2, <3>3, <3>4, LatestIsLast
  <2>6. EventsAreLinked'
    <3> SUFFICES ASSUME NEW i \in DOMAIN events' PROVE Linked(i)'
      BY DEF EventsAreLinked
    <3>1. i \in DOMAIN events \/ i = n
      BY <2>1
    <3> HIDE DEF e
    <3> QED
      BY <2>4, <2>5, <3>1
  <2> QED
    BY <1>5, <2>2, <2>6 DEF AuditIndInv
<1>8. events' = events \/ events' = Append(events, e)
  BY <1>a DEF AppendEvent, NewId
<1> QED
  BY <1>6, <1>7, <1>8

LEMMA AuditNext == AuditIndInv /\ [Next]_auditVars => AuditIndInv'
<1> SUFFICES ASSUME AuditIndInv, [Next]_auditVars PROVE AuditIndInv'
  OBVIOUS
<1>1. CASE UNCHANGED auditVars \/ \E value \in BOOLEAN : set_available(value)
  <2>1. UNCHANGED <<events, lock, handler>> /\ available' \in BOOLEAN
    BY <1>1 DEF auditVars, set_available, AuditIndInv, AuditTypeOK
  <2>2. AuditTypeOK'
    BY <2>1 DEF AuditIndInv, AuditTypeOK
  <2>3. EventsAreLinked'
    BY <2>1 DEF AuditIndInv, EventsAreLinked, Linked, Precedes
  <2>4. \A s : latest_hash(s)' = latest_hash(s)
    BY <2>1 DEF latest_hash, Matches
  <2>5. WriterKnowsHead'
    BY <2>1, <2>4 DEF AuditIndInv, WriterKnowsHead
  <2> QED
    BY <2>2, <2>3, <2>5 DEF AuditIndInv
<1>2. CASE \E h \in Handlers : \/ \E s \in Scopes, o \in Outcomes : require_audit(h, s, o)
                              \/ BeginWrite(h) \/ Acquire(h)
  BY <1>2, HandlersInv
<1>3. CASE \E h \in Handlers : AppendEvent(h)
  BY <1>3, AppendInv
<1> QED
  BY <1>1, <1>2, <1>3 DEF Next

(* The inductive invariant of the audit log and its writers. *)
THEOREM AuditInvariance == Spec => []AuditIndInv
BY AuditInit, AuditNext, PTL DEF Spec

(* A chain of a scope's events: each is genuine, names the hash of the one *)
(* before it, and has an id of its own.                                    *)
IsChain(L, s) ==
    /\ \E S : L \in Seq(S)
    /\ \A k \in 1..Len(L) :
         /\ L[k] = AuditEvent(L[k].audit_id, s, L[k].outcome, L[k].previous_hash)
         /\ L[k].previous_hash = IF k = 1 THEN GENESIS_HASH ELSE L[k-1].event_hash
    /\ \A k, l \in 1..Len(L) : L[k].audit_id = L[l].audit_id => k = l

(* A scope's log, as it is listed, is such a chain of its events.          *)
LEMMA ListIsChain ==
    ASSUME AuditIndInv, NEW s
    PROVE  /\ IsChain(list_events(s), s)
           /\ \A i \in DOMAIN events : events[i].scope = s =>
                \E k \in 1..Len(list_events(s)) : list_events(s)[k] = events[i]
<1>1. PICK S : events \in Seq(S)
  BY DEF AuditIndInv, AuditTypeOK
<1> DEFINE L == list_events(s)
           N == Cardinality(Matches(s))
           nth(k) == Nth(s, k)
<1>2. /\ N \in Nat
      /\ \A k \in 1..N : nth(k) \in Matches(s)
      /\ \A i \in Matches(s) : \E k \in 1..N : nth(k) = i
      /\ \A k, l \in 1..N : k < l => nth(k) < nth(l)
  BY <1>1, NthNumbers
<1>3. Matches(s) = {i \in DOMAIN events : events[i].scope = s}
  BY DEF Matches
<1>4. DOMAIN events \subseteq Nat /\ \A i \in DOMAIN events : events[i] \in S
  BY <1>1, LenProperties
<1>5. L = [k \in 1..N |-> events[nth(k)]]
  BY DEF list_events
<1>6. L \in Seq(S) /\ Len(L) = N /\ \A k \in 1..N : L[k] = events[nth(k)]
  <2> HIDE DEF L, nth
  <2>1. L \in [1..N -> S]
    BY <1>2, <1>3, <1>4, <1>5
  <2>2. L \in Seq(S)
    BY <1>2, <2>1
  <2>3. Len(L) \in Nat /\ DOMAIN L = 1..Len(L) /\ DOMAIN L = 1..N
    BY <1>5, <2>2, LenProperties
  <2>4. Len(L) = N
    BY <1>2, <2>3
  <2> QED
    BY <1>5, <2>2, <2>4
<1> HIDE DEF L, N, nth
<1>7. \A k \in 1..N : /\ nth(k) \in DOMAIN events /\ nth(k) \in Nat
                      /\ events[nth(k)].scope = s /\ Linked(nth(k))
  BY <1>2, <1>3, <1>4 DEF AuditIndInv, EventsAreLinked
<1>8. \A k \in 1..N : /\ L[k].audit_id = nth(k)
                      /\ L[k] = AuditEvent(L[k].audit_id, s, L[k].outcome, L[k].previous_hash)
  <2> SUFFICES ASSUME NEW k \in 1..N
               PROVE  /\ L[k].audit_id = nth(k)
                      /\ L[k] = AuditEvent(L[k].audit_id, s, L[k].outcome, L[k].previous_hash)
    OBVIOUS
  <2>1. L[k] = AuditEvent(nth(k), s, L[k].outcome, L[k].previous_hash)
    BY <1>6, <1>7 DEF Linked
  <2>2. L[k].audit_id = nth(k)
    BY <2>1 DEF AuditEvent
  <2> QED
    BY <2>1, <2>2
<1>9. ASSUME NEW k \in 1..N
      PROVE  L[k].previous_hash = IF k = 1 THEN GENESIS_HASH ELSE L[k-1].event_hash
  <2>1. nth(k) \in Nat /\ Linked(nth(k)) /\ L[k] = events[nth(k)] /\ events[nth(k)].scope = s
    BY <1>6, <1>7
  <2>2. ASSUME NEW i \in DOMAIN events, i < nth(k), events[i].scope = s
        PROVE  \E l \in 1..N : l < k /\ nth(l) = i
    <3>1. PICK l \in 1..N : nth(l) = i
      BY <1>2, <1>3, <2>2
    <3>2. ~(k < l) /\ k # l /\ l \in Nat /\ k \in Nat
      BY <1>2, <1>4, <2>1, <2>2, <3>1
    <3> QED
      BY <3>1, <3>2
  <2>3. CASE k = 1
    <3>1. \A i \in DOMAIN events : i < nth(k) => events[i].scope # s
      BY <1>2, <2>2, <2>3
    <3>2. ~ \E j \in DOMAIN events : Precedes(j, nth(k))
      BY <2>1, <3>1 DEF Precedes
    <3> QED
      BY <2>1, <2>3, <3>2 DEF Linked
  <2>4. CASE k # 1
    <3>1. k - 1 \in 1..N /\ nth(k-1) < nth(k) /\ nth(k-1) \in DOMAIN events
          /\ events[nth(k-1)].scope = s /\ nth(k-1) \in Nat
      <4>1. k - 1 \in 1..N /\ k - 1 < k
        BY <1>2, <2>4
      <4> QED
        BY <1>2, <1>7, <4>1
    <3>2. PICK j \in DOMAIN events : /\ Precedes(j, nth(k))
                                     /\ events[nth(k)].previous_hash = events[j].event_hash
      BY <2>1, <3>1 DEF Linked
    <3>3. PICK l \in 1..N : l < k /\ nth(l) = j
      BY <2>1, <2>2, <3>2 DEF Precedes
    <3>4. ~(nth(l) < nth(k-1))
      BY <2>1, <3>1, <3>2, <3>3 DEF Precedes
    <3>5. l = k - 1
      <4>1. ~(l < k - 1)
        BY <1>2, <3>1, <3>4
      <4> QED
        BY <1>2, <3>3, <4>1
    <3> QED
      BY <1>6, <2>1, <2>4, <3>1, <3>2, <3>3, <3>5
  <2> QED
    BY <2>3, <2>4
<1>10. \A k, l \in 1..N : L[k].audit_id = L[l].audit_id => k = l
  <2> SUFFICES ASSUME NEW k \in 1..N, NEW l \in 1..N, k # l
               PROVE  L[k].audit_id # L[l].audit_id
    OBVIOUS
  <2>1. k < l \/ l < k
    BY <1>2
  <2>2. nth(k) \in Nat /\ nth(l) \in Nat
    BY <1>7
  <2> QED
    BY <1>2, <1>8, <2>1, <2>2
<1>11. IsChain(L, s)
  BY <1>6, <1>8, <1>9, <1>10 DEF IsChain
<1>12. \A i \in DOMAIN events : events[i].scope = s => \E k \in 1..Len(L) : L[k] = events[i]
  BY <1>2, <1>3, <1>6
<1> QED
  BY <1>11, <1>12 DEF L

(* The shape of a chain, as the lemmas below use it.                       *)
LEMMA ChainFacts ==
    ASSUME NEW L, NEW s, IsChain(L, s)
    PROVE  /\ Len(L) \in Nat /\ DOMAIN L = 1..Len(L)
           /\ \A k \in DOMAIN L :
                /\ L[k].scope = s
                /\ L[k].event_hash = <<L[k].audit_id, s, L[k].outcome, L[k].previous_hash>>
                /\ L[k].event_hash # GENESIS_HASH
                /\ L[k].previous_hash = IF k = 1 THEN GENESIS_HASH ELSE L[k-1].event_hash
           /\ \A k, l \in DOMAIN L : L[k].event_hash = L[l].event_hash => k = l
<1>1. Len(L) \in Nat /\ DOMAIN L = 1..Len(L)
  BY LenProperties DEF IsChain
<1>2. ASSUME NEW k \in DOMAIN L
      PROVE  /\ L[k].scope = s
             /\ L[k].event_hash = <<L[k].audit_id, s, L[k].outcome, L[k].previous_hash>>
  <2>1. L[k] = AuditEvent(L[k].audit_id, s, L[k].outcome, L[k].previous_hash)
    BY <1>1 DEF IsChain
  <2> DEFINE a == L[k].audit_id
             o == L[k].outcome
             p == L[k].previous_hash
  <2> HIDE DEF a, o, p
  <2>2. AuditEvent(a, s, o, p).scope = s /\ AuditEvent(a, s, o, p).event_hash = <<a, s, o, p>>
    BY DEF AuditEvent, Hash
  <2> QED
    BY <2>1, <2>2 DEF a, o, p
<1>3. \A k \in DOMAIN L : L[k].event_hash # GENESIS_HASH
  BY <1>2 DEF GENESIS_HASH
<1>4. \A k, l \in DOMAIN L : L[k].event_hash = L[l].event_hash => k = l
  <2>1. \A k, l \in DOMAIN L :
          L[k].event_hash = L[l].event_hash => L[k].audit_id = L[l].audit_id
    BY <1>2
  <2> QED
    BY <1>1, <2>1 DEF IsChain
<1> QED
  BY <1>1, <1>2, <1>3, <1>4 DEF IsChain

(* The verifier accepts a chain (core/audit.py).                           *)
LEMMA ChainIsAccepted ==
    ASSUME NEW L, NEW s, IsChain(L, s)
    PROVE  verify_hash_chain(L)
<1> SUFFICES ASSUME NEW k \in DOMAIN L
             PROVE  /\ L[k].scope = L[1].scope
                    /\ L[k].previous_hash = IF k = 1 THEN GENESIS_HASH ELSE L[k-1].event_hash
                    /\ L[k].event_hash = Hash(L[k].audit_id, L[k].scope, L[k].outcome,
                                              L[k].previous_hash)
  BY DEF verify_hash_chain
<1>1. 1 \in DOMAIN L
  BY ChainFacts
<1> QED
  BY <1>1, ChainFacts DEF Hash

(* A log made of events of a chain, in whatever order and however many of  *)
(* them, is accepted only when it is a beginning of the chain.             *)
LEMMA AcceptedIsPrefix ==
    ASSUME NEW L, NEW s, IsChain(L, s),
           NEW T, NEW log \in Seq(T),
           \A i \in DOMAIN log : \E j \in DOMAIN L : log[i] = L[j],
           verify_hash_chain(log)
    PROVE  IsPrefixOf(log, L)
<1>1. Len(log) \in Nat /\ DOMAIN log = 1..Len(log) /\ Len(L) \in Nat /\ DOMAIN L = 1..Len(L)
  BY ChainFacts, LenProperties
<1> DEFINE Wrong == {i \in DOMAIN log : ~(i \in DOMAIN L /\ log[i] = L[i])}
<1>2. Wrong = {}
  <2> SUFFICES ASSUME Wrong # {} PROVE FALSE
    OBVIOUS
  <2>0. Wrong \subseteq Nat
    BY <1>1
  <2>1. PICK i \in Wrong : \A n \in Wrong : i <= n
    <3> HIDE DEF Wrong
    <3> QED
      BY <2>0, LeastNatural
  <2>2. PICK j \in DOMAIN L : log[i] = L[j]
    OBVIOUS
  <2>3. i \in Nat \ {0} /\ j \in Nat \ {0} /\ i # j
    BY <1>1, <2>2
  <2>4. log[i].previous_hash = IF i = 1 THEN GENESIS_HASH ELSE log[i-1].event_hash
    BY DEF verify_hash_chain
  <2>5. L[j].previous_hash = IF j = 1 THEN GENESIS_HASH ELSE L[j-1].event_hash
    BY ChainFacts
  <2>6. j # 1 => j - 1 \in DOMAIN L
    BY <1>1, <2>3
  <2>7. CASE i = 1
    <3>1. L[j-1].event_hash = GENESIS_HASH /\ j - 1 \in DOMAIN L
      BY <2>2, <2>3, <2>4, <2>5, <2>6, <2>7
    <3> QED
      BY <3>1, ChainFacts
  <2>8. CASE i # 1
    <3>1. i - 1 \in DOMAIN L /\ log[i-1] = L[i-1]
      <4>1. i - 1 \in DOMAIN log /\ ~(i <= i - 1)
        BY <1>1, <2>3, <2>8
      <4> QED
        BY <2>1, <4>1
    <3>2. L[i-1].event_hash # GENESIS_HASH
      BY <3>1, ChainFacts
    <3>3. j # 1 /\ L[j-1].event_hash = L[i-1].event_hash
      BY <2>2, <2>4, <2>5, <2>8, <3>1, <3>2
    <3>4. j - 1 = i - 1
      BY <2>6, <3>1, <3>3, ChainFacts
    <3> QED
      BY <2>3, <3>4
  <2> QED
    BY <2>7, <2>8
<1>3. Len(log) <= Len(L) /\ \A i \in 1..Len(log) : log[i] = L[i]
  BY <1>1, <1>2
<1>4. \A i \in 1..Len(log) : L[i] \in T
  BY <1>1, <1>3, LenProperties
<1> DEFINE P == SubSeq(L, 1, Len(log))
<1>5. P \in Seq(T) /\ Len(P) = Len(log) /\ \A i \in 1..Len(log) : P[i] = L[i]
  <2>1. /\ P \in Seq(T)
        /\ Len(P) = IF 1 <= Len(log) THEN Len(log) - 1 + 1 ELSE 0
        /\ \A i \in 1..(Len(log) - 1 + 1) : P[i] = L[1 + i - 1]
    BY <1>1, <1>4, SubSeqProperties
  <2> HIDE DEF P
  <2> QED
    BY <1>1, <2>1
<1>6. log = P
  <2> HIDE DEF P
  <2> QED
    BY <1>3, <1>5, SeqEqual
<1> QED
  BY <1>3, <1>6 DEF IsPrefixOf

(* An event left out.                                                      *)
LEMMA WithoutIsSeen ==
    ASSUME NEW L, NEW s, IsChain(L, s), NEW i \in DOMAIN L,
           verify_hash_chain(Without(L, i))
    PROVE  IsPrefixOf(Without(L, i), L)
<1>1. Len(L) \in Nat /\ DOMAIN L = 1..Len(L)
  BY ChainFacts
<1>2. PICK T : L \in Seq(T)
  BY DEF IsChain
<1>3. \A k \in DOMAIN L : L[k] \in T
  BY <1>2, LenProperties
<1> DEFINE A == SubSeq(L, 1, i - 1)
           B == SubSeq(L, i + 1, Len(L))
<1>4. A \in Seq(T) /\ Len(A) = i - 1 /\ \A k \in 1..(i - 1) : A[k] = L[k]
  <2>1. /\ A \in Seq(T)
        /\ Len(A) = IF 1 <= i - 1 THEN i - 1 - 1 + 1 ELSE 0
        /\ \A k \in 1..(i - 1 - 1 + 1) : A[k] = L[1 + k - 1]
    <3>1. 1 \in Int /\ i - 1 \in Int /\ \A k \in 1..(i - 1) : L[k] \in T
      BY <1>1, <1>3
    <3> QED
      BY <3>1, SubSeqProperties
  <2> HIDE DEF A
  <2> QED
    BY <1>1, <2>1
<1>5. B \in Seq(T) /\ Len(B) = Len(L) - i /\ \A k \in 1..(Len(L) - i) : B[k] = L[i + k]
  <2>1. /\ B \in Seq(T)
        /\ Len(B) = IF i + 1 <= Len(L) THEN Len(L) - (i + 1) + 1 ELSE 0
        /\ \A k \in 1..(Len(L) - (i + 1) + 1) : B[k] = L[i + 1 + k - 1]
    <3>1. i + 1 \in Int /\ Len(L) \in Int /\ \A k \in (i + 1)..Len(L) : L[k] \in T
      BY <1>1, <1>3
    <3> QED
      BY <3>1, SubSeqProperties
  <2> HIDE DEF B
  <2> QED
    BY <1>1, <2>1, SMTT(20)
<1> HIDE DEF A, B
<1>6. /\ A \o B \in Seq(T) /\ DOMAIN (A \o B) = 1..(Len(A) + Len(B))
      /\ \A k \in 1..(Len(A) + Len(B)) :
           (A \o B)[k] = IF k <= Len(A) THEN A[k] ELSE B[k - Len(A)]
  <2>1. /\ A \o B \in Seq(T) /\ Len(A \o B) = Len(A) + Len(B)
        /\ \A k \in 1..(Len(A) + Len(B)) :
             (A \o B)[k] = IF k <= Len(A) THEN A[k] ELSE B[k - Len(A)]
    BY <1>4, <1>5, ConcatProperties
  <2>2. DOMAIN (A \o B) = 1..Len(A \o B)
    BY <2>1, LenProperties
  <2> QED
    BY <2>1, <2>2
<1> DEFINE C == A \o B
<1>7. ASSUME NEW k \in DOMAIN C PROVE \E j \in DOMAIN L : C[k] = L[j]
  <2>1. k \in 1..(Len(L) - 1) /\ C[k] = IF k <= i - 1 THEN A[k] ELSE B[k - (i - 1)]
    BY <1>1, <1>4, <1>5, <1>6
  <2>2. CASE k <= i - 1
    <3>1. k \in 1..(i - 1) /\ k \in DOMAIN L
      BY <1>1, <2>1, <2>2
    <3> QED
      BY <1>4, <2>1, <2>2, <3>1
  <2>3. CASE ~(k <= i - 1)
    <3>1. k - (i - 1) \in 1..(Len(L) - i) /\ i + (k - (i - 1)) \in DOMAIN L
      BY <1>1, <2>1, <2>3
    <3> QED
      BY <1>5, <2>1, <2>3, <3>1
  <2> QED
    BY <2>2, <2>3
<1>8. Without(L, i) = C
  BY DEF Without, A, B
<1> HIDE DEF C
<1> QED
  BY <1>6, <1>7, <1>8, AcceptedIsPrefix DEF C

(* Two events exchanged.                                                   *)
LEMMA SwappedIsSeen ==
    ASSUME NEW L, NEW s, IsChain(L, s), NEW i \in DOMAIN L, NEW j \in DOMAIN L,
           verify_hash_chain(Swapped(L, i, j))
    PROVE  IsPrefixOf(Swapped(L, i, j), L)
<1>1. DOMAIN L = 1..Len(L)
  BY ChainFacts
<1>2. PICK T : L \in Seq(T)
  BY DEF IsChain
<1>3. L[i] \in T /\ L[j] \in T
  BY <1>2, LenProperties
<1> DEFINE A == [L EXCEPT ![i] = L[j]]
           C == [A EXCEPT ![j] = L[i]]
<1>4. A \in Seq(T) /\ Len(A) = Len(L) /\ \A k \in 1..Len(L) : A[k] = IF k = i THEN L[j] ELSE L[k]
  BY <1>1, <1>2, <1>3, ExceptSeq
<1> HIDE DEF A
<1>5. C \in Seq(T) /\ Len(C) = Len(A) /\ \A k \in 1..Len(A) : C[k] = IF k = j THEN L[i] ELSE A[k]
  BY <1>1, <1>3, <1>4, ExceptSeq
<1>6. Swapped(L, i, j) = C
  BY DEF Swapped, A
<1> HIDE DEF C
<1>7. DOMAIN C = 1..Len(L) /\ \A k \in DOMAIN C : \E l \in DOMAIN L : C[k] = L[l]
  BY <1>1, <1>4, <1>5, LenProperties
<1> QED
  BY <1>5, <1>6, <1>7, AcceptedIsPrefix

(* An event added that the sink holds, of this scope or another.           *)
LEMMA AddedIsSeen ==
    ASSUME NEW L, NEW s, IsChain(L, s), L # <<>>, NEW e,
           e.scope = s => \E k \in DOMAIN L : L[k] = e,
           verify_hash_chain(Append(L, e))
    PROVE  IsPrefixOf(Append(L, e), L)
<1>1. PICK S : L \in Seq(S)
  BY DEF IsChain
<1> DEFINE T == S \cup {e}
           C == Append(L, e)
<1>2. L \in Seq(T) /\ e \in T
  BY <1>1
<1>3. Len(L) \in Nat /\ DOMAIN L = 1..Len(L) /\ 1 \in DOMAIN L
  <2>1. Len(L) # 0
    BY <1>1, EmptySeq
  <2> QED
    BY <2>1, ChainFacts
<1> HIDE DEF T
<1>4. /\ C \in Seq(T) /\ Len(C) = Len(L) + 1 /\ C[Len(L) + 1] = e
      /\ \A k \in DOMAIN L : C[k] = L[k]
  BY <1>2, <1>3, AppendProperties
<1> HIDE DEF C
<1>5. DOMAIN C = 1..(Len(L) + 1)
  BY <1>4, LenProperties
<1>6. e.scope = s
  <2>1. C[Len(L) + 1].scope = C[1].scope
    <3>1. verify_hash_chain(C) /\ Len(L) + 1 \in DOMAIN C
      BY <1>3, <1>5 DEF C
    <3> QED
      BY <3>1 DEF verify_hash_chain
  <2> QED
    BY <1>3, <1>4, <2>1, ChainFacts
<1>7. \A k \in DOMAIN C : \E j \in DOMAIN L : C[k] = L[j]
  BY <1>3, <1>4, <1>5, <1>6
<1> QED
  BY <1>4, <1>7, AcceptedIsPrefix DEF C

(* An outcome altered, the hash left as it was.                            *)
LEMMA AlteredIsSeen ==
    ASSUME NEW L, NEW s, IsChain(L, s), NEW i \in DOMAIN L, NEW o,
           verify_hash_chain(Altered(L, i, o))
    PROVE  IsPrefixOf(Altered(L, i, o), L)
<1>1. Len(L) \in Nat /\ DOMAIN L = 1..Len(L)
  BY ChainFacts
<1>2. PICK T : L \in Seq(T)
  BY DEF IsChain
<1> DEFINE a == L[i].audit_id
           b == L[i].outcome
           p == L[i].previous_hash
           C == Altered(L, i, o)
<1> HIDE DEF a, b, p
<1>3. L[i] = [audit_id |-> a, scope |-> s, outcome |-> b, previous_hash |-> p,
              event_hash |-> <<a, s, b, p>>]
  BY <1>1 DEF IsChain, AuditEvent, Hash, a, b, p
<1>4. C = [L EXCEPT ![i] = [L[i] EXCEPT !.outcome = o]]
  BY DEF Altered
<1>5. [L[i] EXCEPT !.outcome = o] =
        [audit_id |-> a, scope |-> s, outcome |-> o, previous_hash |-> p,
         event_hash |-> <<a, s, b, p>>]
  BY <1>3
<1>6. DOMAIN C = DOMAIN L /\ C[i] = [L[i] EXCEPT !.outcome = o]
  BY <1>4
<1> HIDE DEF C
<1>7. <<a, s, b, p>> = <<a, s, o, p>>
  <2>1. C[i].event_hash = Hash(C[i].audit_id, C[i].scope, C[i].outcome, C[i].previous_hash)
    BY <1>6 DEF verify_hash_chain, C
  <2> QED
    BY <1>5, <1>6, <2>1 DEF Hash
<1>8. o = b
  BY <1>7
<1>9. C = L
  <2>1. [L[i] EXCEPT !.outcome = o] = L[i]
    BY <1>3, <1>5, <1>8
  <2>2. C = [L EXCEPT ![i] = L[i]]
    BY <1>4, <2>1, Zenon
  <2> QED
    BY <1>2, <2>2
<1>10. \A k \in DOMAIN C : \E j \in DOMAIN L : C[k] = L[j]
  BY <1>9
<1> QED
  BY <1>2, <1>9, <1>10, AcceptedIsPrefix, ChainIsAccepted DEF C

(* An outcome altered and its hash computed afresh: only the last event    *)
(* can be changed so (no anchor of the last hash is kept anywhere).        *)
LEMMA RehashedIsSeen ==
    ASSUME NEW L, NEW s, IsChain(L, s), NEW i \in DOMAIN L, NEW o,
           verify_hash_chain(Rehashed(L, i, o))
    PROVE  i = Len(L) \/ o = L[i].outcome
<1> SUFFICES ASSUME i # Len(L) PROVE o = L[i].outcome
  OBVIOUS
<1> DEFINE C == Rehashed(L, i, o)
           e == AuditEvent(L[i].audit_id, L[i].scope, o, L[i].previous_hash)
<1>1. i \in Nat \ {0} /\ i + 1 \in DOMAIN L /\ i + 1 # i /\ i + 1 # 1 /\ i + 1 - 1 = i
  BY ChainFacts
<1>2. e.event_hash = <<L[i].audit_id, L[i].scope, o, L[i].previous_hash>>
  BY DEF AuditEvent, Hash
<1>3. DOMAIN C = DOMAIN L /\ C[i] = e /\ C[i+1] = L[i+1]
  <2> HIDE DEF e
  <2>1. C = [L EXCEPT ![i] = e]
    BY DEF Rehashed, e
  <2> HIDE DEF C
  <2> QED
    BY <1>1, <2>1
<1>4. C[i+1].previous_hash = C[i].event_hash
  <2>1. verify_hash_chain(C) /\ i + 1 \in DOMAIN C
    BY <1>1, <1>3
  <2> HIDE DEF C
  <2>2. PICK k : k = i + 1 /\ k \in DOMAIN C
    BY <2>1
  <2>3. C[k].previous_hash = IF k = 1 THEN GENESIS_HASH ELSE C[k-1].event_hash
    BY <2>1, <2>2 DEF verify_hash_chain
  <2> QED
    BY <1>1, <2>2, <2>3
<1>5. /\ L[i+1].previous_hash = L[i].event_hash
      /\ L[i].event_hash = <<L[i].audit_id, s, L[i].outcome, L[i].previous_hash>>
      /\ L[i].scope = s
  <2>1. L[i+1].previous_hash = IF i + 1 = 1 THEN GENESIS_HASH ELSE L[i+1-1].event_hash
    BY <1>1, ChainFacts
  <2> QED
    BY <1>1, <2>1, ChainFacts
<1> HIDE DEF C, e
<1>6. <<L[i].audit_id, s, L[i].outcome, L[i].previous_hash>> =
        <<L[i].audit_id, s, o, L[i].previous_hash>>
  BY <1>2, <1>3, <1>4, <1>5
<1> QED
  BY <1>6

(* The links give what the audit log promises (core/audit.py).             *)
LEMMA LinkedIsSound == AuditIndInv => AuditInv
<1> SUFFICES ASSUME AuditIndInv PROVE AuditInv
  OBVIOUS
<1>1. TypeOK
  BY DEF AuditIndInv, AuditTypeOK, EventsAreLinked, Linked, TypeOK, HandlerSteps
<1>2. ChainVerifies
  BY ListIsChain, ChainIsAccepted DEF ChainVerifies
<1>3. ASSUME NEW s \in Scopes, NEW log \in Tampered(list_events(s)), verify_hash_chain(log)
      PROVE  IsPrefixOf(log, list_events(s))
  <2>1. PICK L : L = list_events(s)
    OBVIOUS
  <2>2. /\ IsChain(L, s) /\ DOMAIN L = 1..Len(L)
        /\ \A i \in DOMAIN events : events[i].scope = s => \E k \in 1..Len(L) : L[k] = events[i]
    <3>1. IsChain(L, s)
      BY <2>1, ListIsChain
    <3> QED
      BY <2>1, <3>1, ListIsChain, ChainFacts
  <2>3. \/ \E i \in DOMAIN L : log = Without(L, i)
        \/ \E i, j \in DOMAIN L : log = Swapped(L, i, j)
        \/ \E i \in DOMAIN L, o \in Outcomes : log = Altered(L, i, o)
        \/ \E i \in DOMAIN events : L # <<>> /\ log = Append(L, events[i])
    BY <1>3, <2>1 DEF Tampered
  <2>4. CASE \E i \in DOMAIN L : log = Without(L, i)
    BY <1>3, <2>1, <2>2, <2>4, WithoutIsSeen
  <2>5. CASE \E i, j \in DOMAIN L : log = Swapped(L, i, j)
    BY <1>3, <2>1, <2>2, <2>5, SwappedIsSeen
  <2>6. CASE \E i \in DOMAIN L, o \in Outcomes : log = Altered(L, i, o)
    BY <1>3, <2>1, <2>2, <2>6, AlteredIsSeen
  <2>7. CASE \E i \in DOMAIN events : L # <<>> /\ log = Append(L, events[i])
    BY <1>3, <2>1, <2>2, <2>7, AddedIsSeen
  <2> QED
    BY <2>3, <2>4, <2>5, <2>6, <2>7
<1>4. \A s \in Scopes : \A i \in DOMAIN list_events(s), o \in Outcomes :
        verify_hash_chain(Rehashed(list_events(s), i, o)) =>
          i = Len(list_events(s)) \/ o = list_events(s)[i].outcome
  BY ListIsChain, RehashedIsSeen
<1>5. TamperingIsSeen
  BY <1>3, <1>4 DEF TamperingIsSeen
<1> QED
  BY <1>1, <1>2, <1>5 DEF AuditInv

(* Whatever the order of the writers and the absences of the sink, every   *)
(* scope's log verifies and the verifier sees what was done to a copy of   *)
(* it: of AuditChain by itself and among the foundations (core/audit.py).  *)
THEOREM AuditIsSound ==
    /\ Spec => []AuditInv
    /\ MCSpec => []AuditInv
<1>1. Spec => []AuditInv
  BY AuditInvariance, LinkedIsSound, PTL
<1>2. MCInit => Init
  BY DEF MCInit
<1>3. MCNext => [Next]_auditVars
  BY Zenon DEF MCNext, auditVars
<1>4. UNCHANGED <<focus, updates, auditVars, draftVars, gateVars, accessVars>>
        => UNCHANGED auditVars
  BY Zenon DEF auditVars
<1>5. MCSpec => Spec
  BY <1>2, <1>3, <1>4, PTL DEF MCSpec, Spec
<1> QED
  BY <1>1, <1>5, PTL

=============================================================================
