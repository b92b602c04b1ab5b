----------------------------- MODULE ModelLifecycle ----------------------------
(***************************************************************************)
(* From datasets to deployed models (modules/model_governance/application/ *)
(* model_lifecycle.py) in one tenant.  execute_idempotent holds the        *)
(* repository's lock while a command runs, so commands do not interleave.  *)
(* The audit write comes last: when it raises, what the command stored     *)
(* stays and the idempotency key is not remembered, so a repetition runs   *)
(* the command again.  A repetition of a command that returned is answered *)
(* from the store and changes nothing.                                     *)
(***************************************************************************)
EXTENDS Naturals, FiniteSets

CONSTANTS
    Users,          \* authors, approvers and deployers
    Datasets, Schemas, Protocols, Artifacts, Calibrations,
    Approvals,      \* approval ids
    Deployments,    \* deployment ids, numbers in the order of creation
    Slots,          \* deployment slots
    Uses,           \* intended purposes
    Configurations, \* provider configurations
    None,           \* no such thing
    MaxCalls        \* bound on the commands of a behaviour

VARIABLES
    publication,    \* state of every dataset, schema, protocol and artifact
    datasetOf,      \* the dataset of a protocol
    calibration,    \* stored calibrations
    approval,       \* stored approvals
    deployment,     \* stored deployments
    incidents,      \* deployments with an incident
    snapshots,      \* deployments with a monitoring snapshot
    events,         \* rollback events
    approved,       \* provider configurations of the external model reference
    calls           \* commands so far

lifecycleVars == <<publication, datasetOf, calibration, approval, deployment,
                   incidents, snapshots, events, approved, calls>>

Publishable == Datasets \cup Schemas \cup Protocols \cup Artifacts

CalibrationArtifactVersion ==
    [artifact : Artifacts \cup {None}, protocol : Protocols \cup {None},
     dataset : Datasets \cup {None}]

ModelApprovalVersion ==
    [state : {"ABSENT", "PENDING", "APPROVED", "REJECTED"},
     artifact : Artifacts \cup {None}, protocol : Protocols \cup {None},
     calibration : Calibrations \cup {None}, use : Uses,
     createdBy : Users \cup {None}, decidedBy : Users \cup {None},
     expired : BOOLEAN]

ModelDeploymentVersion ==
    [state : {"ABSENT", "DRAFT", "ACTIVE", "SUPERSEDED", "ROLLED_BACK"},
     artifact : Artifacts \cup {None}, approval : Approvals \cup {None},
     configuration : Configurations \cup {None}, use : Uses, slot : Slots,
     supersedes : Deployments \cup {0}]

RollbackEvent ==
    [deployment : Deployments, from : Artifacts,
     to : Artifacts \cup {None}, incident : Deployments \cup {0}]

TypeOK ==
    /\ publication \in [Publishable -> {"ABSENT", "DRAFT", "PUBLISHED"}]
    /\ datasetOf \in [Protocols -> Datasets \cup {None}]
    /\ calibration \in [Calibrations -> CalibrationArtifactVersion]
    /\ approval \in [Approvals -> ModelApprovalVersion]
    /\ deployment \in [Deployments -> ModelDeploymentVersion]
    /\ incidents \subseteq Deployments
    /\ snapshots \subseteq Deployments
    /\ events \subseteq RollbackEvent
    /\ approved \subseteq Configurations
    /\ calls \in 0..MaxCalls

NoCalibration == [artifact |-> None, protocol |-> None, dataset |-> None]

AnyUse == CHOOSE p \in Uses : TRUE

NoApproval ==
    [state |-> "ABSENT", artifact |-> None, protocol |-> None,
     calibration |-> None, use |-> AnyUse, createdBy |-> None,
     decidedBy |-> None, expired |-> FALSE]

NoDeployment ==
    [state |-> "ABSENT", artifact |-> None, approval |-> None,
     configuration |-> None, use |-> AnyUse,
     slot |-> CHOOSE s \in Slots : TRUE, supersedes |-> 0]

(* What create_model_approval and decide_model_approval leave behind. *)
ApprovalGiven(a, p, author, checker) ==
    [NoApproval EXCEPT !.state = "APPROVED", !.artifact = a, !.protocol = p,
                       !.createdBy = author, !.decidedBy = checker]

(* Nothing yet; datasets and schemas drafted; or everything published, and *)
(* some artifacts proposed and approved by two different people.           *)
Init ==
    /\ calls = 0
    /\ calibration = [c \in Calibrations |-> NoCalibration]
    /\ deployment = [d \in Deployments |-> NoDeployment]
    /\ incidents = {} /\ snapshots = {} /\ events = {}
    /\ approved = Configurations
    /\ \/ /\ \E s \in {"ABSENT", "DRAFT"} :
               publication = [x \in Publishable |->
                   IF x \in Datasets \cup Schemas THEN s ELSE "ABSENT"]
          /\ datasetOf = [p \in Protocols |-> None]
          /\ approval = [a \in Approvals |-> NoApproval]
       \/ /\ publication = [x \in Publishable |-> "PUBLISHED"]
          /\ \E d \in Datasets : datasetOf = [p \in Protocols |-> d]
          /\ \E given \in SUBSET Approvals, of \in [Approvals -> Artifacts],
                author, checker \in Users, p \in Protocols :
               /\ author # checker
               /\ approval = [a \in Approvals |->
                    IF a \notin given THEN NoApproval
                    ELSE ApprovalGiven(of[a], p, author, checker)]

(* _execute: a command within the bound. *)
_execute == calls < MaxCalls /\ calls' = calls + 1

IsPublished(x) == publication[x] = "PUBLISHED"

-----------------------------------------------------------------------------
(* Datasets, schemas, artifacts, protocols, calibrations.                  *)

Draft(x) == /\ publication[x] = "ABSENT"
            /\ publication' = [publication EXCEPT ![x] = "DRAFT"]

create_dataset(d) ==
    /\ _execute
    /\ Draft(d)
    /\ UNCHANGED <<datasetOf, calibration, approval, deployment, incidents,
                   snapshots, events, approved>>

create_feature_schema(s) ==
    /\ _execute
    /\ Draft(s)
    /\ UNCHANGED <<datasetOf, calibration, approval, deployment, incidents,
                   snapshots, events, approved>>

(* There is one external model; some configuration was activated for it. *)
_require_external_model_reference == approved # {}

create_model_artifact(a) ==
    /\ _execute
    /\ \E s \in Schemas : IsPublished(s)
    /\ _require_external_model_reference
    /\ Draft(a)
    /\ UNCHANGED <<datasetOf, calibration, approval, deployment, incidents,
                   snapshots, events, approved>>

create_evaluation_protocol(p) ==
    /\ _execute
    /\ Draft(p)
    /\ \E d \in Datasets : /\ IsPublished(d)
                           /\ datasetOf' = [datasetOf EXCEPT ![p] = d]
    /\ UNCHANGED <<calibration, approval, deployment, incidents, snapshots,
                   events, approved>>

(* Whoever may write may publish; only artifacts are validated again, by   *)
(* the external reference.                                                 *)
_publish(x) ==
    /\ _execute
    /\ publication[x] = "DRAFT"
    /\ x \in Artifacts => _require_external_model_reference
    /\ publication' = [publication EXCEPT ![x] = "PUBLISHED"]
    /\ UNCHANGED <<datasetOf, calibration, approval, deployment, incidents,
                   snapshots, events, approved>>

_require_published_model_artifact(a) ==
    IsPublished(a) /\ _require_external_model_reference

_require_published_protocol(p) == IsPublished(p) /\ IsPublished(datasetOf[p])

create_calibration_artifact(c) ==
    /\ _execute
    /\ calibration[c] = NoCalibration
    /\ \E a \in Artifacts, p \in Protocols :
         /\ _require_published_model_artifact(a)
         /\ _require_published_protocol(p)
         /\ calibration' = [calibration EXCEPT ![c] =
              [artifact |-> a, protocol |-> p, dataset |-> datasetOf[p]]]
    /\ UNCHANGED <<publication, datasetOf, approval, deployment, incidents,
                   snapshots, events, approved>>

-----------------------------------------------------------------------------
(* Approvals.                                                              *)

(* Mutant: any calibration will do. *)
_validate_approval_evidence_any(a, p, c) ==
    /\ _require_published_model_artifact(a)
    /\ _require_published_protocol(p)
    /\ c # None => calibration[c] # NoCalibration

_validate_approval_evidence(a, p, c) ==
    /\ _require_published_model_artifact(a)
    /\ _require_published_protocol(p)
    /\ c # None => calibration[c] =
         [artifact |-> a, protocol |-> p, dataset |-> datasetOf[p]]

create_model_approval(ap, u) ==
    /\ _execute
    /\ approval[ap].state = "ABSENT"
    /\ \E a \in Artifacts, p \in Protocols, c \in Calibrations \cup {None},
          use \in Uses :
         /\ _validate_approval_evidence(a, p, c)
         /\ approval' = [approval EXCEPT ![ap] =
              [NoApproval EXCEPT !.state = "PENDING", !.artifact = a,
                                 !.protocol = p, !.calibration = c,
                                 !.use = use, !.createdBy = u]]
    /\ UNCHANGED <<publication, datasetOf, calibration, deployment, incidents,
                   snapshots, events, approved>>

MayDecide(ap, u) ==
    approval[ap].state = "PENDING" /\ approval[ap].createdBy # u

decide_model_approval(ap, u, decision) ==
    /\ _execute
    /\ MayDecide(ap, u)
    /\ decision = "APPROVED" =>
         _validate_approval_evidence(approval[ap].artifact,
             approval[ap].protocol, approval[ap].calibration)
    /\ approval' = [approval EXCEPT ![ap].state = decision,
                                    ![ap].decidedBy = u]
    /\ UNCHANGED <<publication, datasetOf, calibration, deployment, incidents,
                   snapshots, events, approved>>

(* Time passes an approval's expires_at. *)
Expire(ap) ==
    /\ approval[ap].state # "ABSENT"
    /\ ~approval[ap].expired
    /\ approval' = [approval EXCEPT ![ap].expired = TRUE]
    /\ UNCHANGED <<publication, datasetOf, calibration, deployment, incidents,
                   snapshots, events, approved, calls>>

_require_approved_approval(ap) ==
    /\ approval[ap].state = "APPROVED"
    /\ ~approval[ap].expired
    /\ _validate_approval_evidence(approval[ap].artifact, approval[ap].protocol,
                                   approval[ap].calibration)

-----------------------------------------------------------------------------
(* Deployments.                                                            *)

_validate_deployment_binding(a, ap, cfg, use) ==
    /\ _require_published_model_artifact(a)
    /\ _require_approved_approval(ap)
    /\ approval[ap].artifact = a
    /\ approval[ap].use = use
    /\ cfg \in approved

create_model_deployment(d) ==
    /\ _execute
    /\ deployment[d].state = "ABSENT"
    /\ \A e \in Deployments : e < d => deployment[e].state # "ABSENT"
    /\ \E a \in Artifacts, ap \in Approvals, cfg \in Configurations,
          use \in Uses, slot \in Slots :
         /\ _validate_deployment_binding(a, ap, cfg, use)
         /\ deployment' = [deployment EXCEPT ![d] =
              [state |-> "DRAFT", artifact |-> a, approval |-> ap,
               configuration |-> cfg, use |-> use, slot |-> slot,
               supersedes |-> 0]]
    /\ UNCHANGED <<publication, datasetOf, calibration, approval, incidents,
                   snapshots, events, approved>>

BindingHolds(d) ==
    _validate_deployment_binding(deployment[d].artifact, deployment[d].approval,
        deployment[d].configuration, deployment[d].use)

(* The active deployment that was created last, 0 if there is none. *)
find_active_deployment(slot) ==
    LET S == {d \in Deployments : deployment[d].slot = slot
                                  /\ deployment[d].state = "ACTIVE"}
    IN  IF S = {} THEN 0 ELSE CHOOSE d \in S : \A e \in S : e <= d

activate_model_deployment(d) ==
    LET active == find_active_deployment(deployment[d].slot)
    IN  /\ _execute
        /\ deployment[d].state = "DRAFT"
        /\ BindingHolds(d)
        /\ deployment' = [e \in Deployments |->
             CASE e = d -> [deployment[d] EXCEPT !.state = "ACTIVE",
                                                 !.supersedes = active]
               [] e = active /\ e # d ->
                    [deployment[e] EXCEPT !.state = "SUPERSEDED"]
               [] OTHER -> deployment[e]]
        /\ UNCHANGED <<publication, datasetOf, calibration, approval, incidents,
                       snapshots, events, approved>>

MayRestore(d, target) ==
    /\ deployment[d].state = "ACTIVE"
    /\ target # 0
    /\ deployment[target].state = "SUPERSEDED"
    /\ BindingHolds(target)

(* Mutant: nothing takes the place of what is rolled back. *)
RestoredNot(d, target) == [deployment EXCEPT ![d].state = "ROLLED_BACK"]

Restored(d, target) ==
    [deployment EXCEPT ![d].state = "ROLLED_BACK", ![target].state = "ACTIVE"]

IncidentOf(d, incident) == incident # 0 => incident = d /\ d \in incidents

_new_rollback_event(d, to, incident) ==
    [deployment |-> d, from |-> deployment[d].artifact, to |-> to,
     incident |-> incident]

rollback_model_deployment(d, incident) ==
    LET target == deployment[d].supersedes
    IN  /\ _execute
        /\ MayRestore(d, target)
        /\ IncidentOf(d, incident)
        /\ deployment' = Restored(d, target)
        /\ events' = events \cup
             {_new_rollback_event(d, deployment[target].artifact, incident)}
        /\ UNCHANGED <<publication, datasetOf, calibration, approval, incidents,
                       snapshots, approved>>

-----------------------------------------------------------------------------
(* Monitoring, incidents and rollback events on their own.                 *)

create_monitoring_snapshot(d) ==
    /\ _execute
    /\ deployment[d].state = "ACTIVE"
    /\ _require_published_protocol(approval[deployment[d].approval].protocol)
    /\ snapshots' = snapshots \cup {d}
    /\ UNCHANGED <<publication, datasetOf, calibration, approval, deployment,
                   incidents, events, approved>>

(* A snapshot that is named must be of the same deployment. *)
create_model_incident(d, snapshot) ==
    /\ _execute
    /\ deployment[d].state # "ABSENT"
    /\ snapshot # 0 => snapshot = d /\ d \in snapshots
    /\ incidents' = incidents \cup {d}
    /\ UNCHANGED <<publication, datasetOf, calibration, approval, deployment,
                   snapshots, events, approved>>

_validate_rollback_references(d, to, incident) ==
    /\ deployment[d].state # "ABSENT"
    /\ to # None => _require_published_model_artifact(to)
    /\ IncidentOf(d, incident)

create_rollback_event(d, to, incident) ==
    /\ _execute
    /\ _validate_rollback_references(d, to, incident)
    /\ events' = events \cup {_new_rollback_event(d, to, incident)}
    /\ UNCHANGED <<publication, datasetOf, calibration, approval, deployment,
                   incidents, snapshots, approved>>

(* The provider side activates another configuration: the reference is     *)
(* replaced, and it is never withdrawn.                                    *)
ReferenceReplaced ==
    /\ \E cfg \in Configurations : approved' = {cfg}
    /\ UNCHANGED <<publication, datasetOf, calibration, approval, deployment,
                   incidents, snapshots, events, calls>>

DatasetRequests ==
    \/ \E d \in Datasets : create_dataset(d)
    \/ \E s \in Schemas : create_feature_schema(s)
    \/ \E x \in Datasets \cup Schemas : _publish(x)

ArtifactRequests ==
    \E a \in Artifacts : create_model_artifact(a) \/ _publish(a)

ProtocolRequests ==
    \/ \E p \in Protocols : create_evaluation_protocol(p) \/ _publish(p)
    \/ \E c \in Calibrations : create_calibration_artifact(c)

ApprovalRequests ==
    \E ap \in Approvals, u \in Users :
        \/ create_model_approval(ap, u)
        \/ \E decision \in {"APPROVED", "REJECTED"} :
             decide_model_approval(ap, u, decision)

DeploymentRequests ==
    \E d \in Deployments :
        \/ create_model_deployment(d)
        \/ activate_model_deployment(d)
        \/ \E incident \in Deployments \cup {0} :
             rollback_model_deployment(d, incident)

MonitoringRequests ==
    \E d \in Deployments :
        \/ create_monitoring_snapshot(d)
        \/ \E snapshot \in Deployments \cup {0} :
             create_model_incident(d, snapshot)
        \/ \E to \in Artifacts \cup {None}, incident \in Deployments \cup {0} :
             create_rollback_event(d, to, incident)

Next ==
    \/ DatasetRequests
    \/ ArtifactRequests
    \/ ProtocolRequests
    \/ ApprovalRequests
    \/ DeploymentRequests
    \/ MonitoringRequests
    \/ \E ap \in Approvals : Expire(ap)
    \/ ReferenceReplaced

Spec == Init /\ [][Next]_lifecycleVars

-----------------------------------------------------------------------------
(* Properties.                                                             *)

(* A slot serves at most one deployment, through any sequence of           *)
(* activations and rollbacks (model_lifecycle.py:1155-1190, 1256-1284).    *)
OneActivePerSlot ==
    \A d, e \in Deployments :
        (deployment[d].state = "ACTIVE" /\ deployment[e].state = "ACTIVE"
           /\ deployment[d].slot = deployment[e].slot) => d = e

(* A slot that serves never falls silent: a rollback puts the superseded   *)
(* deployment back in the same step (1256-1284).                           *)
ServingSlotKeepsServing ==
    \A d \in Deployments : deployment[d].state = "ACTIVE" =>
       \E e \in Deployments : /\ deployment'[e].state = "ACTIVE"
                              /\ deployment'[e].slot = deployment[d].slot

(* What serves, or served, runs the artifact its approval is about, for    *)
(* the purpose approved, and two people stand behind it (1053-1066, 975).  *)
ServedIsApproved ==
    \A d \in Deployments : deployment[d].state # "ABSENT" =>
        LET ap == approval[deployment[d].approval]
        IN  /\ ap.state = "APPROVED"
            /\ ap.artifact = deployment[d].artifact
            /\ ap.use = deployment[d].use
            /\ ap.decidedBy \notin {None, ap.createdBy}

(* Nothing starts to serve under an expired approval, a restored           *)
(* deployment included (1021-1022, 1236-1242).                             *)
ExpiredNeverStarts ==
    \A d \in Deployments :
       (deployment[d].state # "ACTIVE" /\ deployment'[d].state = "ACTIVE")
         => ~approval[deployment[d].approval].expired

(* The evidence of an approval belongs together and is published: the      *)
(* calibration is of the approved artifact, under the protocol and dataset *)
(* it was evaluated with (866-888).                                        *)
EvidenceBelongsTogether ==
    \A ap \in Approvals : approval[ap].state # "ABSENT" =>
        /\ IsPublished(approval[ap].artifact)
        /\ IsPublished(approval[ap].protocol)
        /\ approval[ap].calibration # None =>
             /\ calibration[approval[ap].calibration].artifact =
                  approval[ap].artifact
             /\ calibration[approval[ap].calibration].dataset =
                  datasetOf[approval[ap].protocol]

(* Every rollback left its event, and an incident named by an event is one *)
(* of the deployment that was rolled back (1243-1253, 1285-1300, 1508).    *)
RollbacksAreOnRecord ==
    /\ \A d \in Deployments : deployment[d].state = "ROLLED_BACK" =>
         \E e \in events : e.deployment = d
    /\ \A e \in events : e.incident # 0 =>
         e.incident = e.deployment /\ e.incident \in incidents

(* What the lifecycle promises of approvals, deployments and rollback      *)
(* events together (model_lifecycle.py:866-1300).                          *)
DeploymentInv ==
    /\ TypeOK
    /\ OneActivePerSlot
    /\ ServedIsApproved
    /\ EvidenceBelongsTogether
    /\ RollbacksAreOnRecord

(* No step silences a slot or starts a deployment whose approval ran out   *)
(* (model_lifecycle.py:1021-1022, 1236-1284).                              *)
SlotKeepsServing ==
    [][/\ ServingSlotKeepsServing
       /\ ExpiredNeverStarts]_lifecycleVars

=============================================================================
