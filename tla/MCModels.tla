-------------------------------- MODULE MCModels -------------------------------
(***************************************************************************)
(* Provider management (three configurations under one catalog, one        *)
(* command that fails half-way) and, beside it, the model lifecycle (two   *)
(* artifacts and approvals, three deployments, MaxCalls commands).  A      *)
(* behaviour is one of them with the other at rest; focus says which.      *)
(***************************************************************************)
EXTENDS ProviderManagement, TLC

CONSTANTS Users, Datasets, Schemas, Protocols, Artifacts, Calibrations,
          Approvals, Deployments, Slots, Uses, Configurations, None, MaxCalls

VARIABLES focus, publication, datasetOf, calibration, approval, deployment,
          incidents, snapshots, events, approved, calls

Lifecycle == INSTANCE ModelLifecycle

lifecycleVars == <<publication, datasetOf, calibration, approval, deployment,
                   incidents, snapshots, events, approved, calls>>

(* Ids are not the marks for no thing; deployments are numbered from 1 in  *)
(* the order of creation, 0 being none; there is a slot and a purpose.     *)
ASSUME LifecycleAssumption ==
    /\ None \notin Users \cup Artifacts \cup Protocols \cup Calibrations
                   \cup Approvals
    /\ Deployments \subseteq Nat \ {0}
    /\ Slots # {} /\ Uses # {}
    /\ MaxCalls \in Nat

MCSymmetry == Permutations(Artifacts) \cup Permutations(Users)

MCInit ==
    /\ focus \in {"provider", "lifecycle"}
    /\ Init
    /\ Lifecycle!Init
    /\ focus = "provider" =>
         \A x \in Lifecycle!Publishable : publication[x] = "ABSENT"
    /\ focus = "lifecycle" => published = NoCatalog

MCNext ==
    /\ \/ focus = "provider" /\ Next /\ UNCHANGED lifecycleVars
       \/ focus = "lifecycle" /\ Lifecycle!Next /\ UNCHANGED providerVars
    /\ UNCHANGED focus

MCSpec == MCInit /\ [][MCNext]_<<focus, providerVars, lifecycleVars>>

(* Bound: of the three configurations only the second changes its purpose, *)
(* and the search ends where a second one is stopped.                      *)
MCBound ==
    /\ \A c \in {1, 3} : configs[c].purpose = NoConfig.purpose
    /\ Cardinality({c \in Configs : configs[c].state \in
                                      {"SUSPENDED", "REVOKED"}}) <= 1

-----------------------------------------------------------------------------
(* The properties of ModelLifecycle, stated there.                         *)

(* A slot serves one deployment, approved as it is by two people on        *)
(* evidence that belongs together, and every rollback is on record.        *)
DeploymentInv == focus = "lifecycle" => Lifecycle!DeploymentInv

(* A slot that serves never falls silent, and nothing starts to serve      *)
(* under an expired approval.                                              *)
SlotKeepsServing == Lifecycle!SlotKeepsServing

=============================================================================
