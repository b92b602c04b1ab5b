------------------------------ MODULE MCDeletion ------------------------------
(***************************************************************************)
(* A small deletion job: a local and a provider replica that completion    *)
(* requires, an index replica that has no adapter and is not required, two *)
(* deliveries and one hold.                                                *)
(***************************************************************************)
EXTENDS DeletionCoordinator, TLC

CONSTANTS local, provider, index

MCReplicas == {local, provider, index}
MCRequired == {local, provider}
MCLocal == {local}
MCProviders == {provider}

(* Only a local replica and one without an adapter, both required. *)
MCPair == {local, index}
MCNoProviders == {}

(* Deliveries are interchangeable. *)
TaskSymmetry == Permutations(Tasks)

(* The checker's fairness-free specification, for the safety run. *)
SafetySpec == Init /\ [][Next]_vars

=============================================================================
