------------------------------- MODULE MCEvidence ------------------------------
(***************************************************************************)
(* Evidence matching (two requirements, one piece of evidence, two         *)
(* matches, three calls) and, beside it, precheck and readiness (three      *)
(* calls).  They share no variables, so a behaviour is one of them with    *)
(* the other at rest; focus says which.                                    *)
(***************************************************************************)
EXTENDS EvidenceMatching, TLC

CONSTANTS People, Services

VARIABLES focus,
          profile, condition, cost, policy, prechecks, readiness,
          clock, service, mixed

Readiness == INSTANCE StrategyReadiness

readinessVars == <<profile, condition, cost, policy, prechecks,
                   readiness, clock, service, mixed>>

(* Nobody is not a person. *)
ASSUME ReadinessAssumption == Nobody \notin People

MCSymmetry == Permutations(Handlers) \cup Permutations(Services)

(* The author of what is there already is always the same person. *)
MCInit ==
    /\ focus \in {"matching", "readiness"}
    /\ Init
    /\ Readiness!Init
    /\ \A e \in Evidences : evidence[e].createdBy = CHOOSE u \in Users : TRUE
    /\ policy = "PUBLISHED" => cost.createdBy = CHOOSE p \in People : TRUE
    /\ focus = "matching" => policy = "ABSENT"
    /\ focus = "readiness" =>
         /\ requirement[1].state = "DRAFT"
         /\ \A e \in Evidences : evidence[e].state = "DRAFT"

MCNext ==
    /\ \/ focus = "matching" /\ Next /\ UNCHANGED readinessVars
       \/ focus = "readiness" /\ Readiness!Next /\ UNCHANGED vars
    /\ UNCHANGED focus

MCSpec == MCInit /\ [][MCNext]_<<focus, vars, readinessVars>>

-----------------------------------------------------------------------------
(* The properties of StrategyReadiness, stated there.                      *)

(* A precheck is a PASS exactly when its five checks passed, a cost that   *)
(* counts has a second person behind it, and no readiness is formal.       *)
ReadinessInv == focus = "readiness" => Readiness!ReadinessInv

(* No older precheck replaces a newer one, and a condition is closed once  *)
(* and in time.                                                            *)
DecisionsStand == Readiness!DecisionsStand

=============================================================================
