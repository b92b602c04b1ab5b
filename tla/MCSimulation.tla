------------------------------ MODULE MCSimulation -----------------------------
(***************************************************************************)
(* The simulation: batches, runs and plans under three overlapping calls;  *)
(* what a recommendation rests on; risk acceptances under three            *)
(* revocations; and the pure functions, each on every bounded input.  A    *)
(* behaviour is one of them with the others at rest; focus says which.     *)
(***************************************************************************)
EXTENDS SimulationRuns, TLC

CONSTANTS Baselines, Spaces, Sets, Snapshots, Upstream, Contents,
          Acceptances, Revokers, Makers, MaxTime,
          MaxCandidates, MaxAmount, Names

VARIABLES focus, baseline, space, scenarios, snapshot, eligibility, live,
          acceptance, revocation, met, now, question, answer

Gate == INSTANCE RecommendationGate

Risk == INSTANCE RiskAcceptance

Math == INSTANCE SimulationMath

(* Ids are not the marks for "none" and for a call that is over. *)
ASSUME SimulationAssumption ==
    /\ Gate!None \notin Spaces
    /\ {Risk!None, "over"} \cap Acceptances = {}
    /\ MaxTime \in Nat

gateVars == <<baseline, space, scenarios, snapshot, eligibility, live>>

riskVars == <<acceptance, revocation, met, now>>

mathVars == <<question, answer>>

AtRest == [kind |-> "none"]

MCInit ==
    /\ focus \in {"runs", "gate", "risk", "math"}
    /\ Init
    /\ Gate!Init
    /\ Risk!Init
    /\ IF focus = "math" THEN Math!Init
       ELSE question = AtRest /\ answer = Math!Unanswered
    /\ focus # "gate" => live = [u \in Upstream |-> CHOOSE k \in Contents : TRUE]

MCNext ==
    /\ \/ focus = "runs" /\ Next /\ UNCHANGED <<gateVars, riskVars, mathVars>>
       \/ focus = "gate" /\ Gate!Next /\ UNCHANGED <<runVars, riskVars, mathVars>>
       \/ focus = "risk" /\ Risk!Next /\ UNCHANGED <<runVars, gateVars, mathVars>>
       \/ focus = "math" /\ Math!Next /\ UNCHANGED <<runVars, gateVars, riskVars>>
    /\ UNCHANGED focus

MCSpec == MCInit /\ [][MCNext]_<<focus, runVars, gateVars, riskVars, mathVars>>

(* Bound: one eligibility is assessed. *)
MCBound == Cardinality(eligibility) <= 1

-----------------------------------------------------------------------------
(* The properties of the instances, stated in their modules.               *)

(* Frozen scenario sets are split, ELIGIBLE means that every gate is       *)
(* current and the snapshot behind it stays locked, and the state of all   *)
(* three parts is typed.                                                   *)
SimulationInv ==
    /\ TypeOK
    /\ focus = "gate" => Gate!GateInv
    /\ focus = "risk" => Risk!TypeOK

(* A risk acceptance only moves on, and is revoked once. *)
AcceptancesMoveOn == Risk!AcceptancesMoveOn

(* The pure functions agree with their references on every bounded input.  *)
MathInv == focus = "math" => Math!MathInv

=============================================================================
