--------------------------- MODULE RecommendationGate --------------------------
(***************************************************************************)
(* What a recommendation rests on: decision baselines, search spaces and   *)
(* scenario sets, snapshots and eligibility assessments                    *)
(* (modules/simulation/application/services.py).  Every object is stored   *)
(* once, and afterwards only frozen or locked again, so a command is one   *)
(* step.  A hash is modelled by what it is a hash of: no two contents      *)
(* collide.                                                                *)
(***************************************************************************)
EXTENDS Naturals

CONSTANTS
    Baselines, Spaces, Sets, Snapshots,   \* ids
    Upstream,       \* upstream versions a manifest may name
    Contents        \* contents of an upstream version or a payload

VARIABLES
    baseline,       \* stored baselines
    space,          \* the baseline of every search space
    scenarios,      \* stored scenario sets
    snapshot,       \* stored snapshots
    eligibility,    \* stored eligibility assessments
    live            \* content of every upstream version now

gateVars == <<baseline, space, scenarios, snapshot, eligibility, live>>

None == "none"

ReviewValidity == {"CURRENT", "UNKNOWN", "EXPIRED", "INVALIDATED"}

(* A manifest: the content of every upstream version it names, with the    *)
(* hash of its items.                                                      *)
InputManifest == [items : [Upstream -> Contents \cup {None}],
                  hash : [Upstream -> Contents \cup {None}]]

(* checked: history, whether the live versions were compared. *)
DecisionBaseline == [state : {"ABSENT", "FROZEN"}, manifest : InputManifest,
                     checked : BOOLEAN]

ScenarioSet == [state : {"ABSENT", "FROZEN"},
                kinds : SUBSET {"SEARCH", "EVALUATION", "STRESS"},
                weight : 0..2, search : Spaces \cup {None},
                evaluation : Spaces \cup {None}]

SimulationAssessmentSnapshot ==
    [state : {"ABSENT", "DRAFT", "LOCKED"}, payload : Contents \cup {None},
     hash : Contents \cup {None}, watermark : BOOLEAN]

RecommendationEligibility ==
    [state : {"ELIGIBLE", "INELIGIBLE", "INDETERMINATE"},
     gates : SUBSET ReviewValidity, baseline : Baselines,
     snapshot : Snapshots \cup {None}]

TypeOK ==
    /\ baseline \in [Baselines -> DecisionBaseline]
    /\ space \in [Spaces -> Baselines \cup {None}]
    /\ scenarios \in [Sets -> ScenarioSet]
    /\ snapshot \in [Snapshots -> SimulationAssessmentSnapshot]
    /\ eligibility \subseteq RecommendationEligibility
    /\ live \in [Upstream -> Contents]

NoManifest == [items |-> [u \in Upstream |-> None],
               hash |-> [u \in Upstream |-> None]]

NoSet == [state |-> "ABSENT", kinds |-> {}, weight |-> 0, search |-> None,
          evaluation |-> None]

NoSnapshot == [state |-> "ABSENT", payload |-> None, hash |-> None,
               watermark |-> FALSE]

Init ==
    /\ baseline = [b \in Baselines |-> [state |-> "ABSENT", manifest |-> NoManifest,
                                        checked |-> FALSE]]
    /\ space = [s \in Spaces |-> None]
    /\ scenarios = [s \in Sets |-> NoSet]
    /\ snapshot = [s \in Snapshots |-> NoSnapshot]
    /\ eligibility = {}
    /\ \E k \in Contents : live = [u \in Upstream |-> k]

-----------------------------------------------------------------------------
(* Baselines, search spaces, scenario sets.                                *)

compute_input_manifest_hash(items) == items

build_manifest(items) ==
    [items |-> items, hash |-> compute_input_manifest_hash(items)]

assert_manifest_complete(m) ==
    /\ \E u \in Upstream : m.items[u] # None
    /\ m.hash = compute_input_manifest_hash(m.items)

assert_manifest_matches_versions(m) ==
    \A u \in Upstream : m.items[u] # None => m.items[u] = live[u]

(* live_versions is optional: checked says whether the caller gave it. *)
freeze_baseline(b, items, checked) ==
    LET m == build_manifest(items)
    IN  /\ baseline[b].state = "ABSENT"
        /\ checked => assert_manifest_matches_versions(m)
        /\ assert_manifest_complete(m)
        /\ baseline' = [baseline EXCEPT ![b] = [state |-> "FROZEN", manifest |-> m,
                                                checked |-> checked]]
        /\ UNCHANGED <<space, scenarios, snapshot, eligibility, live>>

create_search_space(s, b) ==
    /\ space[s] = None
    /\ baseline[b].state # "ABSENT"
    /\ space' = [space EXCEPT ![s] = b]
    /\ UNCHANGED <<baseline, scenarios, snapshot, eligibility, live>>

(* weight is the sum of the members' weights. *)
freeze_scenarios(kinds, weight, search, evaluation) ==
    /\ kinds = {"SEARCH", "EVALUATION"}
    /\ weight = 1
    /\ evaluation # None => evaluation # search

(* An evaluation space that is named but does not exist counts as none. *)
create_scenario_set(s, kinds, weight, search, named) ==
    LET evaluation == IF named # None /\ space[named] # None
                      THEN named ELSE None
    IN  /\ scenarios[s].state = "ABSENT"
        /\ \E b \in Baselines : baseline[b].state # "ABSENT"
        /\ space[search] # None
        /\ freeze_scenarios(kinds, weight, search, evaluation)
        /\ scenarios' = [scenarios EXCEPT ![s] =
             [state |-> "FROZEN", kinds |-> kinds, weight |-> weight,
              search |-> search, evaluation |-> evaluation]]
        /\ UNCHANGED <<baseline, space, snapshot, eligibility, live>>

validate_search_eval_independence(set) ==
    /\ "STRESS" \notin set.kinds
    /\ {"SEARCH", "EVALUATION"} \subseteq set.kinds
    /\ set.evaluation # set.search

(* The set is stored frozen: freezing it again changes no more than who    *)
(* froze it and when.                                                      *)
freeze_scenario_set(s) ==
    /\ scenarios[s].state # "ABSENT"
    /\ validate_search_eval_independence(scenarios[s])
    /\ scenarios' = [scenarios EXCEPT ![s].state = "FROZEN"]
    /\ UNCHANGED <<baseline, space, snapshot, eligibility, live>>

(* An upstream module publishes new content under the version. *)
Drift(u, k) ==
    /\ live' = [live EXCEPT ![u] = k]
    /\ UNCHANGED <<baseline, space, scenarios, snapshot, eligibility>>

-----------------------------------------------------------------------------
(* Snapshots and eligibility.                                              *)

compute_payload_hash(payload) == payload

create_snapshot(payload) ==
    [state |-> "LOCKED", payload |-> payload,
     hash |-> compute_payload_hash(payload), watermark |-> TRUE]

assert_shadow_watermark(s) == s.watermark

StoreSnapshot(s, payload) ==
    /\ snapshot[s].state = "ABSENT"
    /\ assert_shadow_watermark(create_snapshot(payload))
    /\ snapshot' = [snapshot EXCEPT ![s] = create_snapshot(payload)]
    /\ UNCHANGED <<baseline, space, scenarios, eligibility, live>>

(* The worker's task locks it again if hash and watermark are as they were. *)
Relocked(s) == [snapshot[s] EXCEPT !.state = "LOCKED"]

WorkerLocksSnapshot(s) ==
    /\ snapshot[s].state # "ABSENT"
    /\ compute_payload_hash(snapshot[s].payload) = snapshot[s].hash
    /\ snapshot[s].watermark
    /\ snapshot' = [snapshot EXCEPT ![s] = Relocked(s)]
    /\ UNCHANGED <<baseline, space, scenarios, eligibility, live>>

(* gates is the set of the six gates' validities. *)
assess_eligibility(gates) ==
    IF "UNKNOWN" \in gates THEN "INDETERMINATE"
    ELSE IF gates \cap {"INVALIDATED", "EXPIRED"} # {} THEN "INELIGIBLE"
    ELSE "ELIGIBLE"

(* Mutant: the snapshot is not looked up. *)
SnapshotUsableAny(s) == TRUE

SnapshotUsable(s) == s # None => snapshot[s].state = "LOCKED"

(* The verdict is stored before a verdict other than ELIGIBLE is refused.  *)
(* The validities are the caller's: no gate is looked up.                  *)
assess(b, s, gates) ==
    /\ baseline[b].state = "FROZEN"
    /\ SnapshotUsable(s)
    /\ eligibility' = eligibility \cup
         {[state |-> assess_eligibility(gates), gates |-> gates, baseline |-> b,
           snapshot |-> s]}
    /\ UNCHANGED <<baseline, space, scenarios, snapshot, live>>

BaselineRequests ==
    \/ \E b \in Baselines, items \in [Upstream -> Contents \cup {None}],
          checked \in BOOLEAN : freeze_baseline(b, items, checked)
    \/ \E s \in Spaces, b \in Baselines : create_search_space(s, b)

ScenarioRequests ==
    \E s \in Sets :
        \/ \E kinds \in SUBSET {"SEARCH", "EVALUATION", "STRESS"},
              weight \in 0..2, search \in Spaces, named \in Spaces \cup {None} :
             create_scenario_set(s, kinds, weight, search, named)
        \/ freeze_scenario_set(s)

AssessmentRequests ==
    \/ \E s \in Snapshots, payload \in Contents : StoreSnapshot(s, payload)
    \/ \E b \in Baselines, s \in Snapshots \cup {None},
          gates \in (SUBSET ReviewValidity) \ {{}} : assess(b, s, gates)

Next ==
    \/ BaselineRequests
    \/ ScenarioRequests
    \/ AssessmentRequests
    \/ \E s \in Snapshots : WorkerLocksSnapshot(s)
    \/ \E u \in Upstream, k \in Contents : Drift(u, k)

Spec == Init /\ [][Next]_gateVars

-----------------------------------------------------------------------------
(* Properties.                                                             *)

(* A frozen scenario set has search and evaluation members and no stress   *)
(* member, its weights sum to one, and the two spaces differ, whichever    *)
(* way the set was made (domain/scenarios.py:57-118, 139-166).             *)
FrozenSetsAreSplit ==
    \A s \in Sets : scenarios[s].state = "FROZEN" =>
        /\ validate_search_eval_independence(scenarios[s])
        /\ scenarios[s].weight = 1

(* An eligibility is ELIGIBLE exactly when every gate it was given is      *)
(* current, and is never a verdict while a gate is unknown                 *)
(* (domain/eligibility.py:55-86).                                          *)
EligibleIffAllCurrent ==
    \A e \in eligibility :
        /\ e.state = "ELIGIBLE" <=> e.gates = {"CURRENT"}
        /\ e.state = "INDETERMINATE" <=> "UNKNOWN" \in e.gates

(* The snapshot an eligibility names is locked, watermarked and still the  *)
(* payload it was hashed from, whatever the worker does to it later        *)
(* (services.py:1266-1277, workers/simulation/runtime.py:71-84).           *)
EligibilityRestsOnLocked ==
    \A e \in eligibility : e.snapshot # None =>
        LET s == snapshot[e.snapshot]
        IN  s.state = "LOCKED" /\ s.watermark
              /\ compute_payload_hash(s.payload) = s.hash

(* What a recommendation rests on: split scenario sets, gates that are all *)
(* current, a locked snapshot (domain/eligibility.py:55-86,                *)
(* services.py:1266-1277).                                                 *)
GateInv ==
    /\ TypeOK
    /\ FrozenSetsAreSplit
    /\ EligibleIffAllCurrent
    /\ EligibilityRestsOnLocked

=============================================================================
