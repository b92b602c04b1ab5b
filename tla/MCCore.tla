-------------------------------- MODULE MCCore ---------------------------------
(***************************************************************************)
(* The foundations every module rests on, each with its own state: the     *)
(* audit chain, the drafts of projects and units, the gates with retention *)
(* and invalidation, and access control.  A behaviour exercises one part,  *)
(* focus says which.                                                       *)
(***************************************************************************)
EXTENDS AuditChain, TLC

CONSTANTS Projects, DraftUnits, Editors, Names, Notes, MaxDraftTime, MaxUpdates, MaxWalkUpdates,
          EvidenceKeys, Required, RetentionHolds, Edges, Fields, MaxGateTime, MaxRequests,
          MaxDeliveries, Tenants, ScopedItems, TenantOf, MaxRoles, u1

(* Ids stand for their place in the list, which begins after <<0, 0>>. *)
ASSUME DraftsAssumption == Projects \cup DraftUnits \subseteq Nat \ {0} /\ MaxDraftTime \in Nat

ASSUME GatesAssumption == MaxGateTime \in Nat

ASSUME TenantsAssumption == Tenants # {}

VARIABLES focus, updates, item, seen, edit, walk, time,
          assessment, process, job, placed, asked, delivered, invalidated, clock,
          identity, answer

Drafts == INSTANCE ProjectDrafts

MCRequired == [g \in {"REAL_DATA_MODE", "BYOK_SECRET_GATE"} |->
                 IF g = "REAL_DATA_MODE" THEN EvidenceKeys ELSE {CHOOSE k \in EvidenceKeys : TRUE}]

(* One edge of each kind, about one field, and one about all of them. *)
MCEdges == [kind : {"COMPUTATIONAL", "AUTHORIZATION", "POLICY", "EVIDENTIAL", "PRESENTATIONAL"},
            fields : {{f} : f \in Fields}]

Gates == INSTANCE GovernanceGates

MCTenantOf == [i \in ScopedItems |-> IF i = u1 THEN CHOOSE t \in Tenants : TRUE
                                     ELSE CHOOSE t \in Tenants : t # CHOOSE s \in Tenants : TRUE]

Access == INSTANCE AccessControl

draftVars == <<item, seen, edit, walk, time>>
gateVars == <<assessment, process, job, placed, asked, delivered, invalidated, clock>>
accessVars == <<identity, answer>>

MCInit ==
    /\ focus \in {"audit", "projects", "units", "walks", "gates", "retention", "changes", "access"}
    /\ updates = 0
    /\ Init
    /\ Drafts!Init
    /\ Gates!Init
    /\ Access!Init

(* Bounds: at most MaxUpdates draft requests start.  A reader walks the    *)
(* list only under "walks", where at most MaxWalkUpdates requests start,   *)
(* time passes and there is one name.                                      *)
DraftSteps ==
    /\ \/ /\ updates < (IF focus = "walks" THEN MaxWalkUpdates ELSE MaxUpdates)
          /\ \/ Drafts!ProjectRequests /\ focus # "units"
             \/ Drafts!UnitRequests /\ focus # "projects"
          /\ updates' = IF edit' = edit THEN updates ELSE updates + 1
       \/ /\ \/ \E c \in Editors : Drafts!Store(c)
             \/ /\ focus = "walks"
                /\ Drafts!list(Projects) \/ Drafts!list(DraftUnits) \/ Drafts!paginate \/ Drafts!Tick
          /\ UNCHANGED updates
    /\ focus = "walks" =>
         /\ \A i \in Projects \cup DraftUnits :
              item'[i].name \in {CHOOSE n \in Names : TRUE, Drafts!None}
         /\ \A c \in Editors : edit'[c].copy.name \in {CHOOSE n \in Names : TRUE, Drafts!None}
         /\ \A i \in Projects, j \in DraftUnits : "ABSENT" \in {item'[i].state, item'[j].state}

(* Bound: only the first gate has evidence that may be missing, fail or     *)
(* expire, and it is assessed once at each moment.                         *)
GateSteps ==
    /\ Gates!GateSteps
    /\ assessment'["REAL_DATA_MODE"] # assessment["REAL_DATA_MODE"] =>
         assessment["REAL_DATA_MODE"] = Gates!NoAssessment \/ clock > assessment["REAL_DATA_MODE"].at
    /\ \/ assessment'["BYOK_SECRET_GATE"] = assessment["BYOK_SECRET_GATE"]
       \/ /\ assessment'["BYOK_SECRET_GATE"].evidence =
               [k \in EvidenceKeys |-> [status |-> "PASS", expires |-> MaxGateTime]]
          /\ assessment'["BYOK_SECRET_GATE"].expires = MaxGateTime

(* Bound: at most MaxDeliveries different changes are delivered. *)
ChangeSteps ==
    /\ Gates!InvalidationSteps
    /\ Cardinality(delivered') <= MaxDeliveries

MCNext ==
    /\ \/ focus = "audit" /\ Next /\ UNCHANGED <<updates, draftVars, gateVars, accessVars>>
       \/ focus \in {"projects", "units", "walks"} /\ DraftSteps /\ UNCHANGED <<auditVars, gateVars, accessVars>>
       \/ /\ \/ focus = "gates" /\ (GateSteps \/ Gates!Tick)
             \/ focus = "retention" /\ (Gates!RetentionSteps \/ Gates!Tick)
             \/ focus \in {"retention", "changes"} /\ ChangeSteps
          /\ UNCHANGED <<updates, auditVars, draftVars, accessVars>>
       \/ focus = "access" /\ Access!Next /\ UNCHANGED <<updates, auditVars, draftVars, gateVars>>
    /\ UNCHANGED focus

MCSpec == MCInit /\ [][MCNext]_<<focus, updates, auditVars, draftVars, gateVars, accessVars>>

-----------------------------------------------------------------------------
(* The properties of the parts, stated in their modules.                   *)

(* A client whose ETag matches knows the item's name, and a walk returns   *)
(* all it owes.                                                            *)
DraftsInv == Drafts!DraftsInv

(* An open gate is proved, retention blocks once, and the end of a source  *)
(* reaches every dependent.                                                *)
GatesInv == Gates!GatesInv

(* The reported permissions are those of the guards, and nobody is served  *)
(* an item outside the caller's scope.                                     *)
AccessInv == Access!AccessInv

=============================================================================
