---------------------------- MODULE RulePublication ----------------------------
(***************************************************************************)
(* Publication of the scope assessments, regimes and rule sets of one      *)
(* decision unit, and of a cross-lot constraint                            *)
(* (modules/rules/application/services.py).  publish marks the CURRENT     *)
(* resources of its group STALE one upsert at a time, stores its own copy, *)
(* writes the unit back with its pointer moved, and for a scope submits a  *)
(* lifecycle command, which may be refused after all of that.  Calls on    *)
(* different threads interleave between repository calls.                  *)
(*                                                                         *)
(* Resources are numbered in the order of their creation.  Dates, texts    *)
(* and the project are left out; the audit sink is up throughout.  A       *)
(* lifecycle command is one step here: DecisionUnitLifecycle takes it      *)
(* apart.                                                                  *)
(***************************************************************************)
EXTENDS LifecycleTable, FiniteSets

CONSTANTS
    Users,     \* people with the roles to draft and publish
    Kind,      \* the kind of each resource, a sequence of Kinds
    Requests,  \* handler calls
    Stages,    \* the unit states that other commands may lead to
    None       \* nobody, no resource, no command

Kinds == {"scope", "regime", "project_rules", "unit_rules"}

ASSUME PublicationAssumption ==
    /\ Kind \in Seq(Kinds)
    /\ None \notin Users \cup Nat \cup INTAKE_COMMANDS
    /\ Stages \subseteq DecisionUnitLifecycleState

Items == 1..Len(Kind)

VARIABLES
    item,        \* the stored scope assessments, regimes and rule sets
    unit,        \* the stored decision unit: its state and its pointers
    constraint,  \* the cross-lot constraint
    call,        \* what each request is doing
    crossed      \* history: two calls overlapped

vars == <<item, unit, constraint, call, crossed>>

(* What a scope assessment leads to: a command, or none (UNSUPPORTED). *)
Verdicts == INTAKE_COMMANDS \cup {None}

Item == [state : {"ABSENT", "DRAFT", "PUBLISHED"},
         validity : {"CURRENT", "STALE"}, created_by : Users \cup {None},
         confirmed_by : Users \cup {None}, verdict : Verdicts]

NoItem == [state |-> "ABSENT", validity |-> "CURRENT", created_by |-> None,
           confirmed_by |-> None, verdict |-> None]

(* The two levels of rule sets share the unit's current_rule_set_id. *)
PointerOf(i) ==
    IF Kind[i] \in {"scope", "regime"} THEN Kind[i] ELSE "rules"

Unit == [state : DecisionUnitLifecycleState,
         at : [{"scope", "regime", "rules"} -> Items \cup {None}]]

Points == {"new", "edit", "list", "stale", "store", "unit", "pointer",
           "command", "confirm", "returned", "raised"}

(* A handler call: the resource it is about and its copy of it, the        *)
(* resources it has still to mark STALE with the copies it listed, and the *)
(* copy of the unit.                                                       *)
Call == [at : Points, by : Users \cup {None}, item : Items \cup {None},
         copy : Item, todo : SUBSET Items, listed : [Items -> Item],
         unit : Unit, command : Verdicts]

NoUnit == [state |-> "DRAFT",
           at |-> [p \in {"scope", "regime", "rules"} |-> None]]

NoCall == [at |-> "new", by |-> None, item |-> None, copy |-> NoItem,
           todo |-> {}, listed |-> [i \in Items |-> NoItem],
           unit |-> NoUnit, command |-> None]

TypeOK ==
    /\ item \in [Items -> Item]
    /\ unit \in Unit
    /\ constraint \in {"ABSENT", "UNCONFIRMED", "CONFIRMED"}
    /\ call \in [Requests -> Call]
    /\ crossed \in BOOLEAN

Init ==
    /\ item = [i \in Items |-> NoItem]
    /\ unit = NoUnit
    /\ constraint = "ABSENT"
    /\ call = [r \in Requests |-> NoCall]
    /\ crossed = FALSE

-----------------------------------------------------------------------------
InFlight(r) == call[r].at \notin {"new", "returned", "raised"}

Quiescent == \A r \in Requests : ~InFlight(r)

Start(r, state) ==
    /\ call[r].at = "new"
    /\ call' = [call EXCEPT ![r] = state]
    /\ crossed' = (crossed \/ ~Quiescent)
    /\ UNCHANGED <<item, unit, constraint>>

(* A call that ends leaves no locals behind. *)
Goto(r, point) ==
    call' = [call EXCEPT ![r] =
        IF point \in {"returned", "raised"} THEN [NoCall EXCEPT !.at = point]
                                            ELSE [@ EXCEPT !.at = point]]

(* What the three services draft; only a scope assessment has a verdict. *)
NewDraft(u) == [NoItem EXCEPT !.state = "DRAFT", !.created_by = u]

ScopeDrafts(u) ==
    {<<"scope", [NewDraft(u) EXCEPT !.verdict = v]>> : v \in Verdicts}

RegimeDrafts(u) == {<<"regime", NewDraft(u)>>}

RuleSetDrafts(u) ==
    {<<k, NewDraft(u)>> : k \in {"project_rules", "unit_rules"}}

(* The next resource is drafted; nobody else knows it before the call      *)
(* returns.                                                                *)
create(u) ==
    \E i \in Items, d \in ScopeDrafts(u) \cup RegimeDrafts(u) \cup RuleSetDrafts(u) :
        /\ item[i].state = "ABSENT"
        /\ \A j \in Items : j < i => item[j].state # "ABSENT"
        /\ Kind[i] = d[1]
        /\ item' = [item EXCEPT ![i] = d[2]]
        /\ UNCHANGED <<unit, constraint, call, crossed>>

create_constraint ==
    /\ constraint = "ABSENT"
    /\ constraint' = "UNCONFIRMED"
    /\ UNCHANGED <<item, unit, call, crossed>>

(* A scope's update_draft: DRAFT, and the ETag of its verdict matches. *)
StartUpdate(r, u) ==
    \E i \in Items :
        /\ Kind[i] = "scope" /\ item[i].state = "DRAFT"
        /\ Start(r, [NoCall EXCEPT !.at = "edit", !.by = u, !.item = i,
                                   !.copy = item[i]])

(* The copy is written back, its version now created by the editor. *)
update_draft(r) ==
    /\ call[r].at = "edit"
    /\ \E v \in Verdicts : item' = [item EXCEPT ![call[r].item] =
         [call[r].copy EXCEPT !.created_by = call[r].by, !.verdict = v]]
    /\ Goto(r, "returned")
    /\ UNCHANGED <<unit, constraint, crossed>>

-----------------------------------------------------------------------------
(* Mutant: whoever drafted may publish. *)
StartPublishOwn(r, u, kinds) ==
    \E i \in Items :
        /\ Kind[i] \in kinds
        /\ item[i].state = "DRAFT"
        /\ Start(r, [NoCall EXCEPT !.at = "list", !.by = u, !.item = i,
                                   !.copy = item[i]])

StartPublish(r, u, kinds) ==
    \E i \in Items :
        /\ Kind[i] \in kinds
        /\ item[i].state = "DRAFT"
        /\ u # item[i].created_by
        /\ Start(r, [NoCall EXCEPT !.at = "list", !.by = u, !.item = i,
                                   !.copy = item[i]])

(* The resources a publication of i supersedes.  The rule sets' loop skips *)
(* its own id, the other two need not: i is a DRAFT when they list.        *)
SameScope(i, j) == Kind[i] = "scope" /\ Kind[j] = "scope"

SameRegime(i, j) == Kind[i] = "regime" /\ Kind[j] = "regime"

SameRuleSetLevel(i, j) ==
    /\ Kind[i] \in {"project_rules", "unit_rules"}
    /\ Kind[j] = Kind[i]
    /\ i # j

SameGroup(i, j) ==
    SameScope(i, j) \/ SameRegime(i, j) \/ SameRuleSetLevel(i, j)

ListCurrent(r) ==
    /\ call[r].at = "list"
    /\ LET found == {j \in Items : /\ SameGroup(call[r].item, j)
                                   /\ item[j].state = "PUBLISHED"
                                   /\ item[j].validity = "CURRENT"}
       IN  call' = [call EXCEPT ![r] =
             [@ EXCEPT !.at = "stale", !.todo = found, !.listed =
                [j \in Items |-> IF j \in found THEN item[j] ELSE NoItem]]]
    /\ UNCHANGED <<item, unit, constraint, crossed>>

(* Copies are written back one at a time, in the order they were listed. *)
StaleOne(r) ==
    /\ call[r].at = "stale"
    /\ IF call[r].todo = {}
       THEN Goto(r, "store") /\ UNCHANGED item
       ELSE LET j == CHOOSE j \in call[r].todo :
                       \A k \in call[r].todo : j <= k
            IN  /\ item' = [item EXCEPT ![j] =
                     [call[r].listed[j] EXCEPT !.validity = "STALE"]]
                /\ call' = [call EXCEPT ![r].todo = @ \ {j},
                                         ![r].listed[j] = NoItem]
    /\ UNCHANGED <<unit, constraint, crossed>>

(* Mutant: the resource is stored STALE, as a later one's copy would be. *)
StoreStale(r) ==
    /\ call[r].at = "store"
    /\ item' = [item EXCEPT ![call[r].item] =
         [call[r].copy EXCEPT !.state = "PUBLISHED", !.validity = "STALE",
                              !.confirmed_by = call[r].by]]
    /\ call' = [call EXCEPT ![r] = [@ EXCEPT !.at = "unit", !.copy = NoItem,
                                             !.command = call[r].copy.verdict]]
    /\ UNCHANGED <<unit, constraint, crossed>>

Store(r) ==
    /\ call[r].at = "store"
    /\ item' = [item EXCEPT ![call[r].item] =
         [call[r].copy EXCEPT !.state = "PUBLISHED", !.validity = "CURRENT",
                              !.confirmed_by = call[r].by]]
    /\ call' = [call EXCEPT ![r] = [@ EXCEPT !.at = "unit", !.copy = NoItem,
                                             !.command = call[r].copy.verdict]]
    /\ UNCHANGED <<unit, constraint, crossed>>

(* require_unit, then upsert_unit with the pointer moved. *)
ReadUnit(r) ==
    /\ call[r].at = "unit"
    /\ call' = [call EXCEPT ![r] = [@ EXCEPT !.at = "pointer", !.unit = unit]]
    /\ UNCHANGED <<item, unit, constraint, crossed>>

SavePointer(r) ==
    LET i == call[r].item IN
    /\ call[r].at = "pointer"
    /\ unit' = [call[r].unit EXCEPT !.at[PointerOf(i)] = i]
    /\ IF call[r].command = None THEN Goto(r, "returned")
       ELSE call' = [call EXCEPT ![r] =
              [NoCall EXCEPT !.at = "command", !.command = call[r].command]]
    /\ UNCHANGED <<item, constraint, crossed>>

-----------------------------------------------------------------------------
(* confirm: the constraint is stored as confirmed, whatever it was, and    *)
(* the unit sent to portfolio review.                                      *)
StartConfirm(r, u) ==
    /\ constraint # "ABSENT"
    /\ Start(r, [NoCall EXCEPT !.at = "confirm", !.by = u,
                               !.command = "PORTFOLIO_REVIEW_REQUIRED"])

confirm(r) ==
    /\ call[r].at = "confirm"
    /\ constraint' = "CONFIRMED"
    /\ Goto(r, "command")
    /\ UNCHANGED <<item, unit, crossed>>

(* submit_after_intake on the unit as it is by now.  A refused command     *)
(* raises; what the call stored stays, its event and audit record are      *)
(* never written.                                                          *)
Accepts(state, command) ==
    \/ state \in {command, "DRAFT", "DOCUMENTS_PARSING"}
    \/ command \in allowed_targets(state)

(* Mutant: the command is applied without asking the table. *)
SubmitAnyway(r) ==
    /\ call[r].at = "command"
    /\ unit' = [unit EXCEPT !.state = call[r].command]
    /\ Goto(r, "returned")
    /\ UNCHANGED <<item, constraint, crossed>>

Submit(r) ==
    /\ call[r].at = "command"
    /\ IF Accepts(unit.state, call[r].command)
       THEN unit' = [unit EXCEPT !.state = call[r].command] /\ Goto(r, "returned")
       ELSE UNCHANGED unit /\ Goto(r, "raised")
    /\ UNCHANGED <<item, constraint, crossed>>

(* Somebody else's lifecycle command. *)
Advance ==
    /\ \E s \in Stages \cap allowed_targets(unit.state) :
         unit' = [unit EXCEPT !.state = s]
    /\ crossed' = (crossed \/ ~Quiescent)
    /\ UNCHANGED <<item, constraint, call>>

(* The requests of the HTTP routes, one group per kind of resource. *)
ScopeRequests(r, u) == StartUpdate(r, u) \/ StartPublish(r, u, {"scope"})

RuleSetRequests(r, u) == StartPublish(r, u, Kinds \ {"scope"})

CrossLotRequests(r, u) == create_constraint \/ StartConfirm(r, u)

Handler(r) ==
    \/ update_draft(r)
    \/ ListCurrent(r) \/ StaleOne(r) \/ Store(r) \/ ReadUnit(r) \/ SavePointer(r)
    \/ confirm(r)
    \/ Submit(r)

Next ==
    \/ \E u \in Users :
         \/ create(u)
         \/ \E r \in Requests : \/ ScopeRequests(r, u)
                              \/ RuleSetRequests(r, u)
                              \/ CrossLotRequests(r, u)
    \/ \E r \in Requests : Handler(r)
    \/ Advance

Spec == Init /\ [][Next]_vars

-----------------------------------------------------------------------------
(* Properties.                                                             *)

Current(k) ==
    {i \in Items : /\ Kind[i] = k
                   /\ item[i].state = "PUBLISHED"
                   /\ item[i].validity = "CURRENT"}

(* current_supported_rule_set: the CURRENT rule set created last. *)
current_supported_rule_set ==
    LET found == Current("project_rules") \cup Current("unit_rules") IN
    IF found = {} THEN None
                  ELSE CHOOSE i \in found : \A j \in found : j <= i

(* However publications overlap, once they have ended a unit whose regime  *)
(* or rules were ever published still has CURRENT ones: two calls may both *)
(* stay CURRENT, but they never stale each other, so the precheck always   *)
(* finds a rule set (services.py:121-176, 561-575).                        *)
PublishedStaysAvailable ==
    Quiescent =>
        /\ \A k \in {"regime", "project_rules", "unit_rules"} :
             (\E i \in Items : Kind[i] = k /\ item[i].state = "PUBLISHED")
                => Current(k) # {}
        /\ unit.at["rules"] # None => current_supported_rule_set # None

(* However publish, update_draft and the staling of others overlap, every  *)
(* published resource was confirmed by someone who did not write its       *)
(* latest version (services.py:315-320, 472-475, 557-560).                 *)
PublisherIsNotAuthor ==
    \A i \in Items :
        /\ item[i].state = "PUBLISHED" =>
             item[i].confirmed_by \notin {None, item[i].created_by}
        /\ item[i].state # "PUBLISHED" => item[i].confirmed_by = None

(* When calls do not overlap, at most one resource of a group is CURRENT,  *)
(* and the unit's pointers name CURRENT ones, also after a publication     *)
(* whose lifecycle command was refused (services.py:323-371).              *)
PointersAreCurrent ==
    (~crossed /\ Quiescent) =>
        /\ \A k \in Kinds : Cardinality(Current(k)) <= 1
        /\ \A p \in {"scope", "regime", "rules"} : unit.at[p] # None =>
             \E k \in Kinds : unit.at[p] \in Current(k)
        /\ Current("project_rules") \cup Current("unit_rules") # {} =>
             unit.at["rules"] # None

(* A call moves the unit's state along the table or writes back a state    *)
(* the unit was in when the call read it: publishing never pulls a unit    *)
(* out of a terminal state that it can only leave by REOPENED or closing   *)
(* (lifecycle.py:69-81, services.py:331-371), unless calls overlapped.     *)
TerminalIsLeftByTable ==
    (~crossed /\ unit.state \in TERMINAL_STATES) =>
        unit'.state \in allowed_targets(unit.state) \cup {unit.state}

(* What publication promises of the resources and of the unit's pointers   *)
(* together (services.py:121-176, 323-371).                                *)
PublicationInv ==
    /\ TypeOK
    /\ PublishedStaysAvailable
    /\ PointersAreCurrent

=============================================================================
