------------------------------ MODULE RuleClauses ------------------------------
(***************************************************************************)
(* The rule clauses of one coverage key of one decision unit and their     *)
(* resolution (modules/rules/application/services.py: RuleClauseService,   *)
(* modules/projects/domain/resolution.py), and one compliance review       *)
(* (ComplianceReviewService).  No operation publishes a clause: published  *)
(* clauses are loaded with their rule sets, and supersede makes further    *)
(* ones.  A handler reads, decides and writes its copy back, and other     *)
(* threads run in between.                                                 *)
(***************************************************************************)
EXTENDS Naturals, FiniteSets

CONSTANTS
    Sets,      \* rule sets of the unit's project
    Clauses,   \* clauses; a set of numbers, the order of their ids
    Loaded,    \* the clauses that are loaded as published
    Exprs,     \* what a clause may say
    Callers,   \* handler calls
    Nothing    \* no clause

VARIABLES
    ruleSet,   \* the stored rule sets
    clause,    \* the stored clauses
    review,    \* the state of the compliance review
    task,      \* what each handler call is doing
    overlap    \* history: two calls overlapped

vars == <<ruleSet, clause, review, task, overlap>>

RuleScopeLevel == {"PROJECT", "DECISION_UNIT"}

(* inForce: effective_from has come and effective_until has not. *)
RuleSet == [level : RuleScopeLevel, state : {"DRAFT", "PUBLISHED"},
            validity : {"CURRENT", "STALE"}, inForce : BOOLEAN]

Clause == [state : {"ABSENT", "DRAFT", "PUBLISHED"},
           validity : {"CURRENT", "STALE"}, set : Sets, expr : Exprs,
           priority : {1, 2}, supersedes : Clauses \cup {Nothing}]

ReviewStates ==
    {"OPEN", "BLOCKING", "ACCEPTED_FOR_SIMULATION", "RESOLVED", "CLOSED"}

COMPLIANCE_EDGES ==
    [ OPEN |-> {"BLOCKING", "ACCEPTED_FOR_SIMULATION", "RESOLVED", "CLOSED"},
      BLOCKING |-> {"ACCEPTED_FOR_SIMULATION", "RESOLVED"},
      ACCEPTED_FOR_SIMULATION |-> {"BLOCKING", "RESOLVED", "CLOSED"},
      RESOLVED |-> {"CLOSED"},
      CLOSED |-> {} ]

Points == {"new", "edit", "stale", "successor", "transition", "returned"}

AnyClause == [state |-> "ABSENT", validity |-> "CURRENT",
              set |-> CHOOSE s \in Sets : TRUE,
              expr |-> CHOOSE e \in Exprs : TRUE,
              priority |-> 1, supersedes |-> Nothing]

(* A handler call: the clause it is about, the copy it read, and the       *)
(* target of a review transition.                                          *)
Task == [at : Points, clause : Clauses \cup {Nothing}, copy : Clause,
         target : ReviewStates]

NoTask == [at |-> "new", clause |-> Nothing, copy |-> AnyClause,
           target |-> "OPEN"]

TypeOK ==
    /\ ruleSet \in [Sets -> RuleSet]
    /\ clause \in [Clauses -> Clause]
    /\ review \in ReviewStates
    /\ task \in [Callers -> Task]
    /\ overlap \in BOOLEAN

(* Rule sets of both levels with their published clauses are loaded. *)
Init ==
    /\ ruleSet \in [Sets -> {rs \in RuleSet : rs.validity = "CURRENT"}]
    /\ \E set \in [Loaded -> Sets], expr \in [Loaded -> Exprs] :
         clause = [c \in Clauses |->
             IF c \in Loaded
             THEN [AnyClause EXCEPT !.state = "PUBLISHED", !.set = set[c],
                                    !.expr = expr[c]]
             ELSE AnyClause]
    /\ review \in {"OPEN", "BLOCKING"}
    /\ task = [r \in Callers |-> NoTask]
    /\ overlap = FALSE

-----------------------------------------------------------------------------
InFlight(r) == task[r].at \notin {"new", "returned"}

Start(r, state) ==
    /\ task[r].at = "new"
    /\ task' = [task EXCEPT ![r] = state]
    /\ overlap' = (overlap \/ \E q \in Callers : InFlight(q))
    /\ UNCHANGED <<ruleSet, clause, review>>

Return(r) == task' = [task EXCEPT ![r] = [NoTask EXCEPT !.at = "returned"]]

(* The smallest id that is not in use stands for the next uuid. *)
IsNext(c) ==
    /\ clause[c].state = "ABSENT"
    /\ \A d \in Clauses : d < c => clause[d].state # "ABSENT"

(* A draft clause is added to any rule set, published ones included. *)
create(r) ==
    /\ task[r].at = "new"
    /\ \E c \in Clauses, s \in Sets, e \in Exprs, p \in {1, 2} :
         /\ IsNext(c)
         /\ clause' = [clause EXCEPT ![c] =
              [AnyClause EXCEPT !.state = "DRAFT", !.set = s, !.expr = e,
                                !.priority = p]]
    /\ Return(r)
    /\ UNCHANGED <<ruleSet, review, overlap>>

StartUpdate(r) ==
    \E c \in Clauses :
        /\ clause[c].state = "DRAFT"
        /\ Start(r, [NoTask EXCEPT !.at = "edit", !.clause = c,
                                   !.copy = clause[c]])

update_draft(r) ==
    /\ task[r].at = "edit"
    /\ \E e \in Exprs : clause' = [clause EXCEPT ![task[r].clause] =
         [task[r].copy EXCEPT !.expr = e]]
    /\ Return(r)
    /\ UNCHANGED <<ruleSet, review, overlap>>

(* supersede looks at the lifecycle state only: a STALE clause may be      *)
(* superseded again.                                                       *)
StartSupersede(r) ==
    \E c \in Clauses :
        /\ clause[c].state = "PUBLISHED"
        /\ Start(r, [NoTask EXCEPT !.at = "stale", !.clause = c,
                                   !.copy = clause[c]])

(* Mutant: the superseded clause is not marked. *)
KeepOld(r) ==
    /\ task[r].at = "stale"
    /\ task' = [task EXCEPT ![r].at = "successor"]
    /\ UNCHANGED <<ruleSet, clause, review, overlap>>

StaleOld(r) ==
    /\ task[r].at = "stale"
    /\ clause' = [clause EXCEPT ![task[r].clause] =
         [task[r].copy EXCEPT !.validity = "STALE"]]
    /\ task' = [task EXCEPT ![r].at = "successor"]
    /\ UNCHANGED <<ruleSet, review, overlap>>

(* The successor is published and CURRENT at once, by one person. *)
supersede(r) ==
    /\ task[r].at = "successor"
    /\ \E c \in Clauses, e \in Exprs :
         /\ IsNext(c)
         /\ clause' = [clause EXCEPT ![c] =
              [task[r].copy EXCEPT !.expr = e, !.validity = "CURRENT",
                                   !.supersedes = task[r].clause]]
    /\ Return(r)
    /\ UNCHANGED <<ruleSet, review, overlap>>

(* A rule set is published, superseded, or its dates pass (RulePublication *)
(* has these operations in full).                                          *)
ChangeSet(s) ==
    /\ \/ /\ ruleSet[s].state = "DRAFT"
          /\ ruleSet' = [ruleSet EXCEPT ![s].state = "PUBLISHED"]
       \/ /\ ruleSet[s].state = "PUBLISHED"
          /\ ruleSet' = [ruleSet EXCEPT ![s].validity = "STALE"]
       \/ ruleSet' = [ruleSet EXCEPT ![s].inForce = FALSE]
    /\ UNCHANGED <<clause, review, task, overlap>>

(* transition: along the edges; BLOCKING to CLOSED is refused once more. *)
StartTransition(r) ==
    \E target \in COMPLIANCE_EDGES[review] :
        /\ ~(review = "BLOCKING" /\ target = "CLOSED")
        /\ Start(r, [NoTask EXCEPT !.at = "transition", !.target = target])

transition(r) ==
    /\ task[r].at = "transition"
    /\ review' = task[r].target
    /\ Return(r)
    /\ UNCHANGED <<ruleSet, clause, overlap>>

ClauseRequests(r) ==
    \/ create(r)
    \/ StartUpdate(r) \/ update_draft(r)
    \/ StartSupersede(r) \/ StaleOld(r) \/ supersede(r)

ReviewRequests(r) == StartTransition(r) \/ transition(r)

Next ==
    \/ \E r \in Callers : ClauseRequests(r) \/ ReviewRequests(r)
    \/ \E s \in Sets : ChangeSet(s)

Spec == Init /\ [][Next]_vars

-----------------------------------------------------------------------------
(* Resolution of the coverage key.                                         *)

rule_set_is_effective(rs) == rs.validity = "CURRENT" /\ rs.inForce

clause_participates(c, formal) ==
    /\ c.validity = "CURRENT"
    /\ c.state \in IF formal THEN {"PUBLISHED"} ELSE {"DRAFT", "PUBLISHED"}

(* The clauses that count at one level of rule sets. *)
Grouped(level, formal) ==
    {c \in Clauses :
        LET rs == ruleSet[clause[c].set] IN
        /\ rs.level = level
        /\ rule_set_is_effective(rs)
        /\ formal => rs.state = "PUBLISHED"
        /\ clause_participates(clause[c], formal)}

expressions(cs) == {clause[c].expr : c \in cs}

(* Lowest priority number first, then the id. *)
winner(cs) ==
    CHOOSE c \in cs : \A d \in cs :
        \/ clause[c].priority < clause[d].priority
        \/ clause[c].priority = clause[d].priority /\ c <= d

Conflict(cs) == [status |-> "CONFLICT", winning |-> Nothing, among |-> cs]
Resolved(c) == [status |-> "RESOLVED", winning |-> c, among |-> {}]
NoResolution == [status |-> "NONE", winning |-> Nothing, among |-> {}]

resolve_inherited_clauses(formal) ==
    LET project == Grouped("PROJECT", formal)
        unit    == Grouped("DECISION_UNIT", formal)
    IN  CASE project \cup unit = {} -> NoResolution
          [] Cardinality(expressions(project)) > 1 -> Conflict(project)
          [] Cardinality(expressions(project)) <= 1
             /\ Cardinality(expressions(unit)) > 1 -> Conflict(unit)
          [] project # {} /\ unit # {}
             /\ Cardinality(expressions(project)) = 1
             /\ Cardinality(expressions(unit)) = 1
             /\ clause[winner(project)].expr # clause[winner(unit)].expr
               -> Conflict({winner(project), winner(unit)})
          [] OTHER -> Resolved(winner(IF unit # {} THEN unit ELSE project))

-----------------------------------------------------------------------------
(* Properties.                                                             *)

(* Nothing is resolved by order of writing: a key is resolved exactly when *)
(* every clause that counts, inherited or overriding, says the same; the   *)
(* unit's own clause is then the one named, and a conflict names clauses   *)
(* that really differ (resolution.py:53-155).                              *)
ResolvedIsUnanimous ==
    \A formal \in BOOLEAN :
        LET res     == resolve_inherited_clauses(formal)
            unit    == Grouped("DECISION_UNIT", formal)
            counted == Grouped("PROJECT", formal) \cup unit
        IN  /\ res.status = "RESOLVED" <=>
                 Cardinality(expressions(counted)) = 1
            /\ res.status = "RESOLVED" =>
                 res.winning \in IF unit # {} THEN unit ELSE counted
            /\ res.status = "CONFLICT" =>
                 /\ res.among \subseteq counted
                 /\ Cardinality(expressions(res.among)) > 1

(* However supersede calls overlap, a clause that has a successor never    *)
(* counts in a resolution again (services.py:800-846).                     *)
SupersededIsOut ==
    \A c, d \in Clauses :
        (clause[c].state = "PUBLISHED" /\ clause[c].supersedes = d) =>
            clause[d].validity = "STALE"

(* Whatever overlaps, the text of a published clause never changes; it is  *)
(* superseded instead (services.py:748-753).  An action, see MCRules.      *)
PublishedTextIsFixed ==
    \A c \in Clauses : clause[c].state = "PUBLISHED" =>
        /\ clause'[c].expr = clause[c].expr
        /\ clause'[c].state = "PUBLISHED"

(* Without overlapping transitions a BLOCKING review is accepted or        *)
(* resolved before it is closed, and CLOSED is final (services.py:47-70).  *)
BlockingIsNotClosed ==
    ~overlap => /\ review = "BLOCKING" => review' # "CLOSED"
                /\ review = "CLOSED" => review' = "CLOSED"

(* What inheritance and supersession promise of a coverage key together    *)
(* (resolution.py:53-155, services.py:800-846).                            *)
ClausesInv ==
    /\ TypeOK
    /\ ResolvedIsUnanimous
    /\ SupersededIsOut

=============================================================================
