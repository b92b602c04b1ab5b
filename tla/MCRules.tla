-------------------------------- MODULE MCRules --------------------------------
(***************************************************************************)
(* The project and rules services of one decision unit: publication (a     *)
(* scope and two rule sets, three calls), the clauses of one coverage key  *)
(* (two loaded, room for two more), and the lifecycle services (one        *)
(* thread).  The three share no variables, so a behaviour is one of them   *)
(* with the others at rest; focus says which.                              *)
(***************************************************************************)
EXTENDS RulePublication, TLC

CONSTANTS Sets, Clauses, Loaded, Exprs, Callers, Nothing,  \* RuleClauses
          Threads, UniqueSequence                          \* the lifecycle

VARIABLES focus,
          ruleSet, clause, review, task, overlap,
          state, last, thread, marks, raced, forged

(* Clauses are numbered, there is a rule set and something for a clause to *)
(* say, and Nothing is no clause.                                          *)
ASSUME ClausesAssumption ==
    /\ Clauses \subseteq Nat
    /\ IsFiniteSet(Clauses)
    /\ Sets # {} /\ Exprs # {}
    /\ Nothing \notin Clauses

ClauseBook == INSTANCE RuleClauses
Lifecycle == INSTANCE DecisionUnitLifecycle

MCKind == <<"scope", "unit_rules", "unit_rules">>
MCStages == {"CANCELLED"}
MCSymmetry == Permutations(Requests) \cup Permutations(Users)

clauseVars == <<ruleSet, clause, review, task, overlap>>
lifecycleVars == <<state, last, thread, marks, raced, forged>>

MCInit ==
    /\ focus \in {"publication", "clauses", "lifecycle"}
    /\ Init
    /\ ClauseBook!Init
    /\ \A s \in Sets : /\ ruleSet[s].inForce
                       /\ ruleSet[s].state = "PUBLISHED"
    /\ clause[1].set = ClauseBook!AnyClause.set
    /\ clause[1].expr = ClauseBook!AnyClause.expr
    /\ clause[2].set # clause[1].set
    /\ review = "OPEN"
    /\ focus # "clauses" =>
         /\ \A s \in Sets : ruleSet[s].level = "PROJECT"
         /\ clause[1].expr = clause[2].expr
    /\ Lifecycle!Init

MCNext ==
    /\ \/ /\ focus = "publication"
          /\ Next
          /\ UNCHANGED <<clauseVars, lifecycleVars>>
       \/ /\ focus = "clauses"
          /\ ClauseBook!Next
          /\ UNCHANGED <<vars, lifecycleVars>>
       \/ /\ focus = "lifecycle"
          /\ Lifecycle!Next
          /\ UNCHANGED <<vars, clauseVars>>
    /\ UNCHANGED focus

MCSpec == MCInit /\ [][MCNext]_<<focus, vars, clauseVars, lifecycleVars>>

-----------------------------------------------------------------------------
(* The properties of RuleClauses and DecisionUnitLifecycle, stated there.  *)

(* Resolution never settles a disagreement by order of writing, and a      *)
(* superseded clause never counts again.                                   *)
ClausesInv == focus = "clauses" => ClauseBook!ClausesInv

(* The events explain the unit's state, submission follows a request for   *)
(* approval, a decided unit stays decided and every unit can be archived.  *)
LifecycleInv == focus = "lifecycle" => Lifecycle!LifecycleInv

(* No step undoes a decision: a unit leaves a terminal state along the     *)
(* table only, the text of a published clause is fixed, and a BLOCKING     *)
(* review is not closed directly (lifecycle.py:69-81, services.py:47-70,   *)
(* 331-371, 748-753).                                                      *)
NothingIsUndone ==
    [][/\ TerminalIsLeftByTable
       /\ ClauseBook!PublishedTextIsFixed
       /\ ClauseBook!BlockingIsNotClosed]_<<vars, clauseVars>>

=============================================================================
