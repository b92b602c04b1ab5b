---------------------------- MODULE LifecycleTable ----------------------------
(***************************************************************************)
(* The transition table of a decision unit                                 *)
(* (modules/projects/domain/lifecycle.py): its states, the commands each   *)
(* state allows, and where a REOPENED command may lead.                    *)
(***************************************************************************)
EXTENDS Naturals, Sequences

TERMINAL_STATES ==
    {"AWARDED", "LOST", "DISQUALIFIED", "NO_BID", "WITHDRAWN", "CANCELLED",
     "PROCUREMENT_FAILED", "CLOSED", "ARCHIVED"}

SPINE ==
    <<"DRAFT", "DOCUMENTS_PARSING", "REGIME_AND_SCOPE_PENDING",
      "RULES_PENDING_CONFIRMATION", "EVIDENCE_MATCHING", "PRECHECK_PENDING",
      "PRECHECK_PASSED", "STRATEGY_READINESS_PENDING", "STRATEGY_READY",
      "COMPUTING", "RECOMMENDATION_REVIEW", "ELIGIBILITY_PENDING", "ELIGIBLE",
      "APPROVAL_PACKAGE_FROZEN", "APPROVAL_PENDING", "SUBMISSION_AUTHORIZED",
      "DECISION_FROZEN", "EXTERNAL_SUBMISSION_PENDING", "SUBMISSION_DECLARED",
      "SUBMISSION_VERIFIED", "OUTCOME_PENDING", "OUTCOME_VERIFIED">>

BRANCHES ==
    [ DRAFT |-> {"DOCUMENTS_PARSING", "REGIME_AND_SCOPE_PENDING"},
      REGIME_AND_SCOPE_PENDING |->
        {"PORTFOLIO_REVIEW_REQUIRED", "MULTI_ROUND_UNSUPPORTED",
         "RULES_PENDING_CONFIRMATION"},
      PORTFOLIO_REVIEW_REQUIRED |-> {"REGIME_AND_SCOPE_PENDING"},
      MULTI_ROUND_UNSUPPORTED |-> {"REGIME_AND_SCOPE_PENDING"},
      PRECHECK_PENDING |->
        {"PRECHECK_BLOCKED", "PRECHECK_UNKNOWN", "PRECHECK_PASSED",
         "PRECHECK_CONDITIONAL"},
      PRECHECK_BLOCKED |-> {"REMEDIATION", "PRECHECK_PENDING"},
      PRECHECK_UNKNOWN |-> {"REMEDIATION", "PRECHECK_PENDING"},
      PRECHECK_CONDITIONAL |-> {"STRATEGY_READINESS_PENDING"},
      REMEDIATION |-> {"PRECHECK_PENDING", "RULES_PENDING_CONFIRMATION"},
      STRATEGY_READINESS_PENDING |->
        {"NOT_READY", "STRATEGY_READY", "STRATEGY_READY_WITH_CONDITIONS"},
      NOT_READY |-> {"STRATEGY_READINESS_PENDING"},
      STRATEGY_READY_WITH_CONDITIONS |-> {"COMPUTING"},
      COMPUTING |->
        {"SIMULATION_FAILED", "NO_FEASIBLE_STRATEGY", "RECOMMENDATION_REVIEW"},
      SIMULATION_FAILED |-> {"COMPUTING", "REWORK"},
      NO_FEASIBLE_STRATEGY |-> {"REWORK", "COMPUTING"},
      ELIGIBILITY_PENDING |->
        {"INELIGIBLE", "INDETERMINATE", "ELIGIBLE",
         "ELIGIBLE_WITH_ACCEPTED_RISK", "ELIGIBLE_WITH_CONDITIONS"},
      INELIGIBLE |-> {"REWORK"},
      INDETERMINATE |-> {"ELIGIBILITY_PENDING", "REWORK"},
      ELIGIBLE_WITH_ACCEPTED_RISK |-> {"APPROVAL_PACKAGE_FROZEN"},
      ELIGIBLE_WITH_CONDITIONS |-> {"APPROVAL_PACKAGE_FROZEN"},
      APPROVAL_PENDING |->
        {"REJECTED", "PACKAGE_INVALIDATED", "APPROVED_CONDITIONAL",
         "SUBMISSION_AUTHORIZED"},
      REJECTED |-> {"REWORK"},
      PACKAGE_INVALIDATED |-> {"REWORK", "APPROVAL_PACKAGE_FROZEN"},
      APPROVED_CONDITIONAL |-> {"CONDITION_CLOSURE", "SUBMISSION_AUTHORIZED"},
      CONDITION_CLOSURE |-> {"SUBMISSION_AUTHORIZED", "REWORK"},
      EXTERNAL_SUBMISSION_PENDING |->
        {"SUBMISSION_DECLARED", "SUBMISSION_FAILED"},
      SUBMISSION_DECLARED |->
        {"SUBMISSION_VERIFIED", "SUBMISSION_MISMATCH", "SUBMISSION_FAILED"},
      SUBMISSION_MISMATCH |-> {"EXTERNAL_SUBMISSION_PENDING", "REWORK"},
      SUBMISSION_FAILED |-> {"EXTERNAL_SUBMISSION_PENDING", "REWORK"},
      OUTCOME_PENDING |->
        {"OUTCOME_UNVERIFIED", "OUTCOME_CONFLICTING", "OUTCOME_VERIFIED"},
      OUTCOME_UNVERIFIED |-> {"OUTCOME_PENDING", "OUTCOME_VERIFIED"},
      OUTCOME_CONFLICTING |-> {"OUTCOME_PENDING"},
      OUTCOME_VERIFIED |-> {"AWARDED", "LOST", "DISQUALIFIED"},
      REWORK |->
        {"RULES_PENDING_CONFIRMATION", "EVIDENCE_MATCHING", "PRECHECK_PENDING",
         "STRATEGY_READINESS_PENDING"} ]

EARLY_EXIT == {"CANCELLED", "NO_BID", "WITHDRAWN", "PROCUREMENT_FAILED"}

REOPEN_FROM ==
    {"CANCELLED", "WITHDRAWN", "NO_BID", "PROCUREMENT_FAILED", "CLOSED",
     "MULTI_ROUND_UNSUPPORTED", "PORTFOLIO_REVIEW_REQUIRED"}

DecisionUnitLifecycleState ==
    TERMINAL_STATES \cup {SPINE[i] : i \in 1..Len(SPINE)} \cup DOMAIN BRANCHES
      \cup UNION {BRANCHES[s] : s \in DOMAIN BRANCHES}

spine_successor(s) ==
    {SPINE[i + 1] : i \in {j \in 1..(Len(SPINE) - 1) : SPINE[j] = s}}

CLOSABLE ==
    {"AWARDED", "LOST", "DISQUALIFIED", "NO_BID", "WITHDRAWN", "CANCELLED",
     "PROCUREMENT_FAILED", "OUTCOME_VERIFIED"}

(* Mutant: an eligible unit may skip the approval. *)
targets_skip_approval(s) ==
    (IF s \in DOMAIN BRANCHES THEN BRANCHES[s] ELSE {})
      \cup spine_successor(s)
      \cup (IF s \notin TERMINAL_STATES THEN EARLY_EXIT \cup {"REWORK"} ELSE {})
      \cup (IF s \in CLOSABLE THEN {"CLOSED"} ELSE {})
      \cup (IF s = "CLOSED" THEN {"ARCHIVED"} ELSE {})
      \cup (IF s = "ELIGIBLE" THEN {"SUBMISSION_AUTHORIZED"} ELSE {})

allowed_targets(s) ==
    (IF s \in DOMAIN BRANCHES THEN BRANCHES[s] ELSE {})
      \cup spine_successor(s)
      \cup (IF s \notin TERMINAL_STATES THEN EARLY_EXIT \cup {"REWORK"} ELSE {})
      \cup (IF s \in CLOSABLE THEN {"CLOSED"} ELSE {})
      \cup (IF s = "CLOSED" THEN {"ARCHIVED"} ELSE {})

(* Where REOPENED may lead: to the resume_state the caller names, or by    *)
(* default to REGIME_AND_SCOPE_PENDING, never into a terminal state.       *)
reopen_targets(s) ==
    IF s \in REOPEN_FROM THEN DecisionUnitLifecycleState \ TERMINAL_STATES
                         ELSE {}

-----------------------------------------------------------------------------
(* The commands of the scope assessment and the cross-lot constraint. *)
INTAKE_COMMANDS == {"MULTI_ROUND_UNSUPPORTED", "PORTFOLIO_REVIEW_REQUIRED",
                    "RULES_PENDING_CONFIRMATION"}

=============================================================================
