------------------------- MODULE DecisionUnitLifecycle -------------------------
(***************************************************************************)
(* The lifecycle of one decision unit: the services that move it along its *)
(* transition table (modules/projects/application/services.py: submit,     *)
(* submit_after_intake, update_draft).  Each service reads the unit,       *)
(* decides, and writes a copy of it back; API threads interleave between   *)
(* the repository calls.                                                   *)
(*                                                                         *)
(* The events of the unit are kept as the state the latest one leads to.   *)
(* Sequence numbers are len(prior) + 1: a thread's number is still free    *)
(* exactly when no event was appended since the thread listed them.        *)
(***************************************************************************)
EXTENDS LifecycleTable

CONSTANTS
    Threads,        \* API threads, each handling one call after another
    UniqueSequence  \* TRUE: SQL repository (uq_lifecycle_event_sequence);
                    \* FALSE: in-memory repository

VARIABLES
    state,   \* lifecycle_state of the stored unit
    last,    \* to_state of the latest lifecycle event
    thread,  \* what each thread is doing
    marks,   \* history: milestones passed (see Mark)
    raced,   \* history: two calls overlapped
    forged   \* history: an event was appended whose from_state was not last

vars == <<state, last, thread, marks, raced, forged>>

Milestones == {"asked", "decided", "resumed"}

Points == {"free", "read", "chosen", "append", "write", "patch"}

Todo == {<<>>} \cup {<<c>> : c \in INTAKE_COMMANDS}
          \cup {<<"REGIME_AND_SCOPE_PENDING", c>> : c \in INTAKE_COMMANDS}

(* from and to of the event a thread makes, whether its sequence number is *)
(* still free, and the commands it has yet to submit (submit_after_intake).*)
Call == [at : Points, from : DecisionUnitLifecycleState,
         to : DecisionUnitLifecycleState, reopened : BOOLEAN,
         fresh : BOOLEAN, todo : Todo]

Free == [at |-> "free", from |-> "DRAFT", to |-> "DRAFT", reopened |-> FALSE,
         fresh |-> TRUE, todo |-> <<>>]

TypeOK ==
    /\ state \in DecisionUnitLifecycleState
    /\ last \in DecisionUnitLifecycleState
    /\ thread \in [Threads -> Call]
    /\ marks \in SUBSET Milestones
    /\ raced \in BOOLEAN
    /\ forged \in BOOLEAN

Init ==
    /\ state = "DRAFT"
    /\ last = "DRAFT"
    /\ thread = [t \in Threads |-> Free]
    /\ marks = {}
    /\ raced = FALSE
    /\ forged = FALSE

-----------------------------------------------------------------------------
Busy(t) == thread[t].at # "free"

Begin(t, call) ==
    /\ thread[t].at = "free"
    /\ thread' = [thread EXCEPT ![t] = call]
    /\ raced' = (raced \/ \E u \in Threads : Busy(u))

(* submit: the unit is read and the command resolved against its state. *)
submit(t) ==
    /\ \E to \in allowed_targets(state) :
         Begin(t, [Free EXCEPT !.at = "chosen", !.from = state, !.to = to])
    /\ UNCHANGED <<state, last, marks, forged>>

reopen(t) ==
    /\ \E to \in reopen_targets(state) :
         Begin(t, [Free EXCEPT !.at = "chosen", !.from = state, !.to = to,
                               !.reopened = TRUE])
    /\ UNCHANGED <<state, last, marks, forged>>

(* submit_after_intake, called when a scope assessment is published or a   *)
(* cross-lot constraint confirmed: a unit still in intake is moved to      *)
(* REGIME_AND_SCOPE_PENDING first; a unit already where the command leads  *)
(* is left alone.                                                          *)
submit_after_intake(t) ==
    /\ \E command \in INTAKE_COMMANDS \ {state} :
         Begin(t, [Free EXCEPT !.at = "read", !.todo =
             IF state \in {"DRAFT", "DOCUMENTS_PARSING"}
             THEN <<"REGIME_AND_SCOPE_PENDING", command>> ELSE <<command>>])
    /\ UNCHANGED <<state, last, marks, forged>>

(* Its next submit reads the unit again; a command the unit's state does   *)
(* not allow by now raises and ends the call.                              *)
SubmitNext(t) ==
    LET todo == thread[t].todo IN
    /\ thread[t].at = "read"
    /\ thread' = [thread EXCEPT ![t] =
         IF Head(todo) \in allowed_targets(state)
         THEN [Free EXCEPT !.at = "chosen", !.from = state, !.to = Head(todo),
                           !.todo = Tail(todo)]
         ELSE Free]
    /\ UNCHANGED <<state, last, marks, raced, forged>>

(* list_lifecycle_events fixes the sequence number. *)
Number(t) ==
    /\ thread[t].at = "chosen"
    /\ thread' = [thread EXCEPT ![t].at = "append", ![t].fresh = TRUE]
    /\ UNCHANGED <<state, last, marks, raced, forged>>

(* The milestones an event adds and removes. *)
Mark(to, reopened) ==
    LET gone  == (IF to = "REWORK" THEN {"asked"} ELSE {})
                   \cup (IF reopened THEN {"decided"} ELSE {})
        added == (IF to = "APPROVAL_PENDING" THEN {"asked"} ELSE {})
                   \cup (IF to \in {"AWARDED", "LOST", "DISQUALIFIED"}
                         THEN {"decided"} ELSE {})
                   \cup (IF reopened THEN {"resumed"} ELSE {})
    IN  (marks \ gone) \cup added

(* append_lifecycle_event; the SQL repository refuses a number that is     *)
(* taken by now, and the call ends with nothing written.                   *)
AppendEvent(t) ==
    /\ thread[t].at = "append"
    /\ IF UniqueSequence /\ ~thread[t].fresh
       THEN /\ thread' = [thread EXCEPT ![t] = Free]
            /\ UNCHANGED <<last, marks, forged>>
       ELSE /\ thread' = [u \in Threads |->
                 IF u = t THEN [thread[t] EXCEPT !.at = "write"]
                          ELSE [thread[u] EXCEPT !.fresh = FALSE]]
            /\ last' = thread[t].to
            /\ marks' = Mark(thread[t].to, thread[t].reopened)
            /\ forged' = (forged \/ thread[t].from # last)
    /\ UNCHANGED <<state, raced>>

(* upsert_unit with the state the event leads to; the outbox event and the *)
(* audit record follow.                                                    *)
Write(t) ==
    LET todo == thread[t].todo IN
    /\ thread[t].at = "write"
    /\ state' = thread[t].to
    /\ thread' = [thread EXCEPT ![t] =
         IF todo = <<>> THEN Free
                        ELSE [Free EXCEPT !.at = "read", !.todo = todo]]
    /\ UNCHANGED <<last, marks, raced, forged>>

(* update_draft reads the unit and writes its copy back with other fields  *)
(* changed; the lifecycle state of the copy goes with it.                  *)
StartPatch(t) ==
    /\ Begin(t, [Free EXCEPT !.at = "patch", !.from = state])
    /\ UNCHANGED <<state, last, marks, forged>>

update_draft(t) ==
    /\ thread[t].at = "patch"
    /\ state' = thread[t].from
    /\ thread' = [thread EXCEPT ![t] = Free]
    /\ UNCHANGED <<last, marks, raced, forged>>

Next ==
    \E t \in Threads :
        \/ submit(t) \/ reopen(t) \/ submit_after_intake(t) \/ StartPatch(t)
        \/ SubmitNext(t) \/ Number(t) \/ AppendEvent(t)
        \/ Write(t) \/ update_draft(t)

Spec == Init /\ [][Next]_vars

-----------------------------------------------------------------------------
(* Properties.                                                             *)

Idle == \A t \in Threads : ~Busy(t)

(* When calls do not overlap, the events form a chain from DRAFT that ends *)
(* in the unit's state (services.py:518-539).                              *)
EventsExplainState ==
    ~raced => ~forged /\ (Idle => state = last)

(* A unit is authorised for submission, submitted or decided only after it *)
(* was put up for approval since its last REWORK, unless a REOPENED event  *)
(* let its caller choose the state to resume in (lifecycle.py:83-259).     *)
SUBMITTED ==
    {"SUBMISSION_AUTHORIZED", "DECISION_FROZEN", "EXTERNAL_SUBMISSION_PENDING",
     "SUBMISSION_DECLARED", "SUBMISSION_MISMATCH", "SUBMISSION_FAILED",
     "SUBMISSION_VERIFIED", "OUTCOME_PENDING", "OUTCOME_UNVERIFIED",
     "OUTCOME_CONFLICTING", "OUTCOME_VERIFIED", "AWARDED", "LOST",
     "DISQUALIFIED"}

ApprovalBeforeSubmission ==
    ~raced /\ last \in SUBMITTED /\ "resumed" \notin marks => "asked" \in marks

(* A decided unit is closed and archived, or reopened, and nothing else    *)
(* happens to it (lifecycle.py:69-81, 300-321).                            *)
OutcomeIsFinal ==
    ~raced /\ "decided" \in marks =>
        last \in {"AWARDED", "LOST", "DISQUALIFIED", "CLOSED", "ARCHIVED"}

(* The states from which a command leads into S, and S. *)
OneStepFrom(S) ==
    S \cup {s \in DecisionUnitLifecycleState : allowed_targets(s) \cap S # {}}

Archivable == OneStepFrom(OneStepFrom(OneStepFrom({"ARCHIVED"})))

(* No state is a dead end: three commands archive any unit (cancel, close, *)
(* archive at worst, lifecycle.py:305-320).                                *)
NoDeadEnds == state \in Archivable

(* What the lifecycle service and its table promise of a unit together     *)
(* (lifecycle.py:69-321, services.py:518-539).                             *)
LifecycleInv ==
    /\ TypeOK
    /\ EventsExplainState
    /\ ApprovalBeforeSubmission
    /\ OutcomeIsFinal
    /\ NoDeadEnds

=============================================================================
