-------------------------------- MODULE MCJobs ---------------------------------
(***************************************************************************)
(* The two background jobs, a parse job and a deletion job of a local      *)
(* replica and one without an adapter, under the fairness of their         *)
(* workers.  They share no data: a behaviour runs one of them, focus says  *)
(* which.                                                                  *)
(***************************************************************************)
EXTENDS DeletionCoordinator

CONSTANTS Calls, MaxAttempts, MaxRepeats

VARIABLES focus, parse, blob, assets, call, repeats, wrecked, raced

Ingest == INSTANCE ParseJob WITH job <- parse

(* A parse job has an attempt: max_attempts is Field(ge=1). *)
ASSUME ParseAssumption == MaxAttempts \in Nat \ {0} /\ MaxRepeats \in Nat

parseVars == <<parse, blob, assets, call, repeats, wrecked, raced>>
jobVars == <<focus, parseVars, vars>>

MCInit ==
    /\ focus \in {"parse", "deletion"}
    /\ Ingest!Init
    /\ Init
    /\ focus = "parse" => holds = {} /\ registry = Replicas

MCNext ==
    /\ \/ focus = "parse" /\ Ingest!Next /\ UNCHANGED vars
       \/ focus = "deletion" /\ Next /\ UNCHANGED parseVars
    /\ UNCHANGED focus

(* The fairness of the two specifications, each while its job runs. *)
MCFairness ==
    /\ \A c \in Calls : WF_jobVars(focus = "parse" /\ (Ingest!Step(c) \/ Ingest!CutOff(c))
                                     /\ UNCHANGED <<focus, vars>>)
    /\ \A t \in Tasks : WF_jobVars(focus = "deletion" /\ Lock(t)
                                     /\ UNCHANGED <<focus, parseVars>>)
    /\ WF_jobVars(focus = "deletion" /\ (run_once \/ Raise)
                    /\ UNCHANGED <<focus, parseVars>>)

MCSpec == MCInit /\ [][MCNext]_jobVars /\ MCFairness

-----------------------------------------------------------------------------
(* The properties of the parse job, stated in ParseJob.  Those of the      *)
(* deletion coordinator, IndInv and DeliveriesEnd, keep their names.       *)

(* A parse job and its derived assets agree, whatever was repeated,        *)
(* retried or cut off (services.py:879-1014).                              *)
ParseInv == Ingest!ParseInv

(* Without overlapping calls a SUCCEEDED or CANCELLED job stays as it is.  *)
FinishedIsFinal == Ingest!FinishedIsFinal

(* A RUNNING job reaches an outcome unless some execution was cut off.     *)
RunningEnds == Ingest!RunningEnds

=============================================================================
