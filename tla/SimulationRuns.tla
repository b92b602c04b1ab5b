----------------------------- MODULE SimulationRuns ----------------------------
(***************************************************************************)
(* Simulation batches, optimization runs and strategy plans               *)
(* (modules/simulation/application/services.py, workers/simulation).       *)
(* The repository locks each read and each write; a command reads its      *)
(* object, decides, and writes back the copy it read, so two commands on   *)
(* one object may overlap.  Audit records and events follow the write and  *)
(* decide nothing.  Commands and worker tasks are the calls below, each    *)
(* one used once: the bound on the concurrency of a behaviour.             *)
(***************************************************************************)
EXTENDS Naturals, FiniteSets

CONSTANTS
    Batches,      \* batch ids
    Runs,         \* optimization run ids
    Plans,        \* strategy plan ids
    Commands      \* calls: requests and worker tasks

VARIABLES
    batch,        \* state of every batch
    run,          \* state of every run
    plan,         \* state of every plan
    merges,       \* outcomes of the stored merge assessments of every run
    verdicts,     \* statuses of the static validations stored for a batch
    outcomes,     \* scenarios with a stored outcome, per batch
    stress,       \* how the stress tests of a run ended
    command,      \* what every call is doing
    overlapped    \* history: objects that two commands held at once

runVars == <<batch, run, plan, merges, verdicts, outcomes, stress, command,
             overlapped>>

BatchState == {"PENDING", "RUNNING", "SUCCEEDED", "INDETERMINATE",
               "FAILED_RETRYABLE", "FAILED_TERMINAL", "CANCELLED"}

OptimizationState == {"RUNNING", "SUCCEEDED", "FAILED", "INVALIDATED",
                      "FINALIZED"}

PlanState == {"DRAFT", "PUBLISHED", "INVALIDATED"}

ScenarioKind == {"SEARCH", "EVALUATION", "STRESS"}

StaticValidationStatus == {"PASS", "FAIL"}

Objects == Batches \cup Runs \cup Plans

BatchCommands == {"cancel", "retry", "run_static_validation", "run_batch"}

RunCommands == {"create_run", "finalize", "invalidate", "run_optimization"}

PlanCommands == {"publish_plan", "invalidate_plan"}

(* A call: not made yet, holding the state it read of an object, over. *)
Call == [op : {"idle", "over"} \cup BatchCommands \cup RunCommands
                               \cup PlanCommands,
         of : Objects \cup {"none"}, read : BatchState \cup OptimizationState
                               \cup PlanState \cup {"none"}]

TypeOK ==
    /\ batch \in [Batches -> BatchState \cup {"ABSENT"}]
    /\ run \in [Runs -> OptimizationState \cup {"ABSENT"}]
    /\ plan \in [Plans -> PlanState]
    /\ merges \in [Runs -> SUBSET {"accepted", "blocked"}]
    /\ verdicts \in [Batches -> SUBSET StaticValidationStatus]
    /\ outcomes \in [Batches -> SUBSET ScenarioKind]
    /\ stress \in [Runs -> {"none", "passed", "violated", "refused"}]
    /\ command \in [Commands -> Call]
    /\ overlapped \subseteq Objects

Idle == [op |-> "idle", of |-> "none", read |-> "none"]

Over == [op |-> "over", of |-> "none", read |-> "none"]

(* Nothing in the repository creates a plan: drafts are there from the     *)
(* start.                                                                  *)
Init ==
    /\ batch = [b \in Batches |-> "ABSENT"]
    /\ run = [r \in Runs |-> "ABSENT"]
    /\ plan = [p \in Plans |-> "DRAFT"]
    /\ merges = [r \in Runs |-> {}]
    /\ verdicts = [b \in Batches |-> {}]
    /\ outcomes = [b \in Batches |-> {}]
    /\ stress = [r \in Runs |-> "none"]
    /\ command = [c \in Commands |-> Idle]
    /\ overlapped = {}

(* Call c reads object x in the given state to do op.                      *)
Begin(c, op, x, state) ==
    /\ command[c] = Idle
    /\ command' = [command EXCEPT ![c] = [op |-> op, of |-> x, read |-> state]]
    /\ overlapped' = IF \E d \in Commands : command[d].of = x
                     THEN overlapped \cup {x} ELSE overlapped

Holds(c, op, x) == command[c].op = op /\ command[c].of = x

End(c) == command' = [command EXCEPT ![c] = Over]

-----------------------------------------------------------------------------
(* Batches.                                                                *)

(* A frozen baseline and a frozen scenario set are there: see              *)
(* RecommendationGate.                                                     *)
create_batch(b) ==
    /\ batch[b] = "ABSENT"
    /\ batch' = [batch EXCEPT ![b] = "PENDING"]
    /\ UNCHANGED <<run, plan, merges, verdicts, outcomes, stress, command,
                   overlapped>>

(* Mutant: a batch that succeeded can be cancelled. *)
CancellableAny(state) == state \notin {"INDETERMINATE", "FAILED_TERMINAL", "CANCELLED"}

Cancellable(state) ==
    state \notin {"SUCCEEDED", "INDETERMINATE", "FAILED_TERMINAL", "CANCELLED"}

Retryable(state) == state \in {"FAILED_RETRYABLE", "INDETERMINATE"}

(* The reads of cancel, retry, run_static_validation and the worker's      *)
(* run_batch; only the first two look at the state.                        *)
BeginBatchCommand(c, b) ==
    /\ batch[b] # "ABSENT"
    /\ \E op \in BatchCommands :
         /\ op = "cancel" => Cancellable(batch[b])
         /\ op = "retry" => Retryable(batch[b])
         /\ Begin(c, op, b, batch[b])
    /\ UNCHANGED <<batch, run, plan, merges, verdicts, outcomes, stress>>

cancel(c, b) ==
    /\ Holds(c, "cancel", b)
    /\ batch' = [batch EXCEPT ![b] = "CANCELLED"]
    /\ End(c)
    /\ UNCHANGED <<run, plan, merges, verdicts, outcomes, stress, overlapped>>

retry(c, b) ==
    /\ Holds(c, "retry", b)
    /\ batch' = [batch EXCEPT ![b] = "PENDING"]
    /\ End(c)
    /\ UNCHANGED <<run, plan, merges, verdicts, outcomes, stress, overlapped>>

assert_validation_passed(results) == "FAIL" \notin results

(* Every verdict is stored before any is acted on; the copy that was       *)
(* handed in is written back as RUNNING.                                   *)
run_static_validation(c, b) ==
    /\ Holds(c, "run_static_validation", b)
    /\ \E results \in SUBSET StaticValidationStatus :
         /\ verdicts' = [verdicts EXCEPT ![b] = results]
         /\ batch' = IF assert_validation_passed(results)
                     THEN [batch EXCEPT ![b] = "RUNNING"] ELSE batch
    /\ End(c)
    /\ UNCHANGED <<run, plan, merges, outcomes, stress, overlapped>>

(* Stress scenarios are skipped; a frozen set has both other kinds. *)
run_scenario_referees(b) ==
    /\ batch[b] = "RUNNING"
    /\ outcomes' = [outcomes EXCEPT ![b] = ScenarioKind \ {"STRESS"}]
    /\ UNCHANGED <<batch, run, plan, merges, verdicts, stress, command,
                   overlapped>>

(* The worker's task: whatever the state is, the batch succeeded. *)
run_batch(c, b) ==
    /\ Holds(c, "run_batch", b)
    /\ batch' = [batch EXCEPT ![b] = "SUCCEEDED"]
    /\ End(c)
    /\ UNCHANGED <<run, plan, merges, verdicts, outcomes, stress, overlapped>>

(* A production evaluator behind SimulationWorkerRuntime may also give up  *)
(* on a batch it runs.                                                     *)
EvaluatorGivesUp(b) ==
    /\ batch[b] \in {"PENDING", "RUNNING"}
    /\ \E s \in {"INDETERMINATE", "FAILED_RETRYABLE", "FAILED_TERMINAL"} :
         batch' = [batch EXCEPT ![b] = s]
    /\ overlapped' = IF \E d \in Commands : command[d].of = b
                     THEN overlapped \cup {b} ELSE overlapped
    /\ UNCHANGED <<run, plan, merges, verdicts, outcomes, stress, command>>

-----------------------------------------------------------------------------
(* Optimization runs.                                                      *)

(* create_run stores the candidates and the run as RUNNING ...             *)
StoreRun(c, r) ==
    /\ run[r] = "ABSENT"
    /\ \E b \in Batches : batch[b] # "ABSENT"
    /\ run' = [run EXCEPT ![r] = "RUNNING"]
    /\ Begin(c, "create_run", r, "RUNNING")
    /\ UNCHANGED <<batch, plan, merges, verdicts, outcomes, stress>>

(* What the run becomes: a hard axis that fails writes FAILED; a scenario  *)
(* on the wrong axis or with a weight raises and leaves the run as it is.  *)
StressVerdict(r, ended) ==
    IF ended = "violated" THEN [run EXCEPT ![r] = "FAILED"] ELSE run

(* ... and then runs the stress tests.                                     *)
create_run(c, r) ==
    /\ Holds(c, "create_run", r)
    /\ \E ended \in {"passed", "violated", "refused"} :
         /\ stress' = [stress EXCEPT ![r] = ended]
         /\ run' = StressVerdict(r, ended)
    /\ End(c)
    /\ UNCHANGED <<batch, plan, merges, verdicts, outcomes, overlapped>>

Finalizable(state) == state \in {"SUCCEEDED", "RUNNING"}

BeginRunCommand(c, r) ==
    /\ run[r] # "ABSENT"
    /\ \E op \in RunCommands \ {"create_run"} :
         /\ op = "finalize" => Finalizable(run[r])
         /\ Begin(c, op, r, run[r])
    /\ UNCHANGED <<batch, run, plan, merges, verdicts, outcomes, stress>>

finalize(c, r) ==
    /\ Holds(c, "finalize", r)
    /\ run' = [run EXCEPT ![r] = "FINALIZED"]
    /\ End(c)
    /\ UNCHANGED <<batch, plan, merges, verdicts, outcomes, stress, overlapped>>

invalidate(c, r) ==
    /\ Holds(c, "invalidate", r)
    /\ run' = [run EXCEPT ![r] = "INVALIDATED"]
    /\ End(c)
    /\ UNCHANGED <<batch, plan, merges, verdicts, outcomes, stress, overlapped>>

(* The worker's task, without a look at the state. *)
run_optimization(c, r) ==
    /\ Holds(c, "run_optimization", r)
    /\ run' = [run EXCEPT ![r] = "SUCCEEDED"]
    /\ End(c)
    /\ UNCHANGED <<batch, plan, merges, verdicts, outcomes, stress, overlapped>>

(* The assessment is stored, accepted or not; a blocked one then raises. *)
merge_plans(r) ==
    /\ run[r] # "ABSENT"
    /\ \E outcome \in {"accepted", "blocked"} :
         merges' = [merges EXCEPT ![r] = @ \cup {outcome}]
    /\ UNCHANGED <<batch, run, plan, verdicts, outcomes, stress, command,
                   overlapped>>

-----------------------------------------------------------------------------
(* Plans.                                                                  *)

Publishable(state) == state = "DRAFT"

BeginPlanCommand(c, p) ==
    /\ \E op \in PlanCommands :
         /\ op = "publish_plan" => Publishable(plan[p])
         /\ Begin(c, op, p, plan[p])
    /\ UNCHANGED <<batch, run, plan, merges, verdicts, outcomes, stress>>

publish_plan(c, p) ==
    /\ Holds(c, "publish_plan", p)
    /\ plan' = [plan EXCEPT ![p] = "PUBLISHED"]
    /\ End(c)
    /\ UNCHANGED <<batch, run, merges, verdicts, outcomes, stress, overlapped>>

invalidate_plan(c, p) ==
    /\ Holds(c, "invalidate_plan", p)
    /\ plan' = [plan EXCEPT ![p] = "INVALIDATED"]
    /\ End(c)
    /\ UNCHANGED <<batch, run, merges, verdicts, outcomes, stress, overlapped>>

BatchRequests ==
    \E b \in Batches :
        \/ create_batch(b)
        \/ \E c \in Commands : \/ BeginBatchCommand(c, b)
                               \/ cancel(c, b)
                               \/ retry(c, b)

OptimizationRequests ==
    \E r \in Runs :
        \/ merge_plans(r)
        \/ \E c \in Commands : \/ StoreRun(c, r)
                               \/ create_run(c, r)
                               \/ BeginRunCommand(c, r)
                               \/ finalize(c, r)
                               \/ invalidate(c, r)

PlanRequests ==
    \E p \in Plans, c \in Commands : \/ BeginPlanCommand(c, p)
                                     \/ publish_plan(c, p)
                                     \/ invalidate_plan(c, p)

WorkerTasks ==
    \/ \E c \in Commands, b \in Batches : run_batch(c, b)
                                          \/ run_static_validation(c, b)
    \/ \E c \in Commands, r \in Runs : run_optimization(c, r)
    \/ \E b \in Batches : run_scenario_referees(b) \/ EvaluatorGivesUp(b)

Next ==
    \/ BatchRequests
    \/ OptimizationRequests
    \/ PlanRequests
    \/ WorkerTasks

Spec == Init /\ [][Next]_runVars

-----------------------------------------------------------------------------
(* Properties.                                                             *)

(* As long as no two commands held the batch at once, one that was         *)
(* cancelled or failed for good is revived by a worker task only           *)
(* (services.py:709-724, 752-761; workers/simulation/runtime.py:36-46).    *)
SettledBatchesStay ==
    \A b \in Batches :
       (batch[b] \in {"SUCCEEDED", "FAILED_TERMINAL", "CANCELLED"}
          /\ batch'[b] # batch[b] /\ b \notin overlapped')
         => \E c \in Commands : command[c].of = b
              /\ command[c].op \in {"run_batch", "run_static_validation"}

(* A batch starts to run only on a validation in which no candidate        *)
(* failed, whatever came before, and no outcome is of a stress scenario    *)
(* (814-836, 850-853).                                                     *)
RunsOnlyValidated ==
    \A b \in Batches :
       /\ (batch[b] # "RUNNING" /\ batch'[b] = "RUNNING")
            => "FAIL" \notin verdicts'[b]
       /\ "STRESS" \notin outcomes'[b]

(* A run that failed a hard axis stays failed or invalidated, unless the   *)
(* worker runs it again or another command held it during its creation     *)
(* (961-992, 1009-1016).                                                   *)
StressFailureIsKept ==
    \A r \in Runs :
       /\ (stress[r] = "none" /\ stress'[r] = "violated") => run'[r] = "FAILED"
       /\ (run[r] = "FAILED" /\ run'[r] # "FAILED" /\ r \notin overlapped')
            => \/ run'[r] = "INVALIDATED"
               \/ \E c \in Commands : command[c].op = "run_optimization"

(* An invalidated run is not finalized, and an invalidated plan is not     *)
(* published, unless two commands held it at once (1009-1016, 1164-1170).  *)
InvalidatedStaysOut ==
    /\ \A r \in Runs : (run[r] = "INVALIDATED" /\ run'[r] = "FINALIZED")
         => r \in overlapped
    /\ \A p \in Plans : (plan[p] = "INVALIDATED" /\ plan'[p] = "PUBLISHED")
         => p \in overlapped

(* What no step of a worker or of a command may do to a batch, a run or a  *)
(* plan (services.py:709-1170).                                            *)
RunsAreKept ==
    [][/\ SettledBatchesStay
       /\ RunsOnlyValidated
       /\ StressFailureIsKept
       /\ InvalidatedStaysOut]_runVars

=============================================================================
