---------------------------- MODULE Simulation_proof ----------------------------
(***************************************************************************)
(* What no command and no worker task may do to a batch, a run, a plan, a  *)
(* frozen set, a snapshot or a risk acceptance, for any number of them     *)
(* and any number of calls.                                                *)
(*                                                                         *)
(* SimulationRuns: a command decides on the state it read and writes       *)
(* later. As long as no two calls held an object at once, the one that     *)
(* holds it is alone, and what it read is still there when it writes       *)
(* (ReadIsFresh); what the call checked of its copy (ChecksHold) is then   *)
(* true of the stored object.                                              *)
(*                                                                         *)
(* RecommendationGate: each command is one step over frozen references,    *)
(* so the invariant is about what the stored records refer to.             *)
(*                                                                         *)
(* RiskAcceptance: a revocation under way has read an acceptance that was  *)
(* active; expiry is computed from a clock that only advances.             *)
(*                                                                         *)
(* SimulationMath: the elements of a finite set that is strictly ordered   *)
(* are told apart by how many are ahead of them (PlacesCount), so a list   *)
(* sorted by such counts is a rearrangement (RankingSorts), does not       *)
(* depend on the order of its input (RankingIgnoresOrder), and its first   *)
(* places that clear a threshold can be counted (SelectionTakesFirst).     *)
(***************************************************************************)
EXTENDS MCSimulation, FiniteSetTheorems, SequenceTheorems, TLAPS

Active(c) == command[c].op \notin {"idle", "over"}

(* Two calls that hold one object have marked it. *)
OneHolder ==
    \A c, d \in Commands :
        Active(c) /\ Active(d) /\ command[c].of = command[d].of =>
            c = d \/ command[c].of \in overlapped

(* What a call read of an object that nobody else held is what is stored   *)
(* (services.py:709-724, 752-761, 1009-1016, 1164-1170).                   *)
ReadIsFresh ==
    \A c \in Commands :
        LET x == command[c].of IN
        /\ command[c].op \in BatchCommands =>
             x \in Batches /\ (x \notin overlapped => batch[x] = command[c].read)
        /\ command[c].op \in RunCommands =>
             x \in Runs /\ (x \notin overlapped => run[x] = command[c].read)
        /\ command[c].op \in PlanCommands =>
             x \in Plans /\ (x \notin overlapped => plan[x] = command[c].read)

(* The early returns of the commands, on the state they read. *)
ChecksHold ==
    \A c \in Commands :
        /\ command[c].op = "cancel" => Cancellable(command[c].read)
        /\ command[c].op = "retry" => Retryable(command[c].read)
        /\ command[c].op = "finalize" => Finalizable(command[c].read)
        /\ command[c].op = "publish_plan" => Publishable(command[c].read)

(* No outcome is of a stress scenario (850-853). *)
NoStressOutcome == \A b \in Batches : "STRESS" \notin outcomes[b]

(* The inductive invariant. *)
RunsIndInv ==
    /\ TypeOK
    /\ OneHolder
    /\ ReadIsFresh
    /\ ChecksHold
    /\ NoStressOutcome

(* What a step keeps of batches, runs and plans: the action of RunsAreKept. *)
StepKeeps ==
    /\ SettledBatchesStay
    /\ RunsOnlyValidated
    /\ StressFailureIsKept
    /\ InvalidatedStaysOut

(* The types of everything but the calls and the marks. *)
StoredOK ==
    /\ batch \in [Batches -> BatchState \cup {"ABSENT"}]
    /\ run \in [Runs -> OptimizationState \cup {"ABSENT"}]
    /\ plan \in [Plans -> PlanState]
    /\ merges \in [Runs -> SUBSET {"accepted", "blocked"}]
    /\ verdicts \in [Batches -> SUBSET StaticValidationStatus]
    /\ outcomes \in [Batches -> SUBSET ScenarioKind]
    /\ stress \in [Runs -> {"none", "passed", "violated", "refused"}]

(* Nothing but object x is written. *)
OnlyChanges(x) ==
    /\ \A b \in Batches : b # x => batch'[b] = batch[b]
    /\ \A r \in Runs : r # x => run'[r] = run[r]
    /\ \A p \in Plans : p # x => plan'[p] = plan[p]

-----------------------------------------------------------------------------
(* Every behaviour starts with the invariant: no batch and no run is       *)
(* stored, every plan is a draft, no call was made.                        *)
LEMMA InitInv ==
    Init => RunsIndInv
<1> SUFFICES ASSUME Init PROVE RunsIndInv
  OBVIOUS
<1>1. TypeOK
  BY DEF Init, TypeOK, Call, Idle, PlanState
<1>2. \A c \in Commands : command[c].op = "idle"
  BY DEF Init, Idle
<1>3. OneHolder /\ ReadIsFresh /\ ChecksHold
  BY <1>2 DEF OneHolder, Active, ReadIsFresh, ChecksHold, BatchCommands, RunCommands, PlanCommands
<1>4. NoStressOutcome
  BY DEF Init, NoStressOutcome
<1> QED
  BY <1>1, <1>3, <1>4 DEF RunsIndInv

(* A call that reads an object keeps the invariant: it knows what is       *)
(* stored, and marks the object when another call holds it (the            *)
(* repository's get before the decision, services.py:709-1170).            *)
LEMMA BeginInv ==
    ASSUME RunsIndInv, StoredOK', NoStressOutcome',
           NEW c \in Commands, NEW x \in Objects,
           NEW op \in BatchCommands \cup RunCommands \cup PlanCommands,
           NEW state \in BatchState \cup OptimizationState \cup PlanState,
           Begin(c, op, x, state), OnlyChanges(x),
           op \in BatchCommands => x \in Batches /\ batch'[x] = state,
           op \in RunCommands => x \in Runs /\ run'[x] = state,
           op \in PlanCommands => x \in Plans /\ plan'[x] = state,
           op = "cancel" => Cancellable(state),
           op = "retry" => Retryable(state),
           op = "finalize" => Finalizable(state),
           op = "publish_plan" => Publishable(state)
    PROVE  RunsIndInv'
<1> DEFINE new == [op |-> op, of |-> x, read |-> state]
<1>1. command \in [Commands -> Call] /\ overlapped \subseteq Objects
  BY DEF RunsIndInv, TypeOK
<1>2. new \in Call /\ new.op = op /\ new.of = x /\ new.read = state
  BY DEF Call
<1>3. command' = [command EXCEPT ![c] = new]
  BY DEF Begin
<1> HIDE DEF new
<1>4. command' \in [Commands -> Call]
  BY <1>1, <1>2, <1>3
<1>5. command'[c] = new /\ \A d \in Commands \ {c} : command'[d] = command[d]
  BY <1>1, <1>3
<1>6. /\ overlapped' \subseteq Objects
      /\ overlapped \subseteq overlapped'
      /\ (\E d \in Commands : command[d].of = x) => x \in overlapped'
  BY <1>1 DEF Begin
<1>7. TypeOK'
  BY <1>4, <1>6 DEF StoredOK, TypeOK
<1>8. OneHolder'
  <2> SUFFICES ASSUME NEW d \in Commands, NEW e \in Commands, d # e,
                      command'[d].op \notin {"idle", "over"},
                      command'[e].op \notin {"idle", "over"},
                      command'[d].of = command'[e].of
               PROVE  command'[d].of \in overlapped'
    BY DEF OneHolder, Active
  <2>1. CASE d = c
    BY <2>1, <1>2, <1>5, <1>6
  <2>2. CASE e = c
    BY <2>2, <1>2, <1>5, <1>6
  <2>3. CASE d # c /\ e # c
    BY <2>3, <1>5, <1>6 DEF RunsIndInv, OneHolder, Active
  <2> QED
    BY <2>1, <2>2, <2>3
<1>9. ReadIsFresh'
  <2> SUFFICES ASSUME NEW d \in Commands
               PROVE  /\ command'[d].op \in BatchCommands =>
                           /\ command'[d].of \in Batches
                           /\ command'[d].of \notin overlapped' =>
                                batch'[command'[d].of] = command'[d].read
                      /\ command'[d].op \in RunCommands =>
                           /\ command'[d].of \in Runs
                           /\ command'[d].of \notin overlapped' =>
                                run'[command'[d].of] = command'[d].read
                      /\ command'[d].op \in PlanCommands =>
                           /\ command'[d].of \in Plans
                           /\ command'[d].of \notin overlapped' =>
                                plan'[command'[d].of] = command'[d].read
    BY DEF ReadIsFresh
  <2>1. CASE d = c
    BY <2>1, <1>2, <1>5
  <2>2. CASE d # c
    <3>1. command'[d] = command[d]
      BY <2>2, <1>5
    <3>2. command[d].of \notin overlapped' => command[d].of \notin overlapped /\ command[d].of # x
      BY <1>6
    <3> QED
      BY <3>1, <3>2 DEF RunsIndInv, ReadIsFresh, OnlyChanges
  <2> QED
    BY <2>1, <2>2
<1>10. ChecksHold'
  <2> SUFFICES ASSUME NEW d \in Commands
               PROVE  /\ command'[d].op = "cancel" => Cancellable(command'[d].read)
                      /\ command'[d].op = "retry" => Retryable(command'[d].read)
                      /\ command'[d].op = "finalize" => Finalizable(command'[d].read)
                      /\ command'[d].op = "publish_plan" => Publishable(command'[d].read)
    BY DEF ChecksHold, Cancellable, Retryable, Finalizable, Publishable
  <2>1. CASE d = c
    BY <2>1, <1>2, <1>5
  <2>2. CASE d # c
    BY <2>2, <1>5 DEF RunsIndInv, ChecksHold
  <2> QED
    BY <2>1, <2>2
<1> QED
  BY <1>7, <1>8, <1>9, <1>10 DEF RunsIndInv

(* A call that writes the object it holds and returns keeps the invariant: *)
(* whoever else holds the object has marked it (the repository's save at   *)
(* the end of each command).                                               *)
LEMMA EndInv ==
    ASSUME RunsIndInv, StoredOK', NoStressOutcome',
           NEW c \in Commands, Active(c), End(c), UNCHANGED overlapped,
           OnlyChanges(command[c].of)
    PROVE  RunsIndInv'
<1>1. command \in [Commands -> Call] /\ overlapped \subseteq Objects
  BY DEF RunsIndInv, TypeOK
<1>2. Over \in Call /\ Over.op = "over"
  BY DEF Over, Call
<1>3. command' \in [Commands -> Call]
  BY <1>1, <1>2 DEF End
<1>4. command'[c] = Over /\ \A d \in Commands \ {c} : command'[d] = command[d]
  BY <1>1 DEF End
<1>5. TypeOK'
  BY <1>1, <1>3 DEF StoredOK, TypeOK
<1>6. OneHolder'
  BY <1>2, <1>4 DEF RunsIndInv, OneHolder, Active
<1>7. ReadIsFresh'
  <2> SUFFICES ASSUME NEW d \in Commands, Active(d)'
               PROVE  /\ command'[d].op \in BatchCommands =>
                           /\ command'[d].of \in Batches
                           /\ command'[d].of \notin overlapped' =>
                                batch'[command'[d].of] = command'[d].read
                      /\ command'[d].op \in RunCommands =>
                           /\ command'[d].of \in Runs
                           /\ command'[d].of \notin overlapped' =>
                                run'[command'[d].of] = command'[d].read
                      /\ command'[d].op \in PlanCommands =>
                           /\ command'[d].of \in Plans
                           /\ command'[d].of \notin overlapped' =>
                                plan'[command'[d].of] = command'[d].read
    BY DEF ReadIsFresh, Active, BatchCommands, RunCommands, PlanCommands
  <2>1. d # c /\ command'[d] = command[d] /\ Active(d)
    BY <1>2, <1>4 DEF Active
  <2>2. command[d].of \notin overlapped => command[d].of # command[c].of
    BY <2>1 DEF RunsIndInv, OneHolder
  <2> QED
    BY <2>1, <2>2 DEF RunsIndInv, ReadIsFresh, OnlyChanges
<1>8. ChecksHold'
  <2> SUFFICES ASSUME NEW d \in Commands
               PROVE  /\ command'[d].op = "cancel" => Cancellable(command'[d].read)
                      /\ command'[d].op = "retry" => Retryable(command'[d].read)
                      /\ command'[d].op = "finalize" => Finalizable(command'[d].read)
                      /\ command'[d].op = "publish_plan" => Publishable(command'[d].read)
    BY DEF ChecksHold, Cancellable, Retryable, Finalizable, Publishable
  <2> QED
    BY <1>2, <1>4 DEF RunsIndInv, ChecksHold
<1> QED
  BY <1>5, <1>6, <1>7, <1>8 DEF RunsIndInv

(* A step of no call keeps the invariant when it leaves runs and plans     *)
(* alone, and leaves alone or marks every batch that a call holds.         *)
LEMMA StillInv ==
    ASSUME RunsIndInv, StoredOK', NoStressOutcome', UNCHANGED <<run, plan, command>>,
           overlapped' \subseteq Objects, overlapped \subseteq overlapped',
           \A d \in Commands : LET b == command[d].of IN
              command[d].op \in BatchCommands => batch'[b] = batch[b] \/ b \in overlapped'
    PROVE  RunsIndInv'
<1>1. TypeOK'
  BY DEF StoredOK, TypeOK, RunsIndInv
<1>2. OneHolder'
  BY DEF RunsIndInv, OneHolder, Active
<1>3. ReadIsFresh'
  BY DEF RunsIndInv, ReadIsFresh
<1>4. ChecksHold'
  BY DEF RunsIndInv, ChecksHold, Cancellable, Retryable, Finalizable, Publishable
<1> QED
  BY <1>1, <1>2, <1>3, <1>4 DEF RunsIndInv

-----------------------------------------------------------------------------
(* Batches.                                                                *)

(* What a step must show when it leaves runs, plans and stress tests as    *)
(* they are.                                                               *)
LEMMA BatchStepKeeps ==
    ASSUME UNCHANGED <<run, plan, stress>>, SettledBatchesStay, RunsOnlyValidated
    PROVE  StepKeeps
BY DEF StepKeeps, StressFailureIsKept, InvalidatedStaysOut

(* create_batch stores a batch nobody could have read (services.py:614-695). *)
LEMMA CreateBatchStep ==
    ASSUME RunsIndInv, NEW b \in Batches, create_batch(b)
    PROVE  RunsIndInv' /\ StepKeeps
<1>1. batch \in [Batches -> BatchState \cup {"ABSENT"}] /\ command \in [Commands -> Call]
  BY DEF RunsIndInv, TypeOK
<1>2. /\ batch[b] = "ABSENT" /\ batch'[b] = "PENDING"
      /\ \A a \in Batches \ {b} : batch'[a] = batch[a]
  BY <1>1 DEF create_batch
<1>3. StoredOK' /\ NoStressOutcome'
  BY DEF create_batch, StoredOK, RunsIndInv, TypeOK, NoStressOutcome, BatchState
<1>4. ASSUME NEW d \in Commands, command[d].op \in BatchCommands
      PROVE  batch'[command[d].of] = batch[command[d].of] \/ command[d].of \in overlapped'
  <2>1. command[d].of \in Batches
    BY <1>4 DEF RunsIndInv, ReadIsFresh
  <2>2. command[d].read # "ABSENT"
    BY <1>1 DEF Call, BatchState, OptimizationState, PlanState
  <2>3. command[d].of \notin overlapped => batch[command[d].of] # "ABSENT"
    BY <1>4, <2>2 DEF RunsIndInv, ReadIsFresh
  <2> QED
    BY <1>2, <2>1, <2>3 DEF create_batch
<1>5. RunsIndInv'
  BY <1>3, <1>4, StillInv DEF create_batch, RunsIndInv, TypeOK
<1>6. SettledBatchesStay /\ RunsOnlyValidated
  BY <1>2, <1>3 DEF SettledBatchesStay, RunsOnlyValidated, NoStressOutcome
<1> QED
  BY <1>5, <1>6, BatchStepKeeps DEF create_batch

(* The referees store no outcome of a stress scenario (850-880). *)
LEMMA RefereesStep ==
    ASSUME RunsIndInv, NEW b \in Batches, run_scenario_referees(b)
    PROVE  RunsIndInv' /\ StepKeeps
<1>1. outcomes \in [Batches -> SUBSET ScenarioKind] /\ NoStressOutcome
  BY DEF RunsIndInv, TypeOK
<1>2. outcomes' \in [Batches -> SUBSET ScenarioKind] /\ NoStressOutcome'
  BY <1>1 DEF run_scenario_referees, NoStressOutcome
<1>3. StoredOK'
  BY <1>2 DEF run_scenario_referees, StoredOK, RunsIndInv, TypeOK
<1>4. RunsIndInv'
  BY <1>2, <1>3, StillInv DEF run_scenario_referees, RunsIndInv, TypeOK
<1>5. SettledBatchesStay /\ RunsOnlyValidated
  BY <1>2 DEF run_scenario_referees, SettledBatchesStay, RunsOnlyValidated, NoStressOutcome
<1> QED
  BY <1>4, <1>5, BatchStepKeeps DEF run_scenario_referees

(* An evaluator gives up on a batch that is pending or runs, and marks it  *)
(* when a call holds it (workers/simulation/runtime.py:36-46).             *)
LEMMA GivesUpStep ==
    ASSUME RunsIndInv, NEW b \in Batches, EvaluatorGivesUp(b)
    PROVE  RunsIndInv' /\ StepKeeps
<1>1. batch \in [Batches -> BatchState \cup {"ABSENT"}] /\ overlapped \subseteq Objects
  BY DEF RunsIndInv, TypeOK
<1>2. PICK s \in {"INDETERMINATE", "FAILED_RETRYABLE", "FAILED_TERMINAL"} :
         batch' = [batch EXCEPT ![b] = s]
  BY DEF EvaluatorGivesUp
<1>3. /\ batch[b] \in {"PENDING", "RUNNING"} /\ batch'[b] # "RUNNING"
      /\ \A a \in Batches \ {b} : batch'[a] = batch[a]
  BY <1>1, <1>2 DEF EvaluatorGivesUp
<1>4. StoredOK' /\ NoStressOutcome'
  BY <1>2 DEF EvaluatorGivesUp, StoredOK, RunsIndInv, TypeOK, NoStressOutcome, BatchState
<1>5. /\ overlapped' \subseteq Objects /\ overlapped \subseteq overlapped'
      /\ \A d \in Commands : command[d].of = b => b \in overlapped'
  BY <1>1 DEF EvaluatorGivesUp, Objects
<1>6. ASSUME NEW d \in Commands, command[d].op \in BatchCommands
      PROVE  batch'[command[d].of] = batch[command[d].of] \/ command[d].of \in overlapped'
  <2>1. command[d].of \in Batches
    BY <1>6 DEF RunsIndInv, ReadIsFresh
  <2> QED
    BY <1>3, <1>5, <2>1
<1>7. RunsIndInv'
  BY <1>4, <1>5, <1>6, StillInv DEF EvaluatorGivesUp
<1>8. SettledBatchesStay /\ RunsOnlyValidated
  BY <1>3, <1>4 DEF SettledBatchesStay, RunsOnlyValidated, NoStressOutcome
<1> QED
  BY <1>7, <1>8, BatchStepKeeps DEF EvaluatorGivesUp

(* The read of a command on a batch changes no batch (709-724, 752-761). *)
LEMMA BeginBatchStep ==
    ASSUME RunsIndInv, NEW c \in Commands, NEW b \in Batches, BeginBatchCommand(c, b)
    PROVE  RunsIndInv' /\ StepKeeps
<1>1. PICK op \in BatchCommands :
         /\ op = "cancel" => Cancellable(batch[b])
         /\ op = "retry" => Retryable(batch[b])
         /\ Begin(c, op, b, batch[b])
  BY DEF BeginBatchCommand
<1>2. StoredOK' /\ NoStressOutcome' /\ OnlyChanges(b) /\ b \in Objects
  BY DEF BeginBatchCommand, StoredOK, RunsIndInv, TypeOK, NoStressOutcome, OnlyChanges, Objects
<1>3. batch[b] \in BatchState /\ batch'[b] = batch[b]
  BY DEF BeginBatchCommand, RunsIndInv, TypeOK
<1>4. /\ op \notin RunCommands /\ op \notin PlanCommands
      /\ op # "finalize" /\ op # "publish_plan"
  BY DEF BatchCommands, RunCommands, PlanCommands
<1>5. PICK state \in BatchState : state = batch[b]
  BY <1>3
<1>6. RunsIndInv'
  BY <1>1, <1>2, <1>3, <1>4, <1>5, BeginInv
<1>7. SettledBatchesStay /\ RunsOnlyValidated
  BY <1>2 DEF BeginBatchCommand, SettledBatchesStay, RunsOnlyValidated, NoStressOutcome
<1> QED
  BY <1>6, <1>7, BatchStepKeeps DEF BeginBatchCommand

(* A command on a batch that writes it and returns: what it must still     *)
(* show is that it leaves a settled batch alone unless the batch is marked *)
(* or the call is a worker task, and starts none but a validated one.      *)
LEMMA EndBatchStep ==
    ASSUME RunsIndInv, NEW c \in Commands, NEW b \in Batches,
           NEW op \in BatchCommands, Holds(c, op, b), End(c),
           UNCHANGED <<run, plan, merges, outcomes, stress, overlapped>>,
           NEW s \in BatchState, batch' = [batch EXCEPT ![b] = s],
           verdicts' \in [Batches -> SUBSET StaticValidationStatus],
           s = "RUNNING" /\ batch[b] # "RUNNING" => "FAIL" \notin verdicts'[b],
           \/ op \in {"run_batch", "run_static_validation"}
           \/ b \in overlapped
           \/ batch[b] \notin {"SUCCEEDED", "FAILED_TERMINAL", "CANCELLED"}
    PROVE  RunsIndInv' /\ StepKeeps
<1>1. batch \in [Batches -> BatchState \cup {"ABSENT"}]
  BY DEF RunsIndInv, TypeOK
<1>2. batch'[b] = s /\ \A a \in Batches \ {b} : batch'[a] = batch[a]
  BY <1>1
<1>3. StoredOK' /\ NoStressOutcome' /\ OnlyChanges(b)
  BY <1>1, <1>2 DEF StoredOK, RunsIndInv, TypeOK, NoStressOutcome, OnlyChanges
<1>4. Active(c) /\ command[c].of = b
  BY DEF Holds, Active, BatchCommands
<1>5. RunsIndInv'
  BY <1>3, <1>4, EndInv
<1>6. SettledBatchesStay /\ RunsOnlyValidated
  BY <1>2, <1>3 DEF SettledBatchesStay, RunsOnlyValidated, NoStressOutcome, Holds
<1> QED
  BY <1>5, <1>6, BatchStepKeeps

(* A call that holds a batch nobody else held has read what is stored. *)
LEMMA HeldBatch ==
    ASSUME RunsIndInv, NEW c \in Commands, NEW b \in Batches,
           NEW op \in BatchCommands, Holds(c, op, b)
    PROVE  b \in overlapped \/ batch[b] = command[c].read
BY DEF RunsIndInv, ReadIsFresh, Holds

(* cancel settles only a batch that was not settled when it was read       *)
(* (709-724).                                                              *)
LEMMA CancelStep ==
    ASSUME RunsIndInv, NEW c \in Commands, NEW b \in Batches, cancel(c, b)
    PROVE  RunsIndInv' /\ StepKeeps
<1>1. Cancellable(command[c].read)
  BY DEF cancel, Holds, RunsIndInv, ChecksHold
<1>2. b \in overlapped \/ batch[b] \notin {"SUCCEEDED", "FAILED_TERMINAL", "CANCELLED"}
  BY <1>1, HeldBatch DEF cancel, Cancellable, BatchCommands
<1>3. verdicts' \in [Batches -> SUBSET StaticValidationStatus]
  BY DEF cancel, RunsIndInv, TypeOK
<1>4. "CANCELLED" \in BatchState /\ "cancel" \in BatchCommands
  BY DEF BatchState, BatchCommands
<1> QED
  BY <1>2, <1>3, <1>4, EndBatchStep DEF cancel

(* retry makes pending again only a batch that may be retried (752-761). *)
LEMMA RetryStep ==
    ASSUME RunsIndInv, NEW c \in Commands, NEW b \in Batches, retry(c, b)
    PROVE  RunsIndInv' /\ StepKeeps
<1>1. Retryable(command[c].read)
  BY DEF retry, Holds, RunsIndInv, ChecksHold
<1>2. b \in overlapped \/ batch[b] \notin {"SUCCEEDED", "FAILED_TERMINAL", "CANCELLED"}
  BY <1>1, HeldBatch DEF retry, Retryable, BatchCommands
<1>3. verdicts' \in [Batches -> SUBSET StaticValidationStatus]
  BY DEF retry, RunsIndInv, TypeOK
<1>4. "PENDING" \in BatchState /\ "retry" \in BatchCommands
  BY DEF BatchState, BatchCommands
<1> QED
  BY <1>2, <1>3, <1>4, EndBatchStep DEF retry

(* The worker's run_batch writes SUCCEEDED whatever it read               *)
(* (workers/simulation/runtime.py:36-46).                                  *)
LEMMA RunBatchStep ==
    ASSUME RunsIndInv, NEW c \in Commands, NEW b \in Batches, run_batch(c, b)
    PROVE  RunsIndInv' /\ StepKeeps
<1>1. verdicts' \in [Batches -> SUBSET StaticValidationStatus]
  BY DEF run_batch, RunsIndInv, TypeOK
<1>2. "SUCCEEDED" \in BatchState /\ "run_batch" \in BatchCommands
  BY DEF BatchState, BatchCommands
<1> QED
  BY <1>1, <1>2, EndBatchStep DEF run_batch

(* run_static_validation lets a batch run only when none of the verdicts   *)
(* it has just stored is FAIL (814-836).                                   *)
LEMMA ValidationStep ==
    ASSUME RunsIndInv, NEW c \in Commands, NEW b \in Batches, run_static_validation(c, b)
    PROVE  RunsIndInv' /\ StepKeeps
<1>1. /\ batch \in [Batches -> BatchState \cup {"ABSENT"}]
      /\ verdicts \in [Batches -> SUBSET StaticValidationStatus]
      /\ command \in [Commands -> Call]
  BY DEF RunsIndInv, TypeOK
<1>2. PICK results \in SUBSET StaticValidationStatus :
         /\ verdicts' = [verdicts EXCEPT ![b] = results]
         /\ batch' = IF assert_validation_passed(results)
                     THEN [batch EXCEPT ![b] = "RUNNING"] ELSE batch
  BY DEF run_static_validation
<1>3. verdicts' \in [Batches -> SUBSET StaticValidationStatus] /\ verdicts'[b] = results
  BY <1>1, <1>2
<1>4. "RUNNING" \in BatchState /\ "run_static_validation" \in BatchCommands
  BY DEF BatchState, BatchCommands
<1>5. CASE assert_validation_passed(results)
  BY <1>2, <1>3, <1>4, <1>5, EndBatchStep DEF run_static_validation, assert_validation_passed
<1>6. CASE ~assert_validation_passed(results)
  <2>1. batch' = batch
    BY <1>2, <1>6
  <2>2. StoredOK' /\ NoStressOutcome' /\ OnlyChanges(b)
    BY <1>3, <2>1 DEF run_static_validation, StoredOK, RunsIndInv, TypeOK, NoStressOutcome, OnlyChanges
  <2>3. Active(c) /\ command[c].of = b
    BY DEF run_static_validation, Holds, Active
  <2>4. RunsIndInv'
    BY <2>2, <2>3, EndInv DEF run_static_validation
  <2>5. SettledBatchesStay /\ RunsOnlyValidated
    BY <2>1, <2>2 DEF SettledBatchesStay, RunsOnlyValidated, NoStressOutcome
  <2> QED
    BY <2>4, <2>5, BatchStepKeeps DEF run_static_validation
<1> QED
  BY <1>5, <1>6

-----------------------------------------------------------------------------
(* Optimization runs and plans.                                            *)

(* What a step must show when it leaves batches, verdicts and outcomes as  *)
(* they are.                                                               *)
LEMMA RunStepKeeps ==
    ASSUME RunsIndInv, UNCHANGED <<batch, verdicts, outcomes>>,
           StressFailureIsKept, InvalidatedStaysOut
    PROVE  StepKeeps
BY DEF StepKeeps, SettledBatchesStay, RunsOnlyValidated, RunsIndInv, NoStressOutcome

(* create_run stores a run that is not there yet (services.py:899-960). *)
LEMMA StoreRunStep ==
    ASSUME RunsIndInv, NEW c \in Commands, NEW r \in Runs, StoreRun(c, r)
    PROVE  RunsIndInv' /\ StepKeeps
<1>1. run \in [Runs -> OptimizationState \cup {"ABSENT"}]
  BY DEF RunsIndInv, TypeOK
<1>2. /\ run[r] = "ABSENT" /\ run'[r] = "RUNNING"
      /\ \A q \in Runs \ {r} : run'[q] = run[q]
  BY <1>1 DEF StoreRun
<1>3. StoredOK' /\ NoStressOutcome' /\ OnlyChanges(r) /\ r \in Objects
  BY <1>2 DEF StoreRun, StoredOK, RunsIndInv, TypeOK, NoStressOutcome, OnlyChanges, Objects,
              OptimizationState
<1>4. /\ "create_run" \in RunCommands
      /\ "create_run" \notin BatchCommands /\ "create_run" \notin PlanCommands
      /\ "RUNNING" \in OptimizationState
  BY DEF BatchCommands, RunCommands, PlanCommands, OptimizationState
<1>5. RunsIndInv'
  BY <1>2, <1>3, <1>4, BeginInv DEF StoreRun
<1>6. StressFailureIsKept /\ InvalidatedStaysOut
  BY <1>2 DEF StoreRun, StressFailureIsKept, InvalidatedStaysOut
<1> QED
  BY <1>5, <1>6, RunStepKeeps DEF StoreRun

(* The read of a command on a run changes no run (1009-1016). *)
LEMMA BeginRunStep ==
    ASSUME RunsIndInv, NEW c \in Commands, NEW r \in Runs, BeginRunCommand(c, r)
    PROVE  RunsIndInv' /\ StepKeeps
<1>1. PICK op \in RunCommands \ {"create_run"} :
         /\ op = "finalize" => Finalizable(run[r])
         /\ Begin(c, op, r, run[r])
  BY DEF BeginRunCommand
<1>2. StoredOK' /\ NoStressOutcome' /\ OnlyChanges(r) /\ r \in Objects
  BY DEF BeginRunCommand, StoredOK, RunsIndInv, TypeOK, NoStressOutcome, OnlyChanges, Objects
<1>3. PICK state \in OptimizationState : state = run[r] /\ state = run'[r]
  BY DEF BeginRunCommand, RunsIndInv, TypeOK
<1>4. /\ op \notin BatchCommands /\ op \notin PlanCommands
      /\ op # "cancel" /\ op # "retry" /\ op # "publish_plan"
  BY DEF BatchCommands, RunCommands, PlanCommands
<1>5. RunsIndInv'
  BY <1>1, <1>2, <1>3, <1>4, BeginInv
<1>6. StressFailureIsKept /\ InvalidatedStaysOut
  BY DEF BeginRunCommand, StressFailureIsKept, InvalidatedStaysOut
<1> QED
  BY <1>5, <1>6, RunStepKeeps DEF BeginRunCommand

(* A command on a run that writes it and returns keeps the invariant. *)
LEMMA EndRunInv ==
    ASSUME RunsIndInv, NEW c \in Commands, NEW r \in Runs,
           NEW op \in RunCommands, Holds(c, op, r), End(c),
           UNCHANGED <<batch, plan, merges, verdicts, outcomes, overlapped>>,
           NEW s \in OptimizationState,
           run' = run \/ run' = [run EXCEPT ![r] = s],
           stress' \in [Runs -> {"none", "passed", "violated", "refused"}]
    PROVE  RunsIndInv'
<1>1. StoredOK' /\ NoStressOutcome' /\ OnlyChanges(r)
  BY DEF StoredOK, RunsIndInv, TypeOK, NoStressOutcome, OnlyChanges
<1>2. Active(c) /\ command[c].of = r
  BY DEF Holds, Active, RunCommands
<1> QED
  BY <1>1, <1>2, EndInv

(* The stress tests of create_run fail the run when a hard axis does       *)
(* (961-992).                                                              *)
LEMMA CreateRunStep ==
    ASSUME RunsIndInv, NEW c \in Commands, NEW r \in Runs, create_run(c, r)
    PROVE  RunsIndInv' /\ StepKeeps
<1>1. /\ run \in [Runs -> OptimizationState \cup {"ABSENT"}]
      /\ stress \in [Runs -> {"none", "passed", "violated", "refused"}]
  BY DEF RunsIndInv, TypeOK
<1>2. PICK ended \in {"passed", "violated", "refused"} :
         /\ stress' = [stress EXCEPT ![r] = ended]
         /\ run' = StressVerdict(r, ended)
  BY DEF create_run
<1>3. stress' \in [Runs -> {"none", "passed", "violated", "refused"}]
  BY <1>1, <1>2
<1>4. run' = run \/ run' = [run EXCEPT ![r] = "FAILED"]
  BY <1>2 DEF StressVerdict
<1>5. "FAILED" \in OptimizationState /\ "create_run" \in RunCommands
  BY DEF OptimizationState, RunCommands
<1>6. RunsIndInv'
  BY <1>3, <1>4, <1>5, EndRunInv DEF create_run
<1>7. /\ ended = "violated" => run'[r] = "FAILED"
      /\ \A q \in Runs : run'[q] = run[q] \/ run'[q] = "FAILED"
      /\ \A q \in Runs \ {r} : stress'[q] = stress[q]
      /\ stress'[r] = ended
  BY <1>1, <1>2 DEF StressVerdict
<1>8. StressFailureIsKept /\ InvalidatedStaysOut
  BY <1>7 DEF create_run, StressFailureIsKept, InvalidatedStaysOut
<1> QED
  BY <1>6, <1>8, RunStepKeeps DEF create_run

(* finalize takes no failed and no invalidated run, unless it is marked    *)
(* (1009-1016).                                                            *)
LEMMA FinalizeStep ==
    ASSUME RunsIndInv, NEW c \in Commands, NEW r \in Runs, finalize(c, r)
    PROVE  RunsIndInv' /\ StepKeeps
<1>1. run \in [Runs -> OptimizationState \cup {"ABSENT"}]
  BY DEF RunsIndInv, TypeOK
<1>2. "FINALIZED" \in OptimizationState /\ "finalize" \in RunCommands
  BY DEF OptimizationState, RunCommands
<1>3. RunsIndInv'
  BY <1>2, EndRunInv DEF finalize, RunsIndInv, TypeOK
<1>4. Finalizable(command[c].read)
  BY DEF finalize, Holds, RunsIndInv, ChecksHold
<1>5. r \in overlapped \/ run[r] \in {"SUCCEEDED", "RUNNING"}
  BY <1>2, <1>4 DEF finalize, Holds, RunsIndInv, ReadIsFresh, Finalizable
<1>6. \A q \in Runs \ {r} : run'[q] = run[q]
  BY <1>1 DEF finalize
<1>7. StressFailureIsKept /\ InvalidatedStaysOut
  BY <1>5, <1>6 DEF finalize, StressFailureIsKept, InvalidatedStaysOut
<1> QED
  BY <1>3, <1>7, RunStepKeeps DEF finalize

(* invalidate takes a run out (1042-1075). *)
LEMMA InvalidateStep ==
    ASSUME RunsIndInv, NEW c \in Commands, NEW r \in Runs, invalidate(c, r)
    PROVE  RunsIndInv' /\ StepKeeps
<1>1. run \in [Runs -> OptimizationState \cup {"ABSENT"}]
  BY DEF RunsIndInv, TypeOK
<1>2. "INVALIDATED" \in OptimizationState /\ "invalidate" \in RunCommands
  BY DEF OptimizationState, RunCommands
<1>3. RunsIndInv'
  BY <1>2, EndRunInv DEF invalidate, RunsIndInv, TypeOK
<1>4. run'[r] = "INVALIDATED" /\ \A q \in Runs \ {r} : run'[q] = run[q]
  BY <1>1 DEF invalidate
<1>5. StressFailureIsKept /\ InvalidatedStaysOut
  BY <1>4 DEF invalidate, StressFailureIsKept, InvalidatedStaysOut
<1> QED
  BY <1>3, <1>5, RunStepKeeps DEF invalidate

(* The worker's run_optimization writes SUCCEEDED whatever it read         *)
(* (workers/simulation/runtime.py:46-56).                                  *)
LEMMA RunOptimizationStep ==
    ASSUME RunsIndInv, NEW c \in Commands, NEW r \in Runs, run_optimization(c, r)
    PROVE  RunsIndInv' /\ StepKeeps
<1>1. run \in [Runs -> OptimizationState \cup {"ABSENT"}]
  BY DEF RunsIndInv, TypeOK
<1>2. "SUCCEEDED" \in OptimizationState /\ "run_optimization" \in RunCommands
  BY DEF OptimizationState, RunCommands
<1>3. RunsIndInv'
  BY <1>2, EndRunInv DEF run_optimization, RunsIndInv, TypeOK
<1>4. run'[r] = "SUCCEEDED" /\ \A q \in Runs \ {r} : run'[q] = run[q]
  BY <1>1 DEF run_optimization
<1>5. command[c].op = "run_optimization"
  BY DEF run_optimization, Holds
<1>6. StressFailureIsKept /\ InvalidatedStaysOut
  BY <1>4, <1>5 DEF run_optimization, StressFailureIsKept, InvalidatedStaysOut
<1> QED
  BY <1>3, <1>6, RunStepKeeps DEF run_optimization

(* merge_plans stores an assessment and nothing else (1076-1125). *)
LEMMA MergeStep ==
    ASSUME RunsIndInv, NEW r \in Runs, merge_plans(r)
    PROVE  RunsIndInv' /\ StepKeeps
<1>1. StoredOK' /\ NoStressOutcome'
  BY DEF merge_plans, StoredOK, RunsIndInv, TypeOK, NoStressOutcome
<1>2. RunsIndInv'
  BY <1>1, StillInv DEF merge_plans, RunsIndInv, TypeOK
<1>3. StressFailureIsKept /\ InvalidatedStaysOut
  BY DEF merge_plans, StressFailureIsKept, InvalidatedStaysOut
<1> QED
  BY <1>2, <1>3, RunStepKeeps DEF merge_plans

(* The read of a command on a plan changes no plan (1164-1170). *)
LEMMA BeginPlanStep ==
    ASSUME RunsIndInv, NEW c \in Commands, NEW p \in Plans, BeginPlanCommand(c, p)
    PROVE  RunsIndInv' /\ StepKeeps
<1>1. PICK op \in PlanCommands :
         /\ op = "publish_plan" => Publishable(plan[p])
         /\ Begin(c, op, p, plan[p])
  BY DEF BeginPlanCommand
<1>2. StoredOK' /\ NoStressOutcome' /\ OnlyChanges(p) /\ p \in Objects
  BY DEF BeginPlanCommand, StoredOK, RunsIndInv, TypeOK, NoStressOutcome, OnlyChanges, Objects
<1>3. PICK state \in PlanState : state = plan[p] /\ state = plan'[p]
  BY DEF BeginPlanCommand, RunsIndInv, TypeOK
<1>4. /\ op \notin BatchCommands /\ op \notin RunCommands
      /\ op # "cancel" /\ op # "retry" /\ op # "finalize"
  BY DEF BatchCommands, RunCommands, PlanCommands
<1>5. RunsIndInv'
  BY <1>1, <1>2, <1>3, <1>4, BeginInv
<1>6. StressFailureIsKept /\ InvalidatedStaysOut
  BY DEF BeginPlanCommand, StressFailureIsKept, InvalidatedStaysOut
<1> QED
  BY <1>5, <1>6, RunStepKeeps DEF BeginPlanCommand

(* A command on a plan that writes it and returns keeps the invariant, and *)
(* publishes no invalidated plan that is not marked (1164-1170).           *)
LEMMA EndPlanStep ==
    ASSUME RunsIndInv, NEW c \in Commands, NEW p \in Plans,
           publish_plan(c, p) \/ invalidate_plan(c, p)
    PROVE  RunsIndInv' /\ StepKeeps
<1>1. PICK op \in PlanCommands : Holds(c, op, p)
  BY DEF publish_plan, invalidate_plan, PlanCommands
<1>2. /\ End(c)
      /\ UNCHANGED <<batch, run, merges, verdicts, outcomes, stress, overlapped>>
  BY DEF publish_plan, invalidate_plan
<1>3. plan \in [Plans -> PlanState]
  BY DEF RunsIndInv, TypeOK
<1>4. plan' \in [Plans -> PlanState] /\ \A q \in Plans \ {p} : plan'[q] = plan[q]
  BY <1>3 DEF publish_plan, invalidate_plan, PlanState
<1>5. StoredOK' /\ NoStressOutcome' /\ OnlyChanges(p)
  BY <1>2, <1>4 DEF StoredOK, RunsIndInv, TypeOK, NoStressOutcome, OnlyChanges
<1>6. Active(c) /\ command[c].of = p
  BY <1>1 DEF Holds, Active, PlanCommands
<1>7. RunsIndInv'
  BY <1>2, <1>5, <1>6, EndInv
<1>8. plan'[p] = "PUBLISHED" => p \in overlapped \/ plan[p] = "DRAFT"
  <2>1. CASE publish_plan(c, p)
    <3>1. Publishable(command[c].read)
      BY <2>1 DEF publish_plan, Holds, RunsIndInv, ChecksHold
    <3> QED
      BY <1>1, <1>6, <3>1 DEF Holds, RunsIndInv, ReadIsFresh, Publishable
  <2>2. CASE invalidate_plan(c, p)
    BY <1>3, <2>2 DEF invalidate_plan
  <2> QED
    BY <2>1, <2>2
<1>9. StressFailureIsKept /\ InvalidatedStaysOut
  BY <1>2, <1>4, <1>8 DEF StressFailureIsKept, InvalidatedStaysOut
<1> QED
  BY <1>2, <1>7, <1>9, RunStepKeeps

-----------------------------------------------------------------------------
(* Every step keeps the invariant, and keeps of the batches, runs and      *)
(* plans what RunsAreKept demands.                                         *)
LEMMA NextInv ==
    ASSUME RunsIndInv, Next
    PROVE  RunsIndInv' /\ StepKeeps
<1>1. CASE BatchRequests
  BY <1>1, CreateBatchStep, BeginBatchStep, CancelStep, RetryStep DEF BatchRequests
<1>2. CASE OptimizationRequests
  BY <1>2, MergeStep, StoreRunStep, CreateRunStep, BeginRunStep, FinalizeStep, InvalidateStep
     DEF OptimizationRequests
<1>3. CASE PlanRequests
  BY <1>3, BeginPlanStep, EndPlanStep DEF PlanRequests
<1>4. CASE WorkerTasks
  BY <1>4, RunBatchStep, ValidationStep, RunOptimizationStep, RefereesStep, GivesUpStep
     DEF WorkerTasks
<1> QED
  BY <1>1, <1>2, <1>3, <1>4 DEF Next

(* A step that changes nothing keeps the invariant. *)
LEMMA StutterInv ==
    ASSUME RunsIndInv, UNCHANGED runVars
    PROVE  RunsIndInv'
<1>1. UNCHANGED <<batch, run, plan, merges, verdicts, outcomes, stress, command, overlapped>>
  BY DEF runVars
<1>2. StoredOK' /\ NoStressOutcome'
  BY <1>1 DEF StoredOK, RunsIndInv, TypeOK, NoStressOutcome
<1> QED
  BY <1>1, <1>2, StillInv DEF RunsIndInv, TypeOK

(* In every behaviour the calls that hold an object alone know what is     *)
(* stored of it, and what they checked of it is true                       *)
(* (services.py:709-1170, workers/simulation/runtime.py:35-56).            *)
THEOREM Invariance ==
    Spec => []RunsIndInv
<1>1. Init => RunsIndInv
  BY InitInv
<1>2. RunsIndInv /\ [Next]_runVars => RunsIndInv'
  BY NextInv, StutterInv
<1> QED
  BY <1>1, <1>2, PTL DEF Spec

(* No step of a command or of a worker revives a settled batch, starts a   *)
(* batch with a failed candidate, takes back a failed stress test or uses  *)
(* what was invalidated, apart from the worker tasks and the objects two   *)
(* calls held at once that RunsAreKept names (services.py:709-1170).       *)
THEOREM RunsStaySafe ==
    Spec => RunsAreKept
<1>1. RunsIndInv /\ [Next]_runVars => [StepKeeps]_runVars
  BY NextInv
<1> QED
  BY <1>1, Invariance, PTL DEF Spec, RunsAreKept, StepKeeps

-----------------------------------------------------------------------------
(* What a recommendation rests on.  Snapshots are stored locked and only   *)
(* locked again, so a snapshot that was usable once stays so.              *)

(* A snapshot that is stored is watermarked and is what it was hashed from *)
(* (services.py:1370-1425).                                                *)
SnapshotsAreSealed ==
    \A s \in Snapshots : snapshot[s].state # "ABSENT" =>
        /\ snapshot[s].state = "LOCKED" /\ snapshot[s].watermark
        /\ Gate!compute_payload_hash(snapshot[s].payload) = snapshot[s].hash

(* The inductive invariant of baselines, scenario sets, snapshots and      *)
(* eligibility.                                                            *)
GateIndInv ==
    /\ Gate!TypeOK
    /\ Gate!FrozenSetsAreSplit
    /\ Gate!EligibleIffAllCurrent
    /\ SnapshotsAreSealed
    /\ Gate!EligibilityRestsOnLocked

-----------------------------------------------------------------------------
(* Risk acceptances.                                                       *)

(* A revocation that holds an acceptance alone finds it as it read it:     *)
(* active in the store (approvals_reports services.py:204-226).            *)
HeldIsActive ==
    \A r \in Revokers : revocation[r] \in Acceptances \ met =>
        /\ acceptance[revocation[r]].state = "ACTIVE"
        /\ \A q \in Revokers : revocation[q] = revocation[r] => q = r

(* The inductive invariant of risk acceptances. *)
RiskIndInv ==
    /\ Risk!TypeOK
    /\ HeldIsActive

(* Nothing is stored at the start. *)
LEMMA GateInit ==
    Gate!Init => GateIndInv
<1> SUFFICES ASSUME Gate!Init PROVE GateIndInv
  OBVIOUS
<1>1. baseline \in [Baselines -> Gate!DecisionBaseline]
  BY DEF Gate!Init, Gate!DecisionBaseline, Gate!InputManifest, Gate!NoManifest
<1>2. scenarios \in [Sets -> Gate!ScenarioSet] /\ \A s \in Sets : scenarios[s].state = "ABSENT"
  BY DEF Gate!Init, Gate!ScenarioSet, Gate!NoSet
<1>3. /\ snapshot \in [Snapshots -> Gate!SimulationAssessmentSnapshot]
      /\ \A s \in Snapshots : snapshot[s].state = "ABSENT"
  BY DEF Gate!Init, Gate!SimulationAssessmentSnapshot, Gate!NoSnapshot
<1>4. Gate!TypeOK
  BY <1>1, <1>2, <1>3 DEF Gate!Init, Gate!TypeOK
<1>5. eligibility = {}
  BY DEF Gate!Init
<1> QED
  BY <1>2, <1>3, <1>4, <1>5 DEF GateIndInv, Gate!FrozenSetsAreSplit,
     Gate!EligibleIffAllCurrent, SnapshotsAreSealed, Gate!EligibilityRestsOnLocked

(* The commands on baselines and search spaces, and a new upstream         *)
(* version, touch nothing a verdict rests on (services.py:100-330).        *)
LEMMA BaselineSteps ==
    ASSUME GateIndInv,
           \/ Gate!BaselineRequests
           \/ \E u \in Upstream, k \in Contents : Gate!Drift(u, k)
           \/ UNCHANGED gateVars
    PROVE  GateIndInv'
<1>1. UNCHANGED <<scenarios, snapshot, eligibility>>
  BY DEF Gate!BaselineRequests, Gate!freeze_baseline, Gate!create_search_space, Gate!Drift, gateVars
<1>2. /\ baseline \in [Baselines -> Gate!DecisionBaseline]
      /\ space \in [Spaces -> Baselines \cup {Gate!None}]
      /\ live \in [Upstream -> Contents]
  BY DEF GateIndInv, Gate!TypeOK
<1>3. baseline' \in [Baselines -> Gate!DecisionBaseline]
  <2>1. ASSUME NEW b \in Baselines, NEW items \in [Upstream -> Contents \cup {Gate!None}],
               NEW checked \in BOOLEAN, Gate!freeze_baseline(b, items, checked)
        PROVE  baseline' \in [Baselines -> Gate!DecisionBaseline]
    <3> DEFINE new == [state |-> "FROZEN", manifest |-> Gate!build_manifest(items),
                       checked |-> checked]
    <3>1. new \in Gate!DecisionBaseline
      BY DEF Gate!DecisionBaseline, Gate!InputManifest, Gate!build_manifest,
             Gate!compute_input_manifest_hash
    <3>2. baseline' = [baseline EXCEPT ![b] = new]
      BY <2>1 DEF Gate!freeze_baseline
    <3> QED
      BY <1>2, <3>1, <3>2
  <2>2. CASE UNCHANGED baseline
    BY <1>2, <2>2
  <2> QED
    BY <2>1, <2>2 DEF Gate!BaselineRequests, Gate!create_search_space, Gate!Drift, gateVars
<1>4. space' \in [Spaces -> Baselines \cup {Gate!None}] /\ live' \in [Upstream -> Contents]
  BY <1>2 DEF Gate!BaselineRequests, Gate!freeze_baseline, Gate!create_search_space, Gate!Drift,
              gateVars
<1>5. Gate!TypeOK'
  BY <1>1, <1>3, <1>4 DEF GateIndInv, Gate!TypeOK
<1> QED
  BY <1>1, <1>5 DEF GateIndInv, Gate!FrozenSetsAreSplit, Gate!validate_search_eval_independence,
     Gate!EligibleIffAllCurrent, SnapshotsAreSealed, Gate!EligibilityRestsOnLocked,
     Gate!compute_payload_hash

(* A scenario set is split when it is stored, and stays as it was stored   *)
(* (domain/scenarios.py:57-118, 139-166).                                  *)
LEMMA ScenarioSteps ==
    ASSUME GateIndInv, Gate!ScenarioRequests
    PROVE  GateIndInv'
<1>1. UNCHANGED <<baseline, space, snapshot, eligibility, live>>
  BY DEF Gate!ScenarioRequests, Gate!create_scenario_set, Gate!freeze_scenario_set
<1>2. scenarios \in [Sets -> Gate!ScenarioSet] /\ Gate!FrozenSetsAreSplit
  BY DEF GateIndInv, Gate!TypeOK
<1>3. scenarios' \in [Sets -> Gate!ScenarioSet] /\ Gate!FrozenSetsAreSplit'
  <2>1. ASSUME NEW s \in Sets, NEW new \in Gate!ScenarioSet,
               scenarios' = [scenarios EXCEPT ![s] = new],
               Gate!validate_search_eval_independence(new), new.weight = 1
        PROVE  scenarios' \in [Sets -> Gate!ScenarioSet] /\ Gate!FrozenSetsAreSplit'
    BY <1>2, <2>1 DEF Gate!FrozenSetsAreSplit, Gate!validate_search_eval_independence
  <2>2. ASSUME NEW s \in Sets, NEW kinds \in SUBSET {"SEARCH", "EVALUATION", "STRESS"},
               NEW weight \in 0..2, NEW search \in Spaces, NEW named \in Spaces \cup {Gate!None},
               Gate!create_scenario_set(s, kinds, weight, search, named)
        PROVE  scenarios' \in [Sets -> Gate!ScenarioSet] /\ Gate!FrozenSetsAreSplit'
    <3>1. PICK evaluation \in Spaces \cup {Gate!None} :
             /\ Gate!freeze_scenarios(kinds, weight, search, evaluation)
             /\ scenarios' = [scenarios EXCEPT ![s] =
                  [state |-> "FROZEN", kinds |-> kinds, weight |-> weight,
                   search |-> search, evaluation |-> evaluation]]
      BY <2>2 DEF Gate!create_scenario_set
    <3> DEFINE new == [state |-> "FROZEN", kinds |-> kinds, weight |-> weight,
                       search |-> search, evaluation |-> evaluation]
    <3>2. new \in Gate!ScenarioSet
      BY DEF Gate!ScenarioSet
    <3>3. search # Gate!None
      BY SimulationAssumption
    <3>4. Gate!validate_search_eval_independence(new) /\ new.weight = 1
      BY <3>1, <3>3 DEF Gate!validate_search_eval_independence, Gate!freeze_scenarios
    <3> HIDE DEF new
    <3> QED
      BY <2>1, <3>1, <3>2, <3>4 DEF new
  <2>3. ASSUME NEW s \in Sets, Gate!freeze_scenario_set(s)
        PROVE  scenarios' \in [Sets -> Gate!ScenarioSet] /\ Gate!FrozenSetsAreSplit'
    <3>1. scenarios[s] \in Gate!ScenarioSet /\ scenarios[s].state = "FROZEN"
      BY <1>2, <2>3 DEF Gate!freeze_scenario_set, Gate!ScenarioSet
    <3>2. [scenarios[s] EXCEPT !.state = "FROZEN"] = scenarios[s]
      BY <3>1 DEF Gate!ScenarioSet
    <3>3. scenarios' = scenarios
      BY <1>2, <2>3, <3>2 DEF Gate!freeze_scenario_set
    <3> QED
      BY <1>2, <3>3 DEF Gate!FrozenSetsAreSplit, Gate!validate_search_eval_independence
  <2> QED
    BY <2>2, <2>3 DEF Gate!ScenarioRequests
<1> QED
  BY <1>1, <1>3 DEF GateIndInv, Gate!TypeOK, Gate!EligibleIffAllCurrent, SnapshotsAreSealed,
     Gate!EligibilityRestsOnLocked, Gate!compute_payload_hash

(* A snapshot is sealed when it is stored, and the worker's task seals it  *)
(* as it was (services.py:1370-1425, workers/simulation/runtime.py:68-84). *)
LEMMA SnapshotSteps ==
    ASSUME GateIndInv, NEW s \in Snapshots,
           \/ \E payload \in Contents : Gate!StoreSnapshot(s, payload)
           \/ Gate!WorkerLocksSnapshot(s)
    PROVE  GateIndInv'
<1>1. UNCHANGED <<baseline, space, scenarios, eligibility, live>>
  BY DEF Gate!StoreSnapshot, Gate!WorkerLocksSnapshot
<1>2. /\ snapshot \in [Snapshots -> Gate!SimulationAssessmentSnapshot] /\ SnapshotsAreSealed
      /\ eligibility \subseteq Gate!RecommendationEligibility /\ Gate!EligibilityRestsOnLocked
  BY DEF GateIndInv, Gate!TypeOK
<1>3. /\ snapshot' \in [Snapshots -> Gate!SimulationAssessmentSnapshot] /\ SnapshotsAreSealed'
      /\ \A q \in Snapshots : snapshot[q].state # "ABSENT" => snapshot'[q] = snapshot[q]
  <2>1. ASSUME NEW payload \in Contents, Gate!StoreSnapshot(s, payload)
        PROVE  /\ snapshot' \in [Snapshots -> Gate!SimulationAssessmentSnapshot] /\ SnapshotsAreSealed'
               /\ \A q \in Snapshots : snapshot[q].state # "ABSENT" => snapshot'[q] = snapshot[q]
    <3> DEFINE new == Gate!create_snapshot(payload)
    <3>1. /\ new \in Gate!SimulationAssessmentSnapshot
          /\ new.state = "LOCKED" /\ new.watermark
          /\ Gate!compute_payload_hash(new.payload) = new.hash
      BY DEF Gate!create_snapshot, Gate!SimulationAssessmentSnapshot, Gate!compute_payload_hash
    <3>2. snapshot' = [snapshot EXCEPT ![s] = new] /\ snapshot[s].state = "ABSENT"
      BY <2>1 DEF Gate!StoreSnapshot
    <3> HIDE DEF new
    <3> QED
      BY <1>2, <3>1, <3>2 DEF SnapshotsAreSealed, Gate!compute_payload_hash
  <2>2. ASSUME Gate!WorkerLocksSnapshot(s)
        PROVE  /\ snapshot' \in [Snapshots -> Gate!SimulationAssessmentSnapshot] /\ SnapshotsAreSealed'
               /\ \A q \in Snapshots : snapshot[q].state # "ABSENT" => snapshot'[q] = snapshot[q]
    <3>1. snapshot[s] \in Gate!SimulationAssessmentSnapshot /\ snapshot[s].state = "LOCKED"
      BY <1>2, <2>2 DEF Gate!WorkerLocksSnapshot, SnapshotsAreSealed
    <3>2. Gate!Relocked(s) = snapshot[s]
      BY <3>1 DEF Gate!Relocked, Gate!SimulationAssessmentSnapshot
    <3>3. snapshot' = snapshot
      BY <1>2, <2>2, <3>2 DEF Gate!WorkerLocksSnapshot
    <3> QED
      BY <1>2, <3>3 DEF SnapshotsAreSealed, Gate!compute_payload_hash
  <2> QED
    BY <2>1, <2>2
<1>4. Gate!EligibilityRestsOnLocked'
  <2> SUFFICES ASSUME NEW e \in eligibility, e.snapshot # Gate!None
               PROVE  snapshot'[e.snapshot] = snapshot[e.snapshot]
    BY <1>1, <1>2 DEF Gate!EligibilityRestsOnLocked, Gate!compute_payload_hash
  <2>1. e.snapshot \in Snapshots /\ snapshot[e.snapshot].state = "LOCKED"
    BY <1>2 DEF Gate!RecommendationEligibility, Gate!EligibilityRestsOnLocked
  <2> QED
    BY <1>3, <2>1
<1> QED
  BY <1>1, <1>3, <1>4 DEF GateIndInv, Gate!TypeOK, Gate!FrozenSetsAreSplit,
     Gate!validate_search_eval_independence, Gate!EligibleIffAllCurrent

(* A verdict is what its gates say, and its snapshot was looked up         *)
(* (domain/eligibility.py:55-86, services.py:1266-1277).                   *)
LEMMA AssessStep ==
    ASSUME GateIndInv, NEW b \in Baselines, NEW s \in Snapshots \cup {Gate!None},
           NEW gates \in (SUBSET Gate!ReviewValidity) \ {{}}, Gate!assess(b, s, gates)
    PROVE  GateIndInv'
<1> DEFINE new == [state |-> Gate!assess_eligibility(gates), gates |-> gates, baseline |-> b,
                   snapshot |-> s]
<1>1. /\ Gate!assess_eligibility(gates) \in {"ELIGIBLE", "INELIGIBLE", "INDETERMINATE"}
      /\ Gate!assess_eligibility(gates) = "ELIGIBLE" <=> gates = {"CURRENT"}
      /\ Gate!assess_eligibility(gates) = "INDETERMINATE" <=> "UNKNOWN" \in gates
  <2>1. CASE "UNKNOWN" \in gates
    BY <2>1 DEF Gate!assess_eligibility
  <2>2. CASE "UNKNOWN" \notin gates /\ gates \cap {"INVALIDATED", "EXPIRED"} # {}
    BY <2>2 DEF Gate!assess_eligibility
  <2>3. CASE "UNKNOWN" \notin gates /\ gates \cap {"INVALIDATED", "EXPIRED"} = {}
    BY <2>3 DEF Gate!assess_eligibility, Gate!ReviewValidity
  <2> QED
    BY <2>1, <2>2, <2>3
<1>2. /\ new \in Gate!RecommendationEligibility
      /\ new.state = Gate!assess_eligibility(gates) /\ new.gates = gates /\ new.snapshot = s
  BY <1>1 DEF Gate!RecommendationEligibility
<1>3. /\ eligibility' = eligibility \cup {new}
      /\ UNCHANGED <<baseline, space, scenarios, snapshot, live>>
      /\ s # Gate!None => snapshot[s].state = "LOCKED"
  BY DEF Gate!assess, Gate!SnapshotUsable
<1> HIDE DEF new
<1>4. Gate!TypeOK' /\ Gate!FrozenSetsAreSplit' /\ SnapshotsAreSealed'
  BY <1>2, <1>3 DEF GateIndInv, Gate!TypeOK, Gate!FrozenSetsAreSplit,
     Gate!validate_search_eval_independence, SnapshotsAreSealed, Gate!compute_payload_hash
<1>5. Gate!EligibleIffAllCurrent'
  BY <1>1, <1>2, <1>3 DEF GateIndInv, Gate!EligibleIffAllCurrent
<1>6. s # Gate!None => /\ snapshot[s].watermark
                       /\ Gate!compute_payload_hash(snapshot[s].payload) = snapshot[s].hash
  BY <1>3 DEF GateIndInv, SnapshotsAreSealed
<1>7. Gate!EligibilityRestsOnLocked'
  BY <1>2, <1>3, <1>6 DEF GateIndInv, Gate!EligibilityRestsOnLocked, Gate!compute_payload_hash
<1> QED
  BY <1>4, <1>5, <1>7 DEF GateIndInv

(* In every behaviour snapshots stay sealed, scenario sets split and       *)
(* verdicts what their gates say (services.py:100-330, 1240-1425).         *)
THEOREM GateInvariance == Gate!Spec => []GateIndInv
<1>1. Gate!Init => GateIndInv
  BY GateInit
<1>2. GateIndInv /\ [Gate!Next]_(Gate!gateVars) => GateIndInv'
  BY BaselineSteps, ScenarioSteps, SnapshotSteps, AssessStep
     DEF Gate!Next, Gate!AssessmentRequests, Gate!gateVars, gateVars
<1> QED
  BY <1>1, <1>2, PTL DEF Gate!Spec

-----------------------------------------------------------------------------
(* A step on risk acceptances keeps the invariant: a revocation that meets *)
(* another marks the acceptance, and no other step writes a held one       *)
(* (approvals_reports services.py:120-226).                                *)
LEMMA RiskNext ==
    RiskIndInv /\ [Risk!Next]_(Risk!riskVars) => RiskIndInv'
<1> SUFFICES ASSUME RiskIndInv, [Risk!Next]_(Risk!riskVars) PROVE RiskIndInv'
  OBVIOUS
<1>1. /\ acceptance \in [Acceptances -> Risk!RiskAcceptance]
      /\ revocation \in [Revokers -> Acceptances \cup {Risk!None, "over"}]
      /\ met \subseteq Acceptances
      /\ now \in 0..MaxTime /\ MaxTime \in Nat
      /\ HeldIsActive
  BY SimulationAssumption DEF RiskIndInv, Risk!TypeOK
<1>2. ASSUME NEW a \in Acceptances, NEW maker \in Makers, NEW approver \in Makers,
             NEW from \in 0..MaxTime, NEW until \in 0..MaxTime,
             Risk!create_risk_acceptance(a, maker, approver, from, until)
      PROVE  RiskIndInv'
  <2> DEFINE new == [state |-> "ACTIVE", maker |-> maker, approver |-> approver,
                     from |-> from, until |-> until, revokedBy |-> Risk!None]
  <2>1. new \in Risk!RiskAcceptance /\ new.state = "ACTIVE"
    BY DEF Risk!RiskAcceptance
  <2>2. /\ acceptance' = [acceptance EXCEPT ![a] = new]
        /\ UNCHANGED <<revocation, met, now>>
    BY <1>2 DEF Risk!create_risk_acceptance
  <2> HIDE DEF new
  <2>3. Risk!TypeOK'
    BY <1>1, <2>1, <2>2 DEF Risk!TypeOK
  <2> QED
    BY <1>1, <2>1, <2>2, <2>3 DEF RiskIndInv, HeldIsActive
<1>3. ASSUME NEW a \in Acceptances, NEW r \in Revokers, Risk!BeginRevoke(r, a)
      PROVE  RiskIndInv'
  <2>1. /\ acceptance[a].state = "ACTIVE"
        /\ revocation' = [revocation EXCEPT ![r] = a]
        /\ met' = IF \E q \in Revokers : revocation[q] = a THEN met \cup {a} ELSE met
        /\ UNCHANGED <<acceptance, now>>
    BY <1>3 DEF Risk!BeginRevoke, Risk!Revocable, Risk!effective_risk_acceptance
  <2>2. Risk!TypeOK'
    BY <1>1, <2>1 DEF Risk!TypeOK
  <2>3. HeldIsActive'
    BY <1>1, <2>1 DEF HeldIsActive
  <2> QED
    BY <2>2, <2>3 DEF RiskIndInv
<1>4. ASSUME NEW a \in Acceptances, NEW r \in Revokers, Risk!revoke(r, a)
      PROVE  RiskIndInv'
  <2> DEFINE new == [acceptance[a] EXCEPT !.state = "REVOKED", !.revokedBy = r]
  <2>1. new \in Risk!RiskAcceptance
    BY <1>1 DEF Risk!RiskAcceptance
  <2>2. /\ revocation[r] = a
        /\ acceptance' = [acceptance EXCEPT ![a] = new]
        /\ revocation' = [revocation EXCEPT ![r] = "over"]
        /\ UNCHANGED <<met, now>>
    BY <1>1, <1>4 DEF Risk!revoke
  <2> HIDE DEF new
  <2>3. Risk!TypeOK'
    BY <1>1, <2>1, <2>2 DEF Risk!TypeOK
  <2>4. "over" \notin Acceptances
    BY SimulationAssumption
  <2>5. HeldIsActive'
    BY <1>1, <2>2, <2>4 DEF HeldIsActive
  <2> QED
    BY <2>3, <2>5 DEF RiskIndInv
<1>5. CASE Risk!Tick \/ UNCHANGED Risk!riskVars
  <2>1. UNCHANGED <<acceptance, revocation, met>> /\ now' \in 0..MaxTime
    BY <1>1, <1>5 DEF Risk!Tick, Risk!riskVars
  <2> QED
    BY <2>1 DEF RiskIndInv, Risk!TypeOK, HeldIsActive
<1> QED
  BY <1>2, <1>3, <1>4, <1>5 DEF Risk!Next, Risk!AcceptanceRequests

(* In every behaviour a revocation that met no other holds an acceptance   *)
(* that is active (approvals_reports services.py:204-226).                 *)
THEOREM RiskInvariance == Risk!Spec => []RiskIndInv
<1>1. Risk!Init => RiskIndInv
  <2> SUFFICES ASSUME Risk!Init PROVE RiskIndInv
    OBVIOUS
  <2>1. MaxTime \in Nat /\ Risk!None \notin Acceptances
    BY SimulationAssumption
  <2>2. Risk!NoAcceptance \in Risk!RiskAcceptance
    BY <2>1 DEF Risk!NoAcceptance, Risk!RiskAcceptance
  <2>3. Risk!TypeOK
    BY <2>1, <2>2 DEF Risk!Init, Risk!TypeOK
  <2> QED
    BY <2>1, <2>3 DEF Risk!Init, RiskIndInv, HeldIsActive
<1> QED
  BY <1>1, RiskNext, PTL DEF Risk!Spec

(* A risk acceptance only moves on: expired or revoked, it is never active *)
(* for a reader again, and who revoked it is not replaced unless two       *)
(* revocations held it at once, for any number of acceptances, revocations *)
(* and instants (approvals_reports domain/models.py:86-96,                 *)
(* services.py:204-226).                                                   *)
THEOREM AcceptancesOnlyMoveOn == Risk!Spec => AcceptancesMoveOn
<1> DEFINE Moves == Risk!LapsedStaysLapsed /\ Risk!RevocationIsOnce
<1>1. RiskIndInv /\ [Risk!Next]_(Risk!riskVars) => [Moves]_(Risk!riskVars)
  <2> SUFFICES ASSUME RiskIndInv, Risk!Next PROVE Moves
    OBVIOUS
  <2>1. /\ acceptance \in [Acceptances -> Risk!RiskAcceptance] /\ HeldIsActive
        /\ now \in 0..MaxTime /\ MaxTime \in Nat
    BY SimulationAssumption DEF RiskIndInv, Risk!TypeOK
  <2>2. ASSUME NEW a \in Acceptances, NEW maker \in Makers, NEW approver \in Makers,
               NEW from \in 0..MaxTime, NEW until \in 0..MaxTime,
               Risk!create_risk_acceptance(a, maker, approver, from, until)
        PROVE  Moves
    <3>1. /\ acceptance[a].state = "ABSENT" /\ UNCHANGED <<met, now>>
          /\ \A b \in Acceptances \ {a} : acceptance'[b] = acceptance[b]
      BY <2>1, <2>2 DEF Risk!create_risk_acceptance
    <3> QED
      BY <3>1 DEF Risk!LapsedStaysLapsed, Risk!RevocationIsOnce, Risk!effective_risk_acceptance
  <2>3. ASSUME NEW a \in Acceptances, NEW r \in Revokers, Risk!BeginRevoke(r, a)
        PROVE  Moves
    BY <2>3 DEF Risk!BeginRevoke, Risk!LapsedStaysLapsed, Risk!RevocationIsOnce,
       Risk!effective_risk_acceptance
  <2>4. ASSUME NEW a \in Acceptances, NEW r \in Revokers, Risk!revoke(r, a)
        PROVE  Moves
    <3>1. /\ acceptance'[a].state = "REVOKED" /\ UNCHANGED <<met, now>>
          /\ \A b \in Acceptances \ {a} : acceptance'[b] = acceptance[b]
      BY <2>1, <2>4 DEF Risk!revoke, Risk!RiskAcceptance
    <3>2. a \in met \/ acceptance[a].state = "ACTIVE"
      BY <2>1, <2>4 DEF Risk!revoke, HeldIsActive
    <3> QED
      BY <3>1, <3>2 DEF Risk!LapsedStaysLapsed, Risk!RevocationIsOnce, Risk!effective_risk_acceptance
  <2>5. CASE Risk!Tick
    <3>1. UNCHANGED <<acceptance, met>> /\ now' = now + 1
      BY <2>5 DEF Risk!Tick
    <3>2. \A a \in Acceptances : now >= acceptance[a].until => now' >= acceptance'[a].until
      BY <2>1, <3>1 DEF Risk!RiskAcceptance
    <3> QED
      BY <3>1, <3>2 DEF Risk!LapsedStaysLapsed, Risk!RevocationIsOnce,
         Risk!effective_risk_acceptance
  <2> QED
    BY <2>2, <2>3, <2>4, <2>5 DEF Risk!Next, Risk!AcceptanceRequests
<1> QED
  BY <1>1, RiskInvariance, PTL DEF Risk!Spec, AcceptancesMoveOn, Risk!AcceptancesMoveOn

-----------------------------------------------------------------------------
(* The three parts side by side: what the composed specification does to   *)
(* runs, to the gate and to acceptances is what their own specifications   *)
(* allow.                                                                  *)
LEMMA Composition == MCSpec => Spec /\ Gate!Spec /\ Risk!Spec
<1> DEFINE mcVars == <<focus, runVars, gateVars, riskVars, mathVars>>
<1>1. MCInit => Init /\ Gate!Init /\ Risk!Init
  BY DEF MCInit
<1>2. [MCNext]_mcVars => /\ [Next]_runVars
                         /\ [Gate!Next]_(Gate!gateVars)
                         /\ [Risk!Next]_(Risk!riskVars)
  BY DEF MCNext, Risk!riskVars, riskVars, Gate!gateVars, gateVars
<1> QED
  BY <1>1, <1>2, PTL DEF MCSpec, Spec, Gate!Spec, Risk!Spec

(* Frozen scenario sets are split, ELIGIBLE means that every gate it was   *)
(* given is current and that the snapshot behind it is and stays locked,   *)
(* and runs, gate and acceptances keep their types                         *)
(* (domain/eligibility.py:55-86, services.py:1266-1277).                   *)
THEOREM SimulationIsSafe == MCSpec => []SimulationInv
<1>1. RunsIndInv /\ GateIndInv /\ RiskIndInv => SimulationInv
  BY DEF RunsIndInv, GateIndInv, RiskIndInv, SimulationInv, Gate!GateInv
<1> QED
  BY <1>1, Composition, Invariance, GateInvariance, RiskInvariance, PTL

-----------------------------------------------------------------------------
(* The pure functions.                                                     *)

(* A strict order in which any two elements of S are comparable.           *)
Orders(S, R) ==
    /\ \A i \in S : <<i, i>> \notin R
    /\ \A i, j \in S : i # j => <<i, j>> \in R \/ <<j, i>> \in R
    /\ \A i, j, k \in S : <<i, j>> \in R /\ <<j, k>> \in R => <<i, k>> \in R

Ahead(S, R, i) == {j \in S : <<j, i>> \in R}

(* The instance counts as everybody does. *)
LEMMA SameCardinality == \A S : Math!Cardinality(S) = Cardinality(S)
BY DEF Math!Cardinality, Cardinality

(* The number of elements ahead tells the elements of an order apart.      *)
LEMMA PlacesCount ==
    ASSUME NEW S, IsFiniteSet(S), NEW R, Orders(S, R)
    PROVE  /\ Cardinality(S) \in Nat
           /\ \A i \in S : /\ Cardinality(Ahead(S, R, i)) \in 0..(Cardinality(S) - 1)
                           /\ IsFiniteSet(Ahead(S, R, i))
           /\ \A i, j \in S : <<i, j>> \in R =>
                Cardinality(Ahead(S, R, i)) < Cardinality(Ahead(S, R, j))
           /\ \A k \in 1..Cardinality(S) : \E i \in S : Cardinality(Ahead(S, R, i)) = k - 1
<1> DEFINE N == Cardinality(S)
           A(i) == Ahead(S, R, i)
<1>1. N \in Nat
  BY FS_CardinalityType
<1>2. ASSUME NEW i \in S
      PROVE  IsFiniteSet(A(i)) /\ Cardinality(A(i)) \in 0..(N - 1)
  <2>1. IsFiniteSet(S \ {i}) /\ Cardinality(S \ {i}) = N - 1
    BY FS_RemoveElement
  <2>2. A(i) \in SUBSET (S \ {i})
    BY DEF Ahead, Orders
  <2>3. IsFiniteSet(A(i)) /\ Cardinality(A(i)) <= N - 1
    BY <2>1, <2>2, FS_Subset
  <2>4. Cardinality(A(i)) \in Nat
    BY <2>3, FS_CardinalityType
  <2> QED
    BY <1>1, <2>3, <2>4
<1>3. ASSUME NEW i \in S, NEW j \in S, <<i, j>> \in R
      PROVE  Cardinality(A(i)) < Cardinality(A(j))
  <2>1. A(i) \in SUBSET (A(j) \ {i}) /\ i \in A(j)
    BY <1>3 DEF Ahead, Orders
  <2>2. IsFiniteSet(A(j) \ {i}) /\ Cardinality(A(j) \ {i}) = Cardinality(A(j)) - 1
    BY <1>2, <2>1, FS_RemoveElement
  <2>3. Cardinality(A(i)) <= Cardinality(A(j) \ {i})
    BY <2>1, <2>2, FS_Subset
  <2>4. Cardinality(A(i)) \in Nat /\ Cardinality(A(j)) \in Nat
    BY <1>2
  <2> QED
    BY <2>2, <2>3, <2>4
<1> DEFINE f == [i \in S |-> Cardinality(A(i)) + 1]
<1> HIDE DEF A
<1>4. f \in Injection(S, 1..N)
  <2>1. f \in [S -> 1..N]
    BY <1>1, <1>2
  <2>2. \A i, j \in S : f[i] = f[j] => i = j
    <3> SUFFICES ASSUME NEW i \in S, NEW j \in S, i # j PROVE f[i] # f[j]
      OBVIOUS
    <3>1. <<i, j>> \in R \/ <<j, i>> \in R
      BY DEF Orders
    <3>2. Cardinality(A(i)) \in Nat /\ Cardinality(A(j)) \in Nat
      BY <1>2
    <3> QED
      BY <1>3, <3>1, <3>2
  <2> QED
    BY <2>1, <2>2 DEF Injection, IsInjective
<1>5. IsFiniteSet(1..N) /\ Cardinality(1..N) = N
  BY <1>1, FS_Interval
<1>6. f \in Surjection(S, 1..N)
  BY <1>1, <1>4, <1>5, FS_Injection
<1>7. ASSUME NEW k \in 1..N PROVE \E i \in S : Cardinality(A(i)) = k - 1
  <2>1. PICK i \in S : f[i] = k
    BY <1>6 DEF Surjection
  <2>2. Cardinality(A(i)) \in Nat
    BY <1>2
  <2> QED
    BY <1>1, <2>1, <2>2
<1> QED
  BY <1>1, <1>2, <1>3, <1>7 DEF A

(* Kth lists the elements of a finite set in their order.                  *)
LEMMA KthLists ==
    ASSUME NEW S, IsFiniteSet(S), NEW R, Orders(S, R)
    PROVE  /\ Cardinality(S) \in Nat
           /\ \A k \in 1..Cardinality(S) :
                Math!Kth(S, R, k) \in S /\ Cardinality(Ahead(S, R, Math!Kth(S, R, k))) = k - 1
           /\ \A i \in S : \A k \in 1..Cardinality(S) :
                Cardinality(Ahead(S, R, i)) = k - 1 => Math!Kth(S, R, k) = i
           /\ \A i \in S : \E k \in 1..Cardinality(S) : Math!Kth(S, R, k) = i
           /\ \A k, l \in 1..Cardinality(S) : k < l =>
                <<Math!Kth(S, R, k), Math!Kth(S, R, l)>> \in R
<1> DEFINE N == Cardinality(S)
           C(i) == Cardinality(Ahead(S, R, i))
           K(k) == Math!Kth(S, R, k)
<1>1. /\ N \in Nat
      /\ \A i \in S : C(i) \in 0..(N - 1)
      /\ \A i, j \in S : <<i, j>> \in R => C(i) < C(j)
      /\ \A k \in 1..N : \E i \in S : C(i) = k - 1
  BY PlacesCount
<1>2. \A k : K(k) = CHOOSE i \in S : C(i) = k - 1
  BY SameCardinality DEF Math!Kth, Ahead
<1> HIDE DEF C, K, N
<1>3. \A k \in 1..N : K(k) \in S /\ C(K(k)) = k - 1
  BY <1>1, <1>2
<1>4. \A i, j \in S : C(i) = C(j) => i = j
  <2> SUFFICES ASSUME NEW i \in S, NEW j \in S, i # j PROVE C(i) # C(j)
    OBVIOUS
  <2>1. <<i, j>> \in R \/ <<j, i>> \in R
    BY DEF Orders
  <2>2. C(i) \in Nat /\ C(j) \in Nat
    BY <1>1
  <2> QED
    BY <1>1, <2>1, <2>2
<1>5. \A i \in S : \A k \in 1..N : C(i) = k - 1 => K(k) = i
  BY <1>3, <1>4
<1>6. ASSUME NEW i \in S PROVE \E k \in 1..N : K(k) = i
  <2>1. C(i) + 1 \in 1..N /\ C(i) = (C(i) + 1) - 1
    BY <1>1
  <2> QED
    BY <1>5, <2>1
<1>7. ASSUME NEW k \in 1..N, NEW l \in 1..N, k < l PROVE <<K(k), K(l)>> \in R
  <2>1. /\ K(k) \in S /\ K(l) \in S /\ C(K(k)) = k - 1 /\ C(K(l)) = l - 1
        /\ k \in Nat /\ l \in Nat
    BY <1>1, <1>3
  <2>2. K(k) # K(l) /\ ~(C(K(l)) < C(K(k)))
    BY <1>7, <2>1
  <2>3. <<K(l), K(k)>> \notin R
    BY <1>1, <2>1, <2>2
  <2> QED
    BY <2>1, <2>2, <2>3 DEF Orders
<1> QED
  BY <1>1, <1>3, <1>5, <1>6, <1>7 DEF C, K, N

(* A list of n candidates with ids of their own.                           *)
Candidate == [id : Int, cost : Int, margin : Int]

AreCandidates(C, n) ==
    /\ n \in Nat /\ C \in [1..n -> Candidate]
    /\ \A i, j \in 1..n : C[i].id = C[j].id => i = j

(* A function on 1..n is a list of length n. *)
LEMMA ListLength ==
    ASSUME NEW n \in Nat, NEW C, NEW S, C \in [1..n -> S]
    PROVE  C \in Seq(S) /\ Len(C) = n /\ DOMAIN C = 1..n
<1>1. C \in Seq(S) /\ DOMAIN C = 1..n
  OBVIOUS
<1>2. Len(C) \in Nat /\ DOMAIN C = 1..Len(C)
  BY <1>1, LenProperties
<1>3. Len(C) = n
  BY <1>1, <1>2
<1> QED
  BY <1>1, <1>3

(* The places of a list in the order of the objective.                     *)
ByScore(C, objective) ==
    {p \in (DOMAIN C) \X (DOMAIN C) : Math!Better(C[p[1]], C[p[2]], objective)}

(* The sort key puts candidates with ids of their own in one order.        *)
LEMMA ScoresOrder ==
    ASSUME NEW n, NEW C, AreCandidates(C, n), NEW objective \in Math!ObjectiveKind
    PROVE  /\ \A i \in 1..n : Math!Score(C[i], objective) \in Int
           /\ Orders(1..n, ByScore(C, objective))
           /\ \A i, j \in 1..n : <<i, j>> \in ByScore(C, objective) =>
                Math!Score(C[i], objective) >= Math!Score(C[j], objective)
<1> DEFINE s(i) == Math!Score(C[i], objective)
<1>1. ASSUME NEW i \in 1..n PROVE s(i) \in Int /\ C[i].id \in Int
  <2>1. C[i] \in Candidate
    BY DEF AreCandidates
  <2>2. C[i].id \in Int /\ C[i].cost \in Int /\ C[i].margin \in Int
    BY <2>1 DEF Candidate
  <2> QED
    BY <2>2 DEF Math!Score, Math!ObjectiveKind
<1> HIDE DEF s
<1>2. \A i, j \in 1..n : <<i, j>> \in ByScore(C, objective) <=>
        s(i) > s(j) \/ (s(i) = s(j) /\ C[i].id < C[j].id)
  <2>1. DOMAIN C = 1..n
    BY DEF AreCandidates
  <2> QED
    BY <2>1 DEF ByScore, Math!Better, s
<1>3. \A i, j \in 1..n : i # j => C[i].id # C[j].id
  BY DEF AreCandidates
<1>4. Orders(1..n, ByScore(C, objective))
  <2>1. \A i \in 1..n : <<i, i>> \notin ByScore(C, objective)
    BY <1>1, <1>2
  <2>2. \A i, j \in 1..n : i # j => <<i, j>> \in ByScore(C, objective)
                                    \/ <<j, i>> \in ByScore(C, objective)
    BY <1>1, <1>2, <1>3
  <2>3. ASSUME NEW i \in 1..n, NEW j \in 1..n, NEW k \in 1..n,
               <<i, j>> \in ByScore(C, objective), <<j, k>> \in ByScore(C, objective)
        PROVE  <<i, k>> \in ByScore(C, objective)
    BY <1>1, <1>2, <2>3
  <2> QED
    BY <2>1, <2>2, <2>3 DEF Orders
<1>5. \A i, j \in 1..n : <<i, j>> \in ByScore(C, objective) => s(i) >= s(j)
  BY <1>1, <1>2
<1> QED
  BY <1>1, <1>4, <1>5 DEF s

(* The ranking is a rearrangement of the candidates, best first            *)
(* (domain/optimization.py:96-121).                                        *)
LEMMA RankingSorts ==
    ASSUME NEW n, NEW C, AreCandidates(C, n), NEW objective \in Math!ObjectiveKind
    PROVE  \E P \in [1..n -> 1..n] :
             /\ \A i \in 1..n : \E k \in 1..n : P[k] = i
             /\ \A k, l \in 1..n : P[k] = P[l] => k = l
             /\ Math!rank_candidates(C, objective) = [k \in 1..n |-> C[P[k]]]
             /\ \A k, l \in 1..n : k < l =>
                  Math!Score(C[P[k]], objective) >= Math!Score(C[P[l]], objective)
<1> DEFINE D == 1..n
           R == ByScore(C, objective)
           P == [k \in D |-> Math!Kth(D, R, k)]
<1>1. n \in Nat /\ DOMAIN C = D /\ Len(C) = n
  BY ListLength DEF AreCandidates
<1>2. IsFiniteSet(D) /\ Cardinality(D) = n
  BY <1>1, FS_Interval
<1>3. Orders(D, R)
  BY ScoresOrder
<1>4. /\ \A k \in D : P[k] \in D
      /\ \A i \in D : \E k \in D : P[k] = i
      /\ \A k, l \in D : k < l => <<P[k], P[l]>> \in R
  <2> DEFINE N == Cardinality(D)
  <2>1. N = n /\ 1..N = D /\ P = [k \in 1..N |-> Math!Kth(D, R, k)]
    BY <1>2
  <2>2. /\ \A k \in 1..N : Math!Kth(D, R, k) \in D
        /\ \A i \in D : \E k \in 1..N : Math!Kth(D, R, k) = i
        /\ \A k, l \in 1..N : k < l => <<Math!Kth(D, R, k), Math!Kth(D, R, l)>> \in R
    <3> HIDE DEF D, R
    <3> QED
      BY <1>2, <1>3, KthLists
  <2> HIDE DEF N, R
  <2> QED
    BY <2>1, <2>2
<1>5. Math!rank_candidates(C, objective) = [k \in D |-> C[P[k]]]
  <2>1. Math!rank_candidates(C, objective) = [k \in D |-> C[Math!Kth(D, R, k)]]
    BY <1>1 DEF Math!rank_candidates, ByScore
  <2> HIDE DEF D, R
  <2> QED
    BY <2>1
<1> HIDE DEF P
<1>6. \A k, l \in D : P[k] = P[l] => k = l
  <2> SUFFICES ASSUME NEW k \in D, NEW l \in D, k # l PROVE P[k] # P[l]
    OBVIOUS
  <2>1. k < l \/ l < k
    BY <1>1
  <2>2. <<P[k], P[l]>> \in R \/ <<P[l], P[k]>> \in R
    BY <1>4, <2>1
  <2> HIDE DEF R, D
  <2> QED
    BY <1>3, <1>4, <2>2 DEF Orders
<1>7. \A k, l \in D : k < l => Math!Score(C[P[k]], objective) >= Math!Score(C[P[l]], objective)
  BY <1>4, ScoresOrder
<1>8. P \in [D -> D]
  BY <1>4 DEF P
<1> QED
  BY <1>4, <1>5, <1>6, <1>7, <1>8

Backwards(C, n) == [i \in 1..n |-> C[n + 1 - i]]

(* The ranking does not depend on the order in which the candidates came.  *)
LEMMA RankingIgnoresOrder ==
    ASSUME NEW n, NEW C, AreCandidates(C, n), NEW objective \in Math!ObjectiveKind
    PROVE  Math!rank_candidates(Backwards(C, n), objective) = Math!rank_candidates(C, objective)
<1> DEFINE D == 1..n
           B == Backwards(C, n)
           R == ByScore(C, objective)
           Q == ByScore(B, objective)
           back(i) == n + 1 - i
<1>1. n \in Nat /\ DOMAIN C = D /\ Len(C) = n /\ \A i \in D : C[i] \in Candidate
  BY ListLength DEF AreCandidates
<1>2. \A i \in D : back(i) \in D /\ back(back(i)) = i
  BY <1>1
<1>3. AreCandidates(B, n) /\ DOMAIN B = D /\ Len(B) = n /\ \A i \in D : B[i] = C[back(i)]
  <2> HIDE DEF back
  <2>1. B = [i \in D |-> C[back(i)]]
    BY DEF Backwards, back
  <2>2. B \in [D -> Candidate]
    BY <1>1, <1>2, <2>1
  <2>3. \A i, j \in D : B[i].id = B[j].id => i = j
    <3>1. \A i, j \in D : C[back(i)].id = C[back(j)].id => back(i) = back(j)
      BY <1>2 DEF AreCandidates
    <3> QED
      BY <1>2, <2>1, <3>1
  <2> QED
    BY <1>1, <2>1, <2>2, <2>3, ListLength DEF AreCandidates
<1> HIDE DEF back, B
<1>4. IsFiniteSet(D) /\ Cardinality(D) = n /\ Orders(D, R) /\ Orders(D, Q)
  BY <1>1, <1>3, FS_Interval, ScoresOrder
<1>5. \A i, j \in D : <<i, j>> \in Q <=> <<back(i), back(j)>> \in R
  BY <1>1, <1>2, <1>3 DEF ByScore
<1> HIDE DEF R, Q
<1>6. ASSUME NEW k \in D PROVE back(Math!Kth(D, Q, k)) = Math!Kth(D, R, k)
  <2>1. PICK i \in D : i = Math!Kth(D, Q, k) /\ Cardinality(Ahead(D, Q, i)) = k - 1
    <3>1. k \in 1..Cardinality(D)
      BY <1>4
    <3> DEFINE i == Math!Kth(D, Q, k)
    <3>2. i \in D /\ Cardinality(Ahead(D, Q, i)) = k - 1
      <4> HIDE DEF D
      <4> QED
        BY <1>4, <3>1, KthLists
    <3> QED
      BY <3>2
  <2> DEFINE S == Ahead(D, Q, i)
             T == Ahead(D, R, back(i))
             f == [j \in S |-> back(j)]
  <2>2. f \in Bijection(S, T)
    <3>1. \A j \in S : f[j] \in T
      BY <1>2, <1>5 DEF Ahead
    <3>2. \A j, l \in S : f[j] = f[l] => j = l
      BY <1>2 DEF Ahead
    <3>3. ASSUME NEW j \in T PROVE \E l \in S : f[l] = j
      <4>1. j \in D /\ back(j) \in D /\ back(back(j)) = j /\ <<j, back(i)>> \in R
        BY <1>2 DEF Ahead
      <4>2. back(j) \in S
        BY <1>5, <4>1 DEF Ahead
      <4> QED
        BY <4>1, <4>2
    <3> HIDE DEF S, T
    <3> QED
      BY <3>1, <3>2, <3>3 DEF Bijection, Injection, IsInjective, Surjection
  <2>3. IsFiniteSet(S)
    BY <1>4, PlacesCount
  <2>4. Cardinality(T) = k - 1
    BY <2>1, <2>2, <2>3, FS_Bijection DEF ExistsBijection
  <2>5. back(i) \in D /\ k \in 1..Cardinality(D)
    BY <1>2, <1>4
  <2> HIDE DEF D
  <2> QED
    BY <1>4, <2>1, <2>4, <2>5, KthLists
<1>7. /\ Math!rank_candidates(C, objective) = [k \in D |-> C[Math!Kth(D, R, k)]]
      /\ Math!rank_candidates(B, objective) = [k \in D |-> B[Math!Kth(D, Q, k)]]
  BY <1>1, <1>3 DEF Math!rank_candidates, ByScore, R, Q
<1>8. \A k \in D : Math!Kth(D, Q, k) \in D
  <2>1. 1..Cardinality(D) = D
    BY <1>4
  <2> DEFINE N == Cardinality(D)
  <2>2. \A k \in 1..N : Math!Kth(D, Q, k) \in D
    <3> HIDE DEF D
    <3> QED
      BY <1>4, KthLists
  <2> QED
    BY <2>1, <2>2
<1>9. \A k \in D : B[Math!Kth(D, Q, k)] = C[Math!Kth(D, R, k)]
  BY <1>3, <1>6, <1>8
<1> HIDE DEF D
<1> QED
  BY <1>7, <1>9 DEF B

(* Places of a list in the order of the list.                              *)
Listed(M) == {p \in M \X M : p[1] < p[2]}

(* The places of a list are in one order.                                 *)
LEMMA ListedOrders ==
    ASSUME NEW n \in Nat, NEW M \in SUBSET (1..n)
    PROVE  /\ IsFiniteSet(M) /\ Orders(M, Listed(M))
           /\ \A i \in M : Ahead(M, Listed(M), i) = {j \in M : j < i}
<1>1. IsFiniteSet(M)
  <2>1. IsFiniteSet(1..n)
    BY FS_Interval
  <2> QED
    BY <2>1, FS_Subset
<1>2. \A i \in M : i \in Int
  OBVIOUS
<1>3. \A i, j \in M : <<i, j>> \in Listed(M) <=> i < j
  BY DEF Listed
<1>4. Orders(M, Listed(M))
  <2>1. \A i \in M : ~(i < i)
    BY <1>2
  <2>2. \A i, j \in M : i # j => i < j \/ j < i
    BY <1>2
  <2>3. \A i, j, k \in M : i < j /\ j < k => i < k
    BY <1>2
  <2> QED
    BY <1>3, <2>1, <2>2, <2>3 DEF Orders
<1>5. \A i \in M : Ahead(M, Listed(M), i) = {j \in M : j < i}
  BY <1>3 DEF Ahead
<1> QED
  BY <1>1, <1>4, <1>5

(* ItemsAt takes exactly the items at the places.                          *)
LEMMA ItemsTaken ==
    ASSUME NEW n \in Nat, NEW M \in SUBSET (1..n), NEW list
    PROVE  LET s == Math!ItemsAt(list, M)
           IN  /\ Cardinality(M) \in Nat /\ Len(s) = Cardinality(M)
               /\ DOMAIN s = 1..Cardinality(M)
               /\ \A j \in DOMAIN s : \E i \in M : s[j] = list[i]
               /\ \A i \in M : \E j \in DOMAIN s : s[j] = list[i]
<1> DEFINE N == Cardinality(M)
           s == Math!ItemsAt(list, M)
           K(k) == Math!Kth(M, Listed(M), k)
<1>1. /\ N \in Nat
      /\ \A k \in 1..N : K(k) \in M
      /\ \A i \in M : \E k \in 1..N : K(k) = i
  <2>1. IsFiniteSet(M) /\ Orders(M, Listed(M))
    BY ListedOrders
  <2> QED
    BY <2>1, KthLists
<1>2. s = [k \in 1..N |-> list[K(k)]]
  <2>1. Math!Cardinality(M) = N
    BY SameCardinality
  <2>2. s = [k \in 1..Math!Cardinality(M) |-> list[K(k)]]
    BY DEF Math!ItemsAt, Listed
  <2> QED
    BY <2>1, <2>2
<1> HIDE DEF K, N, s
<1>3. DOMAIN s = 1..N /\ \A k \in 1..N : s[k] = list[K(k)]
  BY <1>2
<1> DEFINE S == {list[i] : i \in M}
<1>4. s \in [1..N -> S]
  <2>1. \A k \in 1..N : list[K(k)] \in S
    BY <1>1
  <2> HIDE DEF S
  <2> QED
    BY <1>2, <2>1
<1>5. Len(s) = N
  BY <1>1, <1>4, ListLength
<1>6. \A j \in DOMAIN s : \E i \in M : s[j] = list[i]
  BY <1>1, <1>3
<1>7. \A i \in M : \E j \in DOMAIN s : s[j] = list[i]
  BY <1>1, <1>3
<1> QED
  BY <1>1, <1>3, <1>5, <1>6, <1>7 DEF N, s

(* The selection takes the first of the candidates that clear the          *)
(* threshold, up to the limit (domain/optimization.py:124-161).            *)
LEMMA SelectionTakesFirst ==
    ASSUME NEW n \in Nat, NEW M \in SUBSET (1..n), NEW limit \in Nat
    PROVE  LET first == {i \in M : Cardinality({j \in M : j < i}) < limit}
           IN  /\ Cardinality(M) \in Nat
               /\ Cardinality(first) = IF Cardinality(M) <= limit THEN Cardinality(M) ELSE limit
               /\ \A i \in M : \A l \in first : i \notin first => l < i
<1> DEFINE N == Cardinality(M)
           C(i) == Cardinality({j \in M : j < i})
           first == {i \in M : C(i) < limit}
           top == IF N <= limit THEN N ELSE limit
<1>1. /\ N \in Nat
      /\ \A i \in M : C(i) \in 0..(N - 1)
      /\ \A i, j \in M : i < j => C(i) < C(j)
      /\ \A k \in 1..N : \E i \in M : C(i) = k - 1
  <2>1. IsFiniteSet(M) /\ Orders(M, Listed(M))
    BY ListedOrders
  <2>2. \A i \in M : Cardinality(Ahead(M, Listed(M), i)) = C(i)
    BY ListedOrders
  <2>3. \A i, j \in M : i < j => <<i, j>> \in Listed(M)
    BY DEF Listed
  <2>4. /\ N \in Nat
        /\ \A i \in M : Cardinality(Ahead(M, Listed(M), i)) \in 0..(N - 1)
        /\ \A i, j \in M : <<i, j>> \in Listed(M) =>
             Cardinality(Ahead(M, Listed(M), i)) < Cardinality(Ahead(M, Listed(M), j))
        /\ \A k \in 1..N : \E i \in M : Cardinality(Ahead(M, Listed(M), i)) = k - 1
    BY <2>1, PlacesCount
  <2> HIDE DEF C, N
  <2> QED
    BY <2>2, <2>3, <2>4
<1> HIDE DEF C, N
<1>2. \A i \in M : i \in Int
  OBVIOUS
<1>3. \A i \in M : \A l \in first : i \notin first => l < i
  <2> SUFFICES ASSUME NEW i \in M, NEW l \in first, i \notin first, ~(l < i) PROVE FALSE
    OBVIOUS
  <2>1. i < l
    BY <1>2
  <2>2. C(i) < C(l) /\ C(i) \in Int /\ C(l) \in Int /\ C(l) < limit
    BY <1>1, <2>1
  <2> QED
    BY <2>2
<1> DEFINE f == [i \in first |-> C(i) + 1]
<1>4. f \in Bijection(first, 1..top)
  <2>1. \A i \in first : C(i) + 1 \in 1..top
    BY <1>1
  <2>2. \A i, j \in first : C(i) + 1 = C(j) + 1 => i = j
    <3> SUFFICES ASSUME NEW i \in first, NEW j \in first, i # j PROVE C(i) + 1 # C(j) + 1
      OBVIOUS
    <3>1. i < j \/ j < i
      BY <1>2
    <3>2. C(i) \in Int /\ C(j) \in Int
      BY <1>1
    <3> QED
      BY <1>1, <3>1, <3>2
  <2>3. \A k \in 1..top : \E i \in first : C(i) + 1 = k
    <3> SUFFICES ASSUME NEW k \in 1..top PROVE \E i \in first : C(i) + 1 = k
      OBVIOUS
    <3>1. k \in 1..N /\ k <= limit
      BY <1>1
    <3>2. PICK i \in M : C(i) = k - 1
      BY <1>1, <3>1
    <3> QED
      BY <3>1, <3>2
  <2> HIDE DEF first, top
  <2> QED
    BY <2>1, <2>2, <2>3 DEF Bijection, Injection, IsInjective, Surjection
<1>5. IsFiniteSet(first)
  <2>1. IsFiniteSet(M) /\ first \in SUBSET M
    BY ListedOrders
  <2> QED
    BY <2>1, FS_Subset
<1>6. Cardinality(first) = top
  <2>1. Cardinality(1..top) = Cardinality(first)
    BY <1>4, <1>5, FS_Bijection DEF ExistsBijection
  <2>2. top \in Nat /\ Cardinality(1..top) = top
    BY <1>1, FS_Interval
  <2> QED
    BY <2>1, <2>2
<1> QED
  BY <1>1, <1>3, <1>6 DEF C, N

(* The places of a list that clear the threshold.                          *)
Clear(R, threshold) == {i \in DOMAIN R : R[i].margin >= threshold}

(* What is selected of a list of candidates.                               *)
LEMMA SelectionOfList ==
    ASSUME NEW n \in Nat, NEW R \in [1..n -> Candidate], NEW threshold \in Int,
           NEW mode \in Math!AwardMode
    PROVE  LET s == Math!select_objective_candidates(R, threshold, mode)
               M == Clear(R, threshold)
               limit == Math!AwardLimit(mode, n)
           IN  /\ limit \in Nat /\ Cardinality(M) \in Nat
               /\ Len(s) = IF Cardinality(M) <= limit THEN Cardinality(M) ELSE limit
               /\ DOMAIN s = 1..Len(s)
               /\ \A j \in DOMAIN s : s[j].margin >= threshold
               /\ \A i \in M, j \in DOMAIN s : (~ \E k \in DOMAIN s : s[k] = R[i]) =>
                    \E l \in 1..n : l < i /\ s[j] = R[l]
<1> DEFINE M == Clear(R, threshold)
           limit == Math!AwardLimit(mode, n)
           first == {i \in M : Cardinality({j \in M : j < i}) < limit}
           s == Math!ItemsAt(R, first)
<1>1. DOMAIN R = 1..n /\ Len(R) = n
  BY ListLength
<1>2. M \in SUBSET (1..n) /\ first \in SUBSET (1..n)
  BY <1>1 DEF Clear
<1>3. limit \in Nat
  BY DEF Math!AwardLimit, Math!AwardMode
<1>4. Math!select_objective_candidates(R, threshold, mode) = s
  BY <1>1, SameCardinality DEF Math!select_objective_candidates, Clear
<1>5. /\ Cardinality(M) \in Nat
      /\ Cardinality(first) = IF Cardinality(M) <= limit THEN Cardinality(M) ELSE limit
      /\ \A i \in M : \A l \in first : i \notin first => l < i
  <2> HIDE DEF M, limit
  <2> QED
    BY <1>2, <1>3, SelectionTakesFirst
<1>6. /\ Len(s) = Cardinality(first) /\ DOMAIN s = 1..Len(s)
      /\ \A j \in DOMAIN s : \E i \in first : s[j] = R[i]
      /\ \A i \in first : \E j \in DOMAIN s : s[j] = R[i]
  <2>1. /\ Cardinality(first) \in Nat /\ Len(s) = Cardinality(first)
        /\ DOMAIN s = 1..Cardinality(first)
        /\ \A j \in DOMAIN s : \E i \in first : s[j] = R[i]
        /\ \A i \in first : \E j \in DOMAIN s : s[j] = R[i]
    <3>1. PICK F : F = first
      OBVIOUS
    <3>2. F \in SUBSET (1..n)
      BY <1>2, <3>1
    <3> HIDE DEF first
    <3>3. /\ Cardinality(F) \in Nat /\ Len(Math!ItemsAt(R, F)) = Cardinality(F)
          /\ DOMAIN Math!ItemsAt(R, F) = 1..Cardinality(F)
          /\ \A j \in DOMAIN Math!ItemsAt(R, F) : \E i \in F : Math!ItemsAt(R, F)[j] = R[i]
          /\ \A i \in F : \E j \in DOMAIN Math!ItemsAt(R, F) : Math!ItemsAt(R, F)[j] = R[i]
      BY <3>2, ItemsTaken, ZenonT(60)
    <3> QED
      BY <3>1, <3>3
  <2> HIDE DEF first, s
  <2> QED
    BY <2>1
<1>7. \A i \in M : R[i].margin >= threshold
  BY DEF Clear
<1>8. first \in SUBSET M
  OBVIOUS
<1> HIDE DEF M, limit, first, s
<1>9. \A j \in DOMAIN s : s[j].margin >= threshold
  BY <1>6, <1>7, <1>8
<1>10. ASSUME NEW i \in M, NEW j \in DOMAIN s, ~ \E k \in DOMAIN s : s[k] = R[i]
       PROVE  \E l \in 1..n : l < i /\ s[j] = R[l]
  <2>1. i \notin first
    BY <1>6, <1>10
  <2>2. PICK l \in first : s[j] = R[l]
    BY <1>6
  <2> QED
    BY <1>2, <1>5, <2>1, <2>2
<1> QED
  BY <1>3, <1>4, <1>5, <1>6, <1>9, <1>10 DEF M, limit

(* The selection from a ranking is the best there is                       *)
(* (domain/optimization.py:96-165).                                        *)
LEMMA SelectionFromRanking ==
    ASSUME NEW n, NEW C, AreCandidates(C, n), NEW objective \in Math!ObjectiveKind,
           NEW threshold \in Int, NEW mode \in Math!AwardMode
    PROVE  LET s == Math!select_objective_candidates(
                      Math!rank_candidates(C, objective), threshold, mode)
               clear == Clear(C, threshold)
               limit == Math!AwardLimit(mode, n)
           IN  /\ \A i \in DOMAIN s : s[i].margin >= threshold
               /\ Len(s) = IF Cardinality(clear) <= limit THEN Cardinality(clear) ELSE limit
               /\ \A i \in clear, j \in DOMAIN s : (~ \E k \in DOMAIN s : s[k] = C[i]) =>
                    Math!Score(C[i], objective) <= Math!Score(s[j], objective)
<1> DEFINE R == Math!rank_candidates(C, objective)
           s == Math!select_objective_candidates(R, threshold, mode)
           M == Clear(R, threshold)
           clear == Clear(C, threshold)
           limit == Math!AwardLimit(mode, n)
<1>1. n \in Nat /\ C \in [1..n -> Candidate] /\ DOMAIN C = 1..n
  BY DEF AreCandidates
<1>2. PICK P \in [1..n -> 1..n] :
        /\ \A i \in 1..n : \E k \in 1..n : P[k] = i
        /\ \A k, l \in 1..n : P[k] = P[l] => k = l
        /\ R = [k \in 1..n |-> C[P[k]]]
        /\ \A k, l \in 1..n : k < l =>
             Math!Score(C[P[k]], objective) >= Math!Score(C[P[l]], objective)
  BY RankingSorts
<1> HIDE DEF R
<1>3. R \in [1..n -> Candidate] /\ \A k \in 1..n : R[k] = C[P[k]]
  BY <1>1, <1>2
<1>4. /\ limit \in Nat /\ Cardinality(M) \in Nat
      /\ Len(s) = IF Cardinality(M) <= limit THEN Cardinality(M) ELSE limit
      /\ \A j \in DOMAIN s : s[j].margin >= threshold
      /\ \A i \in M, j \in DOMAIN s : (~ \E k \in DOMAIN s : s[k] = R[i]) =>
           \E l \in 1..n : l < i /\ s[j] = R[l]
  BY <1>1, <1>3, SelectionOfList
<1> HIDE DEF s, limit
<1>5. /\ M = {k \in 1..n : R[k].margin >= threshold}
      /\ clear = {i \in 1..n : C[i].margin >= threshold}
  BY <1>1, <1>3 DEF Clear
<1> HIDE DEF M, clear
<1>6. Cardinality(clear) = Cardinality(M)
  <2> DEFINE f == [k \in M |-> P[k]]
  <2>1. f \in Bijection(M, clear)
    <3>1. \A k \in M : P[k] \in clear
      BY <1>2, <1>3, <1>5
    <3>2. \A k, l \in M : P[k] = P[l] => k = l
      BY <1>2, <1>5
    <3>3. \A i \in clear : \E k \in M : P[k] = i
      BY <1>2, <1>3, <1>5
    <3> QED
      BY <3>1, <3>2, <3>3 DEF Bijection, Injection, IsInjective, Surjection
  <2>2. IsFiniteSet(M)
    <3>1. M \in SUBSET (1..n)
      BY <1>5
    <3> QED
      BY <1>1, <3>1, ListedOrders
  <2> QED
    BY <2>1, <2>2, FS_Bijection DEF ExistsBijection
<1>7. ASSUME NEW i \in clear, NEW j \in DOMAIN s, ~ \E k \in DOMAIN s : s[k] = C[i]
      PROVE  Math!Score(C[i], objective) <= Math!Score(s[j], objective)
  <2>1. PICK k \in 1..n : P[k] = i
    BY <1>2, <1>5
  <2>2. k \in M /\ R[k] = C[i]
    BY <1>3, <1>5, <2>1
  <2>3. PICK l \in 1..n : l < k /\ s[j] = R[l]
    BY <1>4, <1>7, <2>2
  <2>4. Math!Score(C[P[l]], objective) >= Math!Score(C[P[k]], objective)
    BY <1>2, <2>3
  <2>5. /\ Math!Score(C[P[l]], objective) \in Int
        /\ Math!Score(C[P[k]], objective) \in Int
    BY ScoresOrder
  <2> QED
    BY <1>3, <2>1, <2>3, <2>4, <2>5
<1> QED
  BY <1>4, <1>6, <1>7 DEF R, s, clear, limit

Values(list, n) == {list[i] : i \in 1..n}

(* An accepted merge is of different candidates; when there are two, their *)
(* thresholds together stay within one (domain/merge.py:48-116).           *)
LEMMA MergeIsBounded ==
    ASSUME NEW n \in Nat, NEW ids \in [1..n -> Int], NEW linkage,
           NEW tau_b \in Int, NEW tau_m \in Int
    PROVE  /\ Math!merge_assessments(ids, linkage, tau_b, tau_m) = "accepted" =>
                /\ Cardinality(Values(ids, n)) = n
                /\ n \in 1..4
                /\ n > 1 => tau_b + tau_m <= 10
           /\ Math!merge_assessments(ids, linkage, tau_b, tau_m) =
                Math!merge_assessments(Backwards(ids, n), linkage, tau_b, tau_m)
<1> DEFINE D == 1..n
           back == Backwards(ids, n)
           twice(f) == \E i, j \in D : i # j /\ f[i] = f[j]
           wrong == \/ linkage # "complete" \/ n \notin 1..4
                    \/ tau_b \notin 0..10 \/ tau_m \notin 0..10
           answers(f) == IF wrong \/ twice(f) THEN "refused"
                         ELSE IF \E i \in 1..(n - 1) : f[i + 1] # f[i] /\ tau_b + tau_m > 10
                              THEN "blocked" ELSE "accepted"
           reached(f) == Math!merge_assessments(f, linkage, tau_b, tau_m)
<1>1. \A i \in D : n + 1 - i \in D /\ n + 1 - (n + 1 - i) = i
  OBVIOUS
<1>2. back \in [D -> Int] /\ \A i \in D : back[i] = ids[n + 1 - i]
  BY <1>1 DEF Backwards
<1>3. Len(ids) = n /\ DOMAIN ids = D /\ Len(back) = n /\ DOMAIN back = D
  <2> HIDE DEF back
  <2> QED
    BY <1>2, ListLength
<1> HIDE DEF back
<1>4. reached(ids) = answers(ids) /\ reached(back) = answers(back)
  BY <1>3 DEF Math!merge_assessments, Math!chain_blocked
<1>5. twice(back) <=> twice(ids)
  <2>1. ASSUME NEW i \in D, NEW j \in D, i # j, ids[i] = ids[j] PROVE twice(back)
    <3>1. back[n + 1 - i] = ids[i] /\ back[n + 1 - j] = ids[j]
      BY <1>1, <1>2
    <3>2. n + 1 - i \in D /\ n + 1 - j \in D /\ n + 1 - i # n + 1 - j
      BY <2>1
    <3> QED
      BY <2>1, <3>1, <3>2
  <2>2. ASSUME NEW i \in D, NEW j \in D, i # j, back[i] = back[j] PROVE twice(ids)
    <3>1. n + 1 - i \in D /\ n + 1 - j \in D /\ n + 1 - i # n + 1 - j
      BY <2>2
    <3> QED
      BY <1>2, <2>2, <3>1
  <2> QED
    BY <2>1, <2>2
<1>6. ASSUME NEW f, ~twice(f)
      PROVE  (\E i \in 1..(n - 1) : f[i + 1] # f[i] /\ tau_b + tau_m > 10)
               <=> n > 1 /\ tau_b + tau_m > 10
  <2>1. \A i \in 1..(n - 1) : i \in D /\ i + 1 \in D /\ i # i + 1
    OBVIOUS
  <2>2. \A i \in 1..(n - 1) : f[i + 1] # f[i]
    BY <1>6, <2>1
  <2>3. n > 1 <=> 1 \in 1..(n - 1)
    OBVIOUS
  <2> QED
    BY <2>2, <2>3
<1>7. answers(back) = answers(ids)
  <2> HIDE DEF twice, wrong, D
  <2>1. CASE twice(ids)
    BY <1>5, <2>1
  <2>2. CASE ~twice(ids)
    BY <1>5, <1>6, <2>2
  <2> QED
    BY <2>1, <2>2
<1>8. ASSUME answers(ids) = "accepted"
      PROVE  /\ Cardinality(Values(ids, n)) = n
             /\ n \in 1..4
             /\ n > 1 => tau_b + tau_m <= 10
  <2>1. ~wrong /\ ~twice(ids) /\ ~ \E i \in 1..(n - 1) : ids[i + 1] # ids[i] /\ tau_b + tau_m > 10
    <3> HIDE DEF wrong, twice
    <3> QED
      BY <1>8
  <2>2. n \in 1..4
    BY <2>1
  <2>3. n > 1 => ~(tau_b + tau_m > 10)
    <3> HIDE DEF wrong, twice
    <3> QED
      BY <1>6, <2>1
  <2> DEFINE T == {ids[i] : i \in D}
  <2>4. ids \in Bijection(D, T)
    <3>1. \A i, j \in D : ids[i] = ids[j] => i = j
      BY <2>1
    <3>2. ids \in [D -> T]
      OBVIOUS
    <3> QED
      BY <3>1, <3>2 DEF Bijection, Injection, IsInjective, Surjection
  <2>5. IsFiniteSet(D) /\ Cardinality(D) = n
    BY FS_Interval
  <2>6. Cardinality(T) = n
    <3> HIDE DEF D, T
    <3> QED
      BY <2>4, <2>5, FS_Bijection DEF ExistsBijection
  <2> QED
    BY <2>2, <2>3, <2>6 DEF Values
<1> HIDE DEF answers
<1> QED
  BY <1>4, <1>7, <1>8 DEF back

(* A behaviour of the pure functions asks a question within the bounds and *)
(* answers it with the function's value.                                   *)
IsQuestion ==
    \/ Math!SelectionQuestion(question)
    \/ Math!CoverageQuestion(question)
    \/ Math!MergeQuestion(question)
    \/ Math!ValidationQuestion(question)

IsAnswered ==
    \/ answer = Math!Unanswered
    \/ /\ question.kind = "select"
       /\ answer = [kind |-> "select", value |->
            Math!select_objective_candidates(
                Math!rank_candidates(question.candidates, question.objective),
                question.threshold, question.mode)]
    \/ /\ question.kind = "coverage"
       /\ answer = [kind |-> "coverage", value |->
            Math!coverage_undefined(question.total, question.counted, question.threshold)]
    \/ /\ question.kind = "merge"
       /\ answer = [kind |-> "merge", value |->
            Math!merge_assessments(question.ids, question.linkage, question.tau_b, question.tau_m)]
    \/ /\ question.kind = "validate"
       /\ answer = [kind |-> "validate", value |->
            Math!validate_candidate(question.candidate, question.ctx)]

MathIndInv == IsQuestion /\ IsAnswered

(* A question's kind tells which function it is for.                      *)
LEMMA KindOfQuestion ==
    /\ Math!SelectionQuestion(question) => question.kind = "select"
    /\ Math!CoverageQuestion(question) => question.kind = "coverage"
    /\ Math!MergeQuestion(question) => question.kind = "merge"
    /\ Math!ValidationQuestion(question) => question.kind = "validate"
<1>1. Math!SelectionQuestion(question) => question.kind = "select"
  BY DEF Math!SelectionQuestion
<1>2. Math!CoverageQuestion(question) => question.kind = "coverage"
  BY DEF Math!CoverageQuestion
<1>3. Math!MergeQuestion(question) => question.kind = "merge"
  BY DEF Math!MergeQuestion
<1>4. Math!ValidationQuestion(question) => question.kind = "validate"
  BY DEF Math!ValidationQuestion
<1> QED
  BY <1>1, <1>2, <1>3, <1>4

(* The parts of MathInv, one per function.                                 *)
LEMMA SelectionIsSound ==
    ASSUME MathIndInv, answer.kind = "select"
    PROVE  Math!SelectionIsBest
<1>1. /\ question.kind = "select"
      /\ answer.value = Math!select_objective_candidates(
                            Math!rank_candidates(question.candidates, question.objective),
                            question.threshold, question.mode)
  BY DEF MathIndInv, IsAnswered, Math!Unanswered
<1>2. Math!SelectionQuestion(question)
  BY <1>1, KindOfQuestion DEF MathIndInv, IsQuestion
<1>3. PICK n \in 0..MaxCandidates, objective \in Math!ObjectiveKind, mode \in Math!AwardMode,
           threshold \in 1..(MaxAmount + 1) : \E c \in Math!Candidates(n) :
        question = [kind |-> "select", candidates |-> c, objective |-> objective,
                    mode |-> mode, threshold |-> threshold]
  BY <1>2 DEF Math!SelectionQuestion
<1>4. PICK C \in Math!Candidates(n) :
        question = [kind |-> "select", candidates |-> C, objective |-> objective,
                    mode |-> mode, threshold |-> threshold]
  BY <1>3
<1>5. AreCandidates(C, n) /\ threshold \in Int
  <2>1. n \in Nat /\ threshold \in Int
    OBVIOUS
  <2>2. PICK cost \in [1..n -> 1..MaxAmount], margin \in [1..n -> 1..MaxAmount] :
          C = [i \in 1..n |-> [id |-> i, cost |-> cost[i], margin |-> margin[i]]]
    <3>1. C \in Math!Candidates(n)
      OBVIOUS
    <3> QED
      BY <3>1, SMTT(30) DEF Math!Candidates
  <2>3. \A i \in 1..n : cost[i] \in Int /\ margin[i] \in Int
    OBVIOUS
  <2>4. \A i \in 1..n : C[i] \in Candidate /\ C[i].id = i
    BY <2>2, <2>3 DEF Candidate
  <2>5. C \in [1..n -> Candidate]
    BY <2>2, <2>4
  <2> QED
    BY <2>1, <2>4, <2>5 DEF AreCandidates
<1> DEFINE s == Math!select_objective_candidates(
                    Math!rank_candidates(C, objective), threshold, mode)
           clear == Clear(C, threshold)
           limit == Math!AwardLimit(mode, n)
<1>6. /\ \A i \in DOMAIN s : s[i].margin >= threshold
      /\ Len(s) = IF Cardinality(clear) <= limit THEN Cardinality(clear) ELSE limit
      /\ \A i \in clear, j \in DOMAIN s : (~ \E k \in DOMAIN s : s[k] = C[i]) =>
           Math!Score(C[i], objective) <= Math!Score(s[j], objective)
  BY <1>5, SelectionFromRanking
<1>7. s = Math!select_objective_candidates(
              Math!rank_candidates([i \in DOMAIN C |-> C[Len(C) + 1 - i]], objective),
              threshold, mode)
  <2>1. DOMAIN C = 1..n /\ Len(C) = n
    BY <1>5, ListLength DEF AreCandidates
  <2>2. [i \in DOMAIN C |-> C[Len(C) + 1 - i]] = Backwards(C, n)
    BY <2>1 DEF Backwards
  <2> QED
    BY <1>5, <2>2, RankingIgnoresOrder
<1>8. Len(C) = n
  BY <1>5, ListLength DEF AreCandidates
<1>9. /\ answer.value = s /\ question.candidates = C /\ question.threshold = threshold
      /\ question.mode = mode /\ question.objective = objective
  BY <1>1, <1>4
<1>10. clear = {i \in DOMAIN C : C[i].margin >= threshold}
  BY DEF Clear
<1> HIDE DEF s, clear, limit
<1> QED
  BY <1>6, <1>7, <1>8, <1>9, <1>10, SameCardinality DEF Math!SelectionIsBest, limit

(* Coverage has the edges it should (domain/probability.py:76-106).        *)
LEMMA CoverageIsSound ==
    ASSUME MathIndInv, answer.kind = "coverage"
    PROVE  Math!CoverageEdges
<1>1. /\ question.kind = "coverage"
      /\ answer.value = Math!coverage_undefined(question.total, question.counted,
                                                question.threshold)
  BY DEF MathIndInv, IsAnswered, Math!Unanswered
<1>2. Math!CoverageQuestion(question)
  BY <1>1, KindOfQuestion DEF MathIndInv, IsQuestion
<1>3. PICK total \in 1..4, counted \in 0..4, threshold \in 0..10 :
        /\ counted <= total
        /\ question = [kind |-> "coverage", total |-> total, counted |-> counted,
                       threshold |-> threshold]
  BY <1>2 DEF Math!CoverageQuestion
<1>4. threshold * total \in Int /\ threshold * total <= 10 * total
  <2>1. total = 1 \/ total = 2 \/ total = 3 \/ total = 4
    OBVIOUS
  <2> QED
    BY <2>1
<1> DEFINE needed == threshold * total
<1> HIDE DEF needed
<1>5. \A c \in Int : Math!coverage_undefined(total, c, threshold) <=> c <= 0 \/ c * 10 < needed
  BY DEF Math!coverage_undefined, needed
<1>6. needed \in Int /\ needed <= 10 * total
  BY <1>4 DEF needed
<1>7. Math!coverage_undefined(total, 0, threshold)
  BY <1>5
<1>8. ~Math!coverage_undefined(total, total, threshold)
  BY <1>5, <1>6
<1>9. ~Math!coverage_undefined(total, counted, threshold) =>
        ~Math!coverage_undefined(total, counted + 1, threshold)
  BY <1>5, <1>6
<1> QED
  BY <1>1, <1>3, <1>7, <1>8, <1>9 DEF Math!CoverageEdges

(* A merge never chains (domain/merge.py:43-122).                          *)
LEMMA MergeIsSound ==
    ASSUME MathIndInv, answer.kind = "merge"
    PROVE  Math!MergeNeverChains
<1>1. /\ question.kind = "merge"
      /\ answer.value = Math!merge_assessments(question.ids, question.linkage, question.tau_b,
                                               question.tau_m)
  BY DEF MathIndInv, IsAnswered, Math!Unanswered
<1>2. Math!MergeQuestion(question)
  BY <1>1, KindOfQuestion DEF MathIndInv, IsQuestion
<1>3. PICK n \in 0..5, linkage \in {"complete", "single"}, tau_b \in {-1, 0, 4, 6, 10, 11},
           tau_m \in {-1, 0, 4, 6, 10, 11} :
        \E ids \in [1..n -> 1..2] \cup {[i \in 1..n |-> i]} :
          question = [kind |-> "merge", ids |-> ids, linkage |-> linkage,
                      tau_b |-> tau_b, tau_m |-> tau_m]
  BY <1>2 DEF Math!MergeQuestion
<1>4. PICK ids \in [1..n -> 1..2] \cup {[i \in 1..n |-> i]} :
        question = [kind |-> "merge", ids |-> ids, linkage |-> linkage,
                    tau_b |-> tau_b, tau_m |-> tau_m]
  BY <1>3
<1>5. ids \in [1..n -> Int] /\ n \in Nat /\ tau_b \in Int /\ tau_m \in Int
  OBVIOUS
<1> DEFINE value == Math!merge_assessments(ids, linkage, tau_b, tau_m)
<1>6. /\ value = "accepted" =>
           /\ Cardinality(Values(ids, n)) = n
           /\ n \in 1..4
           /\ n > 1 => tau_b + tau_m <= 10
      /\ value = Math!merge_assessments(Backwards(ids, n), linkage, tau_b, tau_m)
  BY <1>5, MergeIsBounded
<1>7. Len(ids) = n
  BY <1>5, ListLength
<1>8. /\ answer.value = value /\ question.ids = ids /\ question.linkage = linkage
      /\ question.tau_b = tau_b /\ question.tau_m = tau_m
  BY <1>1, <1>4
<1> HIDE DEF value
<1>9. Math!Cardinality({question.ids[i] : i \in 1..Len(question.ids)}) = Cardinality(Values(ids, n))
  <2>1. {question.ids[i] : i \in 1..Len(question.ids)} = Values(ids, n)
    BY <1>7, <1>8 DEF Values
  <2> QED
    BY <2>1, SameCardinality
<1>10. [i \in 1..Len(question.ids) |-> question.ids[Len(question.ids) + 1 - i]] = Backwards(ids, n)
  BY <1>7, <1>8 DEF Backwards
<1> QED
  BY <1>6, <1>7, <1>8, <1>9, <1>10 DEF Math!MergeNeverChains

(* Validation is monotone (domain/static_validation.py:45-101).            *)
LEMMA ValidationIsSound ==
    ASSUME MathIndInv, answer.kind = "validate"
    PROVE  Math!StaticIsMonotone
<1>1. /\ question.kind = "validate"
      /\ answer.value = Math!validate_candidate(question.candidate, question.ctx)
  BY DEF MathIndInv, IsAnswered, Math!Unanswered
<1>2. Math!ValidationQuestion(question)
  BY <1>1, KindOfQuestion DEF MathIndInv, IsQuestion
<1>3. PICK params \in SUBSET Names, cost \in 1..2, margin \in 1..2,
           ctx \in Math!StaticValidationContext :
        question = [kind |-> "validate", ctx |-> ctx, candidate |->
                     [params |-> params, cost |-> cost, margin |-> margin]]
  BY <1>2 DEF Math!ValidationQuestion
<1>4. \A x \in Math!StaticValidationContext : x.budget \in Int /\ x.floor \in Int
  BY DEF Math!StaticValidationContext
<1> SUFFICES ASSUME answer.value, NEW looser \in Math!StaticValidationContext,
                    looser.mandatory \subseteq question.ctx.mandatory,
                    question.ctx.axes \subseteq looser.axes,
                    looser.rules \subseteq question.ctx.rules,
                    looser.revoked \subseteq question.ctx.revoked,
                    looser.budget >= question.ctx.budget,
                    looser.floor <= question.ctx.floor
             PROVE  Math!validate_candidate(question.candidate, looser)
  BY DEF Math!StaticIsMonotone
<1>5. question.candidate.cost \in Int /\ question.candidate.margin \in Int
      /\ question.ctx = ctx
  BY <1>3
<1>6. Math!validate_candidate(question.candidate, question.ctx)
  BY <1>1
<1>7. /\ looser.mandatory \subseteq question.candidate.params
      /\ question.candidate.params \subseteq looser.axes
      /\ question.candidate.params \cap looser.rules \cap {"FORBIDDEN", "REVOKED"} = {}
      /\ looser.revoked \cap question.candidate.params = {}
  BY <1>6 DEF Math!validate_candidate
<1>8. question.candidate.cost <= looser.budget /\ question.candidate.margin >= looser.floor
  BY <1>4, <1>5, <1>6 DEF Math!validate_candidate
<1> QED
  BY <1>7, <1>8 DEF Math!validate_candidate

(* The pure functions meet their references: the selection is the best     *)
(* there is, coverage is monotone, an accepted merge does not chain, and   *)
(* validation never rewards a tighter context, for candidates of any       *)
(* number and amounts (domain/optimization.py:96-165,                      *)
(* domain/probability.py:84-107, domain/merge.py:48-116,                   *)
(* domain/static_validation.py:54-77).                                     *)
THEOREM FunctionsMeetReferences ==
    /\ Math!Spec => []Math!MathInv
    /\ MCSpec => []MathInv
<1>1. Math!Init => MathIndInv
  BY DEF Math!Init, MathIndInv, IsQuestion, IsAnswered
<1>2. MathIndInv /\ [Math!Next]_(Math!mathVars) => MathIndInv'
  <2> SUFFICES ASSUME MathIndInv, [Math!Next]_(Math!mathVars) PROVE MathIndInv'
    OBVIOUS
  <2>1. CASE UNCHANGED Math!mathVars
    BY <2>1 DEF Math!mathVars, MathIndInv, IsQuestion, IsAnswered
  <2>2. CASE Math!Next
    <3>1. question' = question /\ IsQuestion'
      BY <2>2 DEF Math!Next, MathIndInv, IsQuestion
    <3>2. IsAnswered'
      BY <2>2, <3>1 DEF Math!Next, Math!Select, Math!Cover, Math!Merge, Math!Validate, IsAnswered
    <3> QED
      BY <3>1, <3>2 DEF MathIndInv
  <2> QED
    BY <2>1, <2>2
<1>3. MathIndInv => Math!MathInv
  BY SelectionIsSound, CoverageIsSound, MergeIsSound, ValidationIsSound
     DEF Math!MathInv, Math!SelectionIsBest, Math!CoverageEdges, Math!MergeNeverChains,
         Math!StaticIsMonotone
<1> DEFINE Asked == focus = "math" => MathIndInv
<1>4. MCInit => Asked
  BY <1>1 DEF MCInit
<1>5. Asked /\ [MCNext]_<<focus, runVars, gateVars, riskVars, mathVars>> => Asked'
  <2>1. focus = "math" /\ MCNext => Math!Next
    BY DEF MCNext
  <2>2. [MCNext]_<<focus, runVars, gateVars, riskVars, mathVars>> => focus' = focus
    BY DEF MCNext
  <2>3. UNCHANGED <<focus, runVars, gateVars, riskVars, mathVars>> => UNCHANGED Math!mathVars
    BY DEF mathVars, Math!mathVars
  <2> HIDE DEF MathIndInv
  <2> QED
    BY <1>2, <2>1, <2>2, <2>3
<1>6. Asked => MathInv
  BY <1>3 DEF MathInv
<1>7. Math!Spec => []Math!MathInv
  BY <1>1, <1>2, <1>3, PTL DEF Math!Spec
<1>8. MCSpec => []MathInv
  BY <1>4, <1>5, <1>6, PTL DEF MCSpec
<1> QED
  BY <1>7, <1>8

=============================================================================
