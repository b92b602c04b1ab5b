------------------------- MODULE DeletionCoordinator -------------------------
(***************************************************************************)
(* The all-replica deletion coordinator of the governance module           *)
(* (modules/governance/application/deletion.py) with the Celery deliveries *)
(* that drive it (workers/governance/tasks.py, worker.py) and the two      *)
(* kinds of replica adapter it calls: the local object-storage adapter     *)
(* (documents/infrastructure/deletion_adapters/local_storage.py) and an    *)
(* external provider's adapter.                                            *)
(*                                                                         *)
(* One deletion job for one target object is modelled.  A delivery of      *)
(* process_deletion runs run_once as the sequence of steps in which it     *)
(* reads or writes something another party also touches; between any two   *)
(* of them holds are placed or released, replicas are registered, an       *)
(* exception is raised, or the worker process dies.                        *)
(*                                                                         *)
(* The attempt counter, the SLA deadlines, hashes and timestamps guard     *)
(* nothing in the code and are left out.                                   *)
(***************************************************************************)
EXTENDS Naturals, FiniteSets

CONSTANTS
    Replicas,       \* every replica the target may ever have
    Required,       \* those registered with required_for_completion = True
    LocalReplicas,  \* served by the local object-storage adapter
    Providers,      \* served by an external provider's adapter
                    \* (the others have no adapter, or one of another kind)
    Holds,          \* legal holds that may be placed on the target
    HoldAware,      \* is the local adapter given a LegalHoldQueryPort?
    Tasks,          \* deliveries of biaice.governance.process_deletion
    MaxRetries,     \* Celery's max_retries
    MaxCrashes,     \* bound: worker processes lost
    None            \* no task, no replica

ASSUME ReplicasAssumption ==
    /\ IsFiniteSet(Replicas)
    /\ Required \subseteq Replicas
    /\ LocalReplicas \subseteq Replicas
    /\ Providers \subseteq Replicas
    /\ LocalReplicas \cap Providers = {}
    /\ None \notin Replicas

ASSUME HoldsAssumption == IsFiniteSet(Holds) /\ HoldAware \in BOOLEAN

ASSUME TasksAssumption ==
    /\ None \notin Tasks
    /\ MaxRetries \in Nat
    /\ MaxCrashes \in Nat

-----------------------------------------------------------------------------
VARIABLES
    job,         \* the durable DeletionJob row
    log,         \* replicas with a satisfying receipt among those appended
    tombstones,  \* tombstones (and DeletionCompleted events) persisted
    holds,       \* active LegalHoldRecords of the target
    registry,    \* replicas registered for the target
    present,     \* replicas whose bytes still exist
    task,        \* state of each delivery
    retries,     \* exceptions each delivery has already been retried for
    crashes,     \* worker processes lost so far
    lock,        \* delivery holding lock_deletion_job's row lock
    pc,          \* where its run_once stands
    run          \* its local variables

vars == <<job, log, tombstones, holds, registry, present,
          task, retries, crashes, lock, pc, run>>

(* ReceiptOutcome; "NONE" stands for a replica without a receipt. *)
Outcomes == {"SUCCEEDED", "FAILED_RETRYABLE", "FAILED_TERMINAL",
             "UNSUPPORTED", "NONE"}

(* DeletionReceipt: its outcome, whether the verifier vouched for it and   *)
(* whether completed_at is set.                                            *)
Receipt == [outcome : Outcomes, verified : BOOLEAN, completed : BOOLEAN]

NoReceipt == [outcome |-> "NONE", verified |-> FALSE, completed |-> FALSE]

Unsupported ==
    [outcome |-> "UNSUPPORTED", verified |-> FALSE, completed |-> FALSE]

(* The DeletionJobStates the coordinator writes; "ABSENT" is no job yet. *)
JobStates == {"ABSENT", "LOGICAL_ACCESS_BLOCKED", "WAITING_FOR_HOLD_RELEASE",
              "DISPATCHING", "PARTIALLY_FAILED", "ESCALATED", "COMPLETED"}

Job == [state : JobStates, blocked : BOOLEAN, required : SUBSET Replicas,
        receipts : [Replicas -> Receipt], holdCount : Nat]

NoJob == [state |-> "ABSENT", blocked |-> FALSE, required |-> {},
          receipts |-> [r \in Replicas |-> NoReceipt], holdCount |-> 0]

(* run_once's locals: the job and the receipt log as the transaction found *)
(* them, the replicas still to dispatch, the latest receipt per replica,   *)
(* the command in progress, the receipt its adapter returned and whether   *)
(* that receipt names this job and replica.  held is a history variable:   *)
(* the holds in force without interruption since the row was locked.       *)
Run == [job0 : Job, log0 : SUBSET Replicas,
        todo : SUBSET Replicas, latest : [Replicas -> Receipt],
        required : SUBSET Replicas, current : Replicas \cup {None},
        hand : Receipt, bound : BOOLEAN, held : SUBSET Holds]

NoRun == [job0 |-> NoJob, log0 |-> {}, todo |-> {},
          latest |-> [r \in Replicas |-> NoReceipt], required |-> {},
          current |-> None, hand |-> NoReceipt, bound |-> FALSE, held |-> {}]

Steps == {"idle", "locked", "unheld", "dispatch", "adapter", "erase", "verify"}

TaskStates == {"unsent", "queued", "running", "acked", "dead"}

(* What every variable may hold; pc, lock and the running delivery agree. *)
TypeOK ==
    /\ job \in Job
    /\ log \in SUBSET Replicas
    /\ tombstones \in Nat
    /\ holds \in SUBSET Holds
    /\ registry \in SUBSET Replicas
    /\ present \in SUBSET registry
    /\ task \in [Tasks -> TaskStates]
    /\ retries \in [Tasks -> 0..MaxRetries]
    /\ crashes \in 0..MaxCrashes
    /\ lock \in Tasks \cup {None}
    /\ pc \in Steps
    /\ run \in Run
    /\ (pc = "idle") <=> (lock = None)
    /\ \A t \in Tasks : (task[t] = "running") <=> (lock = t)

Init ==
    /\ job = NoJob
    /\ log = {}
    /\ tombstones = 0
    /\ holds \in SUBSET Holds
    /\ registry \in SUBSET Replicas
    /\ present = registry
    /\ task = [t \in Tasks |-> "unsent"]
    /\ retries = [t \in Tasks |-> 0]
    /\ crashes = 0
    /\ lock = None
    /\ pc = "idle"
    /\ run = NoRun

-----------------------------------------------------------------------------
(* The surroundings.                                                       *)

(* request: create_deletion_and_block_access creates the job and blocks    *)
(* logical access in one transaction; a repeated request finds the job.    *)
request ==
    /\ job.state = "ABSENT"
    /\ job' = [job EXCEPT !.state = "LOGICAL_ACCESS_BLOCKED",
                          !.blocked = TRUE]
    /\ UNCHANGED <<log, tombstones, holds, registry, present,
                   task, retries, crashes, lock, pc, run>>

(* The worker runtime sends a delivery for an existing job. *)
Send(t) ==
    /\ job.state # "ABSENT"
    /\ task[t] = "unsent"
    /\ task' = [task EXCEPT ![t] = "queued"]
    /\ UNCHANGED <<job, log, tombstones, holds, registry, present,
                   retries, crashes, lock, pc, run>>

(* Legal gives or lifts a hold; neither takes the job's row lock. *)
PlaceHold(h) ==
    /\ h \notin holds
    /\ holds' = holds \cup {h}
    /\ UNCHANGED <<job, log, tombstones, registry, present,
                   task, retries, crashes, lock, pc, run>>

ReleaseHold(h) ==
    /\ h \in holds
    /\ holds' = holds \ {h}
    /\ run' = [run EXCEPT !.held = @ \ {h}]
    /\ UNCHANGED <<job, log, tombstones, registry, present,
                   task, retries, crashes, lock, pc>>

(* Another component stores a replica of the target and registers it. *)
RegisterReplica(r) ==
    /\ r \notin registry
    /\ registry' = registry \cup {r}
    /\ present' = present \cup {r}
    /\ UNCHANGED <<job, log, tombstones, holds,
                   task, retries, crashes, lock, pc, run>>

-----------------------------------------------------------------------------
(* The end of a run: the row lock goes with the transaction.               *)

Unlock ==
    /\ lock' = None
    /\ pc' = "idle"
    /\ run' = NoRun

(* run_once returns: the delivery is acknowledged. *)
Return ==
    /\ task' = [task EXCEPT ![lock] = "acked"]
    /\ Unlock
    /\ UNCHANGED <<retries, crashes>>

(* Whether each repository call commits by itself or the whole run is one  *)
(* transaction is the repository's choice: a run that is cut short leaves  *)
(* its writes, or none of them.  What the adapters erased stays erased.    *)
CutShort ==
    /\ \/ UNCHANGED <<job, log>>
       \/ job' = run.job0 /\ log' = run.log0
    /\ Unlock
    /\ UNCHANGED <<tombstones, holds, registry, present>>

(* Mutant: retries are not counted. *)
RaiseForever ==
    /\ lock # None
    /\ CutShort
    /\ task' = [task EXCEPT ![lock] = "queued"]
    /\ UNCHANGED <<retries, crashes>>

(* An exception leaves run_once (a repository, adapter or verifier call    *)
(* raises, a receipt is misbound): autoretry_for=(Exception,) queues the   *)
(* delivery again until max_retries, then Celery gives it up.              *)
Raise ==
    /\ lock # None
    /\ CutShort
    /\ IF retries[lock] < MaxRetries
       THEN /\ task' = [task EXCEPT ![lock] = "queued"]
            /\ retries' = [retries EXCEPT ![lock] = @ + 1]
       ELSE /\ task' = [task EXCEPT ![lock] = "dead"]
            /\ UNCHANGED retries
    /\ UNCHANGED crashes

(* The worker process dies: task_acks_late with task_reject_on_worker_lost *)
(* puts the delivery back in the queue.                                    *)
Crash ==
    /\ lock # None
    /\ crashes < MaxCrashes
    /\ crashes' = crashes + 1
    /\ CutShort
    /\ task' = [task EXCEPT ![lock] = "queued"]
    /\ UNCHANGED retries

-----------------------------------------------------------------------------
(* run_once, up to the dispatch loop.                                      *)

(* Mutant: a COMPLETED job is processed again. *)
LockCompleted(t) ==
    /\ task[t] = "queued"
    /\ lock = None
    /\ task' = [task EXCEPT ![t] = "running"]
    /\ lock' = t
    /\ pc' = "locked"
    /\ run' = [NoRun EXCEPT !.job0 = job, !.log0 = log,
                            !.latest = job.receipts, !.held = holds]
    /\ UNCHANGED <<job, log, tombstones, holds, registry, present,
                   retries, crashes>>

(* Mutant: all_receipts starts empty and not from the job's receipts. *)
LockForgetful(t) ==
    /\ task[t] = "queued"
    /\ lock = None
    /\ job.state # "COMPLETED"
    /\ task' = [task EXCEPT ![t] = "running"]
    /\ lock' = t
    /\ pc' = "locked"
    /\ run' = [NoRun EXCEPT !.job0 = job, !.log0 = log, !.held = holds]
    /\ UNCHANGED <<job, log, tombstones, holds, registry, present,
                   retries, crashes>>

(* lock_deletion_job; a COMPLETED job is returned as it is. *)
Lock(t) ==
    /\ task[t] = "queued"
    /\ lock = None
    /\ IF job.state = "COMPLETED"
       THEN /\ task' = [task EXCEPT ![t] = "acked"]
            /\ UNCHANGED <<lock, pc, run>>
       ELSE /\ task' = [task EXCEPT ![t] = "running"]
            /\ lock' = t
            /\ pc' = "locked"
            /\ run' = [NoRun EXCEPT !.job0 = job, !.log0 = log,
                                    !.latest = job.receipts, !.held = holds]
    /\ UNCHANGED <<job, log, tombstones, holds, registry, present,
                   retries, crashes>>

(* Mutant: the hold check is left out. *)
CheckHoldsSkipped ==
    /\ pc = "locked"
    /\ pc' = "unheld"
    /\ UNCHANGED <<job, log, tombstones, holds, registry, present,
                   task, retries, crashes, lock, run>>

(* A job whose access is not blocked is refused (a Raise).  Otherwise,     *)
(* list_active_holds: with a hold in force the job waits for its release.  *)
CheckHolds ==
    /\ pc = "locked"
    /\ job.blocked
    /\ IF holds # {}
       THEN /\ job' = [job EXCEPT !.state = "WAITING_FOR_HOLD_RELEASE",
                                  !.holdCount = Cardinality(holds)]
            /\ Return
       ELSE /\ pc' = "unheld"
            /\ UNCHANGED <<job, task, retries, crashes, lock, run>>
    /\ UNCHANGED <<log, tombstones, holds, registry, present>>

(* Mutant: an empty required set is dispatched like any other. *)
ListReplicasVacuous ==
    /\ pc = "unheld"
    /\ job' = [job EXCEPT !.state = "DISPATCHING", !.holdCount = 0,
                          !.required = registry \cap Required]
    /\ run' = [run EXCEPT !.todo = registry,
                          !.required = registry \cap Required]
    /\ pc' = "dispatch"
    /\ UNCHANGED <<log, tombstones, holds, registry, present,
                   task, retries, crashes, lock>>

(* list_replicas: an empty required set is escalated, never completed;     *)
(* otherwise the job is saved as DISPATCHING before any adapter is called. *)
ListReplicas ==
    /\ pc = "unheld"
    /\ LET required == registry \cap Required IN
       IF required = {}
       THEN /\ job' = [job EXCEPT !.state = "ESCALATED", !.holdCount = 0]
            /\ Return
       ELSE /\ job' = [job EXCEPT !.state = "DISPATCHING", !.holdCount = 0,
                                  !.required = required]
            /\ run' = [run EXCEPT !.todo = registry, !.required = required]
            /\ pc' = "dispatch"
            /\ UNCHANGED <<task, retries, crashes, lock>>
    /\ UNCHANGED <<log, tombstones, holds, registry, present>>

-----------------------------------------------------------------------------
(* The dispatch loop: one iteration for each listed replica, in the order  *)
(* the registry returns them.                                              *)

(* Mutant: the verifier's verdict is not asked for. *)
succeeded_only(receipt) ==
    receipt.outcome = "SUCCEEDED" /\ receipt.completed

(* DeletionReceipt.satisfies_completion. *)
satisfies_completion(receipt) ==
    receipt.outcome = "SUCCEEDED" /\ receipt.verified /\ receipt.completed

(* The append-only log keeps every receipt; of the ones it holds for a     *)
(* replica only whether one satisfies completion is told apart.            *)
append_receipt(r, receipt) ==
    IF satisfies_completion(receipt) THEN log \cup {r} ELSE log

(* A replica whose verified receipt an earlier run saved is skipped. *)
SkipReplica(r) ==
    /\ pc = "dispatch"
    /\ r \in run.todo
    /\ satisfies_completion(job.receipts[r])
    /\ run' = [run EXCEPT !.todo = @ \ {r}]
    /\ UNCHANGED <<job, log, tombstones, holds, registry, present,
                   task, retries, crashes, lock, pc>>

(* No adapter of that name, or it does not support the replica's kind. *)
NoAdapter(r) ==
    /\ pc = "dispatch"
    /\ r \in run.todo
    /\ ~satisfies_completion(job.receipts[r])
    /\ r \notin LocalReplicas \cup Providers
    /\ log' = append_receipt(r, Unsupported)
    /\ run' = [run EXCEPT !.todo = @ \ {r}, !.latest[r] = Unsupported]
    /\ UNCHANGED <<job, tombstones, holds, registry, present,
                   task, retries, crashes, lock, pc>>

(* A command is issued to the replica's adapter. *)
IssueCommand(r) ==
    /\ pc = "dispatch"
    /\ r \in run.todo
    /\ ~satisfies_completion(job.receipts[r])
    /\ r \in LocalReplicas \cup Providers
    /\ run' = [run EXCEPT !.todo = @ \ {r}, !.current = r]
    /\ pc' = "adapter"
    /\ UNCHANGED <<job, log, tombstones, holds, registry, present,
                   task, retries, crashes, lock>>

(* The adapter returns a receipt; bound is what _assert_receipt_binding    *)
(* compares: does it name this job, replica, scope and adapter?            *)
Answer(receipt, bound) ==
    /\ run' = [run EXCEPT !.hand = receipt, !.bound = bound]
    /\ pc' = "verify"

LocalReceipt(outcome) ==
    [outcome |-> outcome, verified |-> FALSE, completed |-> TRUE]

(* The local adapter first asks its legal-hold port (NoLegalHolds unless   *)
(* one is configured) and looks the blob up.                               *)
LocalCheck ==
    /\ pc = "adapter"
    /\ run.current \in LocalReplicas
    /\ IF HoldAware /\ holds # {}
       THEN Answer(LocalReceipt("FAILED_TERMINAL"), TRUE)
       ELSE IF run.current \notin present
       THEN Answer(LocalReceipt("SUCCEEDED"), TRUE)
       ELSE pc' = "erase" /\ UNCHANGED run
    /\ UNCHANGED <<job, log, tombstones, holds, registry, present,
                   task, retries, crashes, lock>>

(* It deletes the blob and looks again: success only when it is gone. *)
LocalErase ==
    /\ pc = "erase"
    /\ \E erased \in BOOLEAN :
         /\ present' = IF erased THEN present \ {run.current} ELSE present
         /\ Answer(LocalReceipt(IF erased THEN "SUCCEEDED"
                                          ELSE "FAILED_RETRYABLE"), TRUE)
    /\ UNCHANGED <<job, log, tombstones, holds, registry,
                   task, retries, crashes, lock>>

(* An external provider may or may not erase its copy and may answer       *)
(* anything: a success without completion time (deletion only accepted), a *)
(* failure after it did erase, or the receipt of another job.              *)
ProviderDelete ==
    /\ pc = "adapter"
    /\ run.current \in Providers
    /\ \E erased, completed, bound \in BOOLEAN,
          outcome \in {"SUCCEEDED", "FAILED_RETRYABLE", "FAILED_TERMINAL"} :
         /\ present' = IF erased THEN present \ {run.current} ELSE present
         /\ Answer([outcome |-> outcome, verified |-> FALSE,
                    completed |-> completed], bound)
    /\ UNCHANGED <<job, log, tombstones, holds, registry,
                   task, retries, crashes, lock>>

(* The receipt verifier vouches only for a statement that is true: a       *)
(* completed deletion of this job's replica is vouched for once the bytes  *)
(* are gone.  A receipt of another job can be a true one.                  *)
MayVerify(receipt, r, bound) ==
    ~bound \/ receipt.outcome # "SUCCEEDED" \/ ~receipt.completed
           \/ r \notin present

(* Mutant: the binding of a receipt is not checked. *)
AnyReceipt == TRUE

(* _assert_receipt_binding; when it fails the step is a Raise. *)
ReceiptBound == run.bound

(* _assert_receipt_binding, receipt_verifier.verify and append_receipt. *)
VerifyReceipt ==
    /\ pc = "verify"
    /\ ReceiptBound
    /\ \E verified \in BOOLEAN :
         /\ verified => MayVerify(run.hand, run.current, run.bound)
         /\ LET receipt == [run.hand EXCEPT !.verified = verified] IN
            /\ log' = append_receipt(run.current, receipt)
            /\ run' = [run EXCEPT !.latest[run.current] = receipt,
                                  !.current = None, !.hand = NoReceipt,
                                  !.bound = FALSE]
    /\ pc' = "dispatch"
    /\ UNCHANGED <<job, tombstones, holds, registry, present,
                   task, retries, crashes, lock>>

-----------------------------------------------------------------------------
(* After the loop.                                                         *)

successful_ids == {r \in Replicas : satisfies_completion(run.latest[r])}

(* A latest receipt, of any replica, that no retry will mend. *)
AnyTerminal ==
    \E r \in Replicas : run.latest[r].outcome \in {"FAILED_TERMINAL", "UNSUPPORTED"}

(* Some required replica lacks a verified receipt: the job is saved with   *)
(* the latest receipts and is not complete.                                *)
FinishIncomplete ==
    /\ pc = "dispatch"
    /\ run.todo = {}
    /\ ~(run.required \subseteq successful_ids)
    /\ job' = [job EXCEPT !.state = IF AnyTerminal THEN "ESCALATED"
                                                   ELSE "PARTIALLY_FAILED",
                          !.receipts = run.latest]
    /\ Return
    /\ UNCHANGED <<log, tombstones, holds, registry, present>>

(* DeletionJob's validator: completion_is_evidence_bound. *)
CompletionValid(completed) ==
    /\ completed.blocked
    /\ completed.holdCount = 0
    /\ \A r \in completed.required : satisfies_completion(completed.receipts[r])

(* Every required replica is vouched for: the validated job, the tombstone *)
(* and the DeletionCompleted event are persisted in one transaction.       *)
FinishComplete ==
    /\ pc = "dispatch"
    /\ run.todo = {}
    /\ run.required \subseteq successful_ids
    /\ LET completed == [job EXCEPT !.state = "COMPLETED",
                                    !.receipts = run.latest]
       IN  /\ CompletionValid(completed)
           /\ job' = completed
    /\ tombstones' = tombstones + 1
    /\ Return
    /\ UNCHANGED <<log, holds, registry, present>>

-----------------------------------------------------------------------------
DispatchStep ==
    \/ \E r \in Replicas : SkipReplica(r) \/ NoAdapter(r) \/ IssueCommand(r)
    \/ LocalCheck
    \/ LocalErase
    \/ ProviderDelete
    \/ VerifyReceipt

run_once ==
    \/ CheckHolds
    \/ ListReplicas
    \/ DispatchStep
    \/ FinishIncomplete
    \/ FinishComplete

Environment ==
    \/ request
    \/ \E h \in Holds : PlaceHold(h) \/ ReleaseHold(h)
    \/ \E r \in Replicas : RegisterReplica(r)

Next ==
    \/ Environment
    \/ \E t \in Tasks : Send(t) \/ Lock(t)
    \/ run_once
    \/ Raise
    \/ Crash

(* Celery delivers what is queued, and a worker that holds the lock keeps  *)
(* executing: it takes a next step, returns, raises or dies.               *)
Fairness ==
    /\ \A t \in Tasks : WF_vars(Lock(t))
    /\ WF_vars(run_once \/ Raise)

Spec == Init /\ [][Next]_vars /\ Fairness

-----------------------------------------------------------------------------
(* Properties.                                                             *)

(* A COMPLETED job is bound to evidence: access was blocked first, the     *)
(* required set is not empty, every required replica has a verified,       *)
(* completed receipt that is also in the receipt log, its bytes are gone,  *)
(* and exactly one tombstone was written (deletion.py:150-218, whatever    *)
(* crashed, was retried or answered out of turn before).                   *)
CompletionIsEvidenceBound ==
    job.state = "COMPLETED" =>
        /\ job.blocked
        /\ job.required # {}
        /\ \A r \in job.required :
             /\ satisfies_completion(job.receipts[r])
             /\ r \in log
             /\ r \notin present
        /\ tombstones = 1

(* Without a COMPLETED job there is no tombstone: the event is never       *)
(* emitted before the receipts (deletion.py:213).                          *)
TombstoneOnlyWhenCompleted == tombstones > 0 => job.state = "COMPLETED"

(* Bytes disappear only after logical access was blocked (deletion.py:81). *)
BlockedBeforeErased == present # registry => job.blocked

(* A job is left DISPATCHING only while a run holds it, a delivery that    *)
(* will resume it is queued, or Celery gave one up after max_retries; an   *)
(* acknowledged delivery never strands it (tasks.py:37-47).                *)
DispatchingIsExplained ==
    job.state = "DISPATCHING" =>
        \/ lock # None
        \/ \E t \in Tasks : task[t] \in {"queued", "dead"}

(* A verified receipt saved with the job is never lost or replaced by a    *)
(* later run, however that run ends (deletion.py:111-127,168).             *)
VerifiedReceiptsAreKept ==
    [][\A r \in Replicas : satisfies_completion(job.receipts[r]) =>
            job'.receipts[r] = job.receipts[r]]_vars

(* A COMPLETED job is final: redelivered and repeated deliveries change    *)
(* neither it, nor its tombstone, nor the receipt log (deletion.py:79).    *)
CompletedIsFinal ==
    [][job.state = "COMPLETED" => UNCHANGED <<job, tombstones, log>>]_vars

(* A hold in force since before run_once locked the job keeps that run     *)
(* from erasing any replica (deletion.py:84-94).                           *)
StandingHoldBlocksErasure ==
    [][present' # present /\ registry' = registry => run.held = {}]_vars

(* A hold that is in force when a replica is erased should have stopped    *)
(* the erasure (docs/traceability/documents.yaml:171).                     *)
HoldBlocksErasure ==
    [][present' # present /\ registry' = registry => holds = {}]_vars

(* Every queued delivery is in the end acknowledged or given up.           *)
DeliveriesEnd ==
    \A t \in Tasks : task[t] = "queued" ~> task[t] \in {"acked", "dead"}

(* The abstract view: an announced deletion is a COMPLETED job. *)
Promise == INSTANCE DeletionPromise WITH
    blocked    <- job.blocked,
    registered <- registry,
    gone       <- registry \ present,
    announced  <- IF job.state = "COMPLETED" THEN job.required ELSE {}

(* The coordinator keeps the promise of DeletionPromise: every step of it, *)
(* of its surroundings, and every crash or retry is an abstract step or    *)
(* changes nothing a client can see.                                       *)
PromiseKept == Promise!Spec

-----------------------------------------------------------------------------
(* The inductive invariant behind the safety properties.                   *)

Dispatching == pc \in {"dispatch", "adapter", "erase", "verify"}

InCommand == pc \in {"adapter", "erase", "verify"}

(* A satisfying receipt is backed: it is in the log and the bytes of its   *)
(* replica, which stays registered, are gone.                              *)
Backed(receipts, appended) ==
    \A r \in Replicas : satisfies_completion(receipts[r]) =>
        r \in appended /\ r \in registry /\ r \notin present

(* What a run carries along: the job it would roll back to keeps the same  *)
(* receipts, it only replaces receipts that did not satisfy completion,    *)
(* and the hold check lies behind it once it lists replicas.               *)
RunInv ==
    lock # None =>
        /\ run.job0.receipts = job.receipts
        /\ run.job0.blocked /\ job.blocked
        /\ run.job0.state \notin {"ABSENT", "COMPLETED"}
        /\ job.state \notin {"ABSENT", "COMPLETED"}
        /\ Backed(job.receipts, run.log0)
        /\ run.log0 \subseteq log
        /\ Backed(run.latest, log)
        /\ \A r \in Replicas : satisfies_completion(job.receipts[r]) =>
               run.latest[r] = job.receipts[r]
        /\ run.todo \subseteq registry
        /\ InCommand => /\ run.current \in registry
                        /\ ~satisfies_completion(job.receipts[run.current])
        /\ Dispatching => /\ run.required # {}
                          /\ run.required \subseteq registry \cap Required
                          /\ job.required = run.required
        /\ run.held \subseteq holds
        /\ pc # "locked" => run.held = {}

(* The job by itself.                                                      *)
JobInv ==
    /\ Backed(job.receipts, log)
    /\ job.state = "ABSENT" <=> ~job.blocked
    /\ job.state = "ABSENT" => \A t \in Tasks : task[t] = "unsent"
    /\ job.state = "COMPLETED" =>
          /\ lock = None
          /\ job.required # {}
          /\ \A r \in job.required : satisfies_completion(job.receipts[r])
    /\ tombstones = IF job.state = "COMPLETED" THEN 1 ELSE 0

(* Together with the type invariant and the two properties that are        *)
(* inductive relative to it.                                               *)
IndInv ==
    /\ TypeOK
    /\ JobInv
    /\ RunInv
    /\ BlockedBeforeErased
    /\ DispatchingIsExplained

=============================================================================
