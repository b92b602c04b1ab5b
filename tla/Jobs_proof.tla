-------------------------------- MODULE Jobs_proof -----------------------------
(***************************************************************************)
(* Proofs about the two background jobs.                                   *)
(*                                                                         *)
(* The safety properties of DeletionCoordinator, for any number of         *)
(* replicas, holds and deliveries and any bound on retries and crashes:    *)
(* IndInv is inductive; the invariants follow from it, and so do the       *)
(* action properties of its steps and the refinement of DeletionPromise.   *)
(*                                                                         *)
(* The safety properties of ParseJob for any set of calls and any bound on *)
(* attempts and repeats: the type invariant, the agreement of a job with   *)
(* its derived assets, and that a finished job stays finished; for the     *)
(* parse job alone and inside MCJobs.                                      *)
(***************************************************************************)
EXTENDS MCJobs, FiniteSetTheorems, TLAPS

(* The constant records have their types. *)
LEMMA NoRunType == NoJob \in Job /\ NoRun \in Run /\ Unsupported \in Receipt
<1>1. NoReceipt \in Receipt /\ Unsupported \in Receipt
  BY DEF NoReceipt, Unsupported, Receipt, Outcomes
<1>2. NoJob \in Job
  BY <1>1 DEF NoJob, Job, JobStates
<1>3. NoRun \in Run
  BY <1>1, <1>2 DEF NoRun, Run
<1> QED
  BY <1>1, <1>2, <1>3

(* The initial states satisfy the invariant. *)
LEMMA InitInv == Init => IndInv
<1> SUFFICES ASSUME Init PROVE IndInv
  OBVIOUS
<1> USE DEF Init
<1>1. TypeOK
  BY NoRunType, TasksAssumption
     DEF TypeOK, Steps, TaskStates
<1>2. \A r \in Replicas : ~satisfies_completion(job.receipts[r])
  BY DEF NoJob, NoReceipt, satisfies_completion
<1>3. JobInv
  BY <1>2 DEF JobInv, Backed, NoJob
<1>4. RunInv
  BY DEF RunInv
<1>5. BlockedBeforeErased /\ DispatchingIsExplained
  BY DEF BlockedBeforeErased, DispatchingIsExplained, NoJob
<1> QED
  BY <1>1, <1>3, <1>4, <1>5 DEF IndInv

(* Steps of the surroundings. *)
LEMMA RequestInv == ASSUME IndInv, request PROVE IndInv'
<1> USE DEF IndInv, request
<1>0. lock = None
  BY DEF RunInv
<1>1. TypeOK'
  BY DEF TypeOK, Job, JobStates
<1>2. job'.receipts = job.receipts /\ job'.required = job.required
      /\ job'.state = "LOGICAL_ACCESS_BLOCKED" /\ job'.blocked
  BY DEF TypeOK, Job
<1>3. JobInv' /\ RunInv'
  BY <1>0, <1>2 DEF JobInv, RunInv, Backed
<1>4. BlockedBeforeErased' /\ DispatchingIsExplained'
  BY <1>2 DEF BlockedBeforeErased, DispatchingIsExplained
<1> QED
  BY <1>1, <1>3, <1>4

(* A delivery is queued only for an existing job. *)
LEMMA SendInv == ASSUME IndInv, NEW t \in Tasks, Send(t) PROVE IndInv'
<1> USE DEF IndInv, Send
<1>1. TypeOK'
  BY TasksAssumption DEF TypeOK, TaskStates
<1>2. JobInv' /\ RunInv' /\ BlockedBeforeErased'
  BY DEF JobInv, RunInv, Backed, Dispatching, InCommand, BlockedBeforeErased
<1>3. DispatchingIsExplained'
  BY DEF DispatchingIsExplained, TypeOK
<1> QED
  BY <1>1, <1>2, <1>3

(* Holds come and go without touching the job; a run can only lose some   *)
(* of the holds it has stood under.                                        *)
LEMMA HoldInv ==
    ASSUME IndInv, NEW h \in Holds, PlaceHold(h) \/ ReleaseHold(h)
    PROVE  IndInv'
<1> USE DEF IndInv
<1>1. /\ run' \in Run
      /\ run'.held \subseteq run.held
      /\ run'.held \subseteq holds' \/ ~(run.held \subseteq holds)
      /\ UNCHANGED <<run.job0, run.log0, run.todo, run.latest,
                     run.required, run.current>>
  BY DEF PlaceHold, ReleaseHold, TypeOK, Run
<1>2. UNCHANGED <<job, log, tombstones, registry, present,
                  task, retries, crashes, lock, pc>>
  BY DEF PlaceHold, ReleaseHold
<1>3. TypeOK'
  BY <1>1, <1>2 DEF TypeOK, PlaceHold, ReleaseHold
<1>4. JobInv' /\ BlockedBeforeErased' /\ DispatchingIsExplained'
  BY <1>2 DEF JobInv, Backed, BlockedBeforeErased, DispatchingIsExplained
<1>5. RunInv'
  BY <1>1, <1>2 DEF RunInv, Backed, Dispatching, InCommand
<1> QED
  BY <1>3, <1>4, <1>5

(* A new replica brings new bytes; receipts of other replicas stay backed. *)
LEMMA RegisterInv ==
    ASSUME IndInv, NEW r \in Replicas, RegisterReplica(r) PROVE IndInv'
<1> USE DEF IndInv, RegisterReplica
<1>1. TypeOK'
  BY DEF TypeOK
<1>2. ASSUME NEW rs, NEW a, Backed(rs, a)
      PROVE  \A q \in Replicas : satisfies_completion(rs[q]) =>
                q \in a /\ q \in registry' /\ q \notin present'
  BY <1>2 DEF Backed
<1>3. JobInv'
  BY <1>2 DEF JobInv, Backed
<1>4. RunInv'
  BY <1>2 DEF RunInv, Backed, Dispatching, InCommand
<1>5. BlockedBeforeErased' /\ DispatchingIsExplained'
  BY DEF BlockedBeforeErased, DispatchingIsExplained, TypeOK
<1> QED
  BY <1>1, <1>3, <1>4, <1>5

-----------------------------------------------------------------------------
(* Runs that end early. *)
LEMMA CutShortInv ==
    ASSUME IndInv, lock # None, CutShort,
           task' \in [Tasks -> TaskStates],
           retries' \in [Tasks -> 0..MaxRetries],
           crashes' \in 0..MaxCrashes,
           task'[lock] \in {"queued", "dead"},
           \A t \in Tasks : t # lock => task'[t] = task[t]
    PROVE  IndInv'
<1> USE DEF IndInv, CutShort, Unlock
<1>0. lock \in Tasks
  BY DEF TypeOK
<1>1. job' \in Job /\ log' \in SUBSET Replicas
  BY DEF TypeOK, Run
<1>2. TypeOK'
  BY <1>0, <1>1, NoRunType, TasksAssumption DEF TypeOK, Steps
<1>3. /\ Backed(job'.receipts, log')
      /\ job'.blocked
      /\ job'.state \notin {"ABSENT", "COMPLETED"}
      /\ job.state # "COMPLETED"
  BY DEF RunInv, JobInv
<1>4. JobInv' /\ RunInv'
  BY <1>3 DEF JobInv, RunInv, Backed
<1>5. BlockedBeforeErased' /\ DispatchingIsExplained'
  BY <1>0, <1>3 DEF BlockedBeforeErased, DispatchingIsExplained
<1> QED
  BY <1>2, <1>4, <1>5

(* An exception: the delivery is queued again or given up. *)
LEMMA RaiseInv == ASSUME IndInv, Raise PROVE IndInv'
<1>1. /\ lock \in Tasks
      /\ task' \in [Tasks -> TaskStates]
      /\ retries' \in [Tasks -> 0..MaxRetries]
      /\ crashes' \in 0..MaxCrashes
      /\ task'[lock] \in {"queued", "dead"}
      /\ \A t \in Tasks : t # lock => task'[t] = task[t]
  BY TasksAssumption DEF IndInv, TypeOK, Raise, TaskStates
<1> QED
  BY <1>1, CutShortInv DEF Raise

(* A lost worker: the delivery is queued again. *)
LEMMA CrashInv == ASSUME IndInv, Crash PROVE IndInv'
<1>1. /\ lock \in Tasks
      /\ task' \in [Tasks -> TaskStates]
      /\ retries' \in [Tasks -> 0..MaxRetries]
      /\ crashes' \in 0..MaxCrashes
      /\ task'[lock] \in {"queued", "dead"}
      /\ \A t \in Tasks : t # lock => task'[t] = task[t]
  BY TasksAssumption DEF IndInv, TypeOK, Crash, TaskStates
<1> QED
  BY <1>1, CutShortInv DEF Crash

(* Runs that return: the job they save is what must satisfy JobInv. *)
LEMMA ReturnInv ==
    ASSUME IndInv, lock # None, Return, job' \in Job,
           log' = log, holds' = holds, registry' = registry, present' = present,
           tombstones' \in Nat,
           JobInv', job'.blocked, job'.state # "DISPATCHING"
    PROVE  IndInv'
<1> USE DEF IndInv, Return, Unlock
<1>1. TypeOK'
  BY NoRunType, TasksAssumption DEF TypeOK, Steps, TaskStates
<1>2. RunInv' /\ BlockedBeforeErased' /\ DispatchingIsExplained'
  BY DEF RunInv, BlockedBeforeErased, DispatchingIsExplained
<1> QED
  BY <1>1, <1>2

-----------------------------------------------------------------------------
(* The run up to the dispatch loop. *)
(* Locking the row: the run starts from the job it finds. *)
LEMMA LockInv == ASSUME IndInv, NEW t \in Tasks, Lock(t) PROVE IndInv'
<1> USE DEF IndInv, Lock
<1>1. CASE job.state = "COMPLETED"
  <2>1. TypeOK'
    BY <1>1, TasksAssumption DEF TypeOK, TaskStates
  <2>2. JobInv' /\ RunInv' /\ BlockedBeforeErased' /\ DispatchingIsExplained'
    BY <1>1 DEF JobInv, RunInv, Backed, BlockedBeforeErased,
                DispatchingIsExplained
  <2> QED
    BY <2>1, <2>2
<1>2. CASE job.state # "COMPLETED"
  <2>0. job.receipts \in [Replicas -> Receipt]
    BY DEF TypeOK, Job
  <2>1. /\ run' \in Run
        /\ run'.job0 = job /\ run'.log0 = log /\ run'.latest = job.receipts
        /\ run'.held = holds /\ run'.todo = {}
    <3>1. run' \in Run
      BY <1>2, <2>0, NoRunType DEF TypeOK, Run
    <3>2. /\ run'.job0 = job /\ run'.log0 = log /\ run'.latest = job.receipts
          /\ run'.held = holds
      BY <1>2, NoRunType DEF Run
    <3>3. run'.todo = {}
      BY <1>2, NoRunType DEF NoRun
    <3> QED
      BY <3>1, <3>2, <3>3
  <2>2. TypeOK'
    BY <1>2, <2>1, TasksAssumption DEF TypeOK, TaskStates, Steps
  <2>3. JobInv'
    BY <1>2 DEF JobInv, Backed
  <2>4. RunInv'
    BY <1>2, <2>1 DEF RunInv, JobInv, Backed, Dispatching, InCommand
  <2>5. BlockedBeforeErased' /\ DispatchingIsExplained'
    BY <1>2, TasksAssumption DEF BlockedBeforeErased, DispatchingIsExplained
  <2> QED
    BY <2>2, <2>3, <2>4, <2>5
<1> QED
  BY <1>1, <1>2

(* A hold sends the job to wait; without one no hold stands over the run. *)
LEMMA CheckHoldsInv == ASSUME IndInv, CheckHolds PROVE IndInv'
<1>0. lock # None /\ UNCHANGED <<log, tombstones, holds, registry, present>>
  BY DEF IndInv, TypeOK, CheckHolds
<1>1. CASE holds # {}
  <2>1. Cardinality(holds) \in Nat
    <3>1. IsFiniteSet(holds)
      BY HoldsAssumption, FS_Subset DEF IndInv, TypeOK
    <3> QED
      BY <3>1, FS_CardinalityType
  <2>2. /\ job' = [job EXCEPT !.state = "WAITING_FOR_HOLD_RELEASE",
                              !.holdCount = Cardinality(holds)]
        /\ Return
    BY <1>1 DEF CheckHolds
  <2>3. /\ job' \in Job
        /\ job'.state = "WAITING_FOR_HOLD_RELEASE"
        /\ UNCHANGED <<job.receipts, job.blocked, job.required>>
    BY <2>1, <2>2 DEF IndInv, TypeOK, Job, JobStates
  <2>4. JobInv'
    BY <1>0, <2>3 DEF IndInv, JobInv, RunInv, Backed
  <2> QED
    BY <1>0, <2>2, <2>3, <2>4, ReturnInv DEF IndInv, TypeOK, RunInv
<1>2. CASE holds = {}
  <2>1. pc = "locked" /\ pc' = "unheld"
        /\ UNCHANGED <<job, task, retries, crashes, lock, run>>
    BY <1>2 DEF CheckHolds
  <2>2. TypeOK'
    BY <1>0, <2>1 DEF IndInv, TypeOK, Steps
  <2>3. JobInv' /\ BlockedBeforeErased' /\ DispatchingIsExplained'
    BY <1>0, <2>1 DEF IndInv, JobInv, Backed, BlockedBeforeErased,
                      DispatchingIsExplained
  <2>4. RunInv'
    BY <1>0, <1>2, <2>1 DEF IndInv, RunInv, Backed, Dispatching, InCommand
  <2> QED
    BY <2>2, <2>3, <2>4 DEF IndInv
<1> QED
  BY <1>1, <1>2

(* The required set is fixed and saved with the DISPATCHING job. *)
LEMMA ListReplicasInv == ASSUME IndInv, ListReplicas PROVE IndInv'
<1> DEFINE required == registry \cap Required
<1> USE DEF IndInv, ListReplicas
<1>0. lock # None /\ required \in SUBSET Replicas
  BY DEF TypeOK
<1>1. CASE required = {}
  <2>1. /\ job' \in Job
        /\ job'.state = "ESCALATED"
        /\ UNCHANGED <<job.receipts, job.blocked, job.required>>
    <3>1. job' = [job EXCEPT !.state = "ESCALATED", !.holdCount = 0]
      BY <1>1
    <3> QED
      BY <3>1 DEF TypeOK, Job, JobStates
  <2>2. JobInv'
    BY <1>0, <2>1 DEF JobInv, RunInv, Backed
  <2> QED
    BY <1>0, <1>1, <2>1, <2>2, ReturnInv DEF TypeOK, RunInv
<1>2. CASE required # {}
  <2>1. /\ job' \in Job
        /\ job'.state = "DISPATCHING"
        /\ job'.required = required
        /\ UNCHANGED <<job.receipts, job.blocked>>
    <3>1. job' = [job EXCEPT !.state = "DISPATCHING", !.holdCount = 0,
                             !.required = required]
      BY <1>2
    <3> HIDE DEF required, ListReplicas
    <3> QED
      BY <1>0, <3>1 DEF TypeOK, Job, JobStates
  <2>2. /\ run' \in Run
        /\ run'.todo = registry /\ run'.required = required
        /\ UNCHANGED <<run.job0, run.log0, run.latest, run.current, run.held>>
    <3>1. run' = [run EXCEPT !.todo = registry, !.required = required]
      BY <1>2
    <3> HIDE DEF required, ListReplicas
    <3> QED
      BY <1>0, <3>1 DEF TypeOK, Run
  <2>3. TypeOK'
    BY <1>2, <2>1, <2>2 DEF TypeOK, Steps
  <2>4. JobInv'
    BY <1>0, <1>2, <2>1 DEF JobInv, RunInv, Backed
  <2>5. RunInv'
    BY <1>0, <1>2, <2>1, <2>2 DEF RunInv, Backed, Dispatching, InCommand
  <2>6. BlockedBeforeErased' /\ DispatchingIsExplained'
    BY <1>0, <1>2, <2>1 DEF BlockedBeforeErased, DispatchingIsExplained
  <2> QED
    BY <2>3, <2>4, <2>5, <2>6
<1> QED
  BY <1>1, <1>2

-----------------------------------------------------------------------------
(* Inside the loop only the run, the log and the bytes change.  What such  *)
(* a step must establish about them:                                       *)
LEMMA LoopInv ==
    ASSUME IndInv, lock # None, Dispatching, Dispatching',
           UNCHANGED <<job, tombstones, holds, registry,
                       task, retries, crashes, lock>>,
           pc' \in Steps, run' \in Run,
           log' \in SUBSET Replicas, log \subseteq log',
           present' \subseteq present,
           UNCHANGED <<run.job0, run.log0, run.required, run.held>>,
           run'.todo \subseteq run.todo,
           Backed(run.latest, log)' ,
           \A r \in Replicas : satisfies_completion(job.receipts[r]) =>
               run'.latest[r] = run.latest[r],
           InCommand' => /\ run'.current \in registry
                         /\ ~satisfies_completion(job.receipts[run'.current])
    PROVE  IndInv'
<1> USE DEF IndInv
<1>1. TypeOK'
  BY DEF TypeOK, Dispatching
<1>2. JobInv'
  BY DEF JobInv, Backed
<1>3. RunInv'
  <2>1. Backed(job.receipts, run.log0)'
    BY DEF RunInv, Backed
  <2> QED
    BY <2>1 DEF RunInv, Dispatching
<1>4. BlockedBeforeErased' /\ DispatchingIsExplained'
  BY DEF BlockedBeforeErased, DispatchingIsExplained, RunInv
<1> QED
  BY <1>1, <1>2, <1>3, <1>4

(* Skipping a replica or issuing a command changes only what is left to do. *)
LEMMA SkipInv ==
    ASSUME IndInv, NEW r \in Replicas, SkipReplica(r) \/ IssueCommand(r)
    PROVE  IndInv'
<1>1. /\ run' \in Run
      /\ run'.todo = run.todo \ {r}
      /\ UNCHANGED <<run.job0, run.log0, run.required, run.held, run.latest>>
      /\ pc' = "adapter" => run'.current = r
  <2>1. CASE SkipReplica(r)
    BY <2>1 DEF IndInv, TypeOK, SkipReplica, Run
  <2>2. CASE IssueCommand(r)
    BY <2>2 DEF IndInv, TypeOK, IssueCommand, Run
  <2> QED
    BY <2>1, <2>2
<1>2. lock # None /\ Dispatching /\ Dispatching' /\ pc' \in Steps
  BY DEF IndInv, TypeOK, SkipReplica, IssueCommand, Dispatching, Steps
<1>3. Backed(run.latest, log)'
  BY <1>1, <1>2 DEF IndInv, RunInv, Backed, SkipReplica, IssueCommand
<1>4. InCommand' => /\ run'.current \in registry
                    /\ ~satisfies_completion(job.receipts[run'.current])
  BY <1>1, <1>2 DEF IndInv, RunInv, InCommand, SkipReplica, IssueCommand
<1> QED
  BY <1>1, <1>2, <1>3, <1>4, LoopInv
     DEF IndInv, TypeOK, SkipReplica, IssueCommand

(* An UNSUPPORTED receipt never satisfies completion. *)
LEMMA NoAdapterInv ==
    ASSUME IndInv, NEW r \in Replicas, NoAdapter(r) PROVE IndInv'
<1> USE DEF NoAdapter
<1>1. /\ run' \in Run
      /\ run'.todo = run.todo \ {r}
      /\ run'.latest = [run.latest EXCEPT ![r] = Unsupported]
      /\ UNCHANGED <<run.job0, run.log0, run.required, run.held>>
  BY NoRunType DEF IndInv, TypeOK, Run
<1>2. lock # None /\ Dispatching /\ Dispatching' /\ pc' \in Steps
      /\ ~InCommand'
  BY DEF IndInv, TypeOK, Dispatching, Steps, InCommand
<1>3. ~satisfies_completion(Unsupported) /\ log' = log
  BY DEF satisfies_completion, Unsupported, append_receipt
<1>4. run.latest \in [Replicas -> Receipt]
  BY DEF IndInv, TypeOK, Run
<1>5. Backed(run.latest, log)'
  BY <1>1, <1>2, <1>3, <1>4 DEF IndInv, RunInv, Backed
<1>6. \A q \in Replicas : satisfies_completion(job.receipts[q]) =>
          run'.latest[q] = run.latest[q]
  BY <1>1, <1>4
<1> QED
  BY <1>1, <1>2, <1>3, <1>5, <1>6, LoopInv DEF IndInv, TypeOK

(* The three adapter steps keep the receipt they return in run.hand. *)
LEMMA AdapterInv ==
    ASSUME IndInv, LocalCheck \/ LocalErase \/ ProviderDelete
    PROVE  IndInv'
<1>1. /\ InCommand /\ InCommand' /\ pc' \in Steps
      /\ Dispatching /\ Dispatching' /\ lock # None
  BY DEF IndInv, TypeOK, LocalCheck, LocalErase, ProviderDelete, Answer,
         InCommand, Dispatching, Steps
<1>2. /\ run' \in Run
      /\ UNCHANGED <<run.job0, run.log0, run.required, run.held, run.todo,
                     run.latest, run.current>>
  <2>1. CASE run' = run
    BY <2>1 DEF IndInv, TypeOK
  <2>2. ASSUME NEW rc \in Receipt, NEW b \in BOOLEAN, Answer(rc, b)
        PROVE  <1>2!1 /\ <1>2!2
    BY <2>2 DEF IndInv, TypeOK, Run, Answer
  <2>3. \A o \in {"SUCCEEDED", "FAILED_RETRYABLE", "FAILED_TERMINAL"},
            c \in BOOLEAN :
          [outcome |-> o, verified |-> FALSE, completed |-> c] \in Receipt
    BY DEF Receipt, Outcomes
  <2>4. run' = run \/ \E rc \in Receipt, b \in BOOLEAN : Answer(rc, b)
    <3>1. CASE LocalCheck
      BY <2>3, <3>1 DEF LocalCheck, LocalReceipt
    <3>2. CASE LocalErase
      BY <2>3, <3>2 DEF LocalErase, LocalReceipt
    <3>3. CASE ProviderDelete
      BY <2>3, <3>3 DEF ProviderDelete
    <3> QED
      BY <3>1, <3>2, <3>3
  <2> QED
    BY <2>1, <2>2, <2>4
<1>3. present' \subseteq present
  BY DEF LocalCheck, LocalErase, ProviderDelete
<1>4. UNCHANGED <<job, log, tombstones, holds, registry,
                  task, retries, crashes, lock>>
  BY DEF LocalCheck, LocalErase, ProviderDelete
<1>5. Backed(run.latest, log)'
  BY <1>1, <1>2, <1>3, <1>4 DEF IndInv, RunInv, Backed
<1>6. /\ run'.current \in registry
      /\ ~satisfies_completion(job.receipts[run'.current])
  BY <1>1, <1>2 DEF IndInv, RunInv
<1> QED
  BY <1>1, <1>2, <1>3, <1>4, <1>5, <1>6, LoopInv DEF IndInv, TypeOK

(* A receipt that satisfies completion is bound to this job and replica,   *)
(* and the verifier vouched for it only because the bytes are gone.        *)
LEMMA VerifyInv == ASSUME IndInv, VerifyReceipt PROVE IndInv'
<1> DEFINE r == run.current
<1>1. PICK v \in BOOLEAN :
        /\ v => MayVerify(run.hand, run.current, run.bound)
        /\ log' = append_receipt(run.current, [run.hand EXCEPT !.verified = v])
        /\ run' = [run EXCEPT
                !.latest[run.current] = [run.hand EXCEPT !.verified = v],
                !.current = None, !.hand = NoReceipt, !.bound = FALSE]
  BY DEF VerifyReceipt
<1> DEFINE receipt == [run.hand EXCEPT !.verified = v]
<1>2. receipt \in Receipt /\ receipt.outcome = run.hand.outcome
      /\ receipt.completed = run.hand.completed /\ receipt.verified = v
  BY DEF IndInv, TypeOK, Run, Receipt
<1>3. NoReceipt \in Receipt
  BY DEF NoReceipt, Receipt, Outcomes
<1>4. /\ lock # None /\ Dispatching /\ Dispatching' /\ pc' \in Steps
      /\ InCommand /\ ~InCommand' /\ r \in Replicas /\ r \in registry
      /\ ~satisfies_completion(job.receipts[r])
      /\ run.latest \in [Replicas -> Receipt]
  BY DEF IndInv, TypeOK, RunInv, VerifyReceipt, Dispatching, InCommand,
         Steps, Run
<1>5. UNCHANGED <<job, tombstones, holds, registry, present,
                  task, retries, crashes, lock>>
  BY DEF VerifyReceipt
<1> HIDE DEF receipt
<1>6. /\ run' \in Run
      /\ run'.latest = [run.latest EXCEPT ![r] = receipt]
      /\ UNCHANGED <<run.job0, run.log0, run.required, run.held, run.todo>>
  <2>1. run' = [run EXCEPT !.latest[run.current] = receipt,
                   !.current = None, !.hand = NoReceipt, !.bound = FALSE]
    BY <1>1 DEF receipt
  <2> QED
    BY <1>2, <1>3, <1>4, <2>1 DEF IndInv, TypeOK, Run
<1>7. satisfies_completion(receipt) => r \notin present /\ r \in log'
  BY <1>1, <1>2 DEF satisfies_completion, MayVerify, VerifyReceipt,
                    ReceiptBound, append_receipt, receipt
<1>8. log \subseteq log' /\ log' \in SUBSET Replicas
  BY <1>1, <1>4 DEF append_receipt, IndInv, TypeOK
<1>9. Backed(run.latest, log)'
  BY <1>4, <1>5, <1>6, <1>7, <1>8 DEF IndInv, RunInv, Backed
<1>10. \A q \in Replicas : satisfies_completion(job.receipts[q]) =>
          run'.latest[q] = run.latest[q]
  BY <1>4, <1>6
<1> QED
  BY <1>4, <1>5, <1>6, <1>8, <1>9, <1>10, LoopInv DEF IndInv, TypeOK

-----------------------------------------------------------------------------
(* After the loop. *)
LEMMA FinishIncompleteInv ==
    ASSUME IndInv, FinishIncomplete PROVE IndInv'
<1>0. lock # None /\ run.latest \in [Replicas -> Receipt]
  BY DEF IndInv, TypeOK, FinishIncomplete, Run
<1>1. /\ job' \in Job
      /\ job'.state \in {"ESCALATED", "PARTIALLY_FAILED"}
      /\ job'.receipts = run.latest
      /\ UNCHANGED <<job.blocked, job.required>>
  BY <1>0 DEF IndInv, TypeOK, FinishIncomplete, Job, JobStates
<1>2. JobInv'
  BY <1>0, <1>1 DEF IndInv, JobInv, RunInv, Backed, FinishIncomplete
<1> QED
  BY <1>0, <1>1, <1>2, ReturnInv
     DEF FinishIncomplete, IndInv, TypeOK, RunInv

(* Completion: every required replica has a satisfying receipt. *)
LEMMA FinishCompleteInv ==
    ASSUME IndInv, FinishComplete PROVE IndInv'
<1>0. lock # None /\ run.latest \in [Replicas -> Receipt] /\ Dispatching
  BY DEF IndInv, TypeOK, FinishComplete, Run, Dispatching
<1>1. /\ job' \in Job
      /\ job'.state = "COMPLETED"
      /\ job'.receipts = run.latest
      /\ UNCHANGED <<job.blocked, job.required>>
  BY <1>0 DEF IndInv, TypeOK, FinishComplete, Job, JobStates
<1>2. \A r \in job.required : satisfies_completion(job'.receipts[r])
  BY <1>0, <1>1 DEF IndInv, RunInv, FinishComplete, successful_ids
<1>3. tombstones = 0 /\ tombstones' = 1 /\ lock' = None
  BY <1>0 DEF IndInv, JobInv, RunInv, FinishComplete, Return, Unlock
<1>4. JobInv'
  BY <1>0, <1>1, <1>2, <1>3
     DEF IndInv, JobInv, RunInv, Backed, FinishComplete
<1> QED
  BY <1>0, <1>1, <1>3, <1>4, ReturnInv
     DEF FinishComplete, IndInv, TypeOK, RunInv

-----------------------------------------------------------------------------
(* IndInv is preserved by every step of the system: the coordinator's own  *)
(* steps, whoever crashes or raises, and everything its surroundings do.   *)
THEOREM StepInv == IndInv /\ [Next]_vars => IndInv'
<1> SUFFICES ASSUME IndInv, [Next]_vars PROVE IndInv'
  OBVIOUS
<1>1. CASE Environment
  BY <1>1, RequestInv, HoldInv, RegisterInv DEF Environment
<1>2. CASE \E t \in Tasks : Send(t) \/ Lock(t)
  BY <1>2, SendInv, LockInv
<1>3. CASE run_once
  <2>1. CASE DispatchStep
    BY <2>1, SkipInv, NoAdapterInv, AdapterInv, VerifyInv DEF DispatchStep
  <2> QED
    BY <1>3, <2>1, CheckHoldsInv, ListReplicasInv, FinishIncompleteInv,
       FinishCompleteInv DEF run_once
<1>4. CASE Raise \/ Crash
  BY <1>4, RaiseInv, CrashInv
<1>5. CASE UNCHANGED vars
  BY <1>5 DEF vars, IndInv, TypeOK, JobInv, RunInv, Backed, InCommand,
              Dispatching, BlockedBeforeErased, DispatchingIsExplained
<1> QED
  BY <1>1, <1>2, <1>3, <1>4, <1>5 DEF Next

(* Every reachable state satisfies the inductive invariant. *)
THEOREM Invariance == Spec => []IndInv
<1>1. Init => IndInv
  BY InitInv
<1>2. IndInv /\ [Next]_vars => IndInv'
  BY StepInv
<1> QED
  BY <1>1, <1>2, PTL DEF Spec

(* The same inside MCJobs, where the deletion job runs beside a parse job. *)
THEOREM InvarianceInJobs == MCSpec => []IndInv
<1>1. MCInit => Init
  BY DEF MCInit
<1>2. [MCNext]_jobVars => [Next]_vars
  BY Zenon DEF MCNext, jobVars
<1> QED
  BY <1>1, <1>2, InitInv, StepInv, PTL DEF MCSpec

(* The variables keep their types; pc, the row lock and the running        *)
(* delivery agree (one run of run_once at a time).                         *)
THEOREM TypeCorrect == Spec => []TypeOK
<1>1. IndInv => TypeOK
  BY DEF IndInv
<1> QED
  BY <1>1, Invariance, PTL

(* A COMPLETED job always rests on evidence (deletion.py:150-218): access  *)
(* blocked, a non-empty required set, for each of its replicas a verified  *)
(* and completed receipt in the job and in the log and no bytes left, and  *)
(* exactly one tombstone.                                                  *)
THEOREM CompletionCorrect == Spec => []CompletionIsEvidenceBound
<1>1. IndInv => CompletionIsEvidenceBound
  BY DEF IndInv, JobInv, TypeOK, Job, Backed, CompletionIsEvidenceBound
<1> QED
  BY <1>1, Invariance, PTL

(* No tombstone and no DeletionCompleted event before completion. *)
THEOREM TombstoneCorrect == Spec => []TombstoneOnlyWhenCompleted
<1>1. IndInv => TombstoneOnlyWhenCompleted
  BY DEF IndInv, JobInv, TombstoneOnlyWhenCompleted
<1> QED
  BY <1>1, Invariance, PTL

(* Nothing is erased before logical access is blocked (deletion.py:81).    *)
THEOREM BlockingCorrect == Spec => []BlockedBeforeErased
<1>1. IndInv => BlockedBeforeErased
  BY DEF IndInv
<1> QED
  BY <1>1, Invariance, PTL

(* A DISPATCHING job always has a run, a queued delivery or a delivery     *)
(* Celery gave up: acknowledged deliveries never strand it.                *)
THEOREM DispatchingCorrect == Spec => []DispatchingIsExplained
<1>1. IndInv => DispatchingIsExplained
  BY DEF IndInv
<1> QED
  BY <1>1, Invariance, PTL

-----------------------------------------------------------------------------
(* The action properties, from the invariant. *)

(* What a step may do to the receipts saved with the job. *)
LEMMA KeptStep ==
    ASSUME IndInv, [Next]_vars, NEW r \in Replicas,
           satisfies_completion(job.receipts[r])
    PROVE  job'.receipts[r] = job.receipts[r]
<1>1. CASE FinishIncomplete \/ FinishComplete
  <2>1. lock # None
    BY <1>1 DEF IndInv, TypeOK, FinishIncomplete, FinishComplete
  <2>2. job'.receipts = run.latest
    BY <1>1 DEF IndInv, TypeOK, Job, FinishIncomplete, FinishComplete
  <2> QED
    BY <2>1, <2>2 DEF IndInv, RunInv
<1>2. CASE CheckHolds
  BY <1>2 DEF CheckHolds, IndInv, TypeOK, Job
<1>3. CASE ListReplicas
  BY <1>3 DEF ListReplicas, IndInv, TypeOK, Job
<1>4. CASE request
  BY <1>4 DEF request, IndInv, TypeOK, Job
<1>5. CASE Raise \/ Crash
  BY <1>5 DEF Raise, Crash, CutShort, IndInv, RunInv
<1>6. CASE job' = job
  BY <1>6
<1>7. CASE DispatchStep
  BY <1>6, <1>7 DEF DispatchStep, SkipReplica, NoAdapter, IssueCommand,
     LocalCheck, LocalErase, ProviderDelete, VerifyReceipt
<1>8. CASE Environment \/ (\E t \in Tasks : Send(t) \/ Lock(t))
  BY <1>4, <1>6, <1>8 DEF Environment, PlaceHold, ReleaseHold,
     RegisterReplica, Send, Lock
<1> QED
  BY <1>1, <1>2, <1>3, <1>5, <1>6, <1>7, <1>8 DEF Next, run_once, vars

(* A verified receipt saved with the job survives every later run. *)
THEOREM ReceiptsKept == Spec => VerifiedReceiptsAreKept
<1>1. IndInv /\ [Next]_vars =>
        [\A r \in Replicas : satisfies_completion(job.receipts[r]) =>
            job'.receipts[r] = job.receipts[r]]_vars
  BY KeptStep
<1> QED
  BY <1>1, Invariance, PTL DEF Spec, VerifiedReceiptsAreKept

(* A COMPLETED job, its tombstone and its receipts never change again. *)
THEOREM CompletedFinal == Spec => CompletedIsFinal
<1>1. ASSUME IndInv, [Next]_vars, job.state = "COMPLETED"
      PROVE  UNCHANGED <<job, tombstones, log>>
  <2>1. lock = None /\ pc = "idle"
    BY <1>1 DEF IndInv, JobInv, TypeOK
  <2>2. CASE Environment \/ (\E t \in Tasks : Send(t) \/ Lock(t))
    BY <1>1, <2>2 DEF Environment, request, PlaceHold, ReleaseHold,
       RegisterReplica, Send, Lock
  <2>3. ~run_once /\ ~Raise /\ ~Crash
    BY <2>1 DEF run_once, DispatchStep, CheckHolds, ListReplicas, SkipReplica,
       NoAdapter, IssueCommand, LocalCheck, LocalErase, ProviderDelete,
       VerifyReceipt, FinishIncomplete, FinishComplete, Raise, Crash
  <2> QED
    BY <1>1, <2>2, <2>3 DEF Next, vars
<1>2. IndInv /\ [Next]_vars =>
        [job.state = "COMPLETED" => UNCHANGED <<job, tombstones, log>>]_vars
  BY <1>1
<1> QED
  BY <1>2, Invariance, PTL DEF Spec, CompletedIsFinal

(* A hold that was in force when run_once locked the job and has been in   *)
(* force since then keeps the run from erasing anything (deletion.py:84).  *)
THEOREM StandingHold == Spec => StandingHoldBlocksErasure
<1>1. ASSUME IndInv, [Next]_vars, present' # present, registry' = registry
      PROVE  run.held = {}
  <2>1. LocalErase \/ ProviderDelete
    BY <1>1 DEF Next, vars, Environment, request, PlaceHold, ReleaseHold,
       RegisterReplica, Send, Lock, run_once, DispatchStep, CheckHolds,
       ListReplicas, SkipReplica, NoAdapter, IssueCommand, LocalCheck,
       VerifyReceipt, FinishIncomplete, FinishComplete, Raise, Crash, CutShort
  <2>2. lock # None /\ pc # "locked"
    BY <1>1, <2>1 DEF IndInv, TypeOK, LocalErase, ProviderDelete
  <2> QED
    BY <1>1, <2>2 DEF IndInv, RunInv
<1>2. IndInv /\ [Next]_vars =>
        [present' # present /\ registry' = registry => run.held = {}]_vars
  BY <1>1
<1> QED
  BY <1>2, Invariance, PTL DEF Spec, StandingHoldBlocksErasure

-----------------------------------------------------------------------------
(* Refinement. *)

(* A step that leaves the job's visible part alone and erases at most the  *)
(* current replica is Erase or a stutter. *)
LEMMA EraseStep ==
    ASSUME IndInv, UNCHANGED <<job, registry>>, NEW r \in registry,
           present' = present \/ present' = present \ {r},
           present' # present => job.blocked
    PROVE  [Promise!Next]_(Promise!vars)
<1>1. CASE r \in present /\ present' = present \ {r}
  <2>1. Promise!Erase(r)
    BY <1>1 DEF IndInv, TypeOK, Promise!Erase
  <2> QED
    BY <2>1 DEF Promise!Next, IndInv, TypeOK
<1>2. CASE present' = present
  BY <1>2 DEF Promise!vars
<1> QED
  BY <1>1, <1>2

(* A step that changes none of what the abstract view shows. *)
LEMMA InvisibleStep ==
    ASSUME UNCHANGED <<registry, present>>, job'.blocked = job.blocked,
           job.state # "COMPLETED", job'.state # "COMPLETED"
    PROVE  UNCHANGED Promise!vars
BY DEF Promise!vars

(* Every step is an abstract step or a stutter. *)
LEMMA RefinementStep ==
    ASSUME IndInv, [Next]_vars PROVE [Promise!Next]_(Promise!vars)
<1>1. CASE request
  <2>1. Promise!Block
    BY <1>1 DEF request, IndInv, TypeOK, Job, JobInv, Promise!Block
  <2> QED
    BY <2>1 DEF Promise!Next
<1>2. ASSUME NEW r \in Replicas, RegisterReplica(r)
      PROVE  Promise!Next
  <2>1. Promise!Register(r)
    BY <1>2 DEF RegisterReplica, IndInv, TypeOK, Promise!Register
  <2> QED
    BY <2>1 DEF Promise!Next
<1>3. CASE (\E h \in Holds : PlaceHold(h) \/ ReleaseHold(h))
           \/ (\E t \in Tasks : Send(t) \/ Lock(t)) \/ UNCHANGED vars
  BY <1>3 DEF PlaceHold, ReleaseHold, Send, Lock, vars, Promise!vars
<1>4. CASE Raise \/ Crash
  BY <1>4, InvisibleStep DEF Raise, Crash, CutShort, IndInv, RunInv
<1>5. CASE CheckHolds \/ ListReplicas \/ FinishIncomplete
  <2>1. lock # None /\ UNCHANGED <<registry, present>>
    BY <1>5 DEF CheckHolds, ListReplicas, FinishIncomplete, IndInv, TypeOK
  <2>2. job'.blocked = job.blocked /\ job'.state # "COMPLETED"
    <3>1. CASE CheckHolds
      BY <2>1, <3>1 DEF CheckHolds, IndInv, TypeOK, Job, RunInv
    <3>2. CASE ListReplicas
      BY <2>1, <3>2 DEF ListReplicas, IndInv, TypeOK, Job, RunInv
    <3>3. CASE FinishIncomplete
      BY <2>1, <3>3 DEF FinishIncomplete, IndInv, TypeOK, Job, RunInv
    <3> QED
      BY <1>5, <3>1, <3>2, <3>3
  <2> QED
    BY <2>1, <2>2, InvisibleStep DEF IndInv, RunInv
<1>6. CASE FinishComplete
  <2>1. lock # None /\ Dispatching /\ UNCHANGED <<registry, present>>
    BY <1>6 DEF FinishComplete, IndInv, TypeOK, Dispatching
  <2>2. /\ job'.blocked = job.blocked /\ job'.required = job.required
        /\ job.state # "COMPLETED" /\ job'.state = "COMPLETED"
    BY <1>6, <2>1 DEF FinishComplete, IndInv, TypeOK, Job, RunInv
  <2>3. /\ job.required # {} /\ job.required \subseteq Replicas
        /\ job.required \subseteq Required \cap (registry \ present)
    BY <1>6, <2>1
       DEF FinishComplete, IndInv, TypeOK, RunInv, Backed, successful_ids
  <2>4. Promise!Announce(job.required)
    BY <2>1, <2>2, <2>3 DEF Promise!Announce
  <2> QED
    BY <2>3, <2>4 DEF Promise!Next
<1>7. CASE DispatchStep
  <2>1. CASE LocalErase \/ ProviderDelete
    <3>1. /\ lock # None /\ InCommand
          /\ UNCHANGED <<job, registry>>
          /\ present' = present \/ present' = present \ {run.current}
      BY <2>1 DEF LocalErase, ProviderDelete, InCommand, IndInv, TypeOK
    <3>2. job.blocked /\ run.current \in registry
      BY <3>1 DEF IndInv, RunInv
    <3> QED
      BY <3>1, <3>2, EraseStep
  <2>2. CASE UNCHANGED <<job, registry, present>>
    BY <2>2 DEF Promise!vars
  <2> QED
    BY <1>7, <2>1, <2>2 DEF DispatchStep, SkipReplica, NoAdapter,
       IssueCommand, LocalCheck, VerifyReceipt
<1> QED
  BY <1>1, <1>2, <1>3, <1>4, <1>5, <1>6, <1>7
     DEF Next, Environment, run_once

(* DeletionCoordinator implements DeletionPromise. *)
THEOREM Refinement == Spec => PromiseKept
<1>1. Init => Promise!Init
  BY DEF Init, NoJob, Promise!Init
<1>2. IndInv /\ [Next]_vars => [Promise!Next]_(Promise!vars)
  BY RefinementStep
<1> QED
  BY <1>1, <1>2, Invariance, PTL DEF Spec, PromiseKept, Promise!Spec

-----------------------------------------------------------------------------
(* The parse job.                                                          *)

(* The inductive invariant.                                                *)

(* A retry has read a job with an attempt left. *)
RetriesAreBounded ==
    \A c \in Calls : call[c].at = "requeue" => call[c].copy.attempt < MaxAttempts

(* A call that is about to save SUCCEEDED has stored its asset. *)
FinishHasAsset == \A c \in Calls : call[c].at = "finish" => assets # {}

(* What a call relies on while it is the only one: the job is still as it  *)
(* read it, or RUNNING as it left it.                                      *)
Agrees(c) ==
    /\ call[c].at = "requeue" => parse.status = "FAILED"
    /\ call[c].at = "cancel" => parse.status = "QUEUED"
    /\ call[c].at = "run" => Ingest!Executable(parse.status)
    /\ call[c].at \in {"load", "parse", "store", "finish"} => parse.status = "RUNNING"

(* Until two calls overlap, one call is in flight and agrees with the job. *)
OneAtATime ==
    ~raced => \A c \in Calls : Ingest!InFlight(c) =>
                 /\ Agrees(c)
                 /\ \A d \in Calls : Ingest!InFlight(d) => d = c

(* Without overlaps and cuts there is one asset, reported or about to be.  *)
AssetIsReported ==
    ~raced /\ ~wrecked /\ assets # {} =>
        /\ \E a \in Calls : assets = {a}
        /\ \/ parse.status = "SUCCEEDED"
           \/ \E c \in Calls : call[c].at = "finish"

ParseIndInv ==
    /\ Ingest!TypeOK
    /\ RetriesAreBounded
    /\ Ingest!SucceededHasAsset
    /\ FinishHasAsset
    /\ OneAtATime
    /\ AssetIsReported

-----------------------------------------------------------------------------
(* The constant records have their types. *)
LEMMA NoParseJob == Ingest!NoJob \in Ingest!Job
BY ParseAssumption DEF Ingest!NoJob, Ingest!Job

(* The initial states satisfy the invariant. *)
LEMMA ParseInit == Ingest!Init => ParseIndInv
<1> SUFFICES ASSUME Ingest!Init PROVE ParseIndInv
  OBVIOUS
<1> USE DEF Ingest!Init
<1>1. Ingest!TypeOK
  <2>1. [kind |-> "none", at |-> "new", copy |-> Ingest!NoJob] \in Ingest!Call
    BY NoParseJob DEF Ingest!Call, Ingest!Points
  <2>2. call \in [Calls -> Ingest!Call] /\ repeats \in [Calls -> 0..MaxRepeats]
    BY <2>1, ParseAssumption
  <2> QED
    BY <2>2, NoParseJob DEF Ingest!TypeOK
<1>2. RetriesAreBounded /\ FinishHasAsset /\ OneAtATime
  BY DEF RetriesAreBounded, FinishHasAsset, OneAtATime, Ingest!InFlight
<1>3. Ingest!SucceededHasAsset /\ AssetIsReported
  BY DEF Ingest!SucceededHasAsset, AssetIsReported, Ingest!NoJob
<1> QED
  BY <1>1, <1>2, <1>3 DEF ParseIndInv

(* A call begins: it is the only one in flight unless calls overlap. *)
LEMMA ParseBegin ==
    ASSUME ParseIndInv, NEW c \in Calls,
           Ingest!create_parse_job(c) \/ Ingest!Deliver(c)
             \/ Ingest!StartRetry(c) \/ Ingest!StartCancel(c)
    PROVE  ParseIndInv'
<1> USE DEF ParseIndInv
<1>1. PICK kind \in {"create", "delivery", "retry", "cancel"},
           point \in {"execute", "returned", "requeue", "cancel"} :
        /\ Ingest!Begin(c, kind, point)
        /\ point = "requeue" => parse.status = "FAILED" /\ parse.attempt < MaxAttempts
        /\ point = "cancel" => parse.status = "QUEUED"
        /\ point \in {"requeue", "cancel"} => parse' = parse
  BY DEF Ingest!create_parse_job, Ingest!Deliver, Ingest!StartRetry,
         Ingest!StartCancel
<1>2. /\ UNCHANGED <<blob, assets, repeats, wrecked>>
      /\ parse' = parse \/ (parse.status = "ABSENT" /\ parse'.status = "QUEUED")
      /\ parse' \in Ingest!Job
  BY ParseAssumption
     DEF Ingest!create_parse_job, Ingest!Deliver, Ingest!StartRetry,
         Ingest!StartCancel, Ingest!TypeOK, Ingest!Job
<1>3. /\ call[c].at = "new"
      /\ call'[c] = [kind |-> kind, at |-> point, copy |-> parse]
      /\ \A d \in Calls : d # c => call'[d] = call[d]
      /\ raced' = (raced \/ \E d \in Calls : Ingest!InFlight(d))
  BY <1>1 DEF Ingest!Begin, Ingest!TypeOK
<1>4. Ingest!TypeOK'
  <2>1. [kind |-> kind, at |-> point, copy |-> parse] \in Ingest!Call
    BY DEF Ingest!TypeOK, Ingest!Call, Ingest!Points
  <2>2. call' \in [Calls -> Ingest!Call]
    BY <1>1, <2>1 DEF Ingest!TypeOK, Ingest!Begin
  <2> QED
    BY <1>2, <1>3, <2>2 DEF Ingest!TypeOK
<1>5. RetriesAreBounded' /\ FinishHasAsset'
  BY <1>1, <1>2, <1>3 DEF RetriesAreBounded, FinishHasAsset
<1>6. Ingest!SucceededHasAsset'
  BY <1>2 DEF Ingest!SucceededHasAsset
<1>7. OneAtATime'
  <2> SUFFICES ASSUME ~raced', NEW d \in Calls, Ingest!InFlight(d)'
               PROVE  Agrees(d)' /\ \A e \in Calls : Ingest!InFlight(e)' => e = d
    BY DEF OneAtATime
  <2>1. \A e \in Calls : ~Ingest!InFlight(e)
    BY <1>3
  <2>2. \A e \in Calls : Ingest!InFlight(e)' => e = c
    BY <1>3, <2>1 DEF Ingest!InFlight
  <2>3. Agrees(c)'
    BY <1>1, <1>3 DEF Agrees
  <2> QED
    BY <2>2, <2>3
<1>8. AssetIsReported'
  BY <1>1, <1>2, <1>3 DEF AssetIsReported
<1> QED
  BY <1>4, <1>5, <1>6, <1>7, <1>8

(* The steps of a call leave the others, and the histories, alone. *)
LEMMA ParseFrame ==
    ASSUME Ingest!TypeOK, NEW c \in Calls, Ingest!Step(c)
    PROVE  /\ \A d \in Calls : d # c => call'[d] = call[d]
           /\ UNCHANGED <<blob, repeats, wrecked, raced>>
           /\ Ingest!TypeOK /\ RetriesAreBounded => Ingest!TypeOK'
<1> USE DEF Ingest!Goto
<1>1. \A d \in Calls : d # c => call'[d] = call[d]
  BY DEF Ingest!Step, Ingest!Requeue, Ingest!SaveCancelled, Ingest!ReadJob,
         Ingest!SaveRunning, Ingest!Load, Ingest!Parse, Ingest!StoreAsset,
         Ingest!SaveSucceeded, Ingest!TypeOK
<1>2. UNCHANGED <<blob, repeats, wrecked, raced>>
  BY DEF Ingest!Step, Ingest!Requeue, Ingest!SaveCancelled, Ingest!ReadJob,
         Ingest!SaveRunning, Ingest!Load, Ingest!Parse, Ingest!StoreAsset,
         Ingest!SaveSucceeded
<1>3. call' \in [Calls -> Ingest!Call]
  BY DEF Ingest!Step, Ingest!Requeue, Ingest!SaveCancelled, Ingest!ReadJob,
         Ingest!SaveRunning, Ingest!Load, Ingest!Parse, Ingest!StoreAsset,
         Ingest!SaveSucceeded, Ingest!TypeOK, Ingest!Call, Ingest!Points
<1>4. assets' \in SUBSET Calls
  BY DEF Ingest!Step, Ingest!Requeue, Ingest!SaveCancelled, Ingest!ReadJob,
         Ingest!SaveRunning, Ingest!Load, Ingest!Parse, Ingest!StoreAsset,
         Ingest!SaveSucceeded, Ingest!TypeOK
<1>5. ASSUME RetriesAreBounded PROVE parse' \in Ingest!Job
  <2>1. call[c].copy \in Ingest!Job
    BY DEF Ingest!TypeOK, Ingest!Call
  <2>2. CASE Ingest!Requeue(c)
    <3>1. call[c].copy.attempt \in Nat /\ call[c].copy.attempt < MaxAttempts
      BY <1>5, <2>1, <2>2 DEF Ingest!Requeue, RetriesAreBounded, Ingest!Job
    <3>2. call[c].copy.attempt + 1 \in 0..MaxAttempts
      BY <3>1, ParseAssumption
    <3> QED
      BY <2>1, <2>2, <3>2 DEF Ingest!Requeue, Ingest!Job
  <2>3. CASE Ingest!SaveCancelled(c)
    BY <2>1, <2>3 DEF Ingest!SaveCancelled, Ingest!Job
  <2>4. CASE Ingest!ReadJob(c) \/ Ingest!StoreAsset(c)
    BY <2>4 DEF Ingest!ReadJob, Ingest!StoreAsset, Ingest!TypeOK
  <2>5. CASE Ingest!SaveRunning(c) \/ Ingest!Load(c) \/ Ingest!Parse(c) \/ Ingest!SaveSucceeded(c)
    BY <2>1, <2>5
       DEF Ingest!SaveRunning, Ingest!Load, Ingest!Parse,
           Ingest!SaveSucceeded, Ingest!Save, Ingest!TypeOK, Ingest!Job
  <2> QED
    BY <2>2, <2>3, <2>4, <2>5 DEF Ingest!Step
<1> QED
  BY <1>1, <1>2, <1>3, <1>4, <1>5 DEF Ingest!TypeOK

(* A step of a call in flight keeps the invariant.                         *)
LEMMA ParseStep ==
    ASSUME ParseIndInv, NEW c \in Calls, Ingest!Step(c) PROVE ParseIndInv'
<1> USE DEF ParseIndInv
<1>1. /\ \A d \in Calls : d # c => call'[d] = call[d]
      /\ UNCHANGED <<blob, repeats, wrecked, raced>>
      /\ Ingest!TypeOK'
  BY ParseFrame
<1>2. Ingest!InFlight(c)
  BY DEF Ingest!Step, Ingest!Requeue, Ingest!SaveCancelled, Ingest!ReadJob,
         Ingest!SaveRunning, Ingest!Load, Ingest!Parse, Ingest!StoreAsset,
         Ingest!SaveSucceeded, Ingest!InFlight
<1>3. (* What the step does to the call, the job and the assets. *)
      /\ call'[c].at # "requeue"
      /\ assets \subseteq assets'
      /\ call'[c].at = "finish" => call[c].at = "store" /\ assets' = assets \cup {c}
      /\ call[c].at # "store" => assets' = assets
      /\ parse'.status = "SUCCEEDED" => parse' = parse \/ call[c].at = "finish"
      /\ call[c].at = "finish" => parse'.status = "SUCCEEDED" /\ assets' = assets
      /\ call[c].at = "execute" => parse' = parse
      /\ call'[c].at # "cancel"
      /\ call'[c].at = "run" => Ingest!Executable(parse'.status)
      /\ call'[c].at \in {"load", "parse"} => parse'.status = "RUNNING"
      /\ call'[c].at \in {"store", "finish"} =>
            parse' = parse /\ call[c].at \in {"parse", "store"}
  <2> USE DEF Ingest!Goto, Ingest!Save
  <2>0. call[c].copy \in Ingest!Job
    BY DEF Ingest!TypeOK, Ingest!Call
  <2>1. CASE Ingest!Requeue(c)
    BY <2>0, <2>1 DEF Ingest!Requeue, Ingest!TypeOK, Ingest!Call, Ingest!Job
  <2>2. CASE Ingest!SaveCancelled(c)
    BY <2>0, <2>2
       DEF Ingest!SaveCancelled, Ingest!TypeOK, Ingest!Call, Ingest!Job
  <2>3. CASE Ingest!ReadJob(c)
    BY <2>0, <2>3 DEF Ingest!ReadJob, Ingest!TypeOK, Ingest!Call
  <2>4. CASE Ingest!SaveRunning(c)
    BY <2>0, <2>4
       DEF Ingest!SaveRunning, Ingest!TypeOK, Ingest!Call, Ingest!Job
  <2>5. CASE Ingest!Load(c)
    <3>1. call[c].at = "load" /\ assets' = assets
      BY <2>5 DEF Ingest!Load
    <3>2. CASE blob
      <4>1. call'[c].at = "parse" /\ parse'.status = "RUNNING"
        <5>1. Ingest!Save(c, "RUNNING", "UNSET") /\ Ingest!Goto(c, "parse")
          BY <2>5, <3>2 DEF Ingest!Load
        <5> QED
          BY <2>0, <5>1 DEF Ingest!TypeOK, Ingest!Call, Ingest!Job
      <4> QED
        BY <3>1, <4>1
    <3>3. CASE ~blob
      <4>1. call'[c].at = "returned" /\ parse'.status = "FAILED"
        <5>1. Ingest!Save(c, "FAILED", "YES") /\ Ingest!Goto(c, "returned")
          BY <2>5, <3>3 DEF Ingest!Load
        <5> QED
          BY <2>0, <5>1 DEF Ingest!TypeOK, Ingest!Call, Ingest!Job
      <4> QED
        BY <3>1, <4>1
    <3> QED
      BY <3>2, <3>3
  <2>6. CASE Ingest!Parse(c)
    <3>1. call[c].at = "parse" /\ assets' = assets
      BY <2>6 DEF Ingest!Parse
    <3>2. CASE Ingest!Goto(c, "store") /\ UNCHANGED parse
      <4>1. call'[c].at = "store" /\ parse' = parse
        BY <3>2 DEF Ingest!TypeOK, Ingest!Call
      <4> QED
        BY <3>1, <4>1
    <3>3. CASE Ingest!Save(c, "FAILED", "NO") /\ Ingest!Goto(c, "returned")
      <4>1. call'[c].at = "returned" /\ parse'.status = "FAILED"
        BY <2>0, <3>3 DEF Ingest!TypeOK, Ingest!Call, Ingest!Job
      <4> QED
        BY <3>1, <4>1
    <3> QED
      BY <2>6, <3>2, <3>3 DEF Ingest!Parse
  <2>7. CASE Ingest!StoreAsset(c)
    BY <2>0, <2>7 DEF Ingest!StoreAsset, Ingest!TypeOK, Ingest!Call
  <2>8. CASE Ingest!SaveSucceeded(c)
    BY <2>0, <2>8
       DEF Ingest!SaveSucceeded, Ingest!TypeOK, Ingest!Call, Ingest!Job
  <2> QED
    BY <2>1, <2>2, <2>3, <2>4, <2>5, <2>6, <2>7, <2>8 DEF Ingest!Step
<1>4. RetriesAreBounded'
  BY <1>1, <1>3 DEF RetriesAreBounded
<1>5. Ingest!SucceededHasAsset'
  BY <1>3 DEF Ingest!SucceededHasAsset, FinishHasAsset
<1>6. FinishHasAsset'
  BY <1>1, <1>3 DEF FinishHasAsset
<1>7. OneAtATime'
  BY <1>1, <1>2, <1>3 DEF OneAtATime, Ingest!InFlight, Agrees
<1>8. AssetIsReported'
  <2> SUFFICES ASSUME ~raced, ~wrecked, assets' # {}
               PROVE  /\ \E a \in Calls : assets' = {a}
                      /\ \/ parse'.status = "SUCCEEDED"
                         \/ \E d \in Calls : call'[d].at = "finish"
    BY <1>1 DEF AssetIsReported
  <2>1. Agrees(c) /\ \A d \in Calls : Ingest!InFlight(d) => d = c
    BY <1>2 DEF OneAtATime
  <2>2. CASE call[c].at = "store"
    <3>1. assets = {}
      BY <2>1, <2>2 DEF AssetIsReported, Agrees, Ingest!InFlight
    <3>2. assets' = {c} /\ call'[c].at = "finish"
      <4>1. Ingest!StoreAsset(c)
        BY <2>2
           DEF Ingest!Step, Ingest!Requeue, Ingest!SaveCancelled,
               Ingest!ReadJob, Ingest!SaveRunning, Ingest!Load, Ingest!Parse,
               Ingest!StoreAsset, Ingest!SaveSucceeded
      <4> QED
        BY <3>1, <4>1
           DEF Ingest!StoreAsset, Ingest!Goto, Ingest!TypeOK, Ingest!Call
    <3> QED
      BY <3>2
  <2>3. CASE call[c].at = "finish"
    BY <1>3, <2>3 DEF AssetIsReported
  <2>4. CASE call[c].at \notin {"store", "finish"}
    <3>1. assets' = assets /\ parse.status = "SUCCEEDED"
      BY <1>3, <2>1, <2>4 DEF AssetIsReported, Ingest!InFlight
    <3>2. parse' = parse
      BY <1>2, <1>3, <2>1, <2>4, <3>1
         DEF Agrees, Ingest!InFlight, Ingest!Executable, Ingest!TypeOK,
             Ingest!Call, Ingest!Points
    <3> QED
      BY <3>1, <3>2 DEF AssetIsReported
  <2> QED
    BY <2>2, <2>3, <2>4
<1> QED
  BY <1>1, <1>4, <1>5, <1>6, <1>7, <1>8

(* A call that is cut off saves nothing; a repeated delivery starts over.  *)
LEMMA ParseCutOff ==
    ASSUME ParseIndInv, NEW c \in Calls, Ingest!CutOff(c) PROVE ParseIndInv'
<1> USE DEF ParseIndInv, Ingest!CutOff, Ingest!Goto
<1>1. /\ Ingest!InFlight(c)
      /\ call'[c].at \in {"execute", "raised"}
      /\ \A d \in Calls : d # c => call'[d] = call[d]
  <2>1. PICK point \in {"execute", "raised"} : call' = [call EXCEPT ![c].at = point]
    OBVIOUS
  <2> QED
    BY <2>1 DEF Ingest!InFlight, Ingest!TypeOK, Ingest!Call
<1>2. Ingest!TypeOK'
  <2>1. call' \in [Calls -> Ingest!Call]
    BY DEF Ingest!TypeOK, Ingest!Call, Ingest!Points
  <2>2. repeats' \in [Calls -> 0..MaxRepeats]
    BY ParseAssumption DEF Ingest!TypeOK
  <2> QED
    BY <2>1, <2>2 DEF Ingest!TypeOK
<1>3. RetriesAreBounded' /\ FinishHasAsset' /\ Ingest!SucceededHasAsset'
  BY <1>1 DEF RetriesAreBounded, FinishHasAsset, Ingest!SucceededHasAsset
<1>4. OneAtATime'
  BY <1>1 DEF OneAtATime, Ingest!InFlight, Agrees
<1>5. AssetIsReported'
  BY DEF AssetIsReported
<1> QED
  BY <1>2, <1>3, <1>4, <1>5

(* Every step keeps the invariant. *)
LEMMA ParseNext == ParseIndInv /\ [Ingest!Next]_(Ingest!vars) => ParseIndInv'
<1> SUFFICES ASSUME ParseIndInv, [Ingest!Next]_(Ingest!vars) PROVE ParseIndInv'
  OBVIOUS
<1>1. CASE UNCHANGED Ingest!vars \/ Ingest!DeleteBlob
  <2>1. UNCHANGED <<parse, assets, call, repeats, wrecked, raced>> /\ blob' \in BOOLEAN
    BY <1>1 DEF Ingest!vars, Ingest!DeleteBlob, ParseIndInv, Ingest!TypeOK
  <2> QED
    BY <2>1
       DEF ParseIndInv, Ingest!TypeOK, RetriesAreBounded,
           Ingest!SucceededHasAsset, FinishHasAsset, OneAtATime,
           AssetIsReported, Ingest!InFlight, Agrees
<1>2. CASE \E c \in Calls : Ingest!Step(c) \/ Ingest!CutOff(c)
  BY <1>2, ParseStep, ParseCutOff
<1>3. CASE \E c \in Calls : \/ Ingest!create_parse_job(c) \/ Ingest!Deliver(c)
                            \/ Ingest!StartRetry(c) \/ Ingest!StartCancel(c)
  BY <1>3, ParseBegin
<1> QED
  BY <1>1, <1>2, <1>3 DEF Ingest!Next

-----------------------------------------------------------------------------
(* The inductive invariant holds of every behaviour of the parse job. *)
THEOREM ParseInvariance == Ingest!Spec => []ParseIndInv
BY ParseInit, ParseNext, PTL DEF Ingest!Spec

(* In MCJobs the parse job takes its own steps or none. *)
LEMMA ParseInJobs ==
    /\ MCInit => Ingest!Init
    /\ [MCNext]_jobVars => [Ingest!Next]_(Ingest!vars)
<1>1. MCInit => Ingest!Init
  BY DEF MCInit
<1>2. UNCHANGED parseVars => UNCHANGED Ingest!vars
  BY DEF parseVars, Ingest!vars
<1>3. [MCNext]_jobVars => Ingest!Next \/ UNCHANGED parseVars
  BY Zenon DEF MCNext, jobVars
<1> QED
  BY <1>1, <1>2, <1>3

(* A SUCCEEDED job has a derived asset; without overlapping or cut calls   *)
(* it has one, and an asset at rest belongs to a SUCCEEDED job             *)
(* (services.py:879-1014).                                                 *)
THEOREM JobMatchesAssets ==
    /\ Ingest!Spec => []Ingest!ParseInv
    /\ MCSpec => []ParseInv
<1>1. ParseIndInv => Ingest!ParseInv
  <2> SUFFICES ASSUME ParseIndInv PROVE Ingest!AssetsMatchJob
    BY DEF ParseIndInv, Ingest!ParseInv
  <2> SUFFICES ASSUME ~raced, ~wrecked
               PROVE  /\ Cardinality(assets) <= 1
                      /\ (assets # {} /\ \A c \in Calls : ~Ingest!InFlight(c))
                            => parse.status = "SUCCEEDED"
    BY DEF Ingest!AssetsMatchJob, Ingest!Cardinality, Cardinality
  <2>1. Cardinality(assets) <= 1
    <3>1. CASE assets = {}
      BY <3>1, FS_EmptySet
    <3>2. CASE \E a \in Calls : assets = {a}
      BY <3>2, FS_Singleton
    <3> QED
      BY <3>1, <3>2 DEF ParseIndInv, AssetIsReported
  <2>2. (assets # {} /\ \A c \in Calls : ~Ingest!InFlight(c))
          => parse.status = "SUCCEEDED"
    BY DEF ParseIndInv, AssetIsReported, Ingest!InFlight
  <2> QED
    BY <2>1, <2>2
<1>2. Ingest!Spec => []Ingest!ParseInv
  BY <1>1, ParseInvariance, PTL
<1>3. MCSpec => []ParseIndInv
  BY ParseInit, ParseNext, ParseInJobs, PTL DEF MCSpec
<1>4. Ingest!ParseInv => ParseInv
  BY DEF ParseInv
<1> QED
  BY <1>1, <1>2, <1>3, <1>4, PTL

(* Until two calls overlap, no step changes a SUCCEEDED or CANCELLED job:  *)
(* execute_parse_job, retry_parse_job and cancel_parse_job turn it away    *)
(* (services.py:890, 1039, 1064).                                          *)
THEOREM FinalStates ==
    /\ Ingest!Spec => Ingest!FinishedIsFinal
    /\ MCSpec => FinishedIsFinal
<1>1. ASSUME ParseIndInv, [Ingest!Next]_(Ingest!vars), ~raced,
             parse.status \in {"SUCCEEDED", "CANCELLED"}
      PROVE  parse' = parse
  <2>1. CASE \/ UNCHANGED Ingest!vars \/ Ingest!DeleteBlob
             \/ \E c \in Calls : Ingest!CutOff(c)
    BY <2>1 DEF Ingest!vars, Ingest!DeleteBlob, Ingest!CutOff
  <2>2. CASE \E c \in Calls : \/ Ingest!create_parse_job(c) \/ Ingest!Deliver(c)
                              \/ Ingest!StartRetry(c) \/ Ingest!StartCancel(c)
    BY <1>1, <2>2
       DEF Ingest!create_parse_job, Ingest!Deliver, Ingest!StartRetry,
           Ingest!StartCancel
  <2>3. ASSUME NEW c \in Calls, Ingest!Step(c) PROVE parse' = parse
    <3>1. Ingest!InFlight(c) => Agrees(c)
      BY <1>1 DEF ParseIndInv, OneAtATime
    <3>2. CASE Ingest!ReadJob(c) \/ Ingest!StoreAsset(c)
      BY <3>2 DEF Ingest!ReadJob, Ingest!StoreAsset
    <3>3. CASE call[c].at \notin {"execute", "store"}
      BY <1>1, <2>3, <3>1, <3>3
         DEF Ingest!Step, Ingest!Requeue, Ingest!SaveCancelled,
             Ingest!ReadJob, Ingest!SaveRunning, Ingest!Load, Ingest!Parse,
             Ingest!StoreAsset, Ingest!SaveSucceeded, Ingest!InFlight, Agrees,
             Ingest!Executable
    <3> QED
      BY <2>3, <3>2, <3>3
         DEF Ingest!Step, Ingest!Requeue, Ingest!SaveCancelled,
             Ingest!ReadJob, Ingest!SaveRunning, Ingest!Load, Ingest!Parse,
             Ingest!StoreAsset, Ingest!SaveSucceeded
  <2> QED
    BY <1>1, <2>1, <2>2, <2>3 DEF Ingest!Next
<1>2. ParseIndInv /\ [Ingest!Next]_(Ingest!vars) =>
        [~raced /\ parse.status \in {"SUCCEEDED", "CANCELLED"} =>
            parse' = parse]_(Ingest!vars)
  BY <1>1
<1>3. Ingest!Spec => Ingest!FinishedIsFinal
  BY <1>2, ParseInvariance, PTL DEF Ingest!Spec, Ingest!FinishedIsFinal
<1>4. MCSpec => []ParseIndInv
  BY ParseInit, ParseNext, ParseInJobs, PTL DEF MCSpec
<1> QED
  BY <1>2, <1>3, <1>4, ParseInJobs, PTL
     DEF MCSpec, FinishedIsFinal, Ingest!FinishedIsFinal

=============================================================================
