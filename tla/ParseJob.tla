------------------------------- MODULE ParseJob -------------------------------
(***************************************************************************)
(* One document parse job (modules/documents/application/services.py:      *)
(* create_parse_job, execute_parse_job, retry_parse_job, cancel_parse_job) *)
(* executed inline by API threads and by deliveries of                     *)
(* biaice.ingest.parse_document (workers/ingest/tasks.py), which Celery    *)
(* repeats after a lost worker or an exception.  The repository's lock     *)
(* covers one call, so each read of the job and each write of the copy is  *)
(* a step of its own.  The audit sink is up throughout.                    *)
(***************************************************************************)
EXTENDS Naturals, FiniteSets

CONSTANTS
    Calls,        \* calls of the handlers and deliveries of the task
    MaxAttempts,  \* ParseJob.max_attempts
    MaxRepeats    \* bound: repeats of a delivery after an exception or crash

VARIABLES
    job,      \* the stored ParseJob
    blob,     \* are the source bytes still in object storage?
    assets,   \* derived assets, by the call that stored them
    call,     \* what each call is doing
    repeats,  \* how often each delivery was repeated
    wrecked,  \* history: an execution was cut off by an exception or crash
    raced     \* history: two calls overlapped

vars == <<job, blob, assets, call, repeats, wrecked, raced>>

Job == [status : {"ABSENT", "QUEUED", "RUNNING", "FAILED", "SUCCEEDED",
                  "CANCELLED"},
        attempt : 0..MaxAttempts,
        retryable : {"UNSET", "YES", "NO"}]

NoJob == [status |-> "ABSENT", attempt |-> 0, retryable |-> "UNSET"]

Points == {"new", "execute", "run", "load", "parse", "store", "finish",
           "requeue", "cancel", "raised", "returned"}

Call == [kind : {"none", "create", "retry", "cancel", "delivery"},
         at : Points, copy : Job]

TypeOK ==
    /\ job \in Job
    /\ blob \in BOOLEAN
    /\ assets \in SUBSET Calls
    /\ call \in [Calls -> Call]
    /\ repeats \in [Calls -> 0..MaxRepeats]
    /\ wrecked \in BOOLEAN
    /\ raced \in BOOLEAN

Init ==
    /\ job = NoJob
    /\ blob = TRUE
    /\ assets = {}
    /\ call = [c \in Calls |-> [kind |-> "none", at |-> "new", copy |-> NoJob]]
    /\ repeats = [c \in Calls |-> 0]
    /\ wrecked = FALSE
    /\ raced = FALSE

-----------------------------------------------------------------------------
InFlight(c) == call[c].at \notin {"new", "raised", "returned"}

Begin(c, kind, point) ==
    /\ call[c].at = "new"
    /\ call' = [call EXCEPT ![c] = [kind |-> kind, at |-> point, copy |-> job]]
    /\ raced' = (raced \/ \E d \in Calls : InFlight(d))

Goto(c, point) == call' = [call EXCEPT ![c].at = point]

(* The copy of the job that call c holds is written back, changed. *)
Save(c, status, retryable) ==
    job' = [call[c].copy EXCEPT !.status = status, !.retryable = retryable]

(* create_parse_job stores a QUEUED job and, unless asked not to, runs it. *)
create_parse_job(c) ==
    /\ job.status = "ABSENT"
    /\ job' = [status |-> "QUEUED", attempt |-> 1, retryable |-> "UNSET"]
    /\ \E point \in {"execute", "returned"} : Begin(c, "create", point)
    /\ UNCHANGED <<blob, assets, repeats, wrecked>>

(* A delivery of the task for an existing job. *)
Deliver(c) ==
    /\ job.status # "ABSENT"
    /\ Begin(c, "delivery", "execute")
    /\ UNCHANGED <<job, blob, assets, repeats, wrecked>>

(* retry_parse_job reads a retryable failure with attempts left ... *)
StartRetry(c) ==
    /\ job.status = "FAILED" /\ job.retryable = "YES"
    /\ job.attempt < MaxAttempts
    /\ Begin(c, "retry", "requeue")
    /\ UNCHANGED <<job, blob, assets, repeats, wrecked>>

(* ... and writes it back QUEUED for one more attempt, then executes it. *)
Requeue(c) ==
    /\ call[c].at = "requeue"
    /\ job' = [call[c].copy EXCEPT !.status = "QUEUED", !.attempt = @ + 1]
    /\ Goto(c, "execute")
    /\ UNCHANGED <<blob, assets, repeats, wrecked, raced>>

(* Mutant: any existing job may be cancelled. *)
StartCancelAny(c) ==
    /\ job.status # "ABSENT"
    /\ Begin(c, "cancel", "cancel")
    /\ UNCHANGED <<job, blob, assets, repeats, wrecked>>

(* cancel_parse_job reads a QUEUED job ... *)
StartCancel(c) ==
    /\ job.status = "QUEUED"
    /\ Begin(c, "cancel", "cancel")
    /\ UNCHANGED <<job, blob, assets, repeats, wrecked>>

(* ... and writes it back CANCELLED. *)
SaveCancelled(c) ==
    /\ call[c].at = "cancel"
    /\ job' = [call[c].copy EXCEPT !.status = "CANCELLED"]
    /\ Goto(c, "returned")
    /\ UNCHANGED <<blob, assets, repeats, wrecked, raced>>

-----------------------------------------------------------------------------
(* Mutant: only a CANCELLED job is not executed again. *)
ExecutableAgain(status) == status # "CANCELLED"

(* execute_parse_job returns at once unless the job is QUEUED or FAILED. *)
Executable(status) == status \in {"QUEUED", "FAILED"}

ReadJob(c) ==
    /\ call[c].at = "execute"
    /\ IF Executable(job.status)
       THEN call' = [call EXCEPT ![c].at = "run", ![c].copy = job]
       ELSE Goto(c, "returned")
    /\ UNCHANGED <<job, blob, assets, repeats, wrecked, raced>>

SaveRunning(c) ==
    /\ call[c].at = "run"
    /\ Save(c, "RUNNING", "UNSET")
    /\ Goto(c, "load")
    /\ UNCHANGED <<blob, assets, repeats, wrecked, raced>>

(* Mutant: missing bytes end the call without saving the failure. *)
LoadUnsaved(c) ==
    /\ call[c].at = "load"
    /\ IF blob THEN Save(c, "RUNNING", "UNSET") /\ Goto(c, "parse")
               ELSE Goto(c, "returned") /\ UNCHANGED job
    /\ UNCHANGED <<blob, assets, repeats, wrecked, raced>>

(* Missing source bytes are a retryable failure; otherwise the job is      *)
(* saved again, still RUNNING, before the parser is called.                *)
Load(c) ==
    /\ call[c].at = "load"
    /\ IF blob THEN Save(c, "RUNNING", "UNSET") /\ Goto(c, "parse")
               ELSE Save(c, "FAILED", "YES") /\ Goto(c, "returned")
    /\ UNCHANGED <<blob, assets, repeats, wrecked, raced>>

(* The parser extracts text, or reports a failure no retry mends. *)
Parse(c) ==
    /\ call[c].at = "parse"
    /\ \/ Goto(c, "store") /\ UNCHANGED job
       \/ Save(c, "FAILED", "NO") /\ Goto(c, "returned")
    /\ UNCHANGED <<blob, assets, repeats, wrecked, raced>>

(* Mutant: the job is finished without its asset. *)
StoreNothing(c) ==
    /\ call[c].at = "store"
    /\ Goto(c, "finish")
    /\ UNCHANGED <<job, blob, assets, repeats, wrecked, raced>>

(* The derived asset's blob, row and replica are stored under new ids. *)
StoreAsset(c) ==
    /\ call[c].at = "store"
    /\ assets' = assets \cup {c}
    /\ Goto(c, "finish")
    /\ UNCHANGED <<job, blob, repeats, wrecked, raced>>

SaveSucceeded(c) ==
    /\ call[c].at = "finish"
    /\ Save(c, "SUCCEEDED", "UNSET")
    /\ Goto(c, "returned")
    /\ UNCHANGED <<blob, assets, repeats, wrecked, raced>>

(* A parser lets an exception through (ET.fromstring in _parse_docx), or   *)
(* the worker is lost: nothing is saved.  Celery repeats a delivery, while *)
(* an API caller gets an error.                                            *)
CutOff(c) ==
    /\ \/ call[c].at = "parse"
       \/ call[c].at \in {"run", "load", "store", "finish"}
          /\ call[c].kind = "delivery"
    /\ wrecked' = TRUE
    /\ IF call[c].kind = "delivery" /\ repeats[c] < MaxRepeats
       THEN /\ repeats' = [repeats EXCEPT ![c] = @ + 1]
            /\ Goto(c, "execute")
       ELSE /\ Goto(c, "raised")
            /\ UNCHANGED repeats
    /\ UNCHANGED <<job, blob, assets, raced>>

(* The source document's bytes are deleted. *)
DeleteBlob ==
    /\ blob
    /\ blob' = FALSE
    /\ UNCHANGED <<job, assets, call, repeats, wrecked, raced>>

-----------------------------------------------------------------------------
Step(c) ==
    \/ Requeue(c) \/ SaveCancelled(c) \/ ReadJob(c) \/ SaveRunning(c)
    \/ Load(c) \/ Parse(c) \/ StoreAsset(c) \/ SaveSucceeded(c)

Next ==
    \/ \E c \in Calls :
         \/ create_parse_job(c) \/ Deliver(c) \/ StartRetry(c) \/ StartCancel(c)
         \/ Step(c)
         \/ CutOff(c)
    \/ DeleteBlob

(* A started call runs on: its thread takes the next step or is cut off. *)
Fairness == \A c \in Calls : WF_vars(Step(c) \/ CutOff(c))

Spec == Init /\ [][Next]_vars /\ Fairness

-----------------------------------------------------------------------------
(* Properties.                                                             *)

(* A SUCCEEDED job has a derived asset whatever overlapped or was repeated *)
(* (services.py:940-985: assets are stored before the job is saved).       *)
SucceededHasAsset == job.status = "SUCCEEDED" => assets # {}

(* While calls do not overlap and none is cut off, a job makes at most one *)
(* asset, and only one that it reports: a call that is not running has     *)
(* left the job SUCCEEDED with it (services.py:879-1014).                  *)
AssetsMatchJob ==
    ~raced /\ ~wrecked =>
        /\ Cardinality(assets) <= 1
        /\ (assets # {} /\ \A c \in Calls : ~InFlight(c))
              => job.status = "SUCCEEDED"

(* Without overlapping calls a SUCCEEDED or CANCELLED job stays as it is.  *)
FinishedIsFinal ==
    [][~raced /\ job.status \in {"SUCCEEDED", "CANCELLED"} =>
            job' = job]_vars

(* A RUNNING job reaches an outcome unless some execution was cut off.     *)
RunningEnds == job.status = "RUNNING" ~> (job.status # "RUNNING" \/ wrecked)

(* A parse job and its derived assets agree, whatever was repeated,        *)
(* retried or cut off (services.py:879-1014).                              *)
ParseInv ==
    /\ TypeOK
    /\ SucceededHasAsset
    /\ AssetsMatchJob

=============================================================================
