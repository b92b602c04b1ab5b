# A TLA+ model of biaice

Biaice (标策AI) is a bid-decision platform: it takes tender documents in, turns
them into rules, evidence and commercial inputs, simulates bidding strategies,
and keeps an audited path from a draft decision unit to an approved submission.
The backend (`src/apps/backend/src/biaice`, FastAPI and Celery) holds all of
its logic; this directory models the parts of it whose correctness depends on
order, overlap and failure. `B` below is `src/apps/backend/src/biaice`.

## 1. The system

| Part | State | Operations | Talks to |
| --- | --- | --- | --- |
| Deletion coordinator (`B/modules/governance`) | `DeletionJob`, receipt log, tombstones | `request`, `run_once` | adapters, receipt verifier, hold and replica registries; driven by Celery |
| Local replica adapter (`B/modules/documents/infrastructure/deletion_adapters`) | object store | `delete` | hold port, object store |
| Document intake (`B/modules/documents`) | upload sessions, chunks, documents, blobs, links | upload, review, release, quarantine, download, link, resolve, detach | audit, outbox, read port of the other modules |
| Parse jobs | parse jobs, derived assets | create, execute, retry, cancel | parsers, Celery ingest worker |
| Projects and units (`B/modules/projects`) | drafts, lifecycle state and events | create, PATCH, archive, `submit`, `submit_after_intake` | rules module, outbox, audit |
| Rules (`B/modules/rules`) | scopes, regimes, rule sets, clauses, constraints, reviews | draft, publish, supersede, confirm, transition, resolve | lifecycle, the unit's pointers |
| Evidence and precheck (`B/modules/evidence`) | requirements, evidence, matches, profiles, conditions, prechecks | draft, review, publish, supersede, revoke, match, close, assess | documents' read port, rules, commercial |
| Commercial (`B/modules/commercial`) | costs, policies, readiness | draft, approve, publish, assess | evidence and market ports |
| Market and privacy (`B/modules/market`) | competitors, sources, profiles, priors, unknown entrants; privacy records | name, rename, archive, review, quarantine, publish; transitions, lists | readiness port of commercial |
| Model governance (`B/modules/model_governance`) | catalogs, configurations, keys; datasets to deployments | decide, rotate, test, activate, suspend, revoke; approve, deploy, roll back | secret store, provider runtime, audit |
| Simulation (`B/modules/simulation`, `B/workers/simulation`) | baselines, scenario sets, batches, runs, plans, snapshots, eligibility | freeze, create, validate, cancel, retry, finalise, publish, assess | worker, upstream versions |
| Approvals (`B/modules/approvals_reports`) | risk acceptances | create, revoke | audit |
| Core (`B/core`, `B/modules/governance`) | audit hash chain, gates, retention jobs, invalidations, identities | `write`, `verify_hash_chain`, `assert_startup_allowed`, evaluate, propagate, authorise | everything |
| HTTP layer (`B/api`, `main.py`), web frontend | none of their own | request mapping | services |

What makes it hard:

* **Threads.** Endpoints are synchronous functions on a threadpool (only
  `put_document_upload_chunk` runs on the event loop). A service reads an
  object, decides, and upserts a changed copy. The repositories lock or commit
  one call at a time, so two services on one object overlap and the later
  upsert wins. Model governance, market governance and privacy records are the
  exception: a command of theirs holds one lock throughout.
* **Redelivery.** Celery acknowledges late, rejects on a lost worker and
  retries on any exception: a task may run again after any prefix of its work.
* **Audit.** `require_audit` asks whether the sink is available before the
  work; the event is written after it. The sink can fail in between.
* **Outside parties.** Provider adapters may erase and report failure, report
  success without erasing, or answer with somebody else's receipt; the secret
  store and the provider runtime may raise in the middle of a command.
* **Time.** Holds come and go, sessions, conditions, approvals and risk
  acceptances expire while a call is on its way, and expiry is mostly computed
  on read and never stored.

`PROJECT.json` lists every component, modelled or not, and the hazards with the
line each one bites at and the properties that would catch it.

## 2. Modules

| Module | Models | State | Actions |
| --- | --- | --- | --- |
| `DeletionCoordinator` | `run_once`, adapters, Celery | job, log, locals of the run, row lock | one per step of `run_once`, `Raise`, `Crash` |
| `DeletionPromise` | what a client of deletion sees | blocked, erased, announced | block, erase, announce |
| `DocumentUpload`, `DocumentReview`, `DocumentLinks`, `ParseJob` | the handlers of `DocumentIntakeService` | stored objects and, per call, the copy it holds | one per repository call |
| `LifecycleTable` | `projects/domain/lifecycle.py` | none | the table as sets and a sequence |
| `DecisionUnitLifecycle` | `LifecycleService` over the table | unit state, last event, threads | read, number, append, write |
| `ProjectDrafts` | `ProjectService`, `DecisionUnitService`, `paginate` | items, what clients have seen, a reader's walk | requests, `Store`, pages |
| `RulePublication` | scopes, regimes, rule sets, constraints | resources, the unit's pointers, calls | draft, stale one, store, move pointer, submit |
| `RuleClauses` | clauses, inheritance, compliance reviews | clauses, rule sets, review, calls | update, supersede, transition |
| `EvidenceMatching` | requirements, evidence, matches | these and the calls | one per repository call |
| `StrategyReadiness` | profile, condition, precheck, cost, policy, readiness | these, a clock, the calls | one per list that is read and per write |
| `ProviderManagement` | `provider_management.py` | catalogs, configurations, secret store, queue | one per command, with the port call that raised as `fault` |
| `ModelLifecycle` | `model_lifecycle.py` | datasets to deployments, events | one per command |
| `SimulationRuns` | batches, runs, plans, the worker | these and the calls | read and write of each command |
| `RecommendationGate` | baselines, scenario sets, snapshots, eligibility | these and the live versions | one per command |
| `RiskAcceptance` | `approvals_reports` | acceptances, revocations under way, time | create, read, store |
| `SimulationMath` | selection, coverage, merge, static validation | a question and its answer | one question each |
| `MarketGovernance`, `PrivacyRecords` | `market/application/governance.py`, `market/privacy` | the resources, index, journal, walk | one per command, pages |
| `AuditChain` | `core/audit.py` | events, writer lock, handlers | check, acquire, append, release |
| `GovernanceGates` | gates, retention, invalidation | assessments, process, job, deliveries | assess, start, evaluate, deliver |
| `AccessControl` | roles, permissions, scopes | identity, answer | authenticate, request |

### Deletion

`DeletionCoordinator` models one deletion job. A delivery of
`process_deletion` takes the row lock (`Lock`) and runs `run_once` step by
step: `CheckHolds`, `ListReplicas`, then for each listed replica `SkipReplica`,
`NoAdapter`, or `IssueCommand` followed by the adapter (`LocalCheck` and
`LocalErase`, or `ProviderDelete`) and `VerifyReceipt`, and finally
`FinishIncomplete` or `FinishComplete`. `pc` is the place in `run_once`, `run`
its locals. Between any two steps holds change, replicas are registered, an
exception leaves the run (`Raise`) or the worker dies (`Crash`).

* The repository is an interface in the source. Whether a run is one
  transaction or commits call by call is left open: a run that is cut short
  leaves its writes or none of them (`CutShort`). Erased bytes stay erased.
* `lock_deletion_job` is taken at its word: the row stays locked until the run
  ends.
* The receipt verifier is external. It may refuse anything; it vouches for a
  completed deletion of this job's replica only when the bytes are gone
  (`MayVerify`). A receipt that names another job may be a true one.
* Receipts are their outcome, verdict and completion time; the log is kept as
  the set of replicas with a satisfying receipt in it.

`DeletionPromise` is the abstract specification: access blocked, then replicas
erased, then one announcement for a non-empty set of required replicas that are
gone. `PromiseKept` says the coordinator implements it, with
`announced <- IF job.state = "COMPLETED" THEN job.required ELSE {}`.

### Services that read, decide and write back

In the intake, project, rules, evidence, commercial, simulation and risk
modules a call (request, thread, handler, service, command) holds the copy it
read. Its first step holds the checks and early returns, every later step is
one repository call (two where nobody can see the state between them), and a
write-back stores the *copy*, changed. A call that is refused or finds nothing
to do changes nothing and is not a step. A history variable (`raced`,
`crossed`, `overlap`, `overlapped`, `mixed`, `met`) says that two calls
overlapped. Properties that the code only keeps without overlap say so; the
ones that hold regardless do not mention it. The difference is the main result
of these modules.

* `DocumentUpload`: content is clean, infected or of a blocked type; a part is
  good or bad with respect to the declared hash; expiry is computed on read.
* `ParseJob`: `CutOff` is a parser exception (`ET.fromstring` in `_parse_docx`
  is outside its `try`) or, for a delivery, a lost worker; `DeleteBlob` takes
  the source bytes away.
* `RulePublication` submits its lifecycle command in one step;
  `DecisionUnitLifecycle` takes that step apart. Both extend `LifecycleTable`.
* `StrategyReadiness` composes the evidence and commercial services: a precheck
  and a readiness assessment read their inputs one list at a time. What the
  matches and the market say may be anything when it is read.
* `ProjectDrafts` keeps the version hash as the payload it is computed from, so
  an ETag knows what that payload knows; a list is sorted by the time of the
  last version, and a cursor is the key of the last item returned.

### Services under one lock

In `ProviderManagement`, `ModelLifecycle`, `MarketGovernance` and
`PrivacyRecords` a command is one step. What is left to go wrong is failure in
the middle and long sequences. `ProviderManagement` lets the secret store, the
provider runtime or the audit sink raise at each place they are called
(`fault`); what was changed before stays changed. `PrivacyRecords` and
`ModelLifecycle` lose the idempotency record when the audit write fails.

### Functions

`SimulationMath` states selection, coverage, merge and static validation as
operators; a state is a question with its answer, so TLC evaluates them on every
bounded input. Scores are linear in margin and cost, as in the source; the
hashes that generate candidates and outcomes are arbitrary values.

### MC modules

`MCDeletion`, `MCJobs`, `MCIntake`, `MCRules`, `MCEvidence`, `MCModels`,
`MCSimulation`, `MCMarket` and `MCCore` give the constants their values and put
the components of one area side by side. Components that share no variable are
not interleaved: `focus` is chosen at the start and says which one moves, which
adds their state spaces where interleaving would multiply them and loses no
behaviour of either. Operators commented as *Mutant* in the component modules
are plausible faults of the code; replacing the operator that follows by one of
them must break a property, which keeps the properties honest. They are used by
no specification.

### Proof modules

A `_proof` module extends the MC module of its area and so speaks of the
definitions the runs evaluate: `Jobs_proof` (deletion, parse jobs),
`Intake_proof` (upload, review, links), `Rules_proof` (publication, clauses,
lifecycle), `Evidence_proof` (matching, readiness), `Models_proof` (providers,
model lifecycle), `Market_proof` (market governance, privacy records),
`Simulation_proof` (runs, gate, risk, the pure functions) and `Core_proof`
(access, gates, drafts, audit chain). Section 4 is about them.

## 3. What is checked

Passing runs. A property that is a conjunction of named parts is given with its
parts; each part is stated, with its comment, in the component's module.

| Run | Instance | What it shows |
| --- | --- | --- |
| `deletion_safety` | a local, a provider and an adapterless optional replica, 1 hold, 2 deliveries, 1 crash | `CompletionIsEvidenceBound`, `VerifiedReceiptsAreKept`, `CompletedIsFinal`, `StandingHoldBlocksErasure`, and the refinement `PromiseKept` |
| `jobs_liveness` | a parse job with 3 calls, 2 attempts, 1 repeat; a deletion job with 2 required replicas, 1 retry, 1 crash | `ParseInv` (`SucceededHasAsset`, `AssetsMatchJob`), `FinishedIsFinal`; `IndInv`, the inductive invariant of section 4, with `BlockedBeforeErased` and `DispatchingIsExplained` in it; liveness `RunningEnds`, `DeliveriesEnd` |
| `intake` | 1 session of 2 parts; 1 document, 2 people; 3 documents of 2 kinds; 4 calls | `UploadInv` (`CompletedPointsToDocument`, `OnlyCleanDocumentsPass` under any overlap; `QuiescentSessionsAgree` without), `ReviewInv` (`MakerChecker`, `InfectedStaysOut` under any overlap), `LinksInv` (`ConflictsAreOpen`, `OneLinkPerDocument` without), `FinishedStaysFinished`, `QuarantineIsFinal` without |
| `rules` | a scope and 2 rule sets, 3 calls, a unit that may be cancelled; 4 clauses in 2 rule sets, 2 calls; the whole lifecycle table, 1 thread | `PublisherIsNotAuthor` under any overlap; `PublicationInv` (`PublishedStaysAvailable` under any overlap, `PointersAreCurrent` without), `ClausesInv` (`ResolvedIsUnanimous`, `SupersededIsOut` under any overlap), `LifecycleInv` (`EventsExplainState`, `ApprovalBeforeSubmission`, `OutcomeIsFinal`, `NoDeadEnds`), `NothingIsUndone` (`PublishedTextIsFixed` under any overlap; `TerminalIsLeftByTable`, `BlockingIsNotClosed` without) |
| `evidence` | 2 requirements, 1 piece of evidence, 2 matches, 3 calls; 1 profile, condition, cost and policy, 3 calls | `PublishedWasReviewed` under any overlap; `MatchingInv` (`CoverageHasProof` without), `NothingReturns` (`RevokedStaysOut`, `PublishedRequirementIsFixed` without); `ReadinessInv` (`PassIffAllChecks`, `CostIsDualControlled`, `NeverFormallyReady` under any overlap), `DecisionsStand` (`NewestPrecheckCounts`, `OverdueStaysOpen` under any overlap, `ClosedOnce` without) |
| `models` | 1 catalog, 3 configurations, 2 purposes, 1 failure half-way; 2 artifacts and approvals, 3 deployments of 1 slot, 6 commands | `ProviderInv` (`OneActivePerUse`, `ActiveKeyWasProved`, `CompromisedIsGone`, `OneSuccessor` also after a failure; `BusinessKeysAreActive`, `CurrentCatalogIsPublished`, `RevokedIsDeleted` without), `StoppedStaysStopped`; `DeploymentInv` (`OneActivePerSlot`, `ServedIsApproved`, `EvidenceBelongsTogether`, `RollbacksAreOnRecord`), `SlotKeepsServing` (`ServingSlotKeepsServing`, `ExpiredNeverStarts`) |
| `simulation` | 1 batch, run and plan, 3 calls; 1 baseline, scenario set and snapshot, 2 upstream versions; 2 acceptances, 3 revocations, 4 instants; up to 5 candidates | `RunsAreKept` (`SettledBatchesStay`, `RunsOnlyValidated`, `StressFailureIsKept`, `InvalidatedStaysOut`); `SimulationInv` (`FrozenSetsAreSplit`, `EligibleIffAllCurrent`, `EligibilityRestsOnLocked`); `AcceptancesMoveOn` (`LapsedStaysLapsed`, `RevocationIsOnce`); `MathInv` (`SelectionIsBest`, `CoverageEdges`, `MergeNeverChains`, `StaticIsMonotone`) |
| `market` | 2 competitors, 3 subjects, 2 sources, 2 priors, 2 unknown entrants; 3 privacy records, 2 keys, 2 people | `MarketInv` (`SubjectIndexAgrees`, `UnknownExcludesNamed`, `ProfilesRestOnReviewed`, `ReadinessIsBacked`, `DeduplicationIsComplete`), `QuarantinedStaysOut`; `PrivacyInv` (`CheckedByAnother`, `NothingIsSkipped`, `OneAnswerPerChange`, `WalkNeverRepeats`, `WalkMissesNothing`) |
| `core` | 3 handlers, 2 scopes, 3 events; 2 projects and 2 units, 2 clients; 2 gates, 1 retention job, 5 kinds of lineage edge; all pairs of roles | `AuditInv` (`ChainVerifies`, `TamperingIsSeen`); `DraftsInv` (`MatchingEtagKnowsName`, `DraftWalkMissesNothing`); `GatesInv` (`OpenGateIsProved`, `BlockedOnce`, `EndingReachesAll`); `AccessInv` (`ProjectionMatchesGuards`, `ServedIsInScope`) |

The conjunctions include the type invariant of their component.

Runs that TLC refutes, each a place where a document says something the code
does not do under overlap or failure (quoted in `PROJECT.json`, findings):

| Run | Property | What happens |
| --- | --- | --- |
| `deletion_hold_race` | `HoldBlocksErasure` | a hold arrives between the adapter's check and the erasure |
| `review_audit` | `ReleaseIsAudited` | released, and the audit write fails |
| `models_rotation` | `RotationFailureKeepsOldKey` | a rotation fails after the old key was restricted: the old configuration is ACTIVE with a key that only deletes |

Other orders in which the code departs from what its tests and documents say of
calls one at a time: a slow `put_chunk` reopens a cancelled session; a slow
release undoes a quarantine (`DocumentIntakeService.release`, line 694); a
document created or a parse job finished while the audit sink fails never gets
its event (lines 522, 975); a parser exception or lost worker leaves a parse job
RUNNING, which no redelivery, retry or cancel picks up (line 884), and a parse
job of a document that was quarantined meanwhile still runs; a replica
registered after `list_replicas` is not in the required set of the deletion; two
lifecycle commands at once leave an event whose `from_state` the unit had left,
and a failure between `append_lifecycle_event` and `upsert_unit` leaves an event
for a state never entered; a publication that read a unit before it was
cancelled writes its old state back; a revocation of evidence that overlaps its
publication is lost, and a precheck that passed is not withdrawn when its
evidence is revoked; an overdue condition stays OPEN in the store for good; a
suspension whose key restriction fails leaves a key that may do business; the
simulation worker sets SUCCEEDED whatever the object has become; a baseline is
compared with the live versions only when the caller supplies them; a COMPLETED
retention job goes back to DISPOSITION_RUNNING when evaluated again. The
lifecycle table lets a unit reach COMPUTING through REWORK without a precheck,
and SUBMISSION_AUTHORIZED from APPROVED_CONDITIONAL with conditions open. The
passing properties are worded accordingly; the hazards of `PROJECT.json` give
the lines.

**Bounds.** Two deliveries and one crash let a redelivered run meet the remains
of a cut-short one, and a second delivery meet a completed job; one replica of
each kind takes every branch of the loop. Four intake calls allow an upload of
both parts and a completion racing a fourth call of any kind, or a conflict, its
resolution and a new link. Three parse calls allow creation, a cut-off delivery
and a repeat of either with a retry or cancel in between. Three publication (or
evidence, or readiness) calls let two of them overlap in every order with a
third that changes what they read. Three configurations allow a rotation, its
failure and another rotation; three deployments an activation over another and
a rollback; `MCBound` there ends the search once a second configuration is
stopped. Three revocations and four instants put a revocation on each side of
the expiry. Five candidates exceed every award limit. Three records make a page
break fall between any two. The lifecycle has one thread, which walks all
sequences of commands without a bound: with two its states are beyond what a
run can hold, and what two do to each other is in the hazards. What the
bounds leave out the proofs cover, where section 4 lists one.

**Deadlock** is not checked: calls, deliveries and commands are a finite supply
in every run, and the system rests when they are used up.

**Fairness.** `DeliveriesEnd` assumes that Celery delivers what is queued and
that a worker holding the row lock goes on, by a next step, a return or an
exception; worker crashes are bounded, as a job whose workers always die never
ends. `RunningEnds` assumes that a started call takes its next step or is cut
off. Nothing assumes that somebody sends a new request, releases a hold, or
retries. The other modules have no liveness property: their calls end after a
fixed number of steps, and nothing in them waits.

## 4. What is proved

Every invariant and every action property the passing runs check is proved for
all values of the constants, and so is the refinement; what stays with TLC is
liveness (end of this section). A run shows a property on its instance, the
theorem of the same name in `PROJECT.json` for any number of documents, people,
calls, keys, and any bound.

| Module | Theorems about the runs' properties |
| --- | --- |
| `Jobs_proof` | `Invariance` and `InvarianceInJobs` (`IndInv`), `TypeCorrect`, `CompletionCorrect`, `TombstoneCorrect`, `BlockingCorrect`, `DispatchingCorrect`, `ReceiptsKept`, `CompletedFinal`, `StandingHold`, `Refinement` (`Spec => PromiseKept`), `JobMatchesAssets` (`ParseInv`), `FinalStates` (`FinishedIsFinal`) |
| `Intake_proof` | `UploadIsConsistent` (`UploadInv`), `FinishIsFinal` (`FinishedStaysFinished`), `ReviewIsDualControlled` (`ReviewInv`), `QuarantineLasts` (`QuarantineIsFinal`), `NoSilentConflict` (`LinksInv`) |
| `Rules_proof` | `FourEyes` (`PublisherIsNotAuthor`), `PublicationIsConsistent` (`PublicationInv`), `TerminalStates` (`TerminalIsLeftByTable`), `ClausesAreSound` (`ClausesInv`), `DecisionsAreNotUndone` (`NothingIsUndone`), `LifecycleIsSound` (`LifecycleInv`) |
| `Evidence_proof` | `ReviewedBeforePublished` (`PublishedWasReviewed`), `CoverageIsProved` (`MatchingInv`), `RevocationLasts` (`NothingReturns`), `ReadinessIsHonest` (`ReadinessInv`), `DecisionsLast` (`DecisionsStand`) |
| `Models_proof` | `ProvidersAreConsistent` (`ProviderInv`), `StopIsFinal` (`StoppedStaysStopped`), `DeploymentsAreSound` (`DeploymentInv`), `SlotsKeepServing` (`SlotKeepsServing`) |
| `Market_proof` | `MarketIsConsistent` (`MarketInv`), `QuarantineIsFinal` (`QuarantinedStaysOut`), `PrivacyIsKept` (`PrivacyInv`) |
| `Simulation_proof` | `SimulationIsSafe` (`SimulationInv`), `RunsStaySafe` (`RunsAreKept`), `AcceptancesOnlyMoveOn` (`AcceptancesMoveOn`), `FunctionsMeetReferences` (`MathInv`) |
| `Core_proof` | `AccessIsSound` (`AccessInv`), `GatesAreSound` (`GatesInv`), `DraftsAreSound` (`DraftsInv`), `AuditIsSound` (`AuditInv`) |

Each rests on an inductive invariant (`Invariance`, `ReviewInvariance`,
`ClausesInvariance` and so on), which contains the type invariant and was
checked by TLC on the run's instance before it was proved. Where a part is
checked by a run that puts parts side by side, the theorem is about the part's
own specification and, for an invariant, about `MCSpec` as well.

### Assumptions

| Assumption | Says | Why the code justifies it |
| --- | --- | --- |
| `ReplicasAssumption`, `HoldsAssumption`, `TasksAssumption` | finitely many replicas and holds; required, local and provider replicas are replicas, none of them both local and a provider's; `None` is no replica and no delivery | a job lists its replicas; an adapter is chosen by the replica's storage kind; ids are UUIDs |
| `UploadAssumption`, `PeopleAssumption`, `ReadinessAssumption`, `MarketAssumption` | "none" and "nobody" are no request, session, person, competitor or key | an optional field is Python's `None`, never an id |
| `ParseAssumption` | at least one attempt | `max_attempts` is at least 1 (`documents/domain/models.py:201`) |
| `PublicationAssumption` | every resource is of one of the kinds; the unit's stages are states of the table | each kind has its own repository methods |
| `MatchingAssumption` | there is a requirement; requirements and matches are numbered, matches finitely many | lists are ordered by insertion and finite |
| `ProviderAssumption`, `LifecycleAssumption` | there is a catalog, a purpose, a slot and a use; "none" is no id, 0 no configuration; deployments are numbered from one | enumerations are not empty; successors are created after what they succeed |
| `ClausesAssumption` | finitely many clauses, numbered; there is a rule set and an expression | a store holds finitely many; a clause is created with a rule set and an expression |
| `PrivacyAssumption`, `WalkAssumption` | finitely many records and idempotency keys, records numbered from one; a reader's lists are lists of resource types | ids break the ties of the order, so they are ordered |
| `SimulationAssumption`, `HandlersAssumption` | "none" and "over" are no search space, acceptance or audit handler | as above |
| `DraftsAssumption` | projects and units are numbered from one | ids break the ties of the list's order, so they are ordered |
| `TenantsAssumption` | there is a tenant | an identity belongs to one |

The bounds (retries, crashes, faults, times, versions) are naturals.
TLC evaluates each of them in the run of its area. Nothing is assumed about how
many people there are, so the theorems about dual control hold, empty, where
nobody can approve; the runs have two people and show that approvals happen.

### The arguments

*Deletion.* Completion must imply that the bytes of the required replicas are
gone, but receipts travel through the locals of a run, can be rolled back, and
are written to job and log separately. `IndInv` therefore says three things
more than the properties do. `Backed`: a satisfying receipt, wherever it is
held (job, run, or the job a run would roll back to), is in the log it would be
found in, and its replica is registered and erased. `RunInv`: the rollback job
has the same receipts as the stored one (a run saves receipts only when it
ends), the run's receipts extend the job's good ones, its required set is not
empty and is what the job was saved with, and past the hold check no hold has
stood since the lock. `JobInv`: the job's state decides blocking, tombstone
count and required receipts. Each action has a lemma (`LockInv`,
`CheckHoldsInv`, ...); `CutShortInv` serves `Raise` and `Crash`, `ReturnInv` and
`LoopInv` the actions that end or continue a run. The refinement splits the
steps into erasures (`EraseStep`), steps a client cannot see (`InvisibleStep`)
and the blocking, registering and announcing ones.

*Services that write copies back.* Two arguments recur.

* Whatever overlaps: the copy that a call holds has the property too. It was
  read from the store, the checks were made on the copy, and nothing that the
  property speaks of is changed after them. The invariant therefore quantifies
  over the stored object *and* the copies in flight (`RequestKnows`, `CallInv`,
  `CopyIsChecked`, `Knows`, `CallsAreSound`). This gives dual control of
  publication, evidence, costs and release, an upload's document, a published
  clause's text, the newest precheck.
* Without overlap: the call in flight is alone, so what it read is still
  stored (`OneAtATime`, `Sequential`, `OneCall`, `OneHolder` with
  `ReadIsFresh`, `WorksAlone`, `EventsAreOrdered`), and what stands between its
  writes is described by the point it has reached. This gives the agreement of
  sessions, parts and documents, of parse jobs and assets, of the unit's
  pointers, of conflicts and links, and everything that is "final".

What is particular:

* `RulePublication`: a publication makes others STALE before it stores its own
  item as CURRENT. A published group has a CURRENT member or a call in between
  these writes (`Available`), so it has one once publications have ended.
* `RuleClauses`: two calls may supersede the same clause. What holds is that a
  published clause still says what the copy of it says, and that a clause about
  to get a successor is STALE, so it no longer counts when the successor is
  stored (`Knows`); a resolution compares the expressions of the candidates,
  and that a set has one member is what "unanimous" means
  (`ResolutionIsUnanimous`, over `Cardinality`).
* `DecisionUnitLifecycle`: the table is unfolded once, in four lemmas: commands
  lead to states of the table, only approval leads from before it to after it
  (`ApprovalIsTheGate`), the decided states are closed under commands other
  than a reopening (`DecidedIsKept`), and from every state three commands
  archive the unit (`EveryStateIsArchivable`).
* `StrategyReadiness`: a call that closes a condition carries a date before the
  due date, if that has passed since, so an overdue condition is never closed;
  who approves or publishes a cost is not the author of the copy they hold; and
  one of the stored prechecks is dated last (`NewestExists`).

*Services under one lock.* A command is one step, so the invariants are about
records. Providers: the credential field tells whether there is a key and
whether the provider accepted that very key, an active configuration got there
through such a credential, and one whose successor came from a compromise is
stopped (`CompromisedIsStopped`), also when a port call failed half-way. Model
lifecycle: nothing published is taken back, so what an activation checked stays
true; whoever leaves a slot is superseded by one of the same slot. Market:
deduplication rests on the pigeonhole principle (a map from n positions is
one-to-one exactly when it has n values). Privacy records: newest-first with
ties broken by id is a strict order, the walk stands at the last record it
returned, and a record that stays is either returned already or older than that;
one answer per change is a count over the journal.

*Simulation.* `SimulationInv` is proved of the side-by-side specification from
the parts' invariants: a frozen set is split and never unfrozen; a stored
snapshot is locked, watermarked and what it was hashed from
(`SnapshotsAreSealed`), and eligibility is recorded only as the assessment
computes it, on such a snapshot.

*The pure functions.* Sorting and filtering are stated by counting: the k-th
element is the one with k - 1 others ahead of it. In a strict order on a finite
set these counts differ and fill the numbers below the set's size, because a
one-to-one map between finite sets of one size is onto (`PlacesCount`,
`KthLists`). So the ranking is a rearrangement of the candidates
(`RankingSorts`) and the same whatever order they came in
(`RankingIgnoresOrder`, which needs the ids to differ), and the loop that takes
what clears the threshold until it has enough takes the minimum of what there is
and the limit, and no candidate before it has taken all better ones
(`SelectionTakesFirst`, `SelectionFromRanking`). The size of an accepted merge is
the size of a set its ids map one-to-one onto.

*Access, gates, drafts.* The role table and the guards' tables are unfolded once,
permission by permission (`TablesAgree`). Gates: an assessment that passed had
complete evidence when it was made, and a time that only advances does the rest;
whatever is invalidated is the effect of a delivered change, and the end of a
source is delivered to every edge at once. Drafts: every hash, stored or in a
client's hand, names the payload it was computed from (`HashesAreNames`), so equal
hashes mean equal names; the argument for the walk is the one of the privacy
records, with the time of the last version.

*Audit chain.* Two facts are inductive: each event names the last of its scope
before it or, when there is none, the genesis hash (`EventsAreLinked`), and the
handler that has read the head holds the lock, so that nothing was appended
since (`WriterKnowsHead`). A scope's log, being the k-th of its events for each k,
is then a chain (`ListIsChain`). That the verifier sees what was done to a copy
follows without induction over its length: in a log made of a chain's events the
first place that deviates would hold the event whose previous hash is that of
the place before, which is the event that belongs there (`AcceptedIsPrefix`).
That no two events have one hash is part of how the hash is modelled: the tuple
of what is hashed.

What the proofs changed in the model. `assess_eligibility` was written as a
`CASE` whose guards overlap, where `CASE` chooses either and the code, which has
`if` and `elif`, the first: it is now an `IF`. `ProviderManagement` has such a
`CASE` in the activation, whose guards are disjoint only because a
configuration never succeeds itself: the invariant says so (`SucceedsAnother`).
The people and the linked documents of `MCIntake` became parameters, and the
MC modules state what they assume of theirs, so that the theorems are about any
of them. `list_events`, `rank_candidates` and `select_objective_candidates` were
written with `SelectSeq` and `SortSeq`, which take operators as parameters and of
which nothing can be proved here; they now count, with the same values.
`MCJobs` extends the coordinator, and the required evidence, the edges and the
tenants of `MCCore` are parameters.

### Only model-checked

* `DeliveriesEnd` and `RunningEnds`: liveness under fairness, which the prover
  does not reason about.

The three refuted properties of section 3 are refuted by TLC.

## 5. Not modelled, and the plan

Left out:

* the HTTP layer's parsing and response mapping, `operation_catalog.py` (a
  table of names), the web frontend, migrations, generated contracts and the
  document generator in `scripts`: no state of their own;
* the generic market resources (`B/modules/market/application/services.py`):
  their actions set a state whatever the current one is, so there is nothing to
  state but that;
* the document event consumer, which stores one record per event under the
  event's key;
* outbox, idempotency and job ports: interfaces with denying or in-memory
  defaults, modelled where a service uses them;
* the numeric kernels of the simulation (hash-driven scores, decimal payoffs)
  and token signatures: arbitrary values here;
* formatting, hashes and timestamps that guard nothing.

What follows, in this order:

1. An abstract two-person approval that `DocumentReview`, `RulePublication` and
   `EvidenceMatching` implement, with the refinements proved.
2. Action properties that the invariants imply and no run states yet, such as
   that the audit log only grows.
