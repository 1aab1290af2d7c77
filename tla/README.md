# Verification of infra-local-hand

Local Hand runs approved jobs on a personal machine on behalf of a remote
client.  A durable broker admits jobs, starts them as systemd units, observes
their exit and seals their evidence; a deployment coordinator replaces the
installed program and its services under a maintenance gate that keeps new work
out.  Both promise the same thing about failure: after any crash, power loss,
lost acknowledgement or repeated call, an effect is not issued twice, what was
acknowledged stays true, and uncertainty is recorded instead of guessed away.
This directory models these parts in TLA+, checks small instances with TLC and
proves the safety guarantees of the gate, the broker, the supervision of an
execution and the deployment coordinator with TLAPS for all instances.

## 1. Inventory

| component | state | operations | hard behaviour | what makes it correct |
|---|---|---|---|---|
| maintenance gate `local_hand_jobs/maintenance.py` | `gate.json`: marker (OPEN/CLOSED, owner, decision, deployment), retired owners, responsibilities, compatibility decisions | initialize, close, release, handoff, authorize_compatibility, accept, dispatch, finish | many processes share one file; rename visible before it is durable; repeated and late calls | acknowledged facts survive power loss; retired owners never return; nothing is admitted under a close |
| job broker `broker.py`, ledger `state.py`, leases `resources.py` | SQLite rows, events, leases, revocations; in memory `_active`, `_recovering`, the fence | submit, cancel, reconcile, revoke, status; tick, `_start`, `_guard_start`, `_complete`, recover | API threads, coordinator thread with a stale snapshot, one observer thread per execution, crash with units left running | at most one start per execution; no start after cancel; leases cover running work; TERMINAL is final; frozen results are kept |
| process runner `runner.py` | observer per execution, systemd units | start, reattach, inspect, stop, the delivery of each stage | launch acknowledged late or never; pipes lost at restart | an exit proof claims only what was observed |
| deployment coordinator `admin/local_hand_deploy/coordinator.py` with `store.py`, `runtime.py` | operation records, the command in progress | apply, resume, rollback, supersede, handoff, release | the command dies between any two commits; callers of an action outlive it; operations linked into chains | effects only under own maintenance after the drain; the gate opens only over a complete deployment; decisions are final |
| deployment adapters `files.py`, `services.py` with `supervision.py`, `gateway.py`, `preparations.py` | the saved action of a step, its attempts and events, backups and candidates on disk | plan, prepare, execute, observe, restore | the call that was made is unknown after a death; requests executed late; administrators change the same objects | an effect has one attempt in flight; originals are kept; foreign changes are reported, not overwritten |
| bootstrap import `bootstrap.py` | operation record, published files, selection, gate | plan, adopt, rollback | the old service has no gate and may be started again | two dispatchers never coexist; all of the import or none |
| startup selection `startup.py`, `startup_guard.py`, `gateway_guard.py` | selection descriptor with claims, admission lock, public port | publish blocked, candidate, stable; authorize; handshakes | services restart in the middle of a change; each side may give up alone | no service loads a mixture; public only after release |
| task session, completions, `task_session.py`, `*_completion.py` | row phases, bindings, the bridge exchange | bind, start, close, cancel, recover, complete | cancel between two packets; API dies in a recovery | exactly the original exit is used; a task ends honestly |
| quota phases and observer `quota_*.py`, `local_hand_quota_observer` | append-only journal cells, unit records, monitor | admit, dispatch, query, record, close | torn and unacknowledged appends; two units and four processes per phase | one query per grant; closed means quiet |
| evidence store, download and archive | seals, registry, partial files, checkpoints, reservations, ledger | seal, register, list, read, download, archive, resume, restore | kills, power loss, rewritten files, lost parts | what is registered, returned or certified is whole and is one version |
| budgets and bootstrap roots `budget.py`, `bootstrap_roots.py` | reservations, slots | reserve, consume, declare pool | rounding, clock, reboot, nested roots | shares fit the whole; a root is used once |
| system manager `resident_service.py`, `prepared_service.py`, `task_service.py`, `server.py`, `unstarted_recovery.py` | preparation records, catalog, launch records, sessions, calls | prepare, settle, reconcile, start, retire, authorize, rebind, complete | worker outlives the service; replies lost; peers die | a responsibility closes only after its process ended; one controller; one API |
| worker and mailbox `local_hand/worker.py`, workspace writes `act.py`, `workspace_apply.py` | Git branch and checkout, outbox, receipts, markers | poll, execute, publish, compare-and-swap, apply | races on the branch, unconfirmed pushes, interrupted polls | a text is executed once and answered truthfully; no lost update |
| connect controller `controller.py` | clone, admission marker, lock | initialize, submit, wait, call | races of clones, leftovers, unconfirmed pushes | acknowledged means published; a reported success is the worker's |

Interaction: API calls reach the broker directly; broker and runner call each
other (start downwards, `_guard_start` as a callback under the fence); services
and coordinator meet only in the gate; the coordinator reaches services through
callers it supervises, and starting services read the startup selection.  The
resident manager prepares a task and launches its controller; the controller
spawns the task's API and serves its requests for units, and the API's session
exchanges one packet after the other with it; a quota phase runs beside each
phase of the task.  The mailbox is a second way in: controllers and worker meet
only in a Git branch.

## 2. Modules

| module | models |
|---|---|
| `MaintenanceGate` | `maintenance.py`, every method that writes or confirms `gate.json` |
| `MaintenanceGateProofs` | theorems about it |
| `ResourceBarrier` | abstract specification of the resource leases: a job takes its resources whole, works only while it holds them, and gives them up only when nothing works |
| `Broker` | `broker.py` over `state.py`, `resources.py`, `runner.py`, `evidence_recovery.py`; refines `ResourceBarrier` |
| `BrokerProofs` | theorems about it: types, one start, no start after a cancel; that ledger, memory, observers and units fit together, and what follows at once; finality, leases, limits, observation rounds; that `Broker` implements `ResourceBarrier` |
| `Deploy` | `coordinator.py` over `store.py`, `model.py`, `runtime.py`, `startup.py`; instantiates `MaintenanceGate` for the gate |
| `DeployProofs` | theorems about it: what holds whatever a power loss does to the gate, and what holds when the gate's renames are durable once visible |
| `StageRunner` | the observer thread of `runner.py` with the three stages of one execution |
| `StageRunnerProofs` | theorems about it |
| `TaskSession` | `task_session.py`, `quota_bridge.py`, the phases of a task in the broker, `preflight_completion.py`, `stopped_completion.py`, `recovery_completion.py` |
| `Reservation` | `budget.py`, `bootstrap_roots.py` |
| `ReservationProofs` | theorems about it |
| `EvidenceStore`, `EvidenceDownload`, `Archive` | `evidence.py`, `evidence_client.py`, `artifact_archive.py` |
| `Resident`, `Launcher` | `resident_service.py`, `prepared_service.py` |
| `TaskGateway` | `task_service.py`, `server.py` |
| `TaskGatewayProofs` | theorems about it |
| `UnstartedRecovery` | `unstarted_recovery.py` |
| `QuotaJournal`, `QuotaPhase` | the observer's `q2_*.py` and the broker's side of a phase |
| `QuotaQuery`, `QueryMonitor` | the earlier single-query observer, `journal.py`, `systemd_runtime.py`, `worker.py`, `supervision.py` |
| `FileAction`, `ServiceAction`, `GatewayAction` | the adapters `files.py`; `services.py`, `supervision.py`, `systemd_bus.py`; `gateway.py` |
| `Bootstrap` | `bootstrap.py` |
| `BootstrapProofs` | theorems about it |
| `Retention` | `preparations.py` and the drain and retention steps of `runtime.py`, with manager and launcher |
| `Startup` | `startup.py`, the selection steps of `runtime.py`, `startup_guard.py`, `gateway_guard.py` |
| `StartupProofs` | theorems about it |
| `Mailbox`, `WorkspaceWrite` | `worker.py` with `mailbox_safety.py`; `act.py`, `workspace_apply.py` |
| `Connect` | `local_hand_connect/controller.py` |
| `MCBroker`, `MCDeploy` | constants of the instances, symmetry |
| `MCExecution`, `MCServices`, `MCDeployment` | suites: the small instances of all other modules, see section 3 |

### MaintenanceGate

`gate` is the file a reader sees, `disk` the version that is certain to survive
a power loss, `promised` what successful calls have told their callers.  Every
method is one action, since it runs under the exclusive lock; its `synced`
parameter is FALSE when the directory sync after the rename fails: the record is
visible, the caller got an error, `disk` is old.  `Confirm` is `_confirm`, the
re-sync of a repeated call.  A compatibility decision carries the maintenance owner
that made it; a call that repeats the same decision only confirms it.  Digests and identities of a process image are one
value `loaded`; `expected` snapshots are compared by sequence, as in `_expected`.

### Broker

`ledger`, `lease`, `revoked`, `fresh` are durable; `up`, `active`, `recovering`,
`view`, `fence`, `watch` are the service; `unit`, `starts` are the manager's.
An API call is one action: it holds the fence and one transaction.  `tick` is
not: `TickRead` takes the snapshot, and the row actions (`TickRunning`,
`TickComplete`, `TickCancelled`, `TickIntent`, ...) use it later, with other
threads in between; only the fields the code takes from the snapshot come from
`view`, everything it reads again comes from `ledger`.  `_start` commits the
intent (`TickIntent`) and keeps the fence until the runner answered
(`StartEnqueued`, `StartFailed`); `_guard_start` commits the delivery intent
(`GuardStart`) and keeps the fence until the client was spawned (`Launch`,
`LaunchFails`).  `Crash` may come between any two of these steps, with or
without a reboot of the host.  `fresh` stands for all bindings of a row to
generation, deployment and plan: a row is fresh until one of them changes.
A ledger whose commit has an unknown outcome refuses everything until the next
start, which is a crash just before or just after that commit.

An execution is one unit here, as it is for a job without a quota grant; its
three stages are `StageRunner`, the phases of a task with grants `TaskSession`.
Rate limits are left out.

### Deploy

`ops` are the durable records, `run` the command in progress with its next
place, `object` the deployment each managed object is at, `caller` the process
that may still work on an object after its command is gone, `selection` the
startup selection.  Several saves without an effect between them are one commit.
A step records its intent, publishes the candidate selection, binds and executes in
four steps; `supersede` and the handoff it ends in save the same inheritance, which
is `Inherit` for both.
`Stop` is an adapter failure, a wait or the death of the command; `PowerLoss`
also ends callers and lets the gate fall back to its durable version.
`Gate!Close`, `Gate!Release`, `Gate!Handoff`, `Gate!Accept` and `Gate!Finish` are
the actions of `MaintenanceGate`.

The steps are abstract here.  What one does to its object is in `FileAction`,
`ServiceAction` and `GatewayAction`; what the drain does about preparations in
`Retention`; how services meet the selection in `Startup`.  Isolation steps of
security repairs and the byte and record budgets are left out.

### The execution of a job

`StageRunner` has one action per step of the observer thread: delivery under the
guard, observation, stop, the proof of a stage's end, the conclusion.  The guard
leaves durable facts (`receipts`; `cancelled` is the broker's), everything else
of the process is lost by `Restart`, after which `Attach` observes the
deterministic units and delivers nothing.  Delivery and its acknowledgement are
separate, so the manager may start a unit whose delivery was reported as failed.

`TaskSession` puts the session's tick, the administrator's exchange and the
broker's passes side by side.  A tick reads the row first and answers a packet
later; a cancel may commit in between.  `Reservation` keeps the arithmetic of
`budget.py` exact (integer division, the rest to the last share, deadlines
against a clock and a boot) and root directories as points of a containment
order.

### Evidence

`EvidenceStore` copies members one by one, so that a member which changes during
the copy is seen as it is in the code: by its identity before and after.  The
store's directories are counted with the attempts that failed.  In
`EvidenceDownload` the partial file, its journal and the published file are
volatile until synced, and chunks are good or bad.  `Archive` has one staged
request and one reservation per task and the ledger's two operations with their
receipts; `Lose` removes, rolls back or replaces one part of the store.

### System manager

`Resident` and `Launcher` both separate what a process knows (`mem`, `m`) from
its files and from the gate's duties, and let each gate call or save be lost
before or after its effect.  `Launcher` has the detail of the launch that is one
step in `Resident`, `Retention` a coarser form of both; these relations are by
construction of the models, not checked.  A failed preparation first publishes the
proof that nothing was delivered and saves FAILED in a later step; a failed start
of a launcher tries to close its duty itself, before a later call retires it.  The
source commit of a retained task is part of the deployment it was prepared under.
`TaskGateway` treats the API as an
arbitrary client that sends one request at a time; units start late or never.
`UnstartedRecovery` interleaves the root process and its unprivileged worker of
several administrators with the original controller under the authority lock.
`finished.json` may appear while the controller's unit is still there, since it only says
that the pipes ended and the waiting client exited.

### Quota observer

A cell of `QuotaJournal` is the sequence of its records; an append is complete,
torn or lost, acknowledged or not; of the policy and the cell of a grant either file
may be the later one, and an answer that came in time may be appended after the
query's deadline.  `QuotaPhase` has the cell's stages as one
value and adds the two units, their clients and the broker's side.  `QuotaQuery` is
the single-use controller with its create-only files; `QueryMonitor` is the
class by itself, called in any order.

### Deployment adapters, bootstrap, startup

A file in `FileAction` is an object with identity and value; the directory is
volatile until its sync.  An attempt in `ServiceAction` is a child that inherits the
node lock, a request on the bus and a job at systemd, each of which may outlive
the one before; after a reboot the unit may be active, as an enabled one is.  Jobs of
other clients of systemd are left out.  In `GatewayAction` a request whose connection was lost stays in
`req` and may be executed at any later time; an attempt whose checks fail before it
sends anything changes nothing and is no step.  `Bootstrap` has the old service with its
works and inherited channels, which no gate stops; an error that its checks do not
name, such as a changed member found at the publication of the selection, is a
`Crash`, which leaves the same record behind.  `Startup` has both sides of the
handshake as separate processes with the socket between them.  A configuration is
what the selection names; the grammar `gateway_guard.py` accepts for it is not modelled.

### Mailbox

`Mailbox` and `Connect` are the two ends of the same branch.  A checkout is the branch
as last fetched; a push succeeds only if the branch has not moved, and its
answer may be lost.  `Mailbox` has one action per durable write of a poll;
`Connect` leaves what a dead call wrote in its clone until the next sync.
`WorkspaceWrite` has one file and two values for the rest of the checkout: what
belongs to the commit and the index, which is all the check before the write
compares, and everything else.  After the write the whole checkout is compared,
then the bytes are synchronised and read back, and then the result is reported;
each is a step of its own.

## 3. Runs

| run | instance | checks |
|---|---|---|
| `broker_job` | 1 job, all outcomes, 2 crashes, `FairSpec` | `TypeOK`, `AtMostOnce`, `SettledIsQuiet`, `FrozenResultKept`, `TerminalIsFinal`, `NoStartAfterCancel`, `CancelSettles` |
| `broker_rounds` | 1 job and 1 observation round, 2 slots, 1 crash | `LeaseCoversWork`, `RoundsObserveQuietJobs`, `NoLeaseLeak` |
| `broker_slots` | 2 jobs with their own resources, 1 slot, 1 crash | `RunningBounded` |
| `broker_contention` | 2 jobs with overlapping resources, 2 slots, 1 crash | `ImplementsBarrier` |
| `deploy` | 2 operations, 2 objects (the second starts a service), one responsibility | `TypeOK`, `EffectsUnderMaintenance`, `OpenMeansInstalled`, `StableMeansInstalled`, `CallersNeverOverlap`, `DecisionFinal` |
| `execution` | suite `MCExecution` | `StageSafety`, `BudgetSafety`, `TaskSafety`, `MailboxSafety`, `ExecutionSteps`, `EvidenceSteps`, `MailboxSteps`, `TasksEnd` |
| `services` | suite `MCServices` | `GatewaySafety`, `ManagerSafety`, `ObserverSafety`, `RecordSteps`, `ServicesSettle` |
| `deployment` | suite `MCDeployment` | `AcknowledgedSurvives`, `RetiredNeverOwns`, `AdmittedUnderSelected`, `NoAdmissionWhileHeld`, `AdapterSafety`, `ImportSafety`, `AdmissionSafety`, `DeploymentSteps`, `DeploymentSettles` |
| `deploy_...` | four runs that end in a violation | section 4 |

Suites.  The instances in a suite share no state, so the suite is their
disjoint sum: `Init` chooses the subject of a behaviour (`focus`), the step of
the subject's module is the step of the suite, and everything else stays as it
began.  Each suite extends the module of one subject (`StageRunner`, `TaskGateway`,
`MaintenanceGate`), whose constants are in the configuration and whose properties
the run names directly; the other modules are instantiated with their constants,
some for several subjects.  A property of a suite is a conjunction over its
subjects of properties defined, and explained, in their modules; the invariants
among them include each module's `TypeOK`.  `StageSafety`, `GatewaySafety`,
`BudgetSafety` and `ImportSafety` are, on every instance, the conjunction the module
defines under that name, and section 5 proves them.

| suite | subjects | conjuncts |
|---|---|---|
| `MCExecution` | 3 stages of one execution with failures and a restart; without faults under fairness | `DeliveredOnce`, `StagesExclude`, `ExitIsFinal`, `VerifiedIsReal`, `ReattachDeliversNothing`; `CancelEnds` |
| | a session without faults; with 2 deaths of the API and any failed exchange | `NoProtocolFailure`, `NothingAfterCancel`; `HonestEnd`, `Ends` |
| | budgets of a job and a round against clock and reboot; 2 jobs with nested and aliased pools | `SharesFit`, `StateAccepted`, `NeverRefunded`; `OneUse`, `WritesInside` |
| | 2 helpers seal 2 members that change; 2 seals of one member are read | `RetentionBounded`, `SealedIsOneMoment`, `RegisteredIsDurable`; `ServedIsSealed` |
| | 2 downloads of 2 chunks into one directory, 3 faults, a dishonest server | `CheckpointCovered`, `ReturnedIsWhole` |
| | the archive of one task with 2 faults and losses of any part; one older than the bindings | `OneVersion`, `CommitIsCovered`, `NeverRecreated`, `ConfirmedOnce`; `CertifiedIsComplete` |
| | the worker on one task id with 2 texts, 2 early ends, 2 foreign pushes | `ExecutedOnce`, `ResultsAreTrue`, `NeverReplaced`, `ExecutionAnswered`, `DifferenceIsReported` |
| | an applier, 2 compare-and-swap writers and an edit from outside on one file | `WriteIsAdmitted`, `NoLostUpdate`, `AppliedIsDurable` |
| | 2 calls of the controller: 2 clones and 2 texts; one clone, one text, a death | `SuccessIsTrue`, `NeverReplaced`, `SuccessUnqualified`; `AcknowledgedIsPublished`, `RefusedIsUnsent` |
| `MCServices` | the gateway, 2 phases: one recovery; more calls; a deadline that passes | `DeliveredOnce`, `OneStageRuns`, `SealedIsOver`, `FinishedIsQuiet`, `ManagementOutlivesWriters` (`GatewaySafety`), `RecoveryOnlyObserves` |
| | a task that never started: one administrator and a unit started twice; two administrators; one death or expired window; one administrator that completes and one that only checks, without faults | `CompletedUntouched`, `QuietWhenCompleted`, `ReportedInTheEnd`; `VerdictTrue` |
| | the preparation of one task: 2 attempts, a stop and a fault; 2 faults; under fairness | `DutyCoversPreparation`, `NeverDispatchedNeverRan`, `CommittedOnce`, `ReadyKept`; `PreparingSettles` |
| | the launcher: 3 admissions, 2 restarts | `OneController`, `NeverDispatchedNoChild`, `DutyCoversController`, `ExitRecordFinal` |
| | retention: 2 attempts over another executor, over 2 deployments; one attempt under fairness | `StartsAsPrepared`; `SwitchQuiet`; `Decided` |
| | the journal: 3 phases of one operation with a failing process; 3 grants of two operations and 2 processes | `QueriedOnce`, `OneAnswer`, `ObservedIsQuiet`, `PinIsComplete`; `OneOpenPhase`, `SlotsStay`, `PhasesInOrder` |
| | one quota phase, 2 coordinators, all faults; without faults under fairness | `StartedOnce`, `AdminClosesFirst`, `ClosedIsQuiet`, `StoppedIsQuiet`; `PhaseCloses` |
| | the single query: 2 tickets of one slot; one ticket and its recovery; all orders of calls of the monitor | `StartedOnce`; `ObservedIsOriginal`, `RecordsAreFinal`; `ObservedIsComplete`, `NothingDropped`, `UnknownIsFinal` |
| `MCDeployment` | the gate: 2 owners, 2 deployments, one preparation, 4 transitions, failing syncs and power losses; one owner, one execution, 3 transitions | the four properties of `MaintenanceGate`; `AcknowledgedSurvives`, `AdmittedUnderSelected` |
| | one file action: 3 deaths or power losses, one edit; under fairness | `OriginalKept`, `DoneIsDurable`, `NoFalseConflict`, `ForeignKept`; `Settles` |
| | one service action: 2 attempts, a death of the coordinator, a reboot | `OneInFlight`, `RecordedIsOver`, `OnlyLatestActs`, `Decided` |
| | the container: 4 ids, 10 attempts, lost connections, one intervention; without losses | `CreatedOnce`, `RestoredClean`, `NothingInFlight`; `Settles` |
| | the import: one work, 2 files, a crash, a reboot, 2 interventions; 2 crashes under fairness | `NoSecondDispatcher`, `AllOrNothing`, `OpensQuiet`, `NothingHidden`; `Released` |
| | startup: manager and MCP server; manager and public gateway with a reboot | `ServedWasSelected`, `OneDeployment`, `PermitOneInstance`; `PublicWasReleased`, `PublicCloses` |

Bounds.  `MaxSequence` limits the gate's sequence number, which starts at 1; five
allow close, handoff, release and a late second close with both owners in every
role, and the theorems of section 5 hold for any number.  In `deploy` two operations
give every chain of length two; a third would only lengthen `inherited`.  Two
objects are what a half-changed node needs.  `MaxAttempts` of `Deploy` is the
code's own limit; the instance uses 1.  `MaxRestarts` of `Broker` is 2 where one
job is checked, so that a recovered row is recovered again, and 1 where two rows
are: one crash separates any two steps of them.  A job with all three reported
outcomes is checked alone; with two rows the report is SUCCEEDED or unreadable
(or only unreadable in `broker_slots`, where outcomes do not matter to slots).

In the other modules every bound that is not the code's is a constant named
`Max...` and described where it is declared.  They count faults (crashes, lost
replies, interventions) and fresh identities.  Two faults let a repair be
interrupted and repeated; where more are allowed the model is small, where only
one is the other subjects of the module leave it out or combine it differently.
Limits of the code (push attempts, calls per session, seals, capacity) are
parameters set low enough that the instance reaches them.

Fairness of `broker_job`.  The coordinator thread loops every 50 ms, so
`TickRead` is weakly fair; a busy ledger ends a pass and the next one starts
over, so handling of a row can be interrupted again and again without being
prevented: `TickRow` is strongly fair.  Calls into the runner return and
observers run on threads of their own (weak fairness of `StartReturns`,
`Observer`).  A unit ends because `RuntimeMaxSec` is set in `runner.py`
`_properties`, and the service is restarted by its unit file.  No fairness on
API calls or crashes.

Fairness of the suites, `PartsFairness`, follows the same rule: loops that poll,
calls with a deadline and units with a time limit are weakly fair; processes
that systemd restarts, and callers the documents ask to repeat a call (an
administrator's resume, a client's polling), come back.  Strong fairness is used
once, for the broker's pass and the record of an exit in `TaskSession`, which
can fail again and again and are repeated each time.  `Retention` also assumes
that a host whose manager died with the only witness of a process is rebooted in
the end (only a new boot proves such a process over); the manager does not die
after that reboot.  Units are not assumed to end in `StageRunner`: a
cancellation stops them.  Launcher, journal, queries, downloads, archive and the
connect controller are checked for safety only.

Every property of the passing runs has a deliberately broken definition in a
module (under a comment "Fault") with which TLC finds it violated; a conjunction
has one for one of its conjuncts.

## 4. Disagreements between code and its documents

Four runs show a behaviour that contradicts a comment or the design document
`docs/DEPLOYMENT_RECOVERY_REFACTOR.md`; each is expected to end in a violation.

* `deploy_finished_owner`: `_close` closes the gate first and records
  `gate_owned` afterwards.  If the command stops in between, `rollback` sees
  neither effect nor owned gate, and finishes as ABORTED_NO_CHANGE with the gate
  still closed in its name.  A later command for the finished operation does
  nothing, and every other one finds another owner.
* `deploy_responsibility`: the link to a successor and the record of what it
  inherits are two transactions; a rollback of the successor between them
  finishes it without effects, and the handoff then gives it the gate.
* `deploy_handoff`: the successor may finish between HANDOFF_RECEIVED and
  HANDED_OFF; the predecessor then reports HANDOFF_CONFLICT for ever and, being
  unfinished, keeps new plans out.
* `deploy_sync_loss`: a CLOSED marker that was read, but whose rename was never
  synced, is taken as closed; `close` would have synced it again.

`deploy` therefore runs with `SyncLoss = FALSE`: it shows what holds when a sync
never fails after its rename.

Eight more were met while the other modules were written.  They are behaviours
of the models, no run is kept for them, and the properties of section 3 are
stated so that they hold in spite of them:

* Resident: `_save` raises after its rename when the directory sync fails and
  leaves the old READY record in memory while the file names the next attempt;
  the old preparation is started and committed, and after a restart the task is
  prepared again.
* Retention: the manager closes a never dispatched responsibility first and
  repairs its record second; a baseline saved in between never matches again.
* Startup: `candidate_startup` copies the claims from one reading and compares
  with the digest of a later one; a service admitted in between loses its claim.
* Mailbox: a marker is not requeued when a collision record for the same text
  was still in the outbox.
* EvidenceDownload: a death between the creation and the writing of
  `binding.json` leaves a directory that no later download accepts.
* TaskGateway: after a rebind one call more than the cumulative limit is
  dispatched; and an identity error whose answer finds the peer dead is recorded
  as a dead peer, which allows another API.
* TaskSession: a cancellation between the tick's reading of the row and the bind
  fails the session instead of being answered.

## 5. Proofs

`MaintenanceGateProofs` proves, for all sets of operations, keys, deployments,
boots and decisions and without the bound on transitions mattering:
`TypeCorrect`, `Durability`, `NoReturn`, `Admission` and `Barrier`, the
properties of the gate that the run `deployment` checks.  Assumptions are those of `MaintenanceGate`:
the null value is no owner and no decision, keys are well-formed triples, a
missing expectation is no number.

The properties are not inductive by themselves.  `NoAdmissionWhileHeld`, for
example, fails from a state in which an acknowledged close was never written.
The invariant `Inv` says of both versions of the record that it passes
`_validate` (`RecordOK`: types, a CLOSED marker has an owner that is not
retired, an OPEN one has none, admitted responsibilities carry at most the
current sequence and match the selected deployment), that the durable version
lags behind the visible one (`Monotone`), and that each keeps all promises
(`Kept`).  `Monotone` is needed because a power loss replaces one by the other.
One lemma per method shows that the record it writes is `RecordOK` and keeps
what the old one kept; `Write`, `Confirm` and `PowerLoss` are treated once each.

`BrokerProofs` proves `TypeCorrect`, `StartedAtMostOnce` (`AtMostOnce`) and
`CancelStopsStarts` (`NoStartAfterCancel`) for all jobs, observation rounds,
principals, resources and limits and any number of restarts, from the
assumptions of `Broker`: job and round ids are different, rounds have a parent,
jobs a principal and resources, and results report a definite outcome.

Its invariant `Inv` adds to the types what the guard relies on.  `LedgerOK`: an
identity never admitted has the empty row (so admission cannot erase an
intent), and a row to be sealed has a frozen result.  `ViewOK`: a snapshot that
saw a row AWAITING_SEAL may be old, but the result it saw is still frozen;
without it the outcome copied by a cancelled or failed seal could be none at
all, so not even the type invariant is inductive.  `StartsOK`: a request that
left has a delivery intent in the ledger, which no step removes.  `FenceOK`:
while the guard holds the fence, the intent is committed, nothing was requested
yet, and the row is neither cancelled nor revoked nor stale.  Most steps touch
none of this: `QuietStep` treats them at once, and each action's lemma shows
that it writes a well-formed row and is quiet.  The guard, the launch, crash,
the snapshot, admission, cancel and revoke are treated each on its own.

Its second part extends this by `Control`, which is what the remaining
properties of `Broker` rest on.  `SettledIsQuiet`, for example, fails after a step
from a state where a TERMINAL row still has an observer that is about to ask for
a unit; that such an observer cannot exist depends on the snapshot, the fence
and the memory of the coordinator together.  `Control` has a row-local part and
a part for each thing outside the ledger: `Shape` and `Evidenced` say which rows
`state.py` can hold, `WatchFit`, `UnitFit`, `FenceFit` and `ViewFit` what an
observer, a unit, the thread between two commits and a snapshot entry may be
beside such a row.  Nearly every action writes one row and one entry of each
(`FrameStep`), so its lemma is about one row; crash, recovery, revocation and
the reading of the snapshot are about all.  It gives `ControlInvariance`,
`SettledQuiet` and `FrozenKept`.

Its third part does not go through the actions again.  It shows once that every step, seen from ledger and leases, is one of four kinds (`Step`): rows
stay in their phases, one row settles and may release, one row is admitted with
its leases, or one row enters an execution.  `TerminalFinal`, `LeaseCovers`,
`RunningLimited`, `RoundsWait` and `NoLeak` are each proved over these four;
`NoLeak` is inductive over them as it stands, `LeaseCovers`, `RunningLimited` and
`RoundsWait` need the invariants `Held`, `Bounded` and `Rounded`.
Its last part maps a step to `ResourceBarrier`: an admission takes
resources nobody holds, an execution intent begins work with all leases held, an
end of the last execution ends it, and a release comes when nothing of the job
runs (`ReleaseIsQuiet`, `ReleaseSpares`); all else stutters.

`DeployProofs` proves all safety properties of `Deploy` that the run `deploy` checks, for all operations, plans, start steps and attempt
limits, from the assumptions of `Deploy`: start steps are steps, the base is a
deployment and the null value no operation.  Without any hypothesis about the
file system: `TypeCorrect`, `EffectsMaintained`, `CallersAlone`, `DecisionsLast`.
`EffectsUnderMaintenance` is not inductive: a caller starts long after the gate
was read.  `RunOK` says for each place of a command what it has seen and what
must still hold there, `CallerOK` that a caller's operation is undecided, has no
successor and holds the drained gate; nobody else can open or hand on a gate,
and a closed one admits no work, so both last.  A power loss may take the marker
back, but ends the caller.

`OpenInstalled` and `StableInstalled` have the hypothesis `~SyncLoss`: a rename of
`gate.json` that is visible is durable.  Without it `OpenMeansInstalled` is false
(run `deploy_sync_loss`, section 4).  The invariant `Installed` adds that the
owner of a gate is not retired (`MarkerOK`), that an undecided operation which
recorded "blocked" and owns the gate finds the selection blocked
(`BlockedHolds`; a resumed command skips the block because of that record), and
that objects and selection between `publish_stable` and the release are as
`release_valid` found them (`RunSelects`).

`StageRunnerProofs` proves all safety properties of `StageRunner` for any number
of restarts, with and without faults: `TypeCorrect`, `OneDelivery`, `StagesAlone`,
`ExitFinal`, `VerifiedReal`, together `StageSafetyHolds`, and the action property
`ReattachOnlyObserves`.  The run `execution` checks the same formulas, as
`StageSafety` and as a part of `ExecutionSteps`, for one restart.  `ExitIsFinal` alone is not inductive: the
process that reads a refused or failed transition must know that no later stage
was delivered.  `StageOK` says that what handle, saved handle and gateway know of
a stage is so (an identity is only held of a unit that was loaded), `OwnOK` that
the process that started the execution knows each delivery, `InOrder` that a
stage is tried only after the one before is over, which after a restart remains
true of the units although the handle that knew it is gone, and `ThreadOK` that
only a reattached handle attaches and that it tries nothing.

`TaskGatewayProofs` proves `GatewaySafetyHolds` and `RecoveryOnlyObservesHolds` for
any number of phases, stages, calls and recoveries, from `GatewayAssumption`
(there is a phase and a stage, and the null value is neither a part nor a
request).  None of the conjuncts is inductive: that one stage runs at a time
depends on the order in which `server.py` lets stages be launched and sealed, and
that a finished session is quiet on the bind of the session to its API.  `Peers`
says that a session belongs to the API of its rebind and that no older one is
alive, `Calling` that a request being launched has its part, no delivery yet and
is not one of a recovery, `Managed` that at most one phase is open and that a
finished management pair has nothing left that could be launched (`NoLaunch`),
`StageOK` what a retained part says of its unit, and `InOrder` that a stage is
delivered when those before it are sealed.  Of the delivered stages, then, at
most one is not sealed, and a sealed one is over.

`ReservationProofs` proves `BudgetSafetyHolds` and `NeverRefundedHolds` for all
budgets, root pools, records and clocks and any number of reboots.
`BudgetAssumption` says that the four budgets are positive integers, as the
contract validates them, and that slots have one root for each root a plan is
written for.  Shares: `allocated_limits` gives every phase of a record the same
floor of each shared budget, a record has at most as many grants as it has
phases, and so the sums fit (`TotalFits`).  The stages of a phase spend two
floors of a third and the rest, in order; `SpentOK` bounds what was spent by the
shares of the delivered phases and the stages of the present one.  `StateAccepted`
needs that every later call re-validates the grants against a plan, a clock and
handles that have changed since.  Roots: everything granted is leased (`RootsOK`),
no lease is given up, and a root is granted only apart from everything that is
leased; a business phase inherits the roots of its preflight.  A consequence for
the code: the refusal at `budget.py:305` (reservations beyond the admitted
budget) is a second line of defence that no sequence of calls can reach.

`BootstrapProofs` proves `ImportSafetyHolds`, `OpensQuietHolds` and
`NothingHiddenHolds` for any number of works, files, crashes, reboots and
interventions.  `AllOrNothing` fails after a step from a state in which the
importer is past its verification with a file unpublished, `NoSecondDispatcher`
from one in which the mask is only for the runtime.  `IsolationHeld` says what the
observations establish: from the plan until its mask is removed the old service
is down, masked and its calls are closed (`Silent`), and while the importer holds
the old dispatch lock the works are those of the plan.  `Course` ties each place
of the importer to the direction of the operation, `FilesFit` and `Decision` to
what was prepared, published and decided.

`StartupProofs` proves `StartupSafetyHolds` for the components that the manager may
admit, every order of the start steps and all bounds.  `StartupAssumption` says
that they are the MCP server and the gateway, and that the bounds are numbers.
`OneDeployment` fails after a step from a state in which a peer of the old
deployment holds an acknowledgement while the selection already names the new
one, and `PublicWasReleased` from one in which the gateway bound after the manager
had given its handshake up.  The invariant has a part for each thing they rest on.
`LockInv`: while anyone holds the admission lock, the selection is complete and in
force, since publication and a new admission wait for the lock.  `PeerInv` and
`RelayInv` say how far the peer can be at each stage of its connection: as long as
the handshake can succeed the manager holds the lock for that peer, so a bind that
will be acknowledged was in order; one made after the manager gave up may be out of
order, and its connection is closed.  `ServeInv`: what serves is of the deployment
the selection names, which a blocked selection still does.  `CoordInv`: before it
stops anything the operation has blocked the selection, what it stopped stays
`Quiet`, and it publishes another deployment only when everything is.  `PermitInv`:
a permit has admitted the instance that claims it, or nobody.

What the attempts showed about the models: `TaskGateway` had two history
variables that no property used; they are gone.  The sum of shares in
`Reservation` was a fold over a set of phases and is now the sum of its four
parts, and its assumption, which only asked for non-empty pools, was too weak
for any theorem.  Four definitions used `CASE` with
overlapping arms, whose value TLA+ leaves open where two arms apply
(`Broker.NextPhase`, `Broker.Verdict`, `TaskGateway.Shown` and the ends of
`TaskSession`); they are now exact.  `Deploy.Observed` was rewritten without
nested `@`, with the same meaning.  The strengthened invariants were checked
with TLC on the instances of the runs before they were proved.

Eight modules hold theorems: those of the barrier, the broker, the deployment, the
import and the admission of services, and of the execution of a task what runs it
and what limits it.  `BudgetSafety`, `ImportSafety` and `AdmissionSafety` are
conjunctions over several instances of their modules; each conjunct is a theorem.

Only model-checked: the modules that have no proof module, and with them
`TaskSafety`, `ManagerSafety`, `ObserverSafety`, `MailboxSafety`, `AdapterSafety`
and the conjuncts of the action properties that are not named above; `StableMeansInstalled`
with `SyncLoss`, which TLC confirms for two operations and three transitions of
the gate, since its proof needs in addition that unfinished operations form one
chain.  The liveness properties (`CancelSettles`, `TasksEnd`, `ServicesSettle`,
`DeploymentSettles`) stay with TLC, since liveness under fairness is beyond the
prover.

## 6. Plan

1. Done: all modules of section 2; `MaintenanceGate`, `Broker`, `Deploy`,
   `StageRunner`, `TaskGateway`, `Reservation`, `Bootstrap` and `Startup` with proofs of
   all the safety properties their runs check.
2. Proofs for the other modules, those first whose invariants are close to
   inductive: `Connect`
   (`NeverReplaced`, `AcknowledgedIsPublished`), `QueryMonitor`
   (`ObservedIsComplete`), `QuotaJournal` (`QueriedOnce`), `ServiceAction`
   (`OneInFlight`).
3. `StageRunner` as an implementation of the one-unit execution of `Broker`.

## 7. Not modelled

Request validation, policy and registry (`contract.py`, `policy.py`, `registry.py`,
the job definitions) are pure functions over formats.  The planner, the command
lines and the reports compute or print.  HTTP transport, authentication and tool
forwarding of the MCP gateway keep no state between calls; its admission is in
`Startup`.  The helpers inside a unit, `result_reader.py`, kernel quota queries and
executable identities appear through their outcomes.  The wire formats of D-Bus,
the Docker Engine and the bridges are values.  Installation checks and field
scripts (`verify_installed.py`, `q2_namespace_delivery.py`, plugin scripts) read,
drive a manual test and report.  `PROJECT.json` lists every component with its
status, and under "hazards" what in the code is hard to test (its map leaves out
helper definitions whose source lines another entry already names); one of them,
`broker.py:885`, has no property because the code allows it on purpose.
