---------------------------- MODULE MCServices -----------------------------
\* The small instances of the modules about the system manager, its task
\* gateway, its recovery of a task that never started and what a deployment
\* retains of it, and about the quota observer.
\*
\* As in MCExecution, each behaviour is about one subject, which Init chooses.
\* The gateway, module TaskGateway, is extended and its constants come from the
\* configuration; the others get theirs where they are instantiated.
EXTENDS TaskGateway

\* Declarations of three grants: needs are free, so that the totals are refused
\* for some, and the last grant is on the slot of the first or on another one.
Grants == {"g1", "g2", "g3"}
Decl(op, phase, slot, need, preds) ==
  [op |-> op, phase |-> phase, slot |-> slot, need |-> need, preds |-> preds]
Declaration(n, third) ==
  [g1 |-> Decl("A", "preflight", 1, n, {}), g2 |-> Decl("A", "business", 1, 1, {"g1"}), g3 |-> third]
ChainDeclarations ==
  {Declaration(n, Decl("A", "evidence", s, 1, {"g1", "g2"})) : n \in 1..2, s \in 1..2}
JointDeclarations == {Declaration(n, Decl("B", "preflight", s, 1, {})) : n \in 1..2, s \in 1..2}
SomeDeclaration == Declaration(1, Decl("A", "evidence", 2, 1, {"g1", "g2"}))

VARIABLE focus   \* the subject of this behaviour

\* The gateway of a task of two phases with one recovery of the service is the module itself;
\* more calls without a recovery; a deadline that passes.
GatewayLong == INSTANCE TaskGateway WITH CallLimit <- 4, MaxRecoveries <- 0
GatewayLate == INSTANCE TaskGateway WITH CallLimit <- 3, MaxRecoveries <- 0, MayExpire <- TRUE

\* The preparation service: one task, two attempts, a crash or reboot and a failed commit;
\* two failed commits; and without faults.
VARIABLES residentDuty, disk, catalog, file, residentUnit, ctl, mem, pending, residentCall,
          worker, up, residentHost, residentStops, faults
residentVars == <<residentDuty, disk, catalog, file, residentUnit, ctl, mem, pending,
  residentCall, worker, up, residentHost, residentStops, faults>>
Service == INSTANCE Resident WITH
  Ops <- {"o1"}, MaxSerial <- 2, MaxStops <- 1, MaxFaults <- 1, SyncLoss <- TRUE,
  Compatible <- FALSE, duty <- residentDuty, unit <- residentUnit, call <- residentCall,
  host <- residentHost, stops <- residentStops
ServiceFaults == INSTANCE Resident WITH
  Ops <- {"o1"}, MaxSerial <- 2, MaxStops <- 0, MaxFaults <- 2, SyncLoss <- TRUE,
  Compatible <- FALSE, duty <- residentDuty, unit <- residentUnit, call <- residentCall,
  host <- residentHost, stops <- residentStops
ServiceLive == INSTANCE Resident WITH
  Ops <- {"o1"}, MaxSerial <- 2, MaxStops <- 1, MaxFaults <- 0, SyncLoss <- FALSE,
  Compatible <- FALSE, duty <- residentDuty, unit <- residentUnit, call <- residentCall,
  host <- residentHost, stops <- residentStops

\* Recovery of a task that never started, with one death or expired window: one administrator
\* beside a unit started twice; two administrators; without faults, one that completes it
\* and one that only checks.
VARIABLES unstartedRow, unstartedCtl, host, rec, unstartedLock, root, wk, wire, unstartedLate,
          verdict, unstartedFaults
unstartedVars == <<unstartedRow, unstartedCtl, host, rec, unstartedLock, root, wk, wire,
  unstartedLate, verdict, unstartedFaults>>
Unstarted == INSTANCE UnstartedRecovery WITH
  Runs <- {"a"}, Applying <- {"a"}, MaxStarts <- 2, MaxFaults <- 1, row <- unstartedRow,
  ctl <- unstartedCtl, lock <- unstartedLock, late <- unstartedLate, faults <- unstartedFaults
UnstartedTwo == INSTANCE UnstartedRecovery WITH
  Runs <- {"a", "b"}, Applying <- {"a", "b"}, MaxStarts <- 1, MaxFaults <- 1,
  row <- unstartedRow, ctl <- unstartedCtl, lock <- unstartedLock, late <- unstartedLate,
  faults <- unstartedFaults

UnstartedCheck == INSTANCE UnstartedRecovery WITH
  Runs <- {"a", "b"}, Applying <- {"a"}, MaxStarts <- 1, MaxFaults <- 0,
  row <- unstartedRow, ctl <- unstartedCtl, lock <- unstartedLock, late <- unstartedLate,
  faults <- unstartedFaults

\* The launcher of one prepared task: three admissions, two restarts.
VARIABLES open, launcherDuty, files, launcherUnit, child, m, launcherPc, launcherStops
launcherVars == <<open, launcherDuty, files, launcherUnit, child, m, launcherPc, launcherStops>>
Launching == INSTANCE Launcher WITH
  MaxStarts <- 3, MaxStops <- 2, Interrupts <- TRUE, duty <- launcherDuty, unit <- launcherUnit,
  pc <- launcherPc, stops <- launcherStops

\* Retained preparations with one death of the manager: two attempts through a deployment of
\* another executor and through two that keep it; one attempt under fairness.
VARIABLES att, live, retentionCur, mgr, retentionHost, gate, dep, granted
retentionVars == <<att, live, retentionCur, mgr, retentionHost, gate, dep, granted>>
Switch == INSTANCE Retention WITH
  Last <- 2, MaxBoot <- 2, MaxVersion <- 2, MaxDeaths <- 1, DyingBoots <- {1, 2},
  SameExecutor <- FALSE, cur <- retentionCur, host <- retentionHost
SwitchKept == INSTANCE Retention WITH
  Last <- 2, MaxBoot <- 2, MaxVersion <- 3, MaxDeaths <- 1, DyingBoots <- {1},
  SameExecutor <- TRUE, cur <- retentionCur, host <- retentionHost
SwitchLive == INSTANCE Retention WITH
  Last <- 1, MaxBoot <- 2, MaxVersion <- 2, MaxDeaths <- 1, DyingBoots <- {1},
  SameExecutor <- TRUE, cur <- retentionCur, host <- retentionHost

\* The observation journal: one chain of three phases with one process that may fail; two
\* processes and three grants of two operations declared together.
VARIABLES decl, policy, journalCell, pins, reserved, time, journalUnit, launches, proc, replies,
          fails
journalVars == <<decl, policy, journalCell, pins, reserved, time, journalUnit, launches, proc,
  replies, fails>>
Chained == INSTANCE QuotaJournal WITH
  Grants <- Grants, Procs <- {"p1"}, Chain <- TRUE, Capacity <- 3, MaxFails <- 1,
  Declarations <- ChainDeclarations, cell <- journalCell, unit <- journalUnit
Joint == INSTANCE QuotaJournal WITH
  Grants <- Grants, Procs <- {"p1", "p2"}, Chain <- FALSE, Capacity <- 3, MaxFails <- 0,
  Declarations <- JointDeclarations, cell <- journalCell, unit <- journalUnit

\* One observed phase and its two coordinators, with faults; and one without.
VARIABLES phasePc, part, saw, record, phaseUnit, phaseStarts, lst, adm, boot, phaseEof, session,
          phaseCell, brk, runs
phaseVars == <<phasePc, part, saw, record, phaseUnit, phaseStarts, lst, adm, boot, phaseEof,
  session, phaseCell, brk, runs>>
Phase == INSTANCE QuotaPhase WITH
  Faults <- TRUE, MaxRuns <- 2, pc <- phasePc, unit <- phaseUnit, starts <- phaseStarts,
  eof <- phaseEof, cell <- phaseCell
PhaseLive == INSTANCE QuotaPhase WITH
  Faults <- FALSE, MaxRuns <- 1, pc <- phasePc, unit <- phaseUnit, starts <- phaseStarts,
  eof <- phaseEof, cell <- phaseCell

\* Controllers of the privileged query: two of two tickets for one slot; one of a ticket and
\* one that recovers it.
VARIABLES queryPc, mine, outputs, queryJournal, torn, queryUnit, good, ready, queryClient,
          queryStarts, late, rebooted, evidence
queryVars == <<queryPc, mine, outputs, queryJournal, torn, queryUnit, good, ready, queryClient,
  queryStarts, late, rebooted, evidence>>
Shared == INSTANCE QuotaQuery WITH
  Controllers <- {"a", "b"}, Requests <- {"r", "q"}, TicketOf <- [a |-> "r", b |-> "q"],
  Recovers <- {}, SlotOf <- [r |-> "slot", q |-> "slot"],
  OutputOf <- [a |-> "first", b |-> "second"], pc <- queryPc,
  journal <- queryJournal, unit <- queryUnit, client <- queryClient, starts <- queryStarts
QueryAgain == INSTANCE QuotaQuery WITH
  Controllers <- {"a", "b"}, Requests <- {"r", "q"}, TicketOf <- [a |-> "r", b |-> "r"],
  Recovers <- {"b"}, SlotOf <- [r |-> "slot", q |-> "slot"],
  OutputOf <- [a |-> "first", b |-> "second"], pc <- queryPc,
  journal <- queryJournal, unit <- queryUnit, client <- queryClient, starts <- queryStarts

\* The monitor of one query: a report of three pieces, two clock readings before the
\* deadline.
VARIABLES raw, monitorEof, invocation, reason, last, finished, recovered, answer, sent, units
monitorVars == <<raw, monitorEof, invocation, reason, last, finished, recovered, answer, sent,
  units>>
Monitor == INSTANCE QueryMonitor WITH
  Limit <- 3, Report <- 3, Deadline <- 2, MaxClock <- 2, Invocations <- {"i1", "i2"},
  eof <- monitorEof

ASSUME PartsAssumption ==
  /\ GatewayAssumption /\ GatewayLong!GatewayAssumption /\ GatewayLate!GatewayAssumption
  /\ Service!SerialAssumption /\ Service!SyncLossAssumption
  /\ ServiceFaults!SerialAssumption /\ ServiceFaults!SyncLossAssumption
  /\ ServiceLive!SerialAssumption /\ ServiceLive!SyncLossAssumption /\ Launching!BoundAssumption
  /\ Launching!InterruptsAssumption /\ Switch!RetentionAssumption
  /\ SwitchKept!RetentionAssumption /\ SwitchLive!RetentionAssumption
  /\ Chained!GrantsAssumption /\ Chained!ChainAssumption /\ Chained!BoundsAssumption
  /\ Joint!GrantsAssumption /\ Joint!ChainAssumption /\ Joint!BoundsAssumption
  /\ Phase!FaultsAssumption /\ Phase!RunsAssumption /\ PhaseLive!FaultsAssumption
  /\ PhaseLive!RunsAssumption /\ Shared!ConstantsAssumption /\ QueryAgain!ConstantsAssumption
  /\ Monitor!SizesAssumption /\ Monitor!ClockAssumption /\ Unstarted!RecoveryAssumption
  /\ UnstartedTwo!RecoveryAssumption /\ UnstartedCheck!RecoveryAssumption

Subjects == {"gateway", "gateway recovered", "gateway late", "unstarted", "unstarted twice",
  "unstarted checked", "preparation", "preparation failing", "preparation polled", "launcher", "retention",
  "retention kept", "retention drained", "chain", "joint", "phase", "phase quiet",
  "query shared", "query recovered", "monitor"}
suiteVars == <<focus, vars, residentVars, unstartedVars, launcherVars, retentionVars,
  journalVars, phaseVars, queryVars, monitorVars>>

\* A behaviour is about one subject; the others stay in an initial state.
PartsInit ==
  /\ focus \in Subjects
  /\ Init /\ Launching!Init /\ Monitor!Init
  /\ \/ focus \notin {"preparation failing", "preparation polled"} /\ Service!Init
     \/ focus = "preparation failing" /\ ServiceFaults!Init
     \/ focus = "preparation polled" /\ ServiceLive!Init
  /\ \/ focus \notin {"unstarted twice", "unstarted checked"} /\ Unstarted!Init
     \/ focus = "unstarted twice" /\ UnstartedTwo!Init
     \/ focus = "unstarted checked" /\ UnstartedCheck!Init
  /\ \/ focus \notin {"retention kept", "retention drained"} /\ Switch!Init
     \/ focus = "retention kept" /\ SwitchKept!Init
     \/ focus = "retention drained" /\ SwitchLive!Init
  /\ \/ focus # "joint" /\ Chained!Init
     \/ focus = "joint" /\ Joint!Init
  /\ focus \notin {"chain", "joint"} => decl = SomeDeclaration
  /\ \/ focus # "phase quiet" /\ Phase!Init
     \/ focus = "phase quiet" /\ PhaseLive!Init
  /\ \/ focus # "query recovered" /\ Shared!Init
     \/ focus = "query recovered" /\ QueryAgain!Init
  /\ focus # "monitor" => ~recovered /\ invocation = "none"

PartsNext ==
  \/ focus = "gateway" /\ GatewayLong!Next /\ UNCHANGED <<focus, residentVars, unstartedVars,
       launcherVars, retentionVars, journalVars, phaseVars, queryVars, monitorVars>>
  \/ focus = "gateway recovered" /\ Next /\ UNCHANGED <<focus, residentVars, unstartedVars,
       launcherVars, retentionVars, journalVars, phaseVars, queryVars, monitorVars>>
  \/ focus = "gateway late" /\ GatewayLate!Next /\ UNCHANGED <<focus, residentVars,
       unstartedVars, launcherVars, retentionVars, journalVars, phaseVars, queryVars,
       monitorVars>>
  \/ focus = "preparation" /\ Service!Next /\ UNCHANGED <<focus, vars, unstartedVars,
       launcherVars, retentionVars, journalVars, phaseVars, queryVars, monitorVars>>
  \/ focus = "preparation failing" /\ ServiceFaults!Next /\ UNCHANGED <<focus, vars,
       unstartedVars, launcherVars, retentionVars, journalVars, phaseVars, queryVars,
       monitorVars>>
  \/ focus = "preparation polled" /\ ServiceLive!Next /\ UNCHANGED <<focus, vars, unstartedVars,
       launcherVars, retentionVars, journalVars, phaseVars, queryVars, monitorVars>>
  \/ focus = "launcher" /\ Launching!Next /\ UNCHANGED <<focus, vars, residentVars,
       unstartedVars, retentionVars, journalVars, phaseVars, queryVars, monitorVars>>
  \/ focus = "retention" /\ Switch!Next /\ UNCHANGED <<focus, vars, residentVars, unstartedVars,
       launcherVars, journalVars, phaseVars, queryVars, monitorVars>>
  \/ focus = "retention kept" /\ SwitchKept!Next /\ UNCHANGED <<focus, vars, residentVars,
       unstartedVars, launcherVars, journalVars, phaseVars, queryVars, monitorVars>>
  \/ focus = "retention drained" /\ SwitchLive!Next /\ UNCHANGED <<focus, vars, residentVars,
       unstartedVars, launcherVars, journalVars, phaseVars, queryVars, monitorVars>>
  \/ focus = "chain" /\ Chained!Next /\ UNCHANGED <<focus, vars, residentVars, unstartedVars,
       launcherVars, retentionVars, phaseVars, queryVars, monitorVars>>
  \/ focus = "joint" /\ Joint!Next /\ UNCHANGED <<focus, vars, residentVars, unstartedVars,
       launcherVars, retentionVars, phaseVars, queryVars, monitorVars>>
  \/ focus = "phase" /\ Phase!Next /\ UNCHANGED <<focus, vars, residentVars, unstartedVars,
       launcherVars, retentionVars, journalVars, queryVars, monitorVars>>
  \/ focus = "phase quiet" /\ PhaseLive!Next /\ UNCHANGED <<focus, vars, residentVars,
       unstartedVars, launcherVars, retentionVars, journalVars, queryVars, monitorVars>>
  \/ focus = "query shared" /\ Shared!Next /\ UNCHANGED <<focus, vars, residentVars,
       unstartedVars, launcherVars, retentionVars, journalVars, phaseVars, monitorVars>>
  \/ focus = "query recovered" /\ QueryAgain!Next /\ UNCHANGED <<focus, vars, residentVars,
       unstartedVars, launcherVars, retentionVars, journalVars, phaseVars, monitorVars>>
  \/ focus = "monitor" /\ Monitor!Next /\ UNCHANGED <<focus, vars, residentVars, unstartedVars,
       launcherVars, retentionVars, journalVars, phaseVars, queryVars>>
  \/ focus = "unstarted" /\ Unstarted!Next /\ UNCHANGED <<focus, vars, residentVars,
       launcherVars, retentionVars, journalVars, phaseVars, queryVars, monitorVars>>
  \/ focus = "unstarted twice" /\ UnstartedTwo!Next /\ UNCHANGED <<focus, vars, residentVars,
       launcherVars, retentionVars, journalVars, phaseVars, queryVars, monitorVars>>
  \/ focus = "unstarted checked" /\ UnstartedCheck!Next /\ UNCHANGED <<focus, vars,
       residentVars, launcherVars, retentionVars, journalVars, phaseVars, queryVars, monitorVars>>

\* The fairness of a subject is that of its module.
PartsFairness ==
  /\ WF_residentVars(focus = "preparation polled" /\ ServiceLive!PrepareWorker)
  /\ WF_residentVars(focus = "preparation polled" /\ ServiceLive!MakeAttempt)
  /\ WF_residentVars(focus = "preparation polled" /\ ServiceLive!Restart)
  /\ \A k \in ServiceLive!AttemptKeys : WF_residentVars(focus = "preparation polled" /\ ServiceLive!UnitEnds(k))
  /\ \A o \in {"o1"} : WF_residentVars(focus = "preparation polled" /\ ServiceLive!Settle(o))
  /\ WF_retentionVars(focus = "retention drained" /\ SwitchLive!Deployment)
  /\ WF_retentionVars(focus = "retention drained" /\ SwitchLive!Work)
  /\ WF_retentionVars(focus = "retention drained" /\ SwitchLive!Processes)
  /\ WF_retentionVars(focus = "retention drained" /\ SwitchLive!Settles)
  /\ WF_retentionVars(focus = "retention drained" /\ SwitchLive!ManagerStarts)
  /\ WF_retentionVars(focus = "retention drained" /\ SwitchLive!Reboot)
  /\ WF_phaseVars(focus = "phase quiet" /\ PhaseLive!Service)
  /\ WF_phaseVars(focus = "phase quiet" /\ PhaseLive!Ordinary)
  /\ \A u \in PhaseLive!Units \ {"query"} : WF_phaseVars(focus = "phase quiet" /\ PhaseLive!ClientEnds(u))
  /\ WF_phaseVars(focus = "phase quiet" /\ (PhaseLive!Snapshot \/ PhaseLive!Begin \/ PhaseLive!LaunchAdmission \/ PhaseLive!BindInvocations \/ PhaseLive!Bind \/ PhaseLive!StartOrdinary))
  /\ \A r \in PhaseLive!Roles : WF_phaseVars(focus = "phase quiet" /\ PhaseLive!Poll(r))
  /\ WF_phaseVars(focus = "phase quiet" /\ PhaseLive!Finish)
  /\ WF_phaseVars(focus = "phase quiet" /\ PhaseLive!SnapshotPending)
  /\ WF_phaseVars(focus = "phase quiet" /\ PhaseLive!Assemble)
  /\ WF_phaseVars(focus = "phase quiet" /\ PhaseLive!AdminClose)
  /\ WF_phaseVars(focus = "phase quiet" /\ PhaseLive!BrokerClose)
  /\ WF_unstartedVars(focus = "unstarted" /\ Unstarted!ProcessesEnd)
  /\ WF_unstartedVars(focus = "unstarted" /\ Unstarted!WorkerStep("a"))
  /\ WF_unstartedVars(focus = "unstarted" /\ Unstarted!RootStep("a"))
  /\ WF_unstartedVars(focus = "unstarted" /\ Unstarted!Begin("a"))

PartsSpec == PartsInit /\ [][PartsNext]_suiteVars /\ PartsFairness

-----------------------------------------------------------------------------

\* A responsibility stays open as long as its preparation or controller may
\* run, one closed as never dispatched never ran, a task is committed by one
\* controller and none is started twice (Resident, Launcher).  Between the
\* saved baseline of a deployment and its release nothing of a preparation runs
\* (Retention).  A task completed as unstarted was never dispatched nor
\* cancelled, and each saved verdict is what happened (UnstartedRecovery).
ManagerSafety ==
  /\ focus = "preparation" => Service!TypeOK /\ Service!DutyCoversPreparation
       /\ Service!NeverDispatchedNeverRan /\ Service!CommittedOnce
  /\ focus = "preparation failing" => ServiceFaults!TypeOK
  /\ focus = "preparation polled" => ServiceLive!TypeOK
  /\ focus = "unstarted" => Unstarted!TypeOK /\ Unstarted!CompletedUntouched
  /\ focus = "unstarted twice" => UnstartedTwo!TypeOK /\ UnstartedTwo!VerdictTrue
  /\ focus = "unstarted checked" => UnstartedCheck!TypeOK /\ UnstartedCheck!VerdictTrue
  /\ focus = "launcher" => Launching!TypeOK /\ Launching!OneController
       /\ Launching!NeverDispatchedNoChild /\ Launching!DutyCoversController
  /\ focus = "retention" => Switch!TypeOK
  /\ focus = "retention kept" => SwitchKept!TypeOK /\ SwitchKept!SwitchQuiet
  /\ focus = "retention drained" => SwitchLive!TypeOK

\* A grant is queried at most once and answered in one way, closed queries and
\* phases are quiet, phases follow their order one at a time, slots stay with
\* their phases, and a pinned configuration is complete (QuotaJournal,
\* QuotaPhase).  A ticket starts one unit, and an observation is the complete
\* output of the original invocation (QuotaQuery, QueryMonitor).
ObserverSafety ==
  /\ focus = "chain" => Chained!TypeOK /\ Chained!QueriedOnce /\ Chained!OneAnswer
       /\ Chained!ObservedIsQuiet /\ Chained!PinIsComplete
  /\ focus = "joint" => Joint!TypeOK /\ Joint!OneOpenPhase /\ Joint!SlotsStay
       /\ Joint!PhasesInOrder
  /\ focus = "phase" => Phase!TypeOK /\ Phase!StartedOnce /\ Phase!AdminClosesFirst
       /\ Phase!ClosedIsQuiet /\ Phase!StoppedIsQuiet
  /\ focus = "phase quiet" => PhaseLive!TypeOK
  /\ focus = "query shared" => Shared!TypeOK /\ Shared!StartedOnce
  /\ focus = "query recovered" => QueryAgain!TypeOK /\ QueryAgain!ObservedIsOriginal
  /\ focus = "monitor" => Monitor!TypeOK /\ Monitor!ObservedIsComplete /\ Monitor!NothingDropped

\* A READY record gives way only to a later attempt (Resident), the record of
\* an exit to nothing (Launcher), and so do the intents and unknown outcomes of
\* queries (QuotaQuery, QueryMonitor); an execution starts only on the boot and
\* under the executor it was prepared for (Retention); an API of a recovery
\* starts, authorizes and closes nothing (TaskGateway); a worker completes a row
\* only while nothing of its task runs (UnstartedRecovery).
RecordSteps ==
  [][/\ focus = "gateway recovered" => RecoveryOnlyObserves
     /\ focus = "preparation" => Service!ReadyKept
     /\ focus = "unstarted" => Unstarted!QuietWhenCompleted
     /\ focus = "launcher" => Launching!ExitRecordFinal
     /\ focus = "retention" => Switch!StartsAsPrepared
     /\ focus = "query recovered" => QueryAgain!RecordsAreFinal
     /\ focus = "monitor" => Monitor!UnknownIsFinal]_suiteVars

\* A record in PREPARING settles although its worker is gone (Resident); a
\* drain reaches its baseline (Retention); a phase closes, none of its
\* processes waiting for another for ever (QuotaPhase); a recoverable task is
\* reported in the end (UnstartedRecovery).
ServicesSettle ==
  /\ focus = "preparation polled" => ServiceLive!PreparingSettles
  /\ focus = "retention drained" => SwitchLive!Decided
  /\ focus = "unstarted" => Unstarted!ReportedInTheEnd
  /\ focus = "phase quiet" => PhaseLive!PhaseCloses

=============================================================================
