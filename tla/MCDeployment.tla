--------------------------- MODULE MCDeployment ----------------------------
\* The small instances of the modules about a deployment: the admission
\* barrier, the adapters' actions, the import of an old installation and the
\* admission of the started services.
\*
\* As in MCExecution, each behaviour is about one subject, which Init chooses.
\* The barrier, module MaintenanceGate, is extended and its constants come from
\* the configuration; the others get theirs where they are instantiated.
EXTENDS MaintenanceGate

CONSTANTS None, op, a1

PrepareOnly == {<<"prepare", op, a1>>}

VARIABLE focus   \* the subject of this behaviour

\* The barrier again, with one owner and an execution that a compatible deployment may keep.
VARIABLES barrierGate, barrierDisk, barrierPromised
barrierVars == <<barrierGate, barrierDisk, barrierPromised>>
Executing == INSTANCE MaintenanceGate WITH
  Owners <- {"o1"}, Operations <- {"op"}, Attempts <- {"a1"},
  Keys <- {<<"execute", "op", "a1">>}, Deployments <- {"d1", "d2"}, Boots <- {"b1"},
  Decisions <- {"c1"}, NoOwner <- None, NoExpectation <- None, MaxSequence <- 4,
  gate <- barrierGate, disk <- barrierDisk, promised <- barrierPromised

\* One file action: two contents, three deaths or power losses, one replacement by an
\* administrator; and two without one.
VARIABLES dir, filesDisk, filesRec, pc, filesWork, serial, foreign, edits, crashes
filesVars == <<dir, filesDisk, filesRec, pc, filesWork, serial, foreign, edits, crashes>>
FileStep == INSTANCE FileAction WITH
  Values <- {"v1", "v2"}, MaxFiles <- 3, MaxCrashes <- 3, MaxEdits <- 1, disk <- filesDisk,
  rec <- filesRec, work <- filesWork
FileStepLive == INSTANCE FileAction WITH
  Values <- {"v1", "v2"}, MaxFiles <- 3, MaxCrashes <- 2, MaxEdits <- 0, disk <- filesDisk,
  rec <- filesRec, work <- filesWork

\* One service action: two attempts, one death of the coordinator, two boots, failing
\* children.
VARIABLES kind, n, unitRec, outcome, unitCoord, child, named, msg, job, unit, unitBoot, deaths
unitVars == <<kind, n, unitRec, outcome, unitCoord, child, named, msg, job, unit, unitBoot,
  deaths>>
UnitStep == INSTANCE ServiceAction WITH
  MaxAttempts <- 2, MaxDeaths <- 1, MaxBoots <- 2, Faults <- TRUE, rec <- unitRec,
  coord <- unitCoord, boot <- unitBoot

\* The replacement of the gateway container, with lost connections and one intervention; and
\* without losses.
VARIABLES box, req, goal, containerPlan, seen, att, made, phase, count, ids, admin
containerVars == <<box, req, goal, containerPlan, seen, att, made, phase, count, ids, admin>>
Container == INSTANCE GatewayAction WITH
  MaxIds <- 4, MaxAttempts <- 10, MaxAdmin <- 1, Losses <- TRUE, plan <- containerPlan
ContainerLive == INSTANCE GatewayAction WITH
  MaxIds <- 4, MaxAttempts <- 9, MaxAdmin <- 1, Losses <- FALSE, plan <- containerPlan

\* The import of an old installation with one task: a crash, a reboot and two interventions;
\* and two crashes.
VARIABLES mask, active, bootWork, defs, bootPlan, bootOp, file, bootGate, chosen, run, late,
          spent
bootVars == <<mask, active, bootWork, defs, bootPlan, bootOp, file, bootGate, chosen, run, late,
  spent>>
Import == INSTANCE Bootstrap WITH
  Works <- {"w1"}, Files <- 2, MaxCrashes <- 1, MaxReboots <- 1, MaxAdmin <- 2,
  work <- bootWork, plan <- bootPlan, op <- bootOp, gate <- bootGate
ImportLive == INSTANCE Bootstrap WITH
  Works <- {"w1"}, Files <- 2, MaxCrashes <- 2, MaxReboots <- 1, MaxAdmin <- 0,
  work <- bootWork, plan <- bootPlan, op <- bootOp, gate <- bootGate

\* Admission of the services of a deployment: manager and MCP server; manager and public
\* gateway, with a reboot.
VARIABLES startupGate, lock, selection, files, startupBoot, proc, conn, offer, relay,
          startupCoord, bound, admitted
startupVars == <<startupGate, lock, selection, files, startupBoot, proc, conn, offer, relay,
  startupCoord, bound, admitted>>
Admission == INSTANCE Startup WITH
  Remote <- {"mcp"}, Order <- <<"manager", "mcp">>, MaxInstances <- 2, MaxAttempts <- 2,
  MaxBoots <- 1, gate <- startupGate, boot <- startupBoot, coord <- startupCoord
Public == INSTANCE Startup WITH
  Remote <- {"gateway"}, Order <- <<"manager", "gateway">>, MaxInstances <- 1, MaxAttempts <- 2,
  MaxBoots <- 2, gate <- startupGate, boot <- startupBoot, coord <- startupCoord

ASSUME PartsAssumption ==
  /\ FileStep!FileAssumption /\ FileStepLive!FileAssumption
  /\ UnitStep!ServiceAssumption /\ Container!GatewayAssumption
  /\ ContainerLive!GatewayAssumption /\ Import!BootstrapAssumption
  /\ ImportLive!BootstrapAssumption /\ Admission!StartupAssumption /\ Public!StartupAssumption

Subjects == {"gate", "gate executing", "file", "file alone", "service", "container",
  "container answered", "bootstrap", "bootstrap alone", "startup", "startup public"}
suiteVars == <<focus, vars, barrierVars, filesVars, unitVars, containerVars, bootVars, startupVars>>

\* A behaviour is about one subject; the others stay in an initial state.
PartsInit ==
  /\ focus \in Subjects /\ Init
  /\ Executing!Init /\ UnitStep!Init
  /\ \/ focus # "file alone" /\ FileStep!Init
     \/ focus = "file alone" /\ FileStepLive!Init
  /\ focus \notin {"file", "file alone"} => dir.target = None
  /\ focus # "service" => kind = "start"
  /\ \/ focus # "container answered" /\ Container!Init
     \/ focus = "container answered" /\ ContainerLive!Init
  /\ \/ focus # "bootstrap alone" /\ Import!Init
     \/ focus = "bootstrap alone" /\ ImportLive!Init
  /\ \/ focus # "startup public" /\ Admission!Init
     \/ focus = "startup public" /\ Public!Init

PartsNext ==
  \/ focus = "gate" /\ Next /\ UNCHANGED <<focus, barrierVars, filesVars, unitVars,
       containerVars, bootVars, startupVars>>
  \/ focus = "gate executing" /\ Executing!Next /\ UNCHANGED <<focus, vars, filesVars, unitVars,
       containerVars, bootVars, startupVars>>
  \/ focus = "file" /\ FileStep!Next /\ UNCHANGED <<focus, vars, barrierVars, unitVars,
       containerVars, bootVars, startupVars>>
  \/ focus = "file alone" /\ FileStepLive!Next /\ UNCHANGED <<focus, vars, barrierVars,
       unitVars, containerVars, bootVars, startupVars>>
  \/ focus = "service" /\ UnitStep!Next /\ UNCHANGED <<focus, vars, barrierVars, filesVars,
       containerVars, bootVars, startupVars>>
  \/ focus = "container" /\ Container!Next /\ UNCHANGED <<focus, vars, barrierVars, filesVars,
       unitVars, bootVars, startupVars>>
  \/ focus = "container answered" /\ ContainerLive!Next /\ UNCHANGED <<focus, vars, barrierVars,
       filesVars, unitVars, bootVars, startupVars>>
  \/ focus = "bootstrap" /\ Import!Next /\ UNCHANGED <<focus, vars, barrierVars, filesVars,
       unitVars, containerVars, startupVars>>
  \/ focus = "bootstrap alone" /\ ImportLive!Next /\ UNCHANGED <<focus, vars, barrierVars,
       filesVars, unitVars, containerVars, startupVars>>
  \/ focus = "startup" /\ Admission!Next /\ UNCHANGED <<focus, vars, barrierVars, filesVars,
       unitVars, containerVars, bootVars>>
  \/ focus = "startup public" /\ Public!Next /\ UNCHANGED <<focus, vars, barrierVars, filesVars,
       unitVars, containerVars, bootVars>>

\* The fairness of a subject is that of its module.
PartsFairness ==
  /\ WF_filesVars(focus = "file alone" /\ FileStepLive!Preparation)
  /\ WF_filesVars(focus = "file alone" /\ FileStepLive!Publication)
  /\ WF_filesVars(focus = "file alone" /\ (FileStepLive!Restage \/ FileStepLive!SaveRestore))
  /\ WF_unitVars(focus = "service" /\ UnitStep!Observe)
  /\ WF_unitVars(focus = "service" /\ (UnitStep!Fork \/ UnitStep!ForkFails))
  /\ WF_unitVars(focus = "service" /\ UnitStep!JobEnds)
  /\ WF_unitVars(focus = "service" /\ UnitStep!CoordinatorStarts)
  /\ \A a \in UnitStep!Tries : WF_unitVars(focus = "service" /\ (UnitStep!Child(a) \/ UnitStep!ChildDies(a)))
  /\ \A a \in UnitStep!Tries : WF_unitVars(focus = "service" /\ UnitStep!NameLost(a))
  /\ \A a \in UnitStep!Tries : WF_unitVars(focus = "service" /\ UnitStep!Handle(a))
  /\ WF_containerVars(focus = "container answered" /\ ContainerLive!Attempt)
  /\ WF_containerVars(focus = "container answered" /\ ContainerLive!Reply)
  /\ WF_containerVars(focus = "container answered" /\ ContainerLive!Advance)
  /\ WF_containerVars(focus = "container answered" /\ ContainerLive!Finish)
  /\ WF_containerVars(focus = "container answered" /\ ContainerLive!Refuse)
  /\ WF_containerVars(focus = "container answered" /\ (\E r \in req : ContainerLive!Handle(r)))
  /\ WF_bootVars(focus = "bootstrap alone" /\ ImportLive!Import)
  /\ WF_startupVars(focus = "startup public" /\ Public!ServeExpires("gateway"))
  /\ WF_startupVars(focus = "startup public" /\ Public!Acknowledge("gateway"))
  /\ WF_startupVars(focus = "startup public" /\ Public!Ask("gateway", "public"))
  /\ WF_startupVars(focus = "startup public" /\ Public!NoManager("gateway"))
  /\ WF_startupVars(focus = "startup public" /\ (Public!Serve("gateway") \/ Public!ServeRefused("gateway")))
  /\ WF_startupVars(focus = "startup public" /\ (Public!Receive("gateway") \/ Public!Bind("gateway") \/ Public!Acknowledged("gateway") \/ Public!GiveUp("gateway")))
  /\ WF_startupVars(focus = "startup public" /\ (Public!Authorize \/ Public!AuthorizeRefused))
  /\ WF_startupVars(focus = "startup public" /\ Public!ManagerBind)

PartsSpec == PartsInit /\ [][PartsNext]_suiteVars /\ PartsFairness

-----------------------------------------------------------------------------

\* The original of a file is kept until its replacement is durable, a done
\* action is durable, and no conflict is reported without a foreign change
\* (FileAction); one attempt of a service action is in flight and a recorded
\* one is over (ServiceAction); a container is created once, nothing is in
\* flight after a decision, and a restored gateway is the original
\* (GatewayAction).
AdapterSafety ==
  /\ focus = "file" => FileStep!TypeOK /\ FileStep!OriginalKept /\ FileStep!DoneIsDurable
       /\ FileStep!NoFalseConflict
  /\ focus = "file alone" => FileStepLive!TypeOK
  /\ focus = "service" => UnitStep!TypeOK /\ UnitStep!OneInFlight /\ UnitStep!RecordedIsOver
  /\ focus = "container" => Container!TypeOK /\ Container!CreatedOnce /\ Container!RestoredClean
       /\ Container!NothingInFlight
  /\ focus = "container answered" => ContainerLive!TypeOK

\* The old dispatcher and the new one never accept work together, although a
\* reboot and administrators act on the old service, and of the import
\* everything is in force or nothing (Bootstrap).
ImportSafety ==
  /\ focus = "bootstrap" => Import!ImportSafety
  /\ focus = "bootstrap alone" => ImportLive!ImportSafety

\* An execution admitted since the last transition runs the selected
\* deployment, and what the barrier acknowledged survives a power loss
\* (MaintenanceGate).  A service that serves was selected, services of two
\* deployments never serve together, a permit admits one instance, and the
\* public port opens only after the release (Startup).
AdmissionSafety ==
  /\ focus = "gate" => TypeOK
  /\ focus = "gate executing" => Executing!TypeOK /\ Executing!AcknowledgedSurvives
       /\ Executing!AdmittedUnderSelected
  /\ focus = "startup" => Admission!StartupSafety
  /\ focus = "startup public" => Public!StartupSafety

\* No step of an action replaces a file of others (FileAction) or lets an
\* earlier attempt act (ServiceAction); the gate of an import opens only over a
\* quiet node and the import hides no work that changed after the plan
\* (Bootstrap).
DeploymentSteps ==
  [][/\ focus = "file" => FileStep!ForeignKept
     /\ focus = "service" => UnitStep!OnlyLatestActs
     /\ focus = "bootstrap" => Import!OpensQuiet /\ Import!NothingHidden]_suiteVars

\* File, service and container actions come to a decision over deaths and lost
\* replies (FileAction, ServiceAction, GatewayAction); an interrupted import is
\* released (Bootstrap); a public port closes after its selection was withdrawn
\* (Startup).
DeploymentSettles ==
  /\ focus = "file alone" => FileStepLive!Settles
  /\ focus = "service" => UnitStep!Decided
  /\ focus = "container answered" => ContainerLive!Settles
  /\ focus = "bootstrap alone" => ImportLive!Released
  /\ focus = "startup public" => Public!PublicCloses

=============================================================================
