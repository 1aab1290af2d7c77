---------------------------- MODULE MCExecution ----------------------------
\* The small instances of the modules about one task: the two ends of the mailbox
\* it may come through, its stages, its session, what is reserved for it, and the
\* evidence, downloads and archive it leaves.
\*
\* The modules share no state here, so the suite is their disjoint sum: each
\* behaviour is about one subject, which Init chooses.  The stages, module
\* StageRunner, are extended and their constants come from the configuration;
\* the constants of the others are given where they are instantiated.
EXTENDS StageRunner

CONSTANTS None

\* Slots of the reservation parts: work and evidence roots.
Root(p, i) == [path |-> p, inode |-> i]
Slot(i, work, evidence) == [id |-> i, roots |-> <<work, evidence>>]
One == Slot(1, Root(<<"w", "a">>, 1), Root(<<"e", "a">>, 2))
Two == Slot(2, Root(<<"w", "b">>, 3), Root(<<"e", "b">>, 4))
Three == Slot(3, Root(<<"w", "c">>, 5), Root(<<"e", "c">>, 6))
Below == Slot(4, Root(<<"w", "a", "x">>, 7), Root(<<"e", "d">>, 8))  \* below a root of One
Again == Slot(1, Root(<<"w", "a">>, 9), Root(<<"e", "a">>, 2))       \* One, rebound
Alias == Slot(5, Root(<<"w", "f">>, 10), Root(<<"e", "f">>, 4))      \* an inode of Two

JobAndRound == [j |-> "job", r |-> "reconcile"]
TwoJobs == [j |-> "job", r |-> "job"]
SourceRoots == <<<<"p">>, <<"q", "s">>>>
WrittenPaths == {<<"p">>, <<"p", "t">>, <<"q", "s", "t">>, <<"q", "u">>, <<"v">>}
StoreRoot == Root(<<"store">>, 11)
SomePool == <<One, Two, Three>>
OnePool == {SomePool}
ManyPools == {SomePool, <<Below, Alias, Three>>, <<Again, Two>>, <<One, Below>>}
SmallBudget == {[wall |-> 6, cpu |-> 9, log |-> 3, grace |-> 1]}
AllLosses == {"task", "reservation", "receipt", "marker", "database", "rollback", "replace"}

VARIABLE focus   \* the subject of this behaviour

\* One execution and its three stages, with failing deliveries, stops and observations and
\* one restart of the broker, is the module itself; and without faults.
RunnerLive == INSTANCE StageRunner WITH Faults <- FALSE

\* One task session: every order of packets without faults; and two deaths of the API with
\* failing exchanges.
VARIABLES job, prep, sessionBound, count, pend, sessionClosed, sessionUnit, ran, result, ses,
          adm, toAdm, toSes, crashes
sessionVars == <<job, prep, sessionBound, count, pend, sessionClosed, sessionUnit, ran, result,
  ses, adm, toAdm, toSes, crashes>>
Session == INSTANCE TaskSession WITH
  MaxCrashes <- 0, MayFail <- FALSE, bound <- sessionBound, closed <- sessionClosed,
  unit <- sessionUnit
SessionLive == INSTANCE TaskSession WITH
  MaxCrashes <- 2, MayFail <- TRUE, bound <- sessionBound, closed <- sessionClosed,
  unit <- sessionUnit

\* Budgets and root directories: a job and an observation round on a running clock; two jobs
\* under changing pools.
VARIABLES now, pool, plan, reservationRow, leases
reservationVars == <<now, pool, plan, reservationRow, leases>>
Shares == INSTANCE Reservation WITH
  Records <- {"j", "r"}, MaxClock <- 1, MaxBoots <- 1, Namespace <- JobAndRound,
  Budgets <- SmallBudget, Pools <- OnePool, Source <- SourceRoots, Writable <- WrittenPaths,
  Store <- StoreRoot, row <- reservationRow
Roots == INSTANCE Reservation WITH
  Records <- {"j", "r"}, MaxClock <- 0, MaxBoots <- 0, Namespace <- TwoJobs,
  Budgets <- SmallBudget, Pools <- ManyPools, Source <- SourceRoots, Writable <- WrittenPaths,
  Store <- StoreRoot, row <- reservationRow

\* The evidence store: two helpers seal two members; one member is sealed twice and read.
VARIABLES source, states, seq, staging, seal, storeLock, helper, storeReturned, registered,
          reader, served, listing, listed, epoch, storeFaults
storeVars == <<source, states, seq, staging, seal, storeLock, helper, storeReturned, registered,
  reader, served, listing, listed, epoch, storeFaults>>
Seal == INSTANCE EvidenceStore WITH
  Helpers <- {"h1", "h2"}, Members <- {"m1", "m2"}, Seals <- {1, 2}, MaxSeals <- 1,
  MaxWrites <- 1, MaxFaults <- 1, MaxSeq <- 1, lock <- storeLock, returned <- storeReturned,
  faults <- storeFaults
Read == INSTANCE EvidenceStore WITH
  Helpers <- {"h1"}, Members <- {"m1"}, Seals <- {1, 2}, MaxSeals <- 2, MaxWrites <- 0,
  MaxFaults <- 1, MaxSeq <- 1, lock <- storeLock, returned <- storeReturned,
  faults <- storeFaults

\* Two processes download one artifact of two chunks to one directory.
VARIABLES fits, binding, partial, kept, downloadJournal, journalKept, torn, final, finalKept,
          downloadLock, pc, offset, downloadReturned, refused, downloadFaults
downloadVars == <<fits, binding, partial, kept, downloadJournal, journalKept, torn, final,
  finalKept, downloadLock, pc, offset, downloadReturned, refused, downloadFaults>>
Download == INSTANCE EvidenceDownload WITH
  Writers <- {"w1", "w2"}, Size <- 2, BadServer <- TRUE, MaxFaults <- 3,
  journal <- downloadJournal, lock <- downloadLock, returned <- downloadReturned,
  faults <- downloadFaults

\* The archive of one task, with two interruptions, power losses or losses of retained state;
\* and one that is older than the filesystem bindings.
VARIABLES task, reservation, receipt, marker, archiveBound, fresh, db, dev, archiveCall,
          checkpoint, past, tokens, files, archiveFaults, executed, acked, lost
archiveVars == <<task, reservation, receipt, marker, archiveBound, fresh, db, dev, archiveCall,
  checkpoint, past, tokens, files, archiveFaults, executed, acked, lost>>
Archived == INSTANCE Archive WITH
  Tasks <- {"t1"}, Losses <- AllLosses, MaxFaults <- 2, MaxTokens <- 3, MaxFiles <- 2,
  Legacy <- FALSE, bound <- archiveBound, call <- archiveCall, faults <- archiveFaults
Adopted == INSTANCE Archive WITH
  Tasks <- {"t1"}, Losses <- AllLosses, MaxFaults <- 1, MaxTokens <- 3, MaxFiles <- 2,
  Legacy <- TRUE, bound <- archiveBound, call <- archiveCall, faults <- archiveFaults

\* The worker on one task id with two texts, one of them valid, with two early ends and two
\* foreign pushes.
VARIABLES mailboxRemote, mailboxView, mailboxLeft, outbox, mailboxReceipts, markers,
          mailboxPc, mailboxCur, new, queue, todo, back, attempt, mailboxExecuted, mailboxStops,
          foreign
mailboxVars == <<mailboxRemote, mailboxView, mailboxLeft, outbox, mailboxReceipts, markers,
  mailboxPc, mailboxCur, new, queue, todo, back, attempt, mailboxExecuted, mailboxStops,
  foreign>>
Worker == INSTANCE Mailbox WITH
  Tasks <- {"t"}, Digests <- {"d1", "d2"}, TaskOf <- [d \in {"d1", "d2"} |-> "t"],
  Valid <- {"d1"}, PushAttempts <- 2, MaxStops <- 2, MaxForeign <- 2, remote <- mailboxRemote,
  view <- mailboxView, left <- mailboxLeft, pc <- mailboxPc, cur <- mailboxCur,
  stops <- mailboxStops, receipts <- mailboxReceipts, executed <- mailboxExecuted

\* An applier and two compare-and-swap writers of one file, with one edit from outside.
VARIABLES text, synced, checkout, lease, writePc, seen, writeSaved, report, wrote, edits
writeVars == <<text, synced, checkout, lease, writePc, seen, writeSaved, report, wrote, edits>>
Write == INSTANCE WorkspaceWrite WITH
  Writers <- {"a", "b", "c"}, Appliers <- {"a"},
  Before <- [a |-> "old", b |-> "old", c |-> "new"],
  After <- [a |-> "new", b |-> "other", c |-> "newer"], Outside <- {"edited", "old"},
  MaxEdits <- 1, pc <- writePc, saved <- writeSaved

\* Two calls of the controller: two clones and two texts under one task id; one clone, one
\* text and a call that dies.
VARIABLES connectRemote, connectView, connectLeft, connectMarker, lock, connectCall, pushed,
          deaths
connectVars == <<connectRemote, connectView, connectLeft, connectMarker, lock, connectCall,
  pushed, deaths>>
TwoClones == INSTANCE Connect WITH
  Calls <- {"c1", "c2"}, Clones <- {"k1", "k2"}, CloneOf <- [c1 |-> "k1", c2 |-> "k2"],
  Digests <- {"d1", "d2"}, TaskOf <- [d \in {"d1", "d2"} |-> "t"],
  DigestOf <- [c1 |-> "d1", c2 |-> "d2"], Policies <- {"p1"}, PushAttempts <- 2, MaxOther <- 0,
  MaxDeaths <- 0, remote <- connectRemote, view <- connectView, left <- connectLeft,
  marker <- connectMarker, call <- connectCall
OneClone == INSTANCE Connect WITH
  Calls <- {"c1", "c2"}, Clones <- {"k1"}, CloneOf <- [c1 |-> "k1", c2 |-> "k1"],
  Digests <- {"d1", "d2"}, TaskOf <- [d \in {"d1", "d2"} |-> "t"],
  DigestOf <- [c1 |-> "d1", c2 |-> "d1"], Policies <- {"p1"}, PushAttempts <- 2, MaxOther <- 1,
  MaxDeaths <- 1, remote <- connectRemote, view <- connectView, left <- connectLeft,
  marker <- connectMarker, call <- connectCall

ASSUME PartsAssumption ==
  /\ RunnerAssumption /\ RunnerLive!RunnerAssumption
  /\ Session!SessionAssumption /\ SessionLive!SessionAssumption
  /\ Shares!BudgetAssumption /\ Roots!BudgetAssumption /\ Seal!StoreAssumption
  /\ Read!StoreAssumption /\ Download!SizeAssumption /\ Download!FaultsAssumption
  /\ Archived!BoundsAssumption /\ Archived!LegacyAssumption /\ Adopted!BoundsAssumption
  /\ Adopted!LegacyAssumption
  /\ Worker!TasksAssumption /\ Worker!BoundsAssumption /\ Write!WritersAssumption
  /\ Write!EditsAssumption /\ TwoClones!ConnectAssumption /\ OneClone!ConnectAssumption

Subjects == {"stages", "stages cancelled", "session", "session recovered", "shares", "roots",
  "sealing", "reading", "download", "archive", "archive adopted", "mailbox", "write", "clones",
  "clone shared"}
suiteVars == <<focus, vars, sessionVars, reservationVars, storeVars, downloadVars, archiveVars,
  mailboxVars, writeVars, connectVars>>

\* A behaviour is about one subject; the others stay in an initial state.
PartsInit ==
  /\ focus \in Subjects
  /\ Init /\ Download!Init /\ Worker!Init /\ Write!Init
  /\ \/ focus # "session recovered" /\ Session!Init
     \/ focus = "session recovered" /\ SessionLive!Init
  /\ \/ focus # "roots" /\ Shares!Init
     \/ focus = "roots" /\ Roots!Init
  /\ focus \notin {"shares", "roots"} => pool = SomePool
  /\ \/ focus # "reading" /\ Seal!Init
     \/ focus = "reading" /\ Read!Init
  /\ focus # "download" => fits
  /\ \/ focus # "archive adopted" /\ Archived!Init
     \/ focus = "archive adopted" /\ Adopted!Init
  /\ focus # "mailbox" => mailboxRemote.tasks["t"] = "d1"
  /\ focus # "write" => text = "old" /\ synced
  /\ \/ focus # "clone shared" /\ TwoClones!Init
     \/ focus = "clone shared" /\ OneClone!Init

PartsNext ==
  \/ focus = "stages" /\ Next /\ UNCHANGED <<focus, sessionVars, reservationVars, storeVars,
       downloadVars, archiveVars, mailboxVars, writeVars, connectVars>>
  \/ focus = "stages cancelled" /\ RunnerLive!Next /\ UNCHANGED <<focus, sessionVars,
       reservationVars, storeVars, downloadVars, archiveVars, mailboxVars, writeVars,
       connectVars>>
  \/ focus = "session" /\ Session!Next /\ UNCHANGED <<focus, vars, reservationVars, storeVars,
       downloadVars, archiveVars, mailboxVars, writeVars, connectVars>>
  \/ focus = "session recovered" /\ SessionLive!Next /\ UNCHANGED <<focus, vars,
       reservationVars, storeVars, downloadVars, archiveVars, mailboxVars, writeVars,
       connectVars>>
  \/ focus = "shares" /\ Shares!Next /\ UNCHANGED <<focus, vars, sessionVars, storeVars,
       downloadVars, archiveVars, mailboxVars, writeVars, connectVars>>
  \/ focus = "roots" /\ Roots!Next /\ UNCHANGED <<focus, vars, sessionVars, storeVars,
       downloadVars, archiveVars, mailboxVars, writeVars, connectVars>>
  \/ focus = "sealing" /\ Seal!Next /\ UNCHANGED <<focus, vars, sessionVars, reservationVars,
       downloadVars, archiveVars, mailboxVars, writeVars, connectVars>>
  \/ focus = "reading" /\ Read!Next /\ UNCHANGED <<focus, vars, sessionVars, reservationVars,
       downloadVars, archiveVars, mailboxVars, writeVars, connectVars>>
  \/ focus = "download" /\ Download!Next /\ UNCHANGED <<focus, vars, sessionVars,
       reservationVars, storeVars, archiveVars, mailboxVars, writeVars, connectVars>>
  \/ focus = "archive" /\ Archived!Next /\ UNCHANGED <<focus, vars, sessionVars,
       reservationVars, storeVars, downloadVars, mailboxVars, writeVars, connectVars>>
  \/ focus = "archive adopted" /\ Adopted!Next /\ UNCHANGED <<focus, vars, sessionVars,
       reservationVars, storeVars, downloadVars, mailboxVars, writeVars, connectVars>>
  \/ focus = "mailbox" /\ Worker!Next /\ UNCHANGED <<focus, vars, sessionVars, reservationVars,
       storeVars, downloadVars, archiveVars, writeVars, connectVars>>
  \/ focus = "write" /\ Write!Next /\ UNCHANGED <<focus, vars, sessionVars, reservationVars,
       storeVars, downloadVars, archiveVars, mailboxVars, connectVars>>
  \/ focus = "clones" /\ TwoClones!Next /\ UNCHANGED <<focus, vars, sessionVars,
       reservationVars, storeVars, downloadVars, archiveVars, mailboxVars, writeVars>>
  \/ focus = "clone shared" /\ OneClone!Next /\ UNCHANGED <<focus, vars, sessionVars,
       reservationVars, storeVars, downloadVars, archiveVars, mailboxVars, writeVars>>

\* The fairness of a subject is that of its module.
PartsFairness ==
  /\ WF_vars(focus = "stages cancelled" /\ RunnerLive!GateOpens)
  /\ WF_vars(focus = "stages cancelled" /\ RunnerLive!Stop)
  /\ WF_vars(focus = "stages cancelled" /\ RunnerLive!Attach)
  /\ WF_vars(focus = "stages cancelled" /\ RunnerLive!CancelledEarly)
  /\ \A s \in RunnerLive!Stages : WF_vars(focus = "stages cancelled" /\ RunnerLive!Observe(s))
  /\ \A s \in RunnerLive!Stages : WF_vars(focus = "stages cancelled" /\ RunnerLive!StopUnit(s))
  /\ \A s \in RunnerLive!Stages : WF_vars(focus = "stages cancelled" /\ RunnerLive!Finish(s))
  /\ \A s \in RunnerLive!Stages : WF_vars(focus = "stages cancelled" /\ RunnerLive!UnitStarts(s))
  /\ \A s \in RunnerLive!Stages : WF_vars(focus = "stages cancelled" /\ RunnerLive!ClientExits(s))
  /\ \A s \in RunnerLive!Stages : WF_vars(focus = "stages cancelled" /\ RunnerLive!DeliverRefused(s))
  /\ \A s \in RunnerLive!Stages : WF_vars(focus = "stages cancelled" /\ RunnerLive!NeverDelivered(s))
  /\ WF_vars(focus = "stages cancelled" /\ RunnerLive!Conclude)
  /\ WF_vars(focus = "stages cancelled" /\ RunnerLive!ConcludeRecovered)
  /\ WF_sessionVars(focus = "session recovered" /\ SessionLive!Session)
  /\ WF_sessionVars(focus = "session recovered" /\ SessionLive!Administrator)
  /\ WF_sessionVars(focus = "session recovered" /\ SessionLive!Recovery)
  /\ WF_sessionVars(focus = "session recovered" /\ SessionLive!Deliver)
  /\ WF_sessionVars(focus = "session recovered" /\ SessionLive!Launch)
  /\ WF_sessionVars(focus = "session recovered" /\ SessionLive!UnitEnds)
  /\ SF_sessionVars(focus = "session recovered" /\ SessionLive!RecordExit)
  /\ SF_sessionVars(focus = "session recovered" /\ SessionLive!SettlePass)
  /\ WF_sessionVars(focus = "session recovered" /\ (SessionLive!Fail /\ adm.at = "broken"))
  /\ WF_sessionVars(focus = "session recovered" /\ (SessionLive!Die /\ SessionLive!Failed))
  /\ WF_mailboxVars(focus = "mailbox" /\ Worker!Worker)

PartsSpec == PartsInit /\ [][PartsNext]_suiteVars /\ PartsFairness

-----------------------------------------------------------------------------

\* The shares of phases and stages fit the budget they are cut from, a recorded
\* state stays acceptable to later calls, a root is consumed once whatever
\* pools are declared, and writes stay inside the roots (Reservation).
BudgetSafety ==
  /\ focus = "shares" => Shares!BudgetSafety
  /\ focus = "roots" => Roots!BudgetSafety

\* A task ends with what really ran, and its evidence is whole.  The two ends
\* of a task session never disagree about the protocol, and a task whose API
\* died ends with what really ran (TaskSession).  A seal shows its members as
\* of one moment, is durable before it is registered, is served unchanged, and
\* its attempts keep within the retention (EvidenceStore); a checkpoint counts
\* only bytes on disk (EvidenceDownload); a task is archived in one version
\* (Archive).
TaskSafety ==
  /\ focus = "session" => Session!TypeOK /\ Session!NoProtocolFailure
  /\ focus = "session recovered" => SessionLive!TypeOK /\ SessionLive!HonestEnd
  /\ focus = "sealing" => Seal!TypeOK /\ Seal!RetentionBounded /\ Seal!SealedIsOneMoment
       /\ Seal!RegisteredIsDurable
  /\ focus = "reading" => Read!TypeOK /\ Read!ServedIsSealed
  /\ focus = "download" => Download!TypeOK /\ Download!CheckpointCovered
  /\ focus = "archive" => Archived!TypeOK /\ Archived!OneVersion
  /\ focus = "archive adopted" => Adopted!TypeOK

\* A text is executed at most once and its results are true, over crashes and
\* accepted pushes whose answer is lost (Mailbox); a file is written only in an
\* admitted attempt (WorkspaceWrite); a success the controller reports is the
\* worker's, what it acknowledges is on the branch, and what it refuses for
\* certain was never sent (Connect).
MailboxSafety ==
  /\ focus = "mailbox" => Worker!TypeOK /\ Worker!ExecutedOnce /\ Worker!ResultsAreTrue
  /\ focus = "write" => Write!TypeOK /\ Write!WriteIsAdmitted
  /\ focus = "clones" => TwoClones!TypeOK /\ TwoClones!SuccessIsTrue
  /\ focus = "clone shared" => OneClone!TypeOK /\ OneClone!AcknowledgedIsPublished
       /\ OneClone!RefusedIsUnsent

\* A reattached broker delivers no stage (StageRunner); no phase is bound or
\* advanced after a cancellation, nor out of order (TaskSession); no step gives
\* back a share, a deadline or a root (Reservation).
ExecutionSteps ==
  [][/\ focus = "stages" => ReattachDeliversNothing
     /\ focus = "session" => Session!NothingAfterCancel
     /\ focus = "shares" => Shares!NeverRefunded]_suiteVars

\* A download returns only a whole, synchronised file (EvidenceDownload).  The
\* ledger commits only what durable records cover, an acknowledged archive is
\* never replaced by an empty one, a confirmed operation is not executed again,
\* and a store is certified only when nothing acknowledged is missing
\* (Archive).
EvidenceSteps ==
  [][/\ focus = "download" => Download!ReturnedIsWhole
     /\ focus = "archive" => Archived!CommitIsCovered /\ Archived!NeverRecreated
          /\ Archived!ConfirmedOnce
     /\ focus = "archive adopted" => Adopted!CertifiedIsComplete]_suiteVars

\* No result and no task on the branch is replaced (Mailbox, Connect); a
\* success is not read from a snapshot that also holds a conflict (Connect); a
\* write replaces only the text it expects, and an application is reported only
\* when it is on disk (WorkspaceWrite).
MailboxSteps ==
  [][/\ focus = "mailbox" => Worker!NeverReplaced
     /\ focus = "write" => Write!NoLostUpdate /\ Write!AppliedIsDurable
     /\ focus = "clones" => TwoClones!NeverReplaced /\ TwoClones!SuccessUnqualified]_suiteVars

\* A cancelled execution ends, also over a restart of the broker (StageRunner);
\* a task whose API dies and whose exchanges fail comes to its end
\* (TaskSession); an executed text is answered and a difference is reported
\* (Mailbox).
TasksEnd ==
  /\ focus = "stages cancelled" => RunnerLive!CancelEnds
  /\ focus = "session recovered" => SessionLive!Ends
  /\ focus = "mailbox" => Worker!ExecutionAnswered /\ Worker!DifferenceIsReported

=============================================================================
