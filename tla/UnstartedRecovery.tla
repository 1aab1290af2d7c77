------------------------- MODULE UnstartedRecovery -------------------------
(***************************************************************************)
(* An administrator completes a task that was prepared and never           *)
(* dispatched (unstarted_recovery.py).  A root process reads the retained  *)
(* records and forks an unprivileged worker; the worker takes the          *)
(* authority lock and examines the ledger row; root, told that the lock is *)
(* held, observes the host twice around a second reading of the records    *)
(* and only then lets the worker commit.  Root keeps a verdict only after  *)
(* the worker has exited with success; in every other case it records      *)
(* UNCONFIRMED and kills the worker, which may already have committed.     *)
(*                                                                         *)
(* Around it: the task's own controller, which holds the same lock while   *)
(* it prepares, dispatches, is cancelled or recovers, other administrators *)
(* running the same tool, a unit that is started again, management         *)
(* processes that outlive the controller, killed processes and a reboot.   *)
(***************************************************************************)
EXTENDS Naturals, FiniteSets

CONSTANTS Runs,       \* the administrators that run the tool
          Applying,   \* the ones that pass --apply
          None,
          MaxStarts,  \* how often the controller's unit is started
          MaxFaults   \* killed processes and expired windows, together

RecoveryAssumption ==
  /\ Applying \subseteq Runs /\ MaxStarts \in Nat /\ MaxFaults \in Nat

VARIABLES row,   \* the task's row in the ledger
          ctl,   \* the controller's unit: its invocation, is it active
          host,  \* what runs outside it, and whether the boot is the first
          rec,   \* the retained records: the published serial, finished.json
          lock,  \* who holds the authority lock
          root,  \* per run: where the root process is
          wk,    \* per run: where its worker is
          wire,  \* per run: what the channel carries each way, the answer to be sent
          late,  \* per run: the window has expired
          verdict,  \* per run: what its archive says in the end
          faults

vars == <<row, ctl, host, rec, lock, root, wk, wire, late, verdict, faults>>
runs == <<root, wk, wire, late, verdict>>

Completed == {"RECOVERED_BEFORE_START", "ALREADY_COMPLETED"}
Verdicts == Completed \cup {"CHECKED_ONLY", "UNCONFIRMED", None}
RootAt == {"idle", "awaitLock", "observed", "rechecked", "awaitResult",
           "awaitExit", "reaping", "gone"}
WorkerAt == {"none", "forked", "dropped", "holding", "locked", "committing",
             "committed", "closing", "exited", "failed"}
Silent == [toRoot |-> None, toWorker |-> None, answer |-> None]

Init ==
  /\ row = [life |-> "ACTIVE", intent |-> FALSE, cancel |-> FALSE, by |-> None]
  /\ ctl = [inv |-> 1, up |-> TRUE]
  /\ host = [exec |-> FALSE, mgmt |-> FALSE, launched |-> FALSE, sameBoot |-> TRUE]
  /\ rec = [serial |-> 1, finished |-> FALSE]
  /\ lock = "controller"
  /\ root = [r \in Runs |-> "idle"] /\ wk = [r \in Runs |-> "none"]
  /\ wire = [r \in Runs |-> Silent] /\ late = [r \in Runs |-> FALSE]
  /\ verdict = [r \in Runs |-> None] /\ faults = 0

-----------------------------------------------------------------------------
(* The task's controller: the authority lock is its for as long as it runs. *)

Holds == ctl.up /\ lock = "controller"
Open == row.life # "TERMINAL"

\* A quota preparation starts management processes; it is no dispatch.
PrepareQuota ==
  /\ Holds /\ Open /\ ctl.inv = 1 /\ ~row.intent
  /\ host' = [host EXCEPT !.mgmt = TRUE]
  /\ UNCHANGED <<row, ctl, rec, lock, runs, faults>>

\* The delivery intent is durable before the manager starts anything.
Intend ==
  /\ Holds /\ row.life = "ACTIVE" /\ ctl.inv = 1 /\ ~row.intent /\ ~row.cancel
  /\ row' = [row EXCEPT !.intent = TRUE]
  /\ UNCHANGED <<ctl, host, rec, lock, runs, faults>>

Launch ==
  /\ Holds /\ row.intent /\ ctl.inv = 1 /\ ~host.launched
  /\ host' = [host EXCEPT !.exec = TRUE, !.launched = TRUE]
  /\ UNCHANGED <<row, ctl, rec, lock, runs, faults>>

Unknown ==
  /\ Holds /\ Open
  /\ row' = [row EXCEPT !.life = "RECONCILE_REQUIRED"]
  /\ UNCHANGED <<ctl, host, rec, lock, runs, faults>>

Cancel ==
  /\ Holds /\ Open
  /\ row' = [row EXCEPT !.cancel = TRUE]
  /\ UNCHANGED <<ctl, host, rec, lock, runs, faults>>

\* What the one transaction makes of a row: a terminal one is left alone, a
\* dispatched one is refused.
Finishable == Open => ~row.intent
Finished(who) == IF Open THEN [row EXCEPT !.life = "TERMINAL", !.by = who] ELSE row

\* A recovery session finishes the task once the surviving manager has proved
\* its execution parent empty.
SessionFinishes ==
  /\ Holds /\ ctl.inv > 1 /\ ~host.exec /\ Finishable
  /\ row' = Finished("controller")
  /\ UNCHANGED <<ctl, host, rec, lock, runs, faults>>

ControllerExits ==
  /\ ctl.up
  /\ ctl' = [ctl EXCEPT !.up = FALSE]
  /\ lock' = IF lock = "controller" THEN None ELSE lock
  /\ UNCHANGED <<row, host, rec, runs, faults>>

ControllerStarts ==
  /\ ~ctl.up /\ ctl.inv < MaxStarts /\ host.sameBoot
  /\ ctl' = [inv |-> ctl.inv + 1, up |-> TRUE]
  /\ UNCHANGED <<row, host, rec, lock, runs, faults>>

ControllerLocks ==
  /\ ctl.up /\ lock = None
  /\ lock' = "controller"
  /\ UNCHANGED <<row, ctl, host, rec, runs, faults>>

\* finished.json: the pipes ended and the waiting client exited, with any code;
\* the unit may still be there.
RecordFinished ==
  /\ ~rec.finished
  /\ rec' = [rec EXCEPT !.finished = TRUE]
  /\ UNCHANGED <<row, ctl, host, lock, runs, faults>>

Republish ==
  /\ rec.serial = 1 /\ ctl.inv > 1
  /\ rec' = [rec EXCEPT !.serial = 2]
  /\ UNCHANGED <<row, ctl, host, lock, runs, faults>>

ProcessesEnd ==
  /\ host.exec \/ host.mgmt
  /\ \E e \in BOOLEAN, m \in BOOLEAN :
        /\ (e => host.exec) /\ (m => host.mgmt)
        /\ <<e, m>> # <<host.exec, host.mgmt>>
        /\ host' = [host EXCEPT !.exec = e, !.mgmt = m]
  /\ UNCHANGED <<row, ctl, rec, lock, runs, faults>>

-----------------------------------------------------------------------------
(* What root and the worker examine. *)

\* The READY record the administrator named, its controller's end of stream
\* and a manager that closed without a stage.
Retained == rec.serial = 1 /\ rec.finished /\ ~host.launched

\* The original invocation, inactive: a unit started again has another one.
ControllerStopped == ctl = [inv |-> 1, up |-> FALSE]

Observe == host.sameBoot /\ ControllerStopped /\ ~host.exec /\ ~host.mgmt

CheckRow ==
  IF row.intent \/ row.cancel THEN "refused"
  ELSE CASE row.life = "TERMINAL" /\ row.by # None -> "done"
         [] row.life = "RECONCILE_REQUIRED" -> "unstarted"
         [] OTHER -> "refused"

Acquirable == lock = None

-----------------------------------------------------------------------------
(* The worker of run r. *)

Dropped(r) == IF lock = r THEN None ELSE lock
Move(r, from, to) == wk[r] = from /\ wk' = [wk EXCEPT ![r] = to]
Tell(r, m) == wire' = [wire EXCEPT ![r].toRoot = m]
HostSame == UNCHANGED <<ctl, host, rec>>

WorkerDrops(r) ==
  /\ Move(r, "forked", "dropped")
  /\ HostSame /\ UNCHANGED <<row, lock, root, wire, late, verdict, faults>>

WorkerLocks(r) ==
  /\ Move(r, "dropped", "holding") /\ Acquirable
  /\ lock' = r
  /\ HostSame /\ UNCHANGED <<row, root, wire, late, verdict, faults>>

WorkerChecks(r) ==
  /\ Move(r, "holding", "locked") /\ CheckRow # "refused" /\ ~late[r]
  /\ Tell(r, "locked")
  /\ HostSame /\ UNCHANGED <<row, lock, root, late, verdict, faults>>

\* The reply has come in time; the row is examined again before it is
\* completed, and not at all when nothing is to be applied.
WorkerContinues(r) ==
  /\ wk[r] = "locked" /\ wire[r].toWorker = "quiescent" /\ ~late[r]
  /\ r \in Applying => CheckRow # "refused"
  /\ IF r \in Applying /\ CheckRow = "unstarted"
     THEN /\ wk' = [wk EXCEPT ![r] = "committing"]
          /\ UNCHANGED wire
     ELSE /\ wk' = [wk EXCEPT ![r] = "closing"]
          /\ wire' = [wire EXCEPT ![r].answer =
                        IF r \in Applying THEN "ALREADY_COMPLETED" ELSE "CHECKED_ONLY"]
  /\ HostSame /\ UNCHANGED <<row, lock, root, late, verdict, faults>>

WorkerCommits(r) ==
  /\ Move(r, "committing", "committed") /\ Finishable
  /\ row' = Finished(r)
  /\ HostSame /\ UNCHANGED <<lock, root, wire, late, verdict, faults>>

WorkerVerifies(r) ==
  /\ Move(r, "committed", "closing") /\ CheckRow = "done"
  /\ wire' = [wire EXCEPT ![r].answer = "RECOVERED_BEFORE_START"]
  /\ HostSame /\ UNCHANGED <<row, lock, root, late, verdict, faults>>

\* The lock is given back before the result is sent.
WorkerAnswers(r) ==
  /\ Move(r, "closing", "exited") /\ ~late[r] /\ root[r] # "gone"
  /\ Tell(r, wire[r].answer)
  /\ lock' = Dropped(r)
  /\ HostSame /\ UNCHANGED <<row, root, late, verdict, faults>>

\* The worker's code refuses, its window has passed or root is gone.
WorkerMustFail(r) ==
  \/ wk[r] = "dropped" /\ ~Acquirable
  \/ wk[r] = "holding" /\ (CheckRow = "refused" \/ late[r])
  \/ wk[r] = "locked" /\ \/ late[r]
                         \/ root[r] = "gone" /\ wire[r].toWorker = None
                         \/ /\ wire[r].toWorker = "quiescent"
                            /\ r \in Applying /\ CheckRow = "refused"
  \/ wk[r] = "committing" /\ ~Finishable
  \/ wk[r] = "committed" /\ CheckRow # "done"
  \/ wk[r] = "closing" /\ (late[r] \/ root[r] = "gone")

WorkerFails(r) ==
  /\ WorkerMustFail(r)
  /\ wk' = [wk EXCEPT ![r] = "failed"] /\ Tell(r, "error")
  /\ lock' = Dropped(r)
  /\ HostSame /\ UNCHANGED <<row, root, late, verdict, faults>>

-----------------------------------------------------------------------------
(* The root process of run r. *)

\* The window, the channel and the archive are new; so is the worker.
Begin(r) ==
  /\ root[r] = "idle" /\ wk[r] \in {"none", "failed", "exited"}
  /\ Retained /\ host.sameBoot
  /\ root' = [root EXCEPT ![r] = "awaitLock"] /\ wk' = [wk EXCEPT ![r] = "forked"]
  /\ wire' = [wire EXCEPT ![r] = Silent] /\ late' = [late EXCEPT ![r] = FALSE]
  /\ verdict' = [verdict EXCEPT ![r] = None]
  /\ HostSame /\ UNCHANGED <<row, lock, faults>>

RootMoves(r, from, to) ==
  /\ root[r] = from /\ root' = [root EXCEPT ![r] = to]
  /\ HostSame /\ UNCHANGED <<row, lock, wk, late, verdict, faults>>

ObserveFirst(r) ==
  /\ wire[r].toRoot = "locked" /\ ~late[r] /\ Observe
  /\ RootMoves(r, "awaitLock", "observed") /\ UNCHANGED wire

Recheck(r) == Retained /\ RootMoves(r, "observed", "rechecked") /\ UNCHANGED wire

ObserveAgain(r) ==
  /\ Observe /\ ~late[r]
  /\ RootMoves(r, "rechecked", "awaitResult")
  /\ wire' = [wire EXCEPT ![r] = [Silent EXCEPT !.toWorker = "quiescent"]]

ReadResult(r) ==
  /\ wire[r].toRoot \in IF r \in Applying THEN Completed ELSE {"CHECKED_ONLY"}
  /\ ~late[r]
  /\ RootMoves(r, "awaitResult", "awaitExit") /\ UNCHANGED wire

SaveResult(r) ==
  /\ root[r] = "awaitExit" /\ wk[r] = "exited" /\ ~late[r]
  /\ verdict' = [verdict EXCEPT ![r] = wire[r].toRoot]
  /\ root' = [root EXCEPT ![r] = "idle"]
  /\ HostSame /\ UNCHANGED <<row, lock, wk, wire, late, faults>>

\* A read that times out or finds an error, a killed worker, a host that is not
\* quiescent, records that changed.
RootMustFail(r) ==
  \/ late[r] /\ root[r] \notin {"idle", "observed", "reaping", "gone"}
  \/ root[r] \in {"awaitLock", "awaitResult", "awaitExit"} /\ wk[r] = "failed"
  \/ root[r] = "awaitLock" /\ wire[r].toRoot = "locked" /\ ~Observe
  \/ root[r] = "observed" /\ ~Retained
  \/ root[r] = "rechecked" /\ ~Observe

GiveUp(r) ==
  /\ verdict' = [verdict EXCEPT ![r] = "UNCONFIRMED"]
  /\ root' = [root EXCEPT ![r] = "reaping"]
  /\ HostSame /\ UNCHANGED <<row, lock, wk, wire, late>>

RootFails(r) == RootMustFail(r) /\ GiveUp(r) /\ UNCHANGED faults

\* The worker is killed wherever it is; its transaction is whole or absent.
Reap(r) ==
  /\ root[r] = "reaping"
  /\ root' = [root EXCEPT ![r] = "idle"] /\ wk' = [wk EXCEPT ![r] = "none"]
  /\ lock' = Dropped(r)
  /\ HostSame /\ UNCHANGED <<row, wire, late, verdict, faults>>

-----------------------------------------------------------------------------
(* Faults. *)

Busy(r) == root[r] \notin {"idle", "gone"}
Fault == faults < MaxFaults /\ faults' = faults + 1

\* A query of the host or a write of the archive fails.
RootErrs(r) == Fault /\ Busy(r) /\ root[r] # "reaping" /\ GiveUp(r)

Expire(r) ==
  /\ Fault /\ Busy(r) /\ ~late[r]
  /\ late' = [late EXCEPT ![r] = TRUE]
  /\ HostSame /\ UNCHANGED <<row, lock, root, wk, wire, verdict>>

WorkerKilled(r) ==
  /\ Fault /\ wk[r] \notin {"none", "exited", "failed"}
  /\ wk' = [wk EXCEPT ![r] = "failed"] /\ lock' = Dropped(r)
  /\ HostSame /\ UNCHANGED <<row, root, wire, late, verdict>>

RootKilled(r) ==
  /\ Fault /\ Busy(r)
  /\ root' = [root EXCEPT ![r] = "gone"]
  /\ HostSame /\ UNCHANGED <<row, lock, wk, wire, late, verdict>>

\* The administrator comes back once the orphaned worker has ended.
ComeBack(r) ==
  /\ root[r] = "gone" /\ wk[r] \in {"none", "exited", "failed"}
  /\ root' = [root EXCEPT ![r] = "idle"]
  /\ HostSame /\ UNCHANGED <<row, lock, wk, wire, late, verdict, faults>>

Reboot ==
  /\ Fault /\ host.sameBoot
  /\ ctl' = [ctl EXCEPT !.up = FALSE] /\ lock' = None
  /\ host' = [host EXCEPT !.exec = FALSE, !.mgmt = FALSE, !.sameBoot = FALSE]
  /\ root' = [r \in Runs |-> "idle"] /\ wk' = [r \in Runs |-> "none"]
  /\ UNCHANGED <<row, rec, wire, late, verdict>>

WorkerStep(r) ==
  \/ WorkerDrops(r) \/ WorkerLocks(r) \/ WorkerChecks(r) \/ WorkerContinues(r)
  \/ WorkerCommits(r) \/ WorkerVerifies(r) \/ WorkerAnswers(r) \/ WorkerFails(r)
RootStep(r) ==
  \/ ObserveFirst(r) \/ Recheck(r) \/ ObserveAgain(r) \/ ReadResult(r)
  \/ SaveResult(r) \/ RootFails(r) \/ Reap(r) \/ ComeBack(r)

Next ==
  \/ PrepareQuota \/ Intend \/ Launch \/ Unknown \/ Cancel \/ SessionFinishes
  \/ ControllerExits \/ ControllerStarts \/ ControllerLocks \/ RecordFinished
  \/ Republish \/ ProcessesEnd \/ Reboot
  \/ \E r \in Runs : \/ Begin(r) \/ WorkerStep(r) \/ RootStep(r)
                     \/ RootErrs(r) \/ Expire(r)
                     \/ WorkerKilled(r) \/ RootKilled(r)

Spec == Init /\ [][Next]_vars

\* The processes go on, the helpers of a preparation end, and an administrator
\* told UNCONFIRMED runs the tool again.
FairSpec ==
  /\ Spec /\ WF_vars(ProcessesEnd)
  /\ \A r \in Runs : /\ WF_vars(WorkerStep(r)) /\ WF_vars(RootStep(r))
                     /\ WF_vars(Begin(r))

-----------------------------------------------------------------------------
(* Properties. *)

\* The values the code can hold, and at most one holder of the lock that is a
\* live process (the exclusive flock of AuthorityLock).
TypeOK ==
  /\ row \in [life : {"ACTIVE", "RECONCILE_REQUIRED", "TERMINAL"}, intent : BOOLEAN,
              cancel : BOOLEAN, by : Runs \cup {"controller", None}]
  /\ ctl \in [inv : 1..MaxStarts, up : BOOLEAN]
  /\ host \in [exec : BOOLEAN, mgmt : BOOLEAN, launched : BOOLEAN, sameBoot : BOOLEAN]
  /\ rec \in [serial : 1..2, finished : BOOLEAN]
  /\ lock \in Runs \cup {"controller", None}
  /\ root \in [Runs -> RootAt] /\ wk \in [Runs -> WorkerAt]
  /\ verdict \in [Runs -> Verdicts] /\ late \in [Runs -> BOOLEAN]
  /\ faults \in 0..MaxFaults
  /\ \A r \in Runs : lock = r <=>
       wk[r] \in {"holding", "locked", "committing", "committed", "closing"}

\* A worker completes the row only while nothing of the task runs: no stage, no
\* management process of its preparation, on the boot the task was bound to.
\* Root's observation is older than the commit; the lock keeps it true.
QuietWhenCompleted ==
  \A r \in Runs : row.by # r /\ row'.by = r =>
     ~host.exec /\ ~host.mgmt /\ host.sameBoot /\ lock = r

\* A task that was dispatched or whose cancellation was requested is never
\* completed as one that did not start, whatever the controller's unit did
\* between the two examinations of the row.
CompletedUntouched == row.by \in Runs => ~row.intent /\ ~row.cancel

\* A saved result is what happened: the run that reports the recovery made it,
\* one that reports an earlier completion found one, one that only checked
\* changed nothing.  UNCONFIRMED promises neither.
VerdictTrue ==
  \A r \in Runs :
    /\ verdict[r] = "RECOVERED_BEFORE_START" => row.by = r
    /\ verdict[r] = "ALREADY_COMPLETED" => row.life = "TERMINAL" /\ row.by # None
    /\ verdict[r] = "CHECKED_ONLY" => row.by # r

\* The task can be recovered: what the examinations ask for holds.
Recoverable ==
  /\ Retained /\ host.sameBoot /\ ControllerStopped
  /\ ~row.intent /\ ~row.cancel /\ row.life # "ACTIVE"
Reported == \E r \in Runs : verdict[r] \in Completed
\* A task that can be recovered is in the end reported as completed, by the run
\* that committed or, when that one was killed after its commit, by a later one.
ReportedInTheEnd == Recoverable ~> Reported \/ ~Recoverable
=============================================================================
