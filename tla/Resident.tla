------------------------------ MODULE Resident ------------------------------
(***************************************************************************)
(* The preparation service of admin/local_hand_system_manager/             *)
(* resident_service.py.  For every task it keeps one private record,       *)
(* current.json, and a public copy of it in the catalog; every preparation *)
(* is an attempt with a serial of its own, a directory of evidence, a      *)
(* systemd unit that does the work, and a responsibility (duty) at the     *)
(* maintenance gate.  One worker thread at a time delivers a preparation;  *)
(* everything else happens under the service's fence.                      *)
(*                                                                         *)
(* A call that both settles an old preparation and admits a new one is the *)
(* action Settle followed by Admit; a call that reconciles several duties  *)
(* is one Reconcile for each of them.  A refused call changes nothing.     *)
(* The launch of a controller is one step here; module Launcher has its    *)
(* details.  A start request of systemd-run is not left queued in the      *)
(* manager once systemd-run is gone.                                       *)
(***************************************************************************)
EXTENDS Naturals, FiniteSets, FiniteSetsExt

CONSTANTS
  Ops,           \* tasks (operation ids)
  MaxSerial,     \* attempts that fit into the quota project range
  MaxStops,      \* bound: crashes and reboots explored (not in the code)
  MaxFaults,     \* bound: failed commits and replies explored (not in the code)
  SyncLoss,      \* whether a rename may be visible although its call failed
  Compatible     \* the maintenance owner lets a new deployment execute what
                 \* an older one prepared (authorize_compatibility)

SerialAssumption == MaxSerial \in Nat \ {0} /\ MaxStops \in Nat /\ MaxFaults \in Nat
SyncLossAssumption == SyncLoss \in BOOLEAN /\ Compatible \in BOOLEAN

Serials == 1..MaxSerial
AttemptKeys == Ops \X Serials

VARIABLES
  duty,      \* the gate's responsibility for each attempt
  disk,      \* current.json of each task
  catalog,   \* the public copy
  file,      \* evidence in each attempt's directory
  unit,      \* the preparation unit of each attempt
  ctl,       \* the controller of each attempt and its records
  mem,       \* the service's records
  pending,   \* tasks whose READY publication is uncertain
  call,      \* the prepare call that holds the fence between two commits
  worker,    \* the preparation thread
  up,        \* the service runs
  host,      \* boot and loaded deployment of the service
  stops,     \* crashes and reboots so far
  faults     \* failed commits and replies so far

vars == <<duty, disk, catalog, file, unit, ctl, mem, pending, call,
          worker, up, host, stops, faults>>

-----------------------------------------------------------------------------
DutyStates == {"NONE", "ACCEPTED", "DISPATCHING", "never_dispatched", "process_exited"}
Unsettled == {"ACCEPTED", "DISPATCHING"}
Hosts == [boot : 0..MaxStops, version : 0..MaxStops]
First == [boot |-> 0, version |-> 0]
NoRecord == [state |-> "NONE", serial |-> 0, host |-> First]
Record == [state : {"NONE", "PREPARING", "FAILED", "READY"},
           serial : 0..MaxSerial, host : Hosts]

\* Evidence of one attempt: directory, preparation-delivery.json, the return
\* code in preparation-exit.json, preparation-not-started.json, result.json,
\* and whether the request in the result has expired.
Evidence == [dir : BOOLEAN, delivery : BOOLEAN, exit : {"none", "zero", "failed"},
             unstarted : BOOLEAN, result : BOOLEAN, expired : BOOLEAN]
NoEvidence == [dir |-> FALSE, delivery |-> FALSE, exit |-> "none",
               unstarted |-> FALSE, result |-> FALSE, expired |-> FALSE]

\* A controller: its unit, launch-intent.json, finished.json, whether this
\* service still collects its output, whether its broker committed the task.
Controller == [unit : {"none", "active", "closed"}, intent : BOOLEAN,
               finished : {"none", "zero", "failed"}, attached : BOOLEAN,
               committed : BOOLEAN]
NoController == [unit |-> "none", intent |-> FALSE, finished |-> "none",
                 attached |-> FALSE, committed |-> FALSE]

NoCall == [pc |-> "idle", op |-> CHOOSE o \in Ops : TRUE, serial |-> 0]
Idle == [pc |-> "none", op |-> CHOOSE o \in Ops : TRUE, serial |-> 0,
         delivered |-> FALSE, exited |-> FALSE, closed |-> FALSE]

\* unit_closed and _observe_unit_active: neither active nor queued.
UnitActive(k) == unit[k] = "active"

Key(r) == <<r.op, r.serial>>
Current(o) == <<o, mem[o].serial>>
Faulty(outcome) ==
  LET n == IF outcome = "ok" THEN 0 ELSE 1
  IN faults + n <= MaxFaults /\ faults' = faults + n
Fence == up /\ call.pc = "idle"
WorkerAlive == worker.pc # "none"

-----------------------------------------------------------------------------
(* Publication of current.json and of the catalog (_save, _catalog).        *)

\* confirm_publication fails: nobody knows which of the two the name holds.
Unconfirmed(r, o) == {disk, [disk EXCEPT ![o] = r]}

\* _save: "ok"; "unpublished": the private record was replaced (a READY one
\* confirmed), the catalog was not; "visible": the rename happened but its call
\* failed and the memory keeps the old record; "failed": nothing happened.  An
\* unconfirmed READY is pinned: nobody knows whether the rename took place.
Save(r, o, outcome) ==
  LET new == outcome \in {"ok", "unpublished"} IN
  /\ o \notin pending /\ Faulty(outcome)
  /\ outcome = "visible" => SyncLoss
  /\ catalog' = IF outcome = "ok" THEN [catalog EXCEPT ![o] = r] ELSE catalog
  /\ mem' = IF new THEN [mem EXCEPT ![o] = r] ELSE mem
  /\ \/ new /\ disk' = [disk EXCEPT ![o] = r] /\ pending' = pending
     \/ outcome = "failed" /\ UNCHANGED <<disk, pending>>
     \/ /\ outcome = "visible" /\ r.state # "READY"
        /\ disk' = [disk EXCEPT ![o] = r] /\ pending' = pending
     \/ /\ outcome = "visible" /\ r.state = "READY"
        /\ disk' \in Unconfirmed(r, o)
        /\ pending' = pending \cup {o}

\* What publish may do: replace the file, replace it and fail, or fail.
Outcomes == {"ok", "unpublished", "visible", "failed"}

\* _resume_ready: the pinned candidate is renamed and confirmed, or not yet.
ResumeReady(r, o, outcome) ==
  /\ o \in pending /\ Faulty(outcome)
  /\ \/ /\ outcome \in {"ok", "unpublished"}
        /\ disk' = [disk EXCEPT ![o] = r] /\ mem' = [mem EXCEPT ![o] = r]
        /\ pending' = pending \ {o}
        /\ catalog' = IF outcome = "ok" THEN [catalog EXCEPT ![o] = r] ELSE catalog
     \/ /\ outcome = "visible" /\ disk' \in Unconfirmed(r, o)
        /\ UNCHANGED <<mem, pending, catalog>>

\* Fault: a failure after the private READY was committed writes FAILED.
FailedDemotes(o, serial, outcome) ==
  Save([state |-> "FAILED", serial |-> serial, host |-> mem[o].host], o, outcome)

\* _preparation_failed: a READY of the same attempt is not demoted.
PreparationFailed(o, serial, outcome) ==
  IF mem[o].state = "READY" /\ mem[o].serial = serial
  THEN outcome = "ok" /\ UNCHANGED <<disk, catalog, mem, pending, faults>>
  ELSE Save([state |-> "FAILED", serial |-> serial, host |-> mem[o].host], o, outcome)

\* _ready: READY is published, or stays uncertain, or nothing is written.
Ready(o, serial, outcome) ==
  LET r == [state |-> "READY", serial |-> serial, host |-> mem[o].host]
  IN IF o \in pending THEN ResumeReady(r, o, outcome) ELSE Save(r, o, outcome)

-----------------------------------------------------------------------------
(* What prepare and start look at.                                          *)

\* execution_state
ExecutionState(k, r) ==
  IF ctl[k].finished # "none"
  THEN IF ctl[k].finished = "failed" /\ r.host.boot = host.boot /\ ctl[k].unit = "active"
       THEN "RUNNING" ELSE "EXITED"
  ELSE IF ~ctl[k].intent THEN "IDLE"
  ELSE IF r.host.boot # host.boot THEN "UNRESOLVED"
  ELSE IF ctl[k].attached \/ ctl[k].unit = "active" THEN "RUNNING" ELSE "UNRESOLVED"

\* _busy: a worker, a preparation whose unit may still run, a running task.
Busy(except) ==
  \/ WorkerAlive
  \/ \E o \in Ops : /\ mem[o].state \in {"PREPARING", "FAILED"}
                    /\ file[Current(o)].delivery
                    /\ file[Current(o)].exit # "zero" /\ UnitActive(Current(o))
  \/ \E o \in Ops \ except : /\ mem[o].state = "READY"
                             /\ ExecutionState(Current(o), mem[o]) = "RUNNING"

\* READY, but for another boot or deployment (which names its source commit), or expired.
Stale(o) == mem[o].host # host \/ file[Current(o)].expired

\* _replaceable: never started and stale, or exited before its admission.
Replaceable(o) ==
  LET c == ctl[Current(o)] IN
  IF ~c.intent THEN Stale(o)
  ELSE /\ c.finished # "none"
       /\ mem[o].host.boot # host.boot \/ c.unit # "active"
       /\ ~c.committed

\* The serial is above every directory and every responsibility of the gate:
\* the admission may be the only trace of an attempt.
NextSerial ==
  Max({0} \cup {k[2] : k \in {a \in AttemptKeys : file[a].dir \/ duty[a] # "NONE"}}) + 1

-----------------------------------------------------------------------------
(* prepare.  It is polled with or without retry_failed.                     *)

\* Fault: a poll after a restart leaves a preparation without result alone.
SettleWaits(o) ==
  /\ Fence /\ mem[o].state = "PREPARING" /\ ~WorkerAlive
  /\ o \in pending \/ ~UnitActive(Current(o))
  /\ o \in pending \/ file[Current(o)].result
  /\ \E outcome \in Outcomes : Ready(o, mem[o].serial, outcome)
  /\ UNCHANGED <<duty, file, unit, ctl, call, worker, up, host, stops>>

\* A PREPARING record without a worker: recover the result (a result that is
\* refused is a failure, a READY that was committed is kept) or record failure.
Settle(o) ==
  /\ Fence /\ mem[o].state = "PREPARING" /\ ~WorkerAlive
  /\ o \in pending \/ ~UnitActive(Current(o))
  /\ \E outcome \in Outcomes :
        IF o \in pending \/ file[Current(o)].result
        THEN \/ outcome # "failed" /\ Ready(o, mem[o].serial, outcome)
             \/ o \notin pending /\ PreparationFailed(o, mem[o].serial, outcome)
        ELSE Save([mem[o] EXCEPT !.state = "FAILED"], o, outcome)
  /\ UNCHANGED <<duty, file, unit, ctl, call, worker, up, host, stops>>

\* A new attempt: the gate accepts it; the reply may be lost.
Admit(o, retry) ==
  LET serial == NextSerial IN
  /\ Fence
  /\ \/ mem[o].state = "NONE"
     \/ mem[o].state = "FAILED" /\ retry
     \/ mem[o].state = "READY" /\ (Stale(o) \/ retry) /\ Replaceable(o)
  /\ ~Busy({})
  /\ \A s \in Serials : duty[<<o, s>>] \notin Unsettled
  /\ serial <= MaxSerial
  /\ duty' = [duty EXCEPT ![<<o, serial>>] = "ACCEPTED"]
  /\ \/ Faulty("ok") /\ call' = [pc |-> "admitted", op |-> o, serial |-> serial]
     \/ SyncLoss /\ Faulty("visible") /\ call' = NoCall
  /\ UNCHANGED <<disk, catalog, file, unit, ctl, mem, pending, worker,
                 up, host, stops>>

\* Directory, record and thread.  Whatever fails, the duty is closed as never
\* dispatched (or stays ACCEPTED when that fails too).
MakeAttempt ==
  LET k == Key(call)
      r == [state |-> "PREPARING", serial |-> call.serial, host |-> host]
  IN /\ up /\ call.pc = "admitted" /\ call' = NoCall
     /\ \/ /\ file' = [file EXCEPT ![k].dir = TRUE]
           /\ Save(r, call.op, "ok")
           /\ worker' = [Idle EXCEPT !.pc = "input", !.op = call.op,
                                     !.serial = call.serial]
           /\ UNCHANGED duty
        \/ /\ \E made \in BOOLEAN, outcome \in Outcomes :
                 /\ ~made => outcome = "failed"
                 /\ file' = [file EXCEPT ![k].dir = made]
                 /\ Save(r, call.op, outcome)
           /\ duty' \in {duty, [duty EXCEPT ![k] = "never_dispatched"]}
           /\ UNCHANGED worker
     /\ UNCHANGED <<unit, ctl, up, host, stops>>

-----------------------------------------------------------------------------
(* _prepare_worker, step by step.                                           *)

WorkerStep(pc) == up /\ worker.pc = pc
Goes(pc) == worker' = [worker EXCEPT !.pc = pc]
WorkerKeeps == UNCHANGED <<ctl, call, up, host, stops>>

PublishDelivery ==
  /\ WorkerStep("input")
  /\ \/ /\ file' = [file EXCEPT ![Key(worker)].delivery = TRUE]
        /\ Goes("dispatch") /\ Faulty("ok")
     \/ UNCHANGED file /\ Goes("failing") /\ Faulty("failed")
  /\ WorkerKeeps /\ UNCHANGED <<duty, disk, catalog, unit, mem, pending>>

Dispatch ==
  LET k == Key(worker) IN
  /\ WorkerStep("dispatch")
  /\ \/ /\ duty[k] = "ACCEPTED" /\ duty' = [duty EXCEPT ![k] = "DISPATCHING"]
        /\ \/ Goes("popen") /\ Faulty("ok")
           \/ SyncLoss /\ Goes("failing") /\ Faulty("visible")
     \/ UNCHANGED duty /\ Goes("failing") /\ Faulty("failed")
  /\ WorkerKeeps /\ UNCHANGED <<disk, catalog, file, unit, mem, pending>>

Popen ==
  /\ WorkerStep("popen")
  /\ \/ worker' = [worker EXCEPT !.pc = "waiting", !.delivered = TRUE] /\ Faulty("ok")
     \/ Goes("failing") /\ Faulty("failed")
  /\ WorkerKeeps /\ UNCHANGED <<duty, disk, catalog, file, unit, mem, pending>>

\* systemd-run has the manager start the unit while it waits for it.
UnitStarts ==
  /\ WorkerStep("waiting") /\ unit[Key(worker)] = "none"
  /\ unit' = [unit EXCEPT ![Key(worker)] = "active"]
  /\ WorkerKeeps /\ UNCHANGED <<duty, disk, catalog, file, mem, pending, worker, faults>>

\* prepare_main saves result.json, or the unit fails (at the latest after 70 s).
UnitEnds(k) ==
  /\ unit[k] = "active"
  /\ unit' = [unit EXCEPT ![k] = "closed"]
  /\ file' \in {file, [file EXCEPT ![k].result = TRUE]}
  /\ WorkerKeeps /\ UNCHANGED <<duty, disk, catalog, mem, pending, worker, faults>>

Expires(k) ==
  /\ file[k].result /\ ~file[k].expired
  /\ file' = [file EXCEPT ![k].expired = TRUE]
  /\ WorkerKeeps
  /\ UNCHANGED <<duty, disk, catalog, unit, mem, pending, worker, faults>>

\* systemd-run returns zero after a unit that succeeded; it returns another code
\* or is killed after 78 s whatever its unit does.  The record may be lost.
WaiterExits ==
  LET k == Key(worker) IN
  /\ WorkerStep("waiting")
  /\ \E code \in {"zero", "failed"}, recorded \in BOOLEAN :
        /\ code = "zero" => unit[k] = "closed" /\ file[k].result
        /\ file' = IF recorded THEN [file EXCEPT ![k].exit = code] ELSE file
        /\ Faulty(IF recorded THEN "ok" ELSE "failed")
        /\ worker' = [worker EXCEPT !.exited = TRUE,
              !.closed = code = "zero" /\ recorded,
              !.pc = IF code = "zero" /\ recorded THEN "ready" ELSE "failing"]
  /\ WorkerKeeps /\ UNCHANGED <<duty, disk, catalog, unit, mem, pending>>

\* A refused result and a failure after the commit go through the failure path,
\* an uncertain publication does not.
WorkerReady ==
  /\ WorkerStep("ready") /\ Fence
  /\ \/ \E outcome \in Outcomes :
           /\ Ready(worker.op, worker.serial, outcome)
           /\ Goes(IF outcome \in {"ok", "visible"} THEN "finish" ELSE "failing")
     \/ UNCHANGED <<disk, catalog, mem, pending, faults>> /\ Goes("failing")
  /\ WorkerKeeps /\ UNCHANGED <<duty, file, unit>>

\* The failure path: first the proof that nothing was delivered, if it can be
\* published,
WorkerProves ==
  /\ WorkerStep("failing")
  /\ file' \in {file} \cup (IF worker.delivered THEN {}
                            ELSE {[file EXCEPT ![Key(worker)].unstarted = TRUE]})
  /\ Goes("failed")
  /\ WorkerKeeps /\ UNCHANGED <<duty, unit, disk, catalog, mem, pending, faults>>

\* then FAILED, under the fence.
WorkerFails ==
  /\ WorkerStep("failed") /\ Fence
  /\ \E outcome \in Outcomes : PreparationFailed(worker.op, worker.serial, outcome)
  /\ Goes("finish")
  /\ WorkerKeeps /\ UNCHANGED <<duty, file, unit>>

WorkerFinishes ==
  LET k == Key(worker) IN
  /\ WorkerStep("finish")
  /\ \/ UNCHANGED <<duty, faults>>
     \/ ~worker.delivered /\ UNCHANGED faults /\ duty' = [duty EXCEPT ![k] = "never_dispatched"]
     \/ /\ worker.delivered
        /\ worker.closed \/ (worker.exited /\ ~UnitActive(k))
        /\ duty' = [duty EXCEPT ![k] = "process_exited"] /\ UNCHANGED faults
  /\ worker' = Idle
  /\ WorkerKeeps /\ UNCHANGED <<disk, catalog, file, unit, mem, pending>>

-----------------------------------------------------------------------------
(* _reconcile_preparations, for one responsibility.                          *)

\* The duties _finish_unstarted_preparation is called for.
Unstarted(k) ==
  \/ duty[k] = "ACCEPTED"
  \/ duty[k] = "DISPATCHING" /\ file[k].unstarted
  \/ duty[k] = "never_dispatched" /\ mem[k[1]].serial = k[2]
     /\ mem[k[1]].state = "PREPARING"

Reconcile(k) ==
  LET o == k[1]
      repair == mem[o].serial = k[2] /\ mem[o].state = "PREPARING"
  IN /\ Fence /\ ~WorkerAlive
     /\ \/ /\ Unstarted(k) /\ file[k].exit = "none"
           /\ duty' = [duty EXCEPT ![k] = "never_dispatched"]
           /\ IF repair
              THEN \E outcome \in Outcomes :
                      Save([mem[o] EXCEPT !.state = "FAILED"], o, outcome)
              ELSE UNCHANGED <<disk, catalog, mem, pending, faults>>
        \/ /\ duty[k] = "DISPATCHING" /\ ~file[k].unstarted
           /\ file[k].delivery /\ file[k].exit # "none" /\ ~UnitActive(k)
           /\ duty' = [duty EXCEPT ![k] = "process_exited"]
           /\ UNCHANGED <<disk, catalog, mem, pending, faults>>
     /\ UNCHANGED <<file, unit, ctl, call, worker, up, host, stops>>

-----------------------------------------------------------------------------
(* Execution of a prepared task.                                            *)

\* start: only an IDLE task of this boot that the gate lets this deployment
\* execute, and nothing else active.
Start(o) ==
  LET k == Current(o) IN
  /\ Fence /\ mem[o].state = "READY"
  /\ mem[o].host.boot = host.boot /\ ~file[k].expired
  /\ mem[o].host = host \/ Compatible
  /\ ExecutionState(k, mem[o]) = "IDLE" /\ ~Busy({o})
  /\ ctl' = [ctl EXCEPT ![k] = [NoController EXCEPT !.unit = "active",
                                   !.intent = TRUE, !.attached = TRUE]]
  /\ UNCHANGED <<duty, disk, catalog, file, unit, mem, pending, call,
                 worker, up, host, stops, faults>>

\* The controller's broker commits the submitted task; the controller ends;
\* the launcher that still holds its pipes records the exit (a failed waiter
\* may do so while the unit runs).
ControllerStep(k) ==
  /\ \/ /\ ctl[k].unit = "active" /\ ~ctl[k].committed
        /\ ctl' = [ctl EXCEPT ![k].committed = TRUE]
     \/ ctl[k].unit = "active" /\ ctl' = [ctl EXCEPT ![k].unit = "closed"]
     \/ /\ up /\ ctl[k].attached /\ ctl[k].finished = "none"
        /\ \E code \in {"zero", "failed"} :
              /\ code = "zero" => ctl[k].unit = "closed"
              /\ ctl' = [ctl EXCEPT ![k].finished = code]
  /\ UNCHANGED <<duty, disk, catalog, file, unit, mem, pending, call,
                 worker, up, host, stops, faults>>

-----------------------------------------------------------------------------
(* The service stops and starts.  A closed marker of the gate only refuses;   *)
(* nothing here depends on it.                                                *)

\* A crash kills the threads and systemd-run, a reboot the units as well; an
\* upgrade lets the next service load another deployment.
Stop(reboot, upgrade) ==
  /\ ~(reboot /\ upgrade)
  /\ up /\ stops < MaxStops
  /\ up' = FALSE /\ stops' = stops + 1
  /\ host' = [boot |-> IF reboot THEN host.boot + 1 ELSE host.boot,
              version |-> IF upgrade THEN host.version + 1 ELSE host.version]
  /\ call' = NoCall /\ worker' = Idle
  /\ mem' = [o \in Ops |-> NoRecord] /\ pending' = {}
  /\ LET end(u) == IF reboot /\ u = "active" THEN "closed" ELSE u
     IN /\ unit' = [k \in AttemptKeys |-> end(unit[k])]
        /\ ctl' = [k \in AttemptKeys |-> [ctl[k] EXCEPT !.unit = end(@), !.attached = FALSE]]
  /\ UNCHANGED <<duty, disk, catalog, file, faults>>

\* load_current: a READY pointer is confirmed before it is trusted.
LoadCurrent(o) == disk[o]

\* __init__: the private records are authoritative, the catalog is repaired.
Restart ==
  /\ ~up /\ up' = TRUE
  /\ mem' = [o \in Ops |-> LoadCurrent(o)]
  /\ catalog' = [o \in Ops |-> IF disk[o].state = "NONE" THEN catalog[o] ELSE disk[o]]
  /\ UNCHANGED <<duty, disk, file, unit, ctl, pending, call, worker, host,
                 stops, faults>>

-----------------------------------------------------------------------------
Init ==
  /\ duty = [k \in AttemptKeys |-> "NONE"]
  /\ disk = [o \in Ops |-> NoRecord] /\ mem = disk /\ catalog = disk
  /\ file = [k \in AttemptKeys |-> NoEvidence]
  /\ unit = [k \in AttemptKeys |-> "none"]
  /\ ctl = [k \in AttemptKeys |-> NoController]
  /\ pending = {} /\ call = NoCall /\ worker = Idle
  /\ up = TRUE /\ host = First /\ stops = 0 /\ faults = 0

Calls ==
  \/ \E o \in Ops : \/ Settle(o) \/ Start(o)
                    \/ \E retry \in BOOLEAN : Admit(o, retry)
  \/ MakeAttempt
  \/ \E k \in AttemptKeys : Reconcile(k)

PrepareWorker ==
  \/ PublishDelivery \/ Dispatch \/ Popen \/ UnitStarts \/ WaiterExits
  \/ WorkerReady \/ WorkerProves \/ WorkerFails \/ WorkerFinishes

Environment ==
  \/ \E k \in AttemptKeys : UnitEnds(k) \/ ControllerStep(k) \/ Expires(k)
  \/ \E reboot, upgrade \in BOOLEAN : Stop(reboot, upgrade)
  \/ Restart

Next == Calls \/ PrepareWorker \/ Environment
Spec == Init /\ [][Next]_vars

\* The worker has a deadline for everything it waits for (78 s for systemd-run,
\* 70 s for the unit), the client polls, and the service is restarted.
Fairness ==
  /\ WF_vars(PrepareWorker) /\ WF_vars(MakeAttempt) /\ WF_vars(Restart)
  /\ \A k \in AttemptKeys : WF_vars(UnitEnds(k))
  /\ \A o \in Ops : WF_vars(Settle(o))
FairSpec == Spec /\ Fairness

-----------------------------------------------------------------------------
\* The form of the records, evidence, units and memory of the service.
TypeOK ==
  /\ duty \in [AttemptKeys -> DutyStates]
  /\ disk \in [Ops -> Record] /\ mem \in [Ops -> Record] /\ catalog \in [Ops -> Record]
  /\ file \in [AttemptKeys -> Evidence]
  /\ unit \in [AttemptKeys -> {"none", "active", "closed"}]
  /\ ctl \in [AttemptKeys -> Controller]
  /\ pending \in SUBSET Ops
  /\ up \in BOOLEAN /\ host \in Hosts /\ stops \in 0..MaxStops /\ faults \in 0..MaxFaults

\* While a preparation unit runs or can still be started its responsibility is
\* unresolved at the gate, across crashes, lost records and reconciliation: a
\* drained node has no preparation at work (_prepare_worker's finally clause
\* and _reconcile_preparations close a duty only on proof).
DutyCoversPreparation ==
  \A k \in AttemptKeys :
     (unit[k] = "active" \/ (worker.pc \in {"popen", "waiting"} /\ Key(worker) = k))
        => duty[k] = "DISPATCHING"

\* A responsibility closed as never dispatched belongs to an attempt that never
\* had a unit and never gets one (never_dispatched=True in _reconcile_preparations,
\* prepare and _prepare_worker).
NeverDispatchedNeverRan ==
  \A k \in AttemptKeys : duty[k] = "never_dispatched" => unit[k] = "none"

\* A polled preparation does not stay PREPARING: its worker, or after a crash
\* the next poll, makes it READY or FAILED (prepare, _prepare_worker).
PreparingSettles ==
  \A o \in Ops : disk[o].state = "PREPARING" ~> disk[o].state # "PREPARING"

\* A committed READY is only ever replaced by a later attempt.
ReadyKept ==
  \A o \in Ops : disk[o].state = "READY" =>
     disk'[o] = disk[o] \/ disk'[o].serial > disk[o].serial

\* A task that some controller's broker committed is not committed by the
\* controller of another attempt ("A committed job, missing exit capture or
\* unknown write is never replaced", _replaceable).
CommittedOnce ==
  \A o \in Ops : Cardinality({s \in Serials : ctl[<<o, s>>].committed}) <= 1
=============================================================================
