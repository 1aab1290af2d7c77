----------------------------- MODULE Bootstrap -----------------------------
(***************************************************************************)
(* The offline import that puts an unguarded installation under the        *)
(* maintenance gate (local_hand_deploy/bootstrap.py).  The administrator   *)
(* stops and masks the old dispatch service; a plan binds what is observed *)
(* of it; the import holds the old dispatch locks, observes everything     *)
(* again, publishes the guarded configuration files, decides, opens the    *)
(* gate and publishes the startup selection.  Until the decision it can be *)
(* rolled back.  The importer crashes and the host reboots anywhere, and   *)
(* the administrator may undo the isolation or edit a published file.      *)
(***************************************************************************)
EXTENDS Naturals, FiniteSets

CONSTANTS
  Works,       \* tasks of the old dispatch service
  Files,       \* number of compatibility files
  MaxCrashes,  \* bound: crashes of the importer
  MaxReboots,  \* bound: reboots of the host
  MaxAdmin     \* bound: interventions after which the isolation is not as planned

BootstrapAssumption ==
  Files \in Nat \ {0} /\ MaxCrashes \in Nat /\ MaxReboots \in Nat /\ MaxAdmin \in Nat

Steps == 1..Files
Idle == "idle"
Running == {"prepare", "publish", "verify", "decide", "open", "select", "release", "restore"}

VARIABLES
  mask,     \* open, runtime (lost by a reboot) or masked
  active,   \* the old dispatch service runs, and holds its lock
  work,     \* its tasks: none, live, proved (closure recorded) or lost; and the boot of their record
  defs,     \* the guarded service definitions as loaded; 0: not admissible
  plan,     \* the bound observation, or no plan
  op,       \* the operation record: existence, direction, decision, prepared files, released
  file,     \* the compatibility files: original, target or foreign
  gate,     \* absent or open
  chosen,   \* the startup selection is published
  run,      \* what the importer is doing; it holds the old lock unless idle
  late,     \* the mask was removed after the last observation
  spent     \* crashes, reboots and interventions so far

vars == <<mask, active, work, defs, plan, op, file, gate, chosen, run, late, spent>>
world == <<mask, active, work, defs, late, spent>>
NoPlan == [bound |-> FALSE, st |-> [w \in Works |-> "none"], defs |-> 0]

-----------------------------------------------------------------------------
(* OfflineObserver *)

\* task_parents: no process in a parent group of the task, and no queued job.
NoProcess(w) == work[w].st # "live"

\* A delivery is closed by its recorded exit, or by a new boot when its boot is known.
Closed(w) == work[w].st = "lost" => work[w].boot = "past"

\* Fault: a mask that a reboot removes closes the entry.
StoppedAnyMask == ~active /\ mask # "open"

Stopped == ~active /\ mask = "masked"

\* Every entry is stopped and masked, every duty closed, every guarded definition loaded and stopped.
Quiet == Stopped /\ defs # 0 /\ \A w \in Works : NoProcess(w) /\ Closed(w)

Observation == [bound |-> TRUE, st |-> [w \in Works |-> work[w].st], defs |-> defs]

\* Fault: the present observation needs to be admissible, not the planned one.
UnchangedQuiet == Quiet

\* The second observation must equal the one of the plan.
Unchanged == Quiet /\ Observation = plan

\* legacy_locks: the lock of an old dispatch owner is not waited for.
LockFree == ~active

-----------------------------------------------------------------------------
(* build_bootstrap_plan, _adopt_bootstrap, _rollback_locked *)

BuildPlan ==
  /\ run = Idle /\ ~plan.bound /\ LockFree /\ Quiet
  /\ plan' = Observation /\ late' = FALSE
  /\ UNCHANGED <<mask, active, work, defs, op, file, gate, chosen, run, spent>>

\* The operation is recorded before anything is observed; a failed observation leaves it waiting.
Create ==
  /\ run = Idle /\ plan.bound /\ ~op.made
  /\ op' = [op EXCEPT !.made = TRUE]
  /\ UNCHANGED <<plan, file, gate, chosen, run, world>>

Observed == IF op.dir = "apply" THEN "prepare" ELSE "restore"

\* Resuming: the locks are taken and the sources observed again.
Resume ==
  /\ run = Idle /\ op.made /\ ~op.released /\ LockFree /\ Unchanged
  /\ run' = Observed /\ late' = FALSE
  /\ UNCHANGED <<mask, active, work, defs, plan, op, file, gate, chosen, spent>>

Rollback ==
  /\ run = Idle /\ op.made /\ ~op.released /\ op.dec # "committed" /\ LockFree /\ Unchanged
  /\ op' = [op EXCEPT !.dir = "rollback"] /\ run' = "restore" /\ late' = FALSE
  /\ UNCHANGED <<mask, active, work, defs, plan, file, gate, chosen, spent>>

\* The backups are prepared in order, each recorded.
Prepare ==
  /\ run = "prepare" /\ op.prepared < Files
  /\ op' = [op EXCEPT !.prepared = @ + 1]
  /\ UNCHANGED <<plan, file, gate, chosen, run, world>>

\* No retained file may be anything but what was there or what is published.
Preflight == \A i \in Steps : file[i] # "foreign"

Checked ==
  /\ run = "prepare" /\ op.prepared = Files /\ Preflight
  /\ run' = "publish"
  /\ UNCHANGED <<plan, op, file, gate, chosen, world>>

Publish ==
  /\ run = "publish"
  /\ \/ \E i \in Steps :
          /\ file[i] = "original" /\ \A j \in Steps : j < i => file[j] # "original"
          /\ file' = [file EXCEPT ![i] = "target"] /\ run' = run
     \/ /\ \A i \in Steps : file[i] = "target"
        /\ run' = "verify" /\ UNCHANGED file
  /\ UNCHANGED <<plan, op, gate, chosen, world>>

\* The target and the old sources are observed once more, with the files published.
Verify ==
  /\ run = "verify" /\ Unchanged /\ \A i \in Steps : file[i] = "target"
  /\ run' = "decide" /\ late' = FALSE
  /\ UNCHANGED <<mask, active, work, defs, plan, op, file, gate, chosen, spent>>

Decide ==
  /\ run = "decide" /\ run' = "open" /\ op' = [op EXCEPT !.dec = "committed"]
  /\ UNCHANGED <<plan, file, gate, chosen, world>>

\* initialize is repeated with the recorded decision.
OpenGate ==
  /\ run = "open" /\ run' = "select" /\ gate' = "open"
  /\ UNCHANGED <<plan, op, file, chosen, world>>

\* verify_members reads every member of the selection once more; like any error
\* that Blocked does not name, its failure is a Crash here: the operation waits.
PublishSelection ==
  /\ run = "select" /\ run' = "release" /\ chosen' = TRUE
  /\ UNCHANGED <<plan, op, file, gate, world>>

Release ==
  /\ run = "release" /\ run' = Idle /\ op' = [op EXCEPT !.released = TRUE]
  /\ UNCHANGED <<plan, file, gate, chosen, world>>

\* The prepared files, the last one first; then the operation is over.
Restore ==
  /\ run = "restore"
  /\ \A i \in 1..op.prepared : file[i] # "foreign"
  /\ \/ \E i \in 1..op.prepared :
          /\ file[i] = "target" /\ \A j \in Steps : j > i => file[j] # "target"
          /\ file' = [file EXCEPT ![i] = "original"] /\ UNCHANGED <<op, run>>
     \/ /\ \A i \in 1..op.prepared : file[i] = "original"
        /\ op' = [op EXCEPT !.released = TRUE, !.dec = "rolled_back"] /\ run' = Idle /\ UNCHANGED file
  /\ UNCHANGED <<plan, gate, chosen, world>>

\* An error leaves the operation waiting; the lock is released.
Blocked ==
  \/ run = "prepare" /\ op.prepared = Files /\ ~Preflight
  \/ run \in {"publish", "restore"} /\ \E i \in Steps : file[i] = "foreign"
  \/ run = "verify" /\ ~(Unchanged /\ \A i \in Steps : file[i] = "target")

Failed ==
  /\ Blocked /\ run' = Idle
  /\ UNCHANGED <<plan, op, file, gate, chosen, world>>

Crash ==
  /\ run # Idle /\ spent.crash < MaxCrashes
  /\ run' = Idle /\ spent' = [spent EXCEPT !.crash = @ + 1]
  /\ UNCHANGED <<mask, active, work, defs, plan, op, file, gate, chosen, late>>

-----------------------------------------------------------------------------
(* The old service, the host and the administrator *)

importer == <<plan, op, file, gate, chosen, run>>

\* The old service starts only with its lock.
MayStart == run = Idle

Isolate ==
  /\ \/ active' = FALSE /\ active /\ UNCHANGED mask
     \/ mask = "open" /\ mask' \in {"runtime", "masked"} /\ UNCHANGED active
     \/ mask = "runtime" /\ mask' = "masked" /\ UNCHANGED active
  /\ UNCHANGED <<work, defs, late, spent, importer>>

Dispatch(w) ==
  /\ active /\ work[w].st = "none"
  /\ \E b \in {"this", "unknown"} : work' = [work EXCEPT ![w] = [st |-> "live", boot |-> b]]
  /\ UNCHANGED <<mask, active, defs, late, spent, importer>>

\* A call ends with its record or without; without one, it may still be in a queue.
End(w) ==
  /\ work[w].st = "live" /\ \E s \in {"proved", "lost"} : work' = [work EXCEPT ![w].st = s]
  /\ UNCHANGED <<mask, active, defs, late, spent, importer>>

LateCall(w) ==
  /\ work[w].st = "lost" /\ work[w].boot # "past" /\ work' = [work EXCEPT ![w].st = "live"]
  /\ UNCHANGED <<mask, active, defs, late, spent, importer>>

\* A reboot ends every process; entries without a persistent mask start again.
Reboot ==
  /\ spent.reboot < MaxReboots /\ spent' = [spent EXCEPT !.reboot = @ + 1]
  /\ run' = Idle /\ active' = (mask # "masked") /\ mask' = IF mask = "runtime" THEN "open" ELSE mask
  /\ work' = [w \in Works |-> [st |-> IF work[w].st = "live" THEN "lost" ELSE work[w].st,
                               boot |-> IF work[w].boot = "this" THEN "past" ELSE work[w].boot]]
  /\ UNCHANGED <<defs, late, plan, op, file, gate, chosen>>

Intervene ==
  /\ spent.admin < MaxAdmin /\ spent' = [spent EXCEPT !.admin = @ + 1]
  /\ \/ mask # "open" /\ mask' = "open" /\ late' = TRUE /\ active' = MayStart /\ UNCHANGED <<defs, file>>
     \/ defs' \in 0..2 /\ UNCHANGED <<mask, late, active, file>>
     \/ \E i \in Steps : file' = [file EXCEPT ![i] = "foreign"] /\ UNCHANGED <<mask, late, active, defs>>
  /\ UNCHANGED <<work, plan, op, gate, chosen, run>>

Init ==
  /\ mask = "open" /\ active = TRUE /\ work = [w \in Works |-> [st |-> "none", boot |-> "this"]] /\ defs = 1
  /\ plan = NoPlan /\ op = [made |-> FALSE, dir |-> "apply", dec |-> "none", prepared |-> 0, released |-> FALSE]
  /\ file = [i \in Steps |-> "original"] /\ gate = "absent" /\ chosen = FALSE /\ run = Idle /\ late = FALSE
  /\ spent = [crash |-> 0, reboot |-> 0, admin |-> 0]

Import ==
  \/ Create \/ Resume \/ Prepare \/ Checked \/ Publish \/ Verify \/ Decide \/ OpenGate \/ PublishSelection \/ Release
  \/ Restore \/ Failed

Next ==
  \/ Import \/ BuildPlan \/ Rollback \/ Crash \/ Isolate \/ Reboot \/ Intervene
  \/ \E w \in Works : Dispatch(w) \/ End(w) \/ LateCall(w)

Spec == Init /\ [][Next]_vars

\* The operator resumes an operation until it is released.
FairSpec == Spec /\ WF_vars(Import)

-----------------------------------------------------------------------------
TypeOK ==
  /\ mask \in {"open", "runtime", "masked"} /\ active \in BOOLEAN /\ late \in BOOLEAN /\ chosen \in BOOLEAN
  /\ work \in [Works -> [st : {"none", "live", "proved", "lost"}, boot : {"this", "past", "unknown"}]]
  /\ op.prepared \in 0..Files /\ op.dec \in {"none", "committed", "rolled_back"} /\ file \in [Steps -> {"original", "target", "foreign"}]
  /\ run \in Running \cup {Idle} /\ gate \in {"absent", "open"}

(* The gate opens only when no dispatch owner of the old installation is     *)
(* alive and no call it delivered can still act.                             *)
OpensQuiet == gate' # gate => ~active /\ \A w \in Works : work[w].st # "live"

(* Behind an open gate the old installation does not come back, not after a  *)
(* reboot either, unless its mask was removed after it was last observed.    *)
NoSecondDispatcher == gate = "open" /\ ~late => ~active /\ \A w \in Works : work[w].st # "live"

(* What the startup selection retains is every task the old service ever     *)
(* accepted, whatever it did between the plan and the import.                *)
NothingHidden ==
  chosen' # chosen => plan.st = [w \in Works |-> work[w].st]

(* The startup selection exists only with the gate open, a decision, and all *)
(* of the files published or changed by someone else; a rolled back          *)
(* operation leaves neither and every file as it was.                        *)
AllOrNothing ==
  /\ chosen => gate = "open"
  /\ gate = "open" => op.dec = "committed" /\ \A i \in Steps : file[i] # "original"
  /\ op.dec = "rolled_back" => gate = "absent" /\ ~chosen /\ \A i \in Steps : file[i] # "target"

(* The safety of the import: one dispatcher, and all of the import in force *)
(* or nothing of it.                                                        *)
ImportSafety == TypeOK /\ NoSecondDispatcher /\ AllOrNothing

(* An operation is released in the end, whatever crashes and reboots.        *)
Released == op.made ~> op.released

=============================================================================
