------------------------- MODULE BootstrapProofs -------------------------
(***************************************************************************)
(* The safety of the offline import of an old installation                 *)
(* (local_hand_deploy/bootstrap.py), for any number of its tasks, of       *)
(* compatibility files, of crashes, reboots and interventions.  The        *)
(* argument: whatever the importer does it does after an observation it    *)
(* made with the old dispatch lock held, so the old service can neither    *)
(* run nor start under it, and what that observation found closed stays    *)
(* closed; a durable mask carries the same over the time the lock is free, *)
(* until somebody removes it after the last observation.                   *)
(***************************************************************************)
EXTENDS Bootstrap, TLAPS

\* What the old service may have of a task, and of the boot of its record.
States == {"none", "live", "proved", "lost"}
Boots == {"this", "past", "unknown"}
\* The observations a plan binds.
Plans == [bound : BOOLEAN, st : [Works -> States], defs : 0..2]
\* The operation records.
Records == [made : BOOLEAN, dir : {"apply", "rollback"},
            dec : {"none", "committed", "rolled_back"}, prepared : 0..Files, released : BOOLEAN]

\* The types of TypeOK and those of the plan, the record and the definitions.
Types ==
  /\ TypeOK
  /\ defs \in 0..2
  /\ plan \in Plans
  /\ op \in Records

\* The old service is down and nothing it delivered can still act.
Silent == ~active /\ \A w \in Works : NoProcess(w) /\ Closed(w)

\* What the observations establish: the installation of a plan is silent until
\* its mask is removed, and under the importer's lock the tasks are the plan's.
IsolationHeld ==
  /\ plan.bound /\ ~late => Silent /\ mask = "masked"
  /\ run # Idle => Silent /\ plan.st = [w \in Works |-> work[w].st]

\* The steps of an operation that is being applied.
Forward == {"prepare", "publish", "verify", "decide", "open", "select", "release"}

\* An operation has a plan, runs in its recorded direction, and ends once.
Course ==
  /\ op.made => plan.bound
  /\ run # Idle => op.made /\ ~op.released
  /\ run \in Forward => op.dir = "apply"
  /\ run = "restore" => op.dir = "rollback"
  /\ op.dir = "rollback" => op.dec # "committed"
  /\ op.dec # "none" => op.made
  /\ op.dec = "rolled_back" => op.released

\* A file is published only after all of them were prepared; past the
\* verification each was published.
FilesFit ==
  /\ run \in Forward \ {"prepare"} => op.prepared = Files
  /\ \A i \in Steps : file[i] = "target" => i <= op.prepared
  /\ run \in {"decide", "open", "select", "release"} => \A i \in Steps : file[i] # "original"

\* The gate and the selection follow the decision.
Decision ==
  /\ run \in {"open", "select", "release"} => op.dec = "committed"
  /\ run \in {"select", "release"} => gate = "open"

\* The inductive invariant.
Inv == Types /\ IsolationHeld /\ Course /\ FilesFit /\ Decision /\ AllOrNothing

-----------------------------------------------------------------------------
(* Steps of the importer *)

\* A step that leaves the old installation alone, takes no new lock and keeps
\* the plan keeps what the observations established.
LEMMA SameWorld ==
  ASSUME Inv, UNCHANGED world, UNCHANGED plan, run' # Idle => run # Idle
  PROVE  IsolationHeld'
BY DEF Inv, IsolationHeld, world, Silent, NoProcess, Closed

\* An observation that agrees with the plan shows the installation silent.
LEMMA ObservedSilent ==
  ASSUME Inv, Unchanged
  PROVE  /\ plan.bound /\ Silent /\ mask = "masked"
         /\ plan.st = [w \in Works |-> work[w].st]
BY DEF Unchanged, Observation, Quiet, Stopped, Silent

\* BuildPlan binds a quiet installation.
LEMMA BuildPlanInv ==
  ASSUME Inv, BuildPlan
  PROVE  Inv'
<1>1. /\ plan' = Observation /\ late' = FALSE /\ run = Idle /\ ~plan.bound /\ Quiet
      /\ UNCHANGED <<mask, active, work, defs, op, file, gate, chosen, run, spent>>
  BY DEF BuildPlan
<1>2. Observation \in Plans
  BY DEF Observation, Plans, Inv, Types, TypeOK, States
<1>3. Types'
  BY <1>1, <1>2 DEF Inv, Types, TypeOK
<1>4. IsolationHeld'
  BY <1>1 DEF IsolationHeld, Quiet, Stopped, Silent, NoProcess, Closed
<1>5. Course' /\ FilesFit' /\ Decision' /\ AllOrNothing'
  BY <1>1 DEF Inv, Course, FilesFit, Decision, AllOrNothing, Observation
<1> QED BY <1>3, <1>4, <1>5 DEF Inv

\* Create records the operation of a plan before anything is observed for it.
LEMMA CreateInv ==
  ASSUME Inv, Create
  PROVE  Inv'
<1>1. /\ op' = [op EXCEPT !.made = TRUE] /\ run = Idle /\ plan.bound
      /\ UNCHANGED <<plan, file, gate, chosen, run, world>>
      /\ UNCHANGED <<mask, active, work, defs, late, spent>>
  BY DEF Create, world
<1>2. op' \in Records
  BY <1>1 DEF Inv, Types, Records
<1>3. /\ op'.made /\ op'.dir = op.dir /\ op'.dec = op.dec /\ op'.prepared = op.prepared
      /\ op'.released = op.released
  BY <1>1 DEF Inv, Types, Records
<1>4. Types'
  BY <1>1, <1>2, <1>3 DEF Inv, Types, TypeOK
<1>5. IsolationHeld'
  BY <1>1, SameWorld
<1>6. Course' /\ FilesFit' /\ Decision' /\ AllOrNothing'
  BY <1>1, <1>3 DEF Inv, Course, FilesFit, Decision, AllOrNothing
<1> QED BY <1>4, <1>5, <1>6 DEF Inv

\* Resume continues an operation in its direction, after an observation.
LEMMA ResumeInv ==
  ASSUME Inv, Resume
  PROVE  Inv'
<1>1. /\ run = Idle /\ op.made /\ ~op.released /\ Unchanged /\ run' = Observed /\ late' = FALSE
      /\ UNCHANGED <<mask, active, work, defs, plan, op, file, gate, chosen, spent>>
  BY DEF Resume
<1>2. /\ run' \in {"prepare", "restore"}
      /\ run' = "prepare" => op.dir = "apply"
      /\ run' = "restore" => op.dir = "rollback"
  BY <1>1 DEF Observed, Inv, Types, Records
<1>3. Types'
  BY <1>1, <1>2 DEF Inv, Types, TypeOK, Running
<1>4. IsolationHeld'
  BY <1>1, ObservedSilent DEF IsolationHeld, Silent, NoProcess, Closed
<1>5. Course' /\ FilesFit' /\ Decision' /\ AllOrNothing'
  BY <1>1, <1>2 DEF Inv, Course, FilesFit, Decision, AllOrNothing, Forward
<1> QED BY <1>3, <1>4, <1>5 DEF Inv

\* Rollback turns an undecided operation round.
LEMMA RollbackInv ==
  ASSUME Inv, Rollback
  PROVE  Inv'
<1>1. /\ run = Idle /\ op.made /\ ~op.released /\ op.dec # "committed" /\ Unchanged
      /\ op' = [op EXCEPT !.dir = "rollback"] /\ run' = "restore" /\ late' = FALSE
      /\ UNCHANGED <<mask, active, work, defs, plan, file, gate, chosen, spent>>
  BY DEF Rollback
<1>2. op' \in Records
  BY <1>1 DEF Inv, Types, Records
<1>3. /\ op'.made = op.made /\ op'.dir = "rollback" /\ op'.dec = op.dec
      /\ op'.prepared = op.prepared /\ op'.released = op.released
  BY <1>1 DEF Inv, Types, Records
<1>4. Types'
  BY <1>1, <1>2, <1>3 DEF Inv, Types, TypeOK, Running
<1>5. IsolationHeld'
  BY <1>1, ObservedSilent DEF IsolationHeld, Silent, NoProcess, Closed
<1>6. Course' /\ FilesFit' /\ Decision' /\ AllOrNothing'
  BY <1>1, <1>3 DEF Inv, Course, FilesFit, Decision, AllOrNothing, Forward
<1> QED BY <1>4, <1>5, <1>6 DEF Inv

\* Prepare records one more backup.
LEMMA PrepareInv ==
  ASSUME BootstrapAssumption, Inv, Prepare
  PROVE  Inv'
<1>1. /\ run = "prepare" /\ op.prepared < Files /\ op' = [op EXCEPT !.prepared = @ + 1]
      /\ UNCHANGED <<plan, file, gate, chosen, run, world>>
      /\ UNCHANGED <<mask, active, work, defs, late, spent>>
  BY DEF Prepare, world
<1>2. /\ op'.made = op.made /\ op'.dir = op.dir /\ op'.dec = op.dec
      /\ op'.prepared = op.prepared + 1 /\ op'.released = op.released
      /\ op.prepared \in 0..Files /\ Files \in Nat
  BY <1>1 DEF Inv, Types, Records, BootstrapAssumption
<1>3. op' \in Records
  BY <1>1, <1>2 DEF Inv, Types, Records
<1>4. Types'
  BY <1>1, <1>2, <1>3 DEF Inv, Types, TypeOK
<1>5. IsolationHeld'
  BY <1>1, SameWorld
<1>6. Course' /\ Decision' /\ AllOrNothing'
  BY <1>1, <1>2 DEF Inv, Course, Decision, AllOrNothing, Forward
<1>7. FilesFit'
  BY <1>1, <1>2 DEF Inv, FilesFit, Forward, Steps
<1> QED BY <1>4, <1>5, <1>6, <1>7 DEF Inv

\* Checked lets the importer go on once every backup is prepared.
LEMMA CheckedInv ==
  ASSUME Inv, Checked
  PROVE  Inv'
<1>1. /\ run = "prepare" /\ op.prepared = Files /\ run' = "publish"
      /\ UNCHANGED <<plan, op, file, gate, chosen, world>>
      /\ UNCHANGED <<mask, active, work, defs, late, spent>>
  BY DEF Checked, world
<1>2. Types'
  BY <1>1 DEF Inv, Types, TypeOK, Running
<1>3. IsolationHeld'
  BY <1>1, SameWorld DEF Idle
<1>4. Course' /\ FilesFit' /\ Decision' /\ AllOrNothing'
  BY <1>1 DEF Inv, Course, FilesFit, Decision, AllOrNothing, Forward, Idle
<1> QED BY <1>2, <1>3, <1>4 DEF Inv

\* Verify observes the installation again, every file published.
LEMMA VerifyInv ==
  ASSUME Inv, Verify
  PROVE  Inv'
<1>1. /\ run = "verify" /\ Unchanged /\ run' = "decide" /\ late' = FALSE
      /\ \A i \in Steps : file[i] = "target"
      /\ UNCHANGED <<mask, active, work, defs, plan, op, file, gate, chosen, spent>>
  BY DEF Verify
<1>2. Types'
  BY <1>1 DEF Inv, Types, TypeOK, Running
<1>3. IsolationHeld'
  BY <1>1, ObservedSilent DEF IsolationHeld, Silent, NoProcess, Closed
<1>4. Course' /\ FilesFit' /\ Decision' /\ AllOrNothing'
  BY <1>1 DEF Inv, Course, FilesFit, Decision, AllOrNothing, Forward, Idle
<1> QED BY <1>2, <1>3, <1>4 DEF Inv

\* Publish replaces one file, all of them prepared, or finds them all replaced.
LEMMA PublishInv ==
  ASSUME BootstrapAssumption, Inv, Publish
  PROVE  Inv'
<1>1. /\ run = "publish" /\ run' \in {"publish", "verify"}
      /\ UNCHANGED <<plan, op, gate, chosen, world>>
      /\ UNCHANGED <<mask, active, work, defs, late, spent>>
  BY DEF Publish, world
<1>2. /\ op.prepared = Files /\ op.dir = "apply" /\ op.made /\ ~op.released /\ plan.bound
      /\ Files \in Nat
  BY <1>1 DEF Inv, FilesFit, Course, Forward, Idle, BootstrapAssumption
<1>3. /\ file' \in [Steps -> {"original", "target", "foreign"}]
      /\ \A i \in Steps : file'[i] = file[i] \/ file'[i] = "target"
  <2>1. file \in [Steps -> {"original", "target", "foreign"}]
    BY DEF Inv, Types, TypeOK
  <2>2. \/ UNCHANGED file
        \/ \E i \in Steps : file' = [file EXCEPT ![i] = "target"]
    BY DEF Publish
  <2> QED BY <2>1, <2>2
<1>4. Types'
  BY <1>1, <1>3 DEF Inv, Types, TypeOK, Running
<1>5. IsolationHeld'
  BY <1>1, SameWorld DEF Idle
<1>6. Course' /\ Decision'
  BY <1>1, <1>2 DEF Inv, Course, Decision, Forward, Idle
<1>7. FilesFit'
  BY <1>1, <1>2, <1>3 DEF FilesFit, Forward, Steps
<1>8. AllOrNothing'
  <2>1. op.dec # "rolled_back"
    BY <1>2 DEF Inv, Course
  <2> QED BY <1>1, <1>3, <2>1 DEF Inv, AllOrNothing
<1> QED BY <1>4, <1>5, <1>6, <1>7, <1>8 DEF Inv

\* Decide commits the operation, which is being applied.
LEMMA DecideInv ==
  ASSUME Inv, Decide
  PROVE  Inv'
<1>1. /\ run = "decide" /\ run' = "open" /\ op' = [op EXCEPT !.dec = "committed"]
      /\ UNCHANGED <<plan, file, gate, chosen, world>>
      /\ UNCHANGED <<mask, active, work, defs, late, spent>>
  BY DEF Decide, world
<1>2. op' \in Records
  BY <1>1 DEF Inv, Types, Records
<1>3. /\ op'.made = op.made /\ op'.dir = op.dir /\ op'.dec = "committed"
      /\ op'.prepared = op.prepared /\ op'.released = op.released
  BY <1>1 DEF Inv, Types, Records
<1>4. op.made /\ ~op.released /\ op.dir = "apply" /\ plan.bound
  BY <1>1 DEF Inv, Course, Forward, Idle
<1>5. op.prepared = Files /\ \A i \in Steps : file[i] # "original"
  BY <1>1 DEF Inv, FilesFit, Forward
<1>6. Types'
  BY <1>1, <1>2, <1>3 DEF Inv, Types, TypeOK, Running
<1>7. IsolationHeld'
  BY <1>1, SameWorld DEF Idle
<1>8. Course' /\ FilesFit' /\ Decision' /\ AllOrNothing'
  BY <1>1, <1>3, <1>4, <1>5 DEF Inv, Course, FilesFit, Decision, AllOrNothing, Forward, Idle
<1> QED BY <1>6, <1>7, <1>8 DEF Inv

\* OpenGate and PublishSelection carry out what was decided.
LEMMA OpenInv ==
  ASSUME Inv, OpenGate \/ PublishSelection
  PROVE  Inv'
<1>1. /\ run \in {"open", "select"} /\ run' \in {"select", "release"}
      /\ gate' \in {gate, "open"} /\ (run' = "release" => UNCHANGED gate /\ run = "select")
      /\ (run' = "select" => gate' = "open" /\ UNCHANGED chosen)
      /\ chosen' \in BOOLEAN
      /\ UNCHANGED <<plan, op, file, world>>
      /\ UNCHANGED <<mask, active, work, defs, late, spent>>
  BY DEF OpenGate, PublishSelection, world, Inv, Types, TypeOK
<1>2. op.made /\ ~op.released /\ op.dir = "apply" /\ plan.bound /\ op.dec = "committed"
  BY <1>1 DEF Inv, Course, Decision, Forward, Idle
<1>3. op.prepared = Files /\ \A i \in Steps : file[i] # "original"
  BY <1>1 DEF Inv, FilesFit, Forward
<1>4. Types'
  BY <1>1 DEF Inv, Types, TypeOK, Running
<1>5. IsolationHeld'
  BY <1>1, SameWorld DEF Idle
<1>6. Course' /\ FilesFit' /\ Decision'
  BY <1>1, <1>2, <1>3 DEF Inv, Course, FilesFit, Decision, Forward, Idle
<1>7. AllOrNothing'
  BY <1>1, <1>2, <1>3 DEF Inv, AllOrNothing, Decision
<1> QED BY <1>4, <1>5, <1>6, <1>7 DEF Inv

\* Release ends the operation and gives the lock back.
LEMMA ReleaseInv ==
  ASSUME Inv, Release
  PROVE  Inv'
<1>1. /\ run = "release" /\ run' = Idle /\ op' = [op EXCEPT !.released = TRUE]
      /\ UNCHANGED <<plan, file, gate, chosen, world>>
      /\ UNCHANGED <<mask, active, work, defs, late, spent>>
  BY DEF Release, world
<1>2. op' \in Records
  BY <1>1 DEF Inv, Types, Records
<1>3. /\ op'.made = op.made /\ op'.dir = op.dir /\ op'.dec = op.dec
      /\ op'.prepared = op.prepared /\ op'.released
  BY <1>1 DEF Inv, Types, Records
<1>4. Types'
  BY <1>1, <1>2, <1>3 DEF Inv, Types, TypeOK
<1>5. IsolationHeld'
  BY <1>1, SameWorld
<1>6. Course' /\ FilesFit' /\ Decision' /\ AllOrNothing'
  BY <1>1, <1>3 DEF Inv, Course, FilesFit, Decision, AllOrNothing, Forward, Idle
<1> QED BY <1>4, <1>5, <1>6 DEF Inv

\* Restore puts one prepared file back, or finds every one as it was and ends
\* the operation rolled back: what was not prepared was not published either.
LEMMA RestoreInv ==
  ASSUME Inv, Restore
  PROVE  Inv'
<1>1. /\ run = "restore" /\ UNCHANGED <<plan, gate, chosen, world>>
      /\ UNCHANGED <<mask, active, work, defs, late, spent>>
  BY DEF Restore, world
<1>2. op.made /\ ~op.released /\ plan.bound
  BY <1>1 DEF Inv, Course, Idle
<1>3. CASE UNCHANGED <<op, run>>
           /\ \E i \in 1..op.prepared : file' = [file EXCEPT ![i] = "original"] /\ file[i] = "target"
  <2>1. /\ file' \in [Steps -> {"original", "target", "foreign"}]
        /\ \A i \in Steps : file'[i] = file[i] \/ (file'[i] = "original" /\ file[i] = "target")
    BY <1>3 DEF Inv, Types, TypeOK
  <2>2. op.dec # "committed"
    BY <1>1 DEF Inv, Course
  <2>3. Types'
    BY <1>1, <1>3, <2>1 DEF Inv, Types, TypeOK
  <2>4. IsolationHeld'
    BY <1>1, <1>3, SameWorld
  <2>5. Course' /\ FilesFit' /\ Decision'
    BY <1>1, <1>3, <2>1 DEF Inv, Course, FilesFit, Decision, Forward
  <2>6. AllOrNothing'
    BY <1>1, <1>3, <2>1, <2>2 DEF Inv, AllOrNothing
  <2> QED BY <2>3, <2>4, <2>5, <2>6 DEF Inv
<1>4. CASE /\ \A i \in 1..op.prepared : file[i] = "original"
           /\ op' = [op EXCEPT !.released = TRUE, !.dec = "rolled_back"] /\ run' = Idle /\ UNCHANGED file
  <2>1. op' \in Records
    BY <1>4 DEF Inv, Types, Records
  <2>2. /\ op'.made = op.made /\ op'.dir = op.dir /\ op'.dec = "rolled_back"
        /\ op'.prepared = op.prepared /\ op'.released
    BY <1>4 DEF Inv, Types, Records
  <2>3. Types'
    BY <1>1, <1>4, <2>1, <2>2 DEF Inv, Types, TypeOK
  <2>4. IsolationHeld'
    BY <1>1, <1>4, SameWorld
  <2>5. Course' /\ FilesFit' /\ Decision'
    BY <1>1, <1>2, <1>4, <2>2 DEF Inv, Course, FilesFit, Decision, Forward, Idle
  <2>6. \A i \in Steps : file[i] # "target"
    <3>1. op.prepared \in 0..Files
      BY DEF Inv, Types, TypeOK
    <3> QED BY <1>4, <3>1 DEF Inv, FilesFit, Steps
  <2>7. gate # "open"
    <3>1. op.dir = "rollback" => op.dec # "committed"
      BY DEF Inv, Course
    <3>2. op.dir = "rollback"
      BY <1>1 DEF Inv, Course
    <3> QED BY <3>1, <3>2 DEF Inv, AllOrNothing
  <2>8. AllOrNothing'
    BY <1>1, <1>4, <2>2, <2>6, <2>7 DEF Inv, AllOrNothing, Types, TypeOK
  <2> QED BY <2>3, <2>4, <2>5, <2>8 DEF Inv
<1> QED BY <1>3, <1>4 DEF Restore

\* Failed and Crash only leave the operation waiting.
LEMMA StopsInv ==
  ASSUME Inv, Failed \/ Crash
  PROVE  Inv'
<1>1. /\ run' = Idle /\ UNCHANGED <<plan, op, file, gate, chosen>>
      /\ UNCHANGED <<mask, active, work, defs, late>>
  BY DEF Failed, Crash, world
<1>2. Types'
  BY <1>1 DEF Inv, Types, TypeOK
<1>3. IsolationHeld'
  BY <1>1 DEF Inv, IsolationHeld, Silent, NoProcess, Closed
<1>4. Course' /\ FilesFit' /\ Decision' /\ AllOrNothing'
  BY <1>1 DEF Inv, Course, FilesFit, Decision, AllOrNothing, Forward, Idle
<1> QED BY <1>2, <1>3, <1>4 DEF Inv

-----------------------------------------------------------------------------
(* The old service, the host and the administrator *)

\* What the importer holds does not depend on the old installation.
LEMMA ImporterKept ==
  ASSUME Inv, importer' = importer
  PROVE  Course' /\ FilesFit' /\ Decision' /\ AllOrNothing'
BY DEF Inv, importer, Course, FilesFit, Decision, AllOrNothing

\* Isolate only takes the old service away.
LEMMA IsolateInv ==
  ASSUME Inv, Isolate
  PROVE  Inv'
<1>1. /\ active' \in BOOLEAN /\ (~active => ~active') /\ mask' \in {"open", "runtime", "masked"}
      /\ (mask = "masked" => mask' = "masked")
      /\ UNCHANGED <<work, defs, late, spent, importer>>
      /\ UNCHANGED <<plan, op, file, gate, chosen, run>>
  <2>1. UNCHANGED <<work, defs, late, spent, importer>> /\ UNCHANGED <<plan, op, file, gate, chosen, run>>
    BY DEF Isolate, importer
  <2>2. mask \in {"open", "runtime", "masked"} /\ active \in BOOLEAN
    BY DEF Inv, Types, TypeOK
  <2>3. CASE active' = FALSE /\ UNCHANGED mask
    BY <2>1, <2>2, <2>3
  <2>4. CASE mask # "masked" /\ mask' \in {"runtime", "masked"} /\ UNCHANGED active
    BY <2>1, <2>2, <2>4
  <2> QED BY <2>3, <2>4 DEF Isolate
<1>2. Types'
  BY <1>1 DEF Inv, Types, TypeOK
<1>3. IsolationHeld'
  BY <1>1 DEF Inv, IsolationHeld, Silent, NoProcess, Closed
<1> QED BY <1>1, <1>2, <1>3, ImporterKept DEF Inv

\* Nothing happens to a task under a silent installation: Dispatch needs the
\* service, End a process, and LateCall a delivery that is not closed.
LEMMA TaskInv ==
  ASSUME Inv, NEW w \in Works, Dispatch(w) \/ End(w) \/ LateCall(w)
  PROVE  Inv'
<1>1. /\ UNCHANGED <<mask, active, defs, late, spent, importer>>
      /\ UNCHANGED <<plan, op, file, gate, chosen, run>>
  BY DEF Dispatch, End, LateCall, importer
<1>2. ~Silent
  BY DEF Dispatch, End, LateCall, Silent, NoProcess, Closed
<1>3. work' \in [Works -> [st : States, boot : Boots]]
  <2>1. work \in [Works -> [st : States, boot : Boots]]
    BY DEF Inv, Types, TypeOK, States, Boots
  <2>2. CASE Dispatch(w)
    BY <2>1, <2>2 DEF Dispatch, States, Boots
  <2>3. CASE End(w)
    BY <2>1, <2>3 DEF End, States
  <2>4. CASE LateCall(w)
    BY <2>1, <2>4 DEF LateCall, States
  <2> QED BY <2>2, <2>3, <2>4
<1>4. Types'
  BY <1>1, <1>3 DEF Inv, Types, TypeOK, States, Boots
<1>5. IsolationHeld'
  BY <1>1, <1>2 DEF Inv, IsolationHeld
<1> QED BY <1>1, <1>4, <1>5, ImporterKept DEF Inv

\* Reboot ends the importer; behind a durable mask the old service stays down
\* and what was closed stays closed.
LEMMA RebootInv ==
  ASSUME Inv, Reboot
  PROVE  Inv'
<1>1. /\ run' = Idle /\ active' = (mask # "masked")
      /\ mask' = (IF mask = "runtime" THEN "open" ELSE mask)
      /\ work' = [w \in Works |-> [st |-> IF work[w].st = "live" THEN "lost" ELSE work[w].st,
                                   boot |-> IF work[w].boot = "this" THEN "past" ELSE work[w].boot]]
      /\ UNCHANGED <<defs, late, plan, op, file, gate, chosen>>
  BY DEF Reboot
<1>2. work \in [Works -> [st : States, boot : Boots]]
  BY DEF Inv, Types, TypeOK, States, Boots
<1>3. work' \in [Works -> [st : States, boot : Boots]]
  BY <1>1, <1>2 DEF States, Boots
<1>4. Types'
  BY <1>1, <1>3 DEF Inv, Types, TypeOK, States, Boots
<1>5. IsolationHeld'
  <2>1. ASSUME Silent, NEW w \in Works
        PROVE  NoProcess(w)' /\ Closed(w)'
    BY <1>1, <1>2, <2>1 DEF Silent, NoProcess, Closed, States, Boots
  <2> QED BY <1>1, <2>1 DEF Inv, IsolationHeld, Silent
<1>6. Course' /\ FilesFit' /\ Decision' /\ AllOrNothing'
  BY <1>1 DEF Inv, Course, FilesFit, Decision, AllOrNothing, Forward, Idle
<1> QED BY <1>4, <1>5, <1>6 DEF Inv

\* Intervene may remove the mask, which is late from then on; the service
\* starts only when no importer holds its lock.
LEMMA InterveneInv ==
  ASSUME Inv, Intervene
  PROVE  Inv'
<1>1. /\ UNCHANGED <<work, plan, op, gate, chosen, run>>
      /\ \/ mask' = "open" /\ late' = TRUE /\ active' = MayStart /\ UNCHANGED <<defs, file>>
         \/ defs' \in 0..2 /\ UNCHANGED <<mask, late, active, file>>
         \/ \E i \in Steps : file' = [file EXCEPT ![i] = "foreign"] /\ UNCHANGED <<mask, late, active, defs>>
  BY DEF Intervene
<1>2. /\ file' \in [Steps -> {"original", "target", "foreign"}]
      /\ \A i \in Steps : file'[i] = file[i] \/ file'[i] = "foreign"
  <2>1. file \in [Steps -> {"original", "target", "foreign"}]
    BY DEF Inv, Types, TypeOK
  <2>2. \/ UNCHANGED file
        \/ \E i \in Steps : file' = [file EXCEPT ![i] = "foreign"]
    BY <1>1
  <2> QED BY <2>1, <2>2
<1>3. /\ mask' \in {"open", "runtime", "masked"} /\ active' \in BOOLEAN /\ late' \in BOOLEAN
      /\ defs' \in 0..2
      /\ (UNCHANGED <<mask, late, active>> \/ (late' /\ (run # Idle => ~active')))
  BY <1>1 DEF MayStart, Inv, Types, TypeOK
<1>4. Types'
  BY <1>1, <1>2, <1>3 DEF Inv, Types, TypeOK
<1>5. IsolationHeld'
  BY <1>1, <1>3 DEF Inv, IsolationHeld, Silent, NoProcess, Closed
<1>6. Course' /\ Decision'
  BY <1>1 DEF Inv, Course, Decision
<1>7. FilesFit' /\ AllOrNothing'
  BY <1>1, <1>2 DEF Inv, FilesFit, AllOrNothing
<1> QED BY <1>4, <1>5, <1>6, <1>7 DEF Inv

-----------------------------------------------------------------------------
(* The invariant and what follows from it *)

\* Before the import nothing is bound, prepared or decided.
LEMMA InitInv ==
  ASSUME BootstrapAssumption, Init
  PROVE  Inv
<1>1. Types
  <2>1. work \in [Works -> [st : {"none", "live", "proved", "lost"}, boot : {"this", "past", "unknown"}]]
    BY DEF Init
  <2>2. plan \in Plans
    BY DEF Init, NoPlan, Plans, States
  <2>3. op \in Records /\ op.prepared \in 0..Files /\ op.dec = "none"
    BY DEF Init, Records, BootstrapAssumption
  <2>4. file \in [Steps -> {"original", "target", "foreign"}]
    BY DEF Init
  <2>5. /\ mask \in {"open", "runtime", "masked"} /\ run \in Running \cup {Idle}
        /\ gate \in {"absent", "open"} /\ defs \in 0..2
    BY DEF Init
  <2>6. active \in BOOLEAN /\ late \in BOOLEAN /\ chosen \in BOOLEAN
    BY DEF Init
  <2>7. op.dec \in {"none", "committed", "rolled_back"}
    BY <2>3
  <2> QED BY <2>1, <2>2, <2>3, <2>4, <2>5, <2>6, <2>7 DEF Types, TypeOK
<1>2. IsolationHeld /\ Course /\ FilesFit /\ Decision /\ AllOrNothing
  BY DEF Init, NoPlan, IsolationHeld, Course, FilesFit, Decision, AllOrNothing, Forward, Idle
<1> QED BY <1>1, <1>2 DEF Inv

\* Every step of the import, its host and its administrator keeps it.
LEMMA StepInv ==
  ASSUME BootstrapAssumption, Inv, [Next]_vars
  PROVE  Inv'
<1>1. CASE Import
  BY <1>1, CreateInv, ResumeInv, PrepareInv, CheckedInv, PublishInv, VerifyInv, DecideInv,
     OpenInv, ReleaseInv, RestoreInv, StopsInv DEF Import
<1>2. CASE \E w \in Works : Dispatch(w) \/ End(w) \/ LateCall(w)
  BY <1>2, TaskInv
<1>3. CASE BuildPlan \/ Rollback \/ Crash \/ Isolate \/ Reboot \/ Intervene
  BY <1>3, BuildPlanInv, RollbackInv, StopsInv, IsolateInv, RebootInv, InterveneInv
<1>4. CASE UNCHANGED vars
  BY <1>4 DEF vars, Inv, Types, TypeOK, IsolationHeld, Silent, NoProcess, Closed, Course, FilesFit,
     Decision, AllOrNothing
<1> QED BY <1>1, <1>2, <1>3, <1>4 DEF Next

\* The invariant holds in every state of the import, however often it is
\* resumed, rolled back and interrupted.
THEOREM Invariance ==
  ASSUME BootstrapAssumption
  PROVE  Spec => []Inv
<1>1. Init => Inv
  BY InitInv
<1>2. Inv /\ [Next]_vars => Inv'
  BY StepInv
<1> QED BY <1>1, <1>2, PTL DEF Spec

\* Every record, file and task keeps its type.
THEOREM TypeCorrect ==
  ASSUME BootstrapAssumption
  PROVE  Spec => []TypeOK
<1>1. Inv => TypeOK
  BY DEF Inv, Types
<1> QED BY <1>1, Invariance, PTL

\* Behind an open gate the old installation does not come back, not after a
\* reboot either, unless its mask was removed after it was last observed
\* (bootstrap.py: the observer asks for a persistent mask): an open gate has a
\* decision, the decision an operation, and the operation a bound plan.
THEOREM NoSecondDispatcherHolds ==
  ASSUME BootstrapAssumption
  PROVE  Spec => []NoSecondDispatcher
<1>1. Inv => NoSecondDispatcher
  BY DEF Inv, AllOrNothing, Course, IsolationHeld, Silent, NoProcess, NoSecondDispatcher
<1> QED BY <1>1, Invariance, PTL

\* The selection, the gate, the decision and the files go together, and a
\* rolled back operation leaves none of them (bootstrap.py, _adopt_bootstrap
\* and _rollback_locked).
THEOREM AllOrNothingHolds ==
  ASSUME BootstrapAssumption
  PROVE  Spec => []AllOrNothing
<1>1. Inv => AllOrNothing
  BY DEF Inv
<1> QED BY <1>1, Invariance, PTL

\* The gate is opened, and the selection published, under the lock the last
\* observation was made with, so the old service is down, no call of it can
\* act, and what is retained is every task it ever accepted
\* (bootstrap.py, legacy_locks and OfflineObserver).
LEMMA StepQuiet ==
  ASSUME Inv, [Next]_vars
  PROVE  OpensQuiet /\ NothingHidden
<1>1. gate' # gate => OpenGate
  BY DEF Next, vars, Import, Create, Resume, Prepare, Checked, Publish, Verify, Decide,
     PublishSelection, Release, Restore, Failed, BuildPlan, Rollback, Crash, Isolate, Reboot,
     Intervene, Dispatch, End, LateCall, importer
<1>2. chosen' # chosen => PublishSelection
  BY DEF Next, vars, Import, Create, Resume, Prepare, Checked, Publish, Verify, Decide,
     OpenGate, Release, Restore, Failed, BuildPlan, Rollback, Crash, Isolate, Reboot,
     Intervene, Dispatch, End, LateCall, importer
<1>3. OpensQuiet
  BY <1>1 DEF OpensQuiet, OpenGate, Idle, Inv, IsolationHeld, Silent, NoProcess
<1>4. NothingHidden
  BY <1>2 DEF NothingHidden, PublishSelection, Idle, Inv, IsolationHeld
<1> QED BY <1>3, <1>4

\* The gate opens only when no owner of the old installation is alive and no
\* call it delivered can still act (bootstrap.py, OfflineObserver).
THEOREM OpensQuietHolds ==
  ASSUME BootstrapAssumption
  PROVE  Spec => [][OpensQuiet]_vars
<1>1. Inv /\ [Next]_vars => [OpensQuiet]_vars
  BY StepQuiet
<1> QED BY <1>1, Invariance, PTL DEF Spec

\* The selection retains every task the old service ever accepted
\* (bootstrap.py: the second observation must equal the plan's).
THEOREM NothingHiddenHolds ==
  ASSUME BootstrapAssumption
  PROVE  Spec => [][NothingHidden]_vars
<1>1. Inv /\ [Next]_vars => [NothingHidden]_vars
  BY StepQuiet
<1> QED BY <1>1, Invariance, PTL DEF Spec

\* Through crashes, reboots and what administrators do, the import of
\* bootstrap.py leaves one dispatcher, and is in force as a whole or not at all.
THEOREM ImportSafetyHolds ==
  ASSUME BootstrapAssumption
  PROVE  Spec => []ImportSafety
<1>1. TypeOK /\ NoSecondDispatcher /\ AllOrNothing => ImportSafety
  BY DEF ImportSafety
<1> QED BY <1>1, TypeCorrect, NoSecondDispatcherHolds, AllOrNothingHolds, PTL
=============================================================================
