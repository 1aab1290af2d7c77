------------------------------ MODULE Launcher ------------------------------
(***************************************************************************)
(* FixedLauncher of admin/local_hand_system_manager/prepared_service.py:   *)
(* the start of the one controller of a prepared task.  A start is         *)
(* admitted by the maintenance gate, recorded as launch-intent.json,       *)
(* dispatched at the gate and delivered by Popen; a thread collects the    *)
(* controller's output, and finished.json records its exit.  A start that  *)
(* fails before Popen moves the intent away and closes its responsibility  *)
(* as never dispatched, now or at a later call.  A restarted launcher has  *)
(* only the files and the gate.                                            *)
(***************************************************************************)
EXTENDS Naturals, FiniteSets

CONSTANTS
  MaxStarts,     \* bound: admission attempts explored (not in the code)
  MaxStops,      \* bound: restarts explored (not in the code)
  Interrupts     \* whether Popen may be interrupted with an unknown outcome

BoundAssumption == MaxStarts \in Nat \ {0} /\ MaxStops \in Nat
InterruptsAssumption == Interrupts \in BOOLEAN

Ids == 1..MaxStarts
Nothing == 0

VARIABLES
  open,      \* the gate's marker
  duty,      \* the gate's execution responsibilities, by attempt id
  files,     \* launch-intent.json, started.json, finished.json
  unit,      \* the controller's unit
  child,     \* attempts whose Popen created a controller
  m,         \* the launcher's memory
  pc,        \* the step of the running start call
  stops

vars == <<open, duty, files, unit, child, m, pc, stops>>

DutyStates == {"NONE", "ACCEPTED", "DISPATCHING", "never_dispatched", "process_exited"}
Unresolved == {i \in Ids : duty[i] \in {"ACCEPTED", "DISPATCHING"}}

\* process: no controller, one whose pipes are read, or one that was collected.
Fresh == [process |-> "none", started |-> FALSE, finished |-> FALSE,
          admission |-> Nothing, attempt |-> Nothing, unstarted |-> Nothing,
          unresolved |-> FALSE, failure |-> FALSE]
Memory == [process : {"none", "running", "complete"}, started : BOOLEAN,
           finished : BOOLEAN, admission : Ids \cup {Nothing},
           attempt : Ids \cup {Nothing}, unstarted : Ids \cup {Nothing},
           unresolved : BOOLEAN, failure : BOOLEAN]
NoFiles == [intent |-> FALSE, started |-> FALSE, finished |-> "none"]
Idle == pc = "idle"

-----------------------------------------------------------------------------
(* Repairs that every call makes first.  Each may fail and stay pending.     *)

\* _finish_local_failure: the unstarted intent is renamed to a failure record,
\* by the start that failed or by a later call.
FinishLocalFailure ==
  /\ pc \in {"idle", "closure"} /\ m.failure
  /\ files' = [files EXCEPT !.intent = FALSE]
  /\ m' = [m EXCEPT !.failure = FALSE]
  /\ UNCHANGED <<open, duty, unit, child, pc, stops>>

\* What _finish_unstarted_admission may close.
UnstartedReceipt ==
  /\ m.unstarted # Nothing /\ m.admission = m.unstarted
  /\ m.process = "none" /\ ~m.started

\* The closure at the gate, whose reply may be lost after the write.
CloseUnstarted ==
  /\ UnstartedReceipt
  /\ duty' = [duty EXCEPT ![m.admission] = "never_dispatched"]
  /\ m' \in {m, [m EXCEPT !.admission = Nothing, !.unstarted = Nothing, !.attempt = Nothing]}

\* state and retire come to it only after the intent was moved away.
FinishUnstarted ==
  /\ Idle /\ ~m.failure /\ ~m.unresolved /\ CloseUnstarted
  /\ UNCHANGED <<open, files, unit, child, pc, stops>>

Settled == Idle /\ ~m.failure /\ ~m.unresolved /\ m.unstarted = Nothing

\* The answer of state(), once the repairs succeeded.
State ==
  IF m.finished THEN "EXITED"
  ELSE IF m.process = "running" THEN "RUNNING"
  ELSE IF m.process = "complete" THEN "UNPUBLISHED"
  ELSE IF m.started THEN "IO_UNCERTAIN"
  ELSE IF m.admission # Nothing /\ duty[m.admission] = "DISPATCHING" THEN "IO_UNCERTAIN"
  ELSE "IDLE"

-----------------------------------------------------------------------------
(* start and _start                                                          *)

\* The attempt id survives a lost acknowledgement.
Attempt == IF m.attempt # Nothing THEN {m.attempt} ELSE {i \in Ids : duty[i] = "NONE"}

\* The gate accepts (a repeated attempt even while CLOSED), or refuses, or the
\* acceptance is durable and its reply is lost.
Accept ==
  /\ Settled /\ State = "IDLE" /\ m.admission = Nothing
  /\ \E i \in Attempt :
        \/ /\ duty[i] \in {"ACCEPTED", "DISPATCHING"} \/ (duty[i] = "NONE" /\ open)
           /\ duty' = [duty EXCEPT ![i] = IF @ = "NONE" THEN "ACCEPTED" ELSE @]
           /\ \/ /\ m' = [m EXCEPT !.admission = i, !.attempt = Nothing]
                 /\ pc' = "intent"
              \/ m' = [m EXCEPT !.attempt = i] /\ UNCHANGED pc
        \/ /\ duty[i] = "NONE" /\ ~open
           /\ m' = [m EXCEPT !.attempt = i] /\ UNCHANGED <<duty, pc>>
  /\ UNCHANGED <<open, files, unit, child, stops>>

\* A failure before Popen returned: the receipt is kept for its closure, which
\* start tries next; an intent this call created is kept for its renaming.
Fails(intent) ==
  /\ m' = [m EXCEPT !.failure = intent, !.unresolved = FALSE,
                    !.unstarted = m.admission]
  /\ pc' = "closure"

\* start's own attempt, whatever became of the intent; the error is raised on.
FailedStart ==
  /\ pc = "closure" /\ pc' = "idle"
  /\ CloseUnstarted \/ UNCHANGED <<duty, m>>
  /\ UNCHANGED <<open, files, unit, child, stops>>

\* _commit_intent (O_EXCL) and the start of the capturing thread.
CommitIntent ==
  /\ pc = "intent"
  /\ \/ /\ ~files.intent /\ files' = [files EXCEPT !.intent = TRUE]
        /\ \/ pc' = "dispatch" /\ UNCHANGED m
           \/ Fails(TRUE)
     \/ ~files.intent /\ UNCHANGED files /\ Fails(FALSE)
  /\ UNCHANGED <<open, duty, unit, child, stops>>

Dispatch ==
  /\ pc = "dispatch"
  /\ \/ /\ duty[m.admission] = "ACCEPTED"
        /\ duty' = [duty EXCEPT ![m.admission] = "DISPATCHING"]
        /\ \/ m' = [m EXCEPT !.unresolved = TRUE] /\ pc' = "popen"
           \/ Fails(TRUE)
     \/ UNCHANGED duty /\ Fails(TRUE)
  /\ UNCHANGED <<open, files, unit, child, stops>>

\* Fault: an interrupted Popen counts as one that created nothing.
PopenInterruptedFails ==
  /\ pc = "popen" /\ Fails(TRUE)
  /\ \/ UNCHANGED <<child, unit>>
     \/ child' = child \cup {m.admission} /\ unit' = "active"
  /\ UNCHANGED <<open, duty, files, stops>>

\* Popen: a controller, a proven failure, or (interrupted) an unknown outcome.
Popen ==
  /\ pc = "popen"
  /\ \/ /\ child' = child \cup {m.admission} /\ unit' = "active"
        /\ m' = [m EXCEPT !.process = "running", !.started = TRUE, !.unresolved = FALSE]
        /\ pc' = "started"
     \/ Fails(TRUE) /\ UNCHANGED <<child, unit>>
     \/ /\ Interrupts /\ pc' = "idle" /\ UNCHANGED m
        /\ \/ UNCHANGED <<child, unit>>
           \/ child' = child \cup {m.admission} /\ unit' = "active"
  /\ UNCHANGED <<open, duty, files, stops>>

SaveStarted ==
  /\ pc = "started" /\ pc' = "idle"
  /\ files' \in {files, [files EXCEPT !.started = TRUE]}
  /\ UNCHANGED <<open, duty, unit, child, m, stops>>

-----------------------------------------------------------------------------
(* The controller, its collection and the exit record                        *)

UnitEnds ==
  /\ unit = "active" /\ unit' = "closed"
  /\ UNCHANGED <<open, duty, files, child, m, pc, stops>>

\* _capture: end of file on both pipes and the exit of the waiting systemd-run,
\* which proves the unit's end only when its code is zero.  (_publish_completion
\* is part of the next call when it fails here.)
Capture ==
  /\ m.process = "running"
  /\ m' = [m EXCEPT !.process = "complete"]
  /\ UNCHANGED <<open, duty, files, unit, child, pc, stops>>

\* _publish_completion: created once, then only confirmed.
PublishCompletion ==
  /\ Settled /\ m.process = "complete" /\ ~m.finished
  /\ \/ /\ files.finished = "none"
        /\ \E code \in {"zero", "failed"} :
              /\ code = "zero" => unit = "closed"
              /\ files' = [files EXCEPT !.finished = code]
     \/ files.finished # "none" /\ UNCHANGED files
  /\ m' \in {m, [m EXCEPT !.finished = TRUE]}
  /\ UNCHANGED <<open, duty, unit, child, pc, stops>>

\* unit_closed is asked only when the code does not prove it.
ProvedExit == files.finished = "zero" \/ unit = "closed"

\* _maintenance_finish; its failure leaves the responsibility visible.
MaintenanceFinish ==
  /\ Settled /\ m.finished /\ m.admission # Nothing
  /\ duty[m.admission] \in {"ACCEPTED", "DISPATCHING"} /\ ProvedExit
  /\ duty' = [duty EXCEPT ![m.admission] = "process_exited"]
  /\ UNCHANGED <<open, files, unit, child, m, pc, stops>>

-----------------------------------------------------------------------------

\* retire_unstarted_admission: the drain gives up an acceptance whose reply was
\* lost; its receipt is kept until the closure is confirmed.
Retire ==
  /\ Settled /\ State = "IDLE" /\ m.admission = Nothing /\ m.attempt # Nothing
  /\ duty[m.attempt] \in {"ACCEPTED", "never_dispatched"}
  /\ m' = [m EXCEPT !.admission = m.attempt, !.unstarted = m.attempt]
  /\ UNCHANGED <<open, duty, files, unit, child, pc, stops>>

Marker ==
  /\ open' = ~open
  /\ UNCHANGED <<duty, files, unit, child, m, pc, stops>>

\* A surviving intent counts as a start: its effects are unknown.
PriorStart == files.started \/ files.intent

\* A new launcher after a crash: _initialize_state reads the files,
\* _restore_maintenance_admission adopts the one unresolved responsibility and
\* plans the closure of one that was never dispatched.
Restart ==
  LET restored == IF Unresolved = {} THEN Nothing ELSE CHOOSE i \in Unresolved : TRUE
      unstarted == restored # Nothing /\ duty[restored] = "ACCEPTED" /\ ~PriorStart
  IN /\ stops < MaxStops /\ stops' = stops + 1
     /\ pc' = "idle"
     /\ m' = [Fresh EXCEPT !.started = PriorStart,
                           !.finished = files.finished # "none",
                           !.admission = restored,
                           !.unstarted = IF unstarted THEN restored ELSE Nothing]
     /\ UNCHANGED <<open, duty, files, unit, child>>

-----------------------------------------------------------------------------
Init ==
  /\ open = TRUE /\ duty = [i \in Ids |-> "NONE"] /\ files = NoFiles
  /\ unit = "none" /\ child = {} /\ m = Fresh /\ pc = "idle" /\ stops = 0

StartCall == Accept \/ CommitIntent \/ Dispatch \/ Popen \/ SaveStarted \/ FailedStart
Repairs == \/ FinishLocalFailure \/ FinishUnstarted \/ PublishCompletion
           \/ MaintenanceFinish
Next == \/ StartCall \/ Repairs \/ Capture \/ UnitEnds \/ Retire
        \/ Marker \/ Restart

Spec == Init /\ [][Next]_vars

-----------------------------------------------------------------------------
\* The form of the gate's responsibilities, the files and the memory.
TypeOK ==
  /\ open \in BOOLEAN /\ duty \in [Ids -> DutyStates] /\ m \in Memory
  /\ files \in [intent : BOOLEAN, started : BOOLEAN, finished : {"none", "zero", "failed"}]
  /\ unit \in {"none", "active", "closed"} /\ child \in SUBSET Ids /\ stops \in 0..MaxStops
  /\ pc \in {"idle", "intent", "dispatch", "popen", "started", "closure"}

\* A prepared task gets at most one controller, whatever replies are lost and
\* however often the launcher restarts ("Never issue another controller start
\* for a retained launch intent").
OneController == Cardinality(child) <= 1

\* A responsibility closed as never dispatched has no controller, now or later.
NeverDispatchedNoChild == \A i \in child : duty[i] # "never_dispatched"

\* While the controller runs some responsibility of it is unresolved: a drained
\* node runs no controller (_maintenance_finish: a failed waiter proves nothing).
DutyCoversController == unit = "active" => child \cap Unresolved # {}

\* A published exit record is never replaced by another one.
ExitRecordFinal ==
  files.finished # "none" => files'.finished = files.finished

=============================================================================
