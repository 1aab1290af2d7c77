---------------------------- MODULE StageRunner ----------------------------
(***************************************************************************)
(* The supervision of one execution (local_hand_jobs/runner.py): the       *)
(* Runner starts one observer thread, which delivers the bootstrap, then   *)
(* the helper, then the result reader as units of a process manager, one   *)
(* after the proved end of the other, and keeps the latest proof for the   *)
(* broker.  The units are those of the system manager: their clients hold  *)
(* the pipes and wait until the unit is stopped, and only that broker      *)
(* process has the pipes.  A new broker process reattaches: it observes    *)
(* and stops the three deterministic units and delivers nothing.           *)
(*                                                                         *)
(* The start guard is the broker's: it records a stage durably before the  *)
(* delivery and refuses it after a durable cancellation.                   *)
(***************************************************************************)
EXTENDS Naturals, FiniteSets

CONSTANTS
  Faults,       \* whether deliveries, stops and observations may fail
  MaxRestarts   \* bound: restarts of the broker process

RunnerAssumption == Faults \in BOOLEAN /\ MaxRestarts \in Nat

Stages == 1..3              \* bootstrap, helper, result reader
NoProof == [state |-> "UNKNOWN", verified |-> FALSE, prevented |-> FALSE, collectors |-> FALSE]
NewPart == [known |-> FALSE, attempted |-> FALSE, prevented |-> FALSE, inv |-> FALSE, stopped |-> FALSE,
            term |-> "none", final |-> FALSE]

VARIABLES
  thread,     \* none, gate, start, attach, watch, ended
  aborted,    \* the gate of the thread was closed before it opened
  cancel,     \* the execution's cancel event
  cancelled,  \* the broker's durable cancellation
  receipts,   \* stages the start guard recorded durably
  part,       \* per stage: the handle's part
  tried,      \* stages whose delivery was attempted by the transition
  recovered,  \* the handle was reattached
  saved,      \* stages whose invocation is in the durable recovery handle
  proof,      \* item.proof
  late,       \* the phase's deadline has passed
  unit,       \* per stage: what the process manager has
  held,       \* per stage: the gateway's record of its identity and of its stop
  client,     \* per stage: the waiting client
  payload,    \* the result as the reader's pipe delivered it
  starts,     \* history: deliveries of a stage
  restarts

vars == <<thread, aborted, cancel, cancelled, receipts, part, tried, recovered, saved, proof, late, unit, held, client,
          payload, starts, restarts>>
memory == <<aborted, cancel, part, tried, recovered>>
durable == <<cancelled, receipts, saved>>
world == <<late, unit, held, client, payload, starts, restarts>>

Loaded(s) == unit[s] \in {"active", "good", "bad"}
Live(s) == unit[s] \in {"queued", "active"}
\* parent: the populated flag of the manager's parent group, recursively.
TreeEmpty == \A s \in Stages : unit[s] # "active"

\* Fault: a stop is looked at when the time is over.
RequestedAtDeadline == cancel /\ late

\* stop: the event of the execution.
Requested == cancel
Final(s) == part[s].final
Torn(s) == s = 3 /\ payload = "broken"

\* _adopt_recovery_history: a reattached stage takes the gateway's record over.
Bound(s) == part[s].inv \/ (recovered /\ held[s].inv)
Stopped(s) == part[s].stopped \/ (recovered /\ held[s].stop)

-----------------------------------------------------------------------------
(* The Runner *)

\* start: one observer thread behind a gate.
Start ==
  /\ thread = "none" /\ restarts = 0 /\ proof = NoProof
  /\ thread' = "gate"
  /\ UNCHANGED <<memory, durable, proof, world>>

GateOpens ==
  /\ thread = "gate" /\ ~aborted
  /\ thread' = IF recovered THEN "attach" ELSE "start"
  /\ UNCHANGED <<memory, durable, proof, world>>

\* _launch_supervisor: the thread's start failed; the gate is closed, so nothing can be delivered.
GateFails ==
  /\ thread = "gate" /\ Faults /\ ~aborted /\ ~recovered
  /\ aborted' = TRUE /\ thread' = "ended"
  /\ proof' = [NoProof EXCEPT !.state = "EXITED", !.prevented = TRUE, !.collectors = TRUE]
  /\ UNCHANGED <<cancel, part, tried, recovered, durable, world>>

\* stop: the event is all the Runner sets.
Stop ==
  /\ thread \in {"gate", "start", "attach", "watch"} /\ cancelled /\ ~cancel
  /\ cancel' = TRUE
  /\ UNCHANGED <<thread, aborted, part, tried, recovered, durable, proof, world>>

\* _supervise: cancelled before anything was started.
CancelledEarly ==
  /\ thread = "start" /\ cancel
  /\ thread' = "ended" /\ proof' = [NoProof EXCEPT !.state = "EXITED", !.prevented = TRUE, !.collectors = TRUE]
  /\ UNCHANGED <<memory, durable, world>>

-----------------------------------------------------------------------------
(* Delivery of a stage *)

\* The transition to a stage is attempted once; a reattached handle has attempted all.
Untried(s) == s \notin tried /\ ~recovered

\* _start, inspect and _inspect_result_reader: the stage before is proved over.
Ready(s) ==
  CASE s = 1 -> thread = "start" /\ ~cancel
    [] s = 2 -> thread = "watch" /\ Final(1) /\ part[1].term = "good" /\ ~cancel
    [] OTHER -> thread = "watch" /\ Final(2) /\ ~cancel

\* The guard records the stage, and the command is given to the manager.
Deliver(s) ==
  /\ Ready(s) /\ Untried(s) /\ ~cancelled /\ TreeEmpty /\ ~late
  /\ tried' = tried \cup {s} /\ receipts' = receipts \cup {s}
  /\ part' = [part EXCEPT ![s].known = TRUE, ![s].attempted = TRUE]
  /\ unit' = [unit EXCEPT ![s] = "queued"] /\ client' = [client EXCEPT ![s] = "live"]
  /\ starts' = [starts EXCEPT ![s] = @ + 1]
  /\ thread' = "watch"
  /\ UNCHANGED <<aborted, cancel, recovered, cancelled, saved, proof, late, held, payload, restarts>>

\* The launch raises after the attempt was recorded: the unit exists or not.
DeliverLost(s) ==
  /\ Faults /\ Ready(s) /\ Untried(s) /\ ~cancelled /\ ~late
  /\ tried' = tried \cup {s} /\ receipts' = receipts \cup {s}
  /\ part' = [part EXCEPT ![s].known = TRUE, ![s].attempted = TRUE]
  /\ \E u \in {"queued", "never"} : unit' = [unit EXCEPT ![s] = u]
  /\ client' = [client EXCEPT ![s] = "exited"] /\ starts' = [starts EXCEPT ![s] = @ + 1]
  /\ thread' = "watch"
  /\ UNCHANGED <<aborted, cancel, recovered, cancelled, saved, proof, late, held, payload, restarts>>

\* The guard refuses a cancelled execution, or the event is set inside it.
DeliverRefused(s) ==
  /\ Ready(s) /\ Untried(s) /\ cancelled
  /\ tried' = tried \cup {s}
  /\ part' = [part EXCEPT ![s].known = TRUE, ![s].prevented = TRUE, ![s].final = TRUE]
  /\ thread' = "watch"
  /\ UNCHANGED <<aborted, cancel, recovered, durable, proof, world>>

\* Admission, limits or the deadline stop the transition before the attempt.
DeliverFails(s) ==
  /\ Faults \/ late \/ ~TreeEmpty
  /\ Ready(s) /\ Untried(s)
  /\ tried' = tried \cup {s}
  /\ IF s = 1
     THEN /\ thread' = "ended"
          /\ \E nostart \in BOOLEAN : proof' = IF nostart
               THEN [NoProof EXCEPT !.state = "EXITED", !.prevented = TRUE, !.collectors = TRUE] ELSE NoProof
     ELSE UNCHANGED <<thread, proof>>
  /\ UNCHANGED <<aborted, cancel, part, recovered, durable, world>>

-----------------------------------------------------------------------------
(* Observation *)

\* _inspect_unit of a delivered stage that the manager has: its identity, its end.
Observe(s) ==
  /\ thread = "watch" /\ part[s].known /\ ~Final(s) /\ Loaded(s)
  /\ recovered \/ part[s].attempted
  /\ part' = [part EXCEPT ![s].inv = TRUE, ![s].term = IF @ = "none" /\ unit[s] # "active" THEN unit[s] ELSE @]
  /\ part' # part
  /\ held' = [held EXCEPT ![s].inv = TRUE]
  /\ UNCHANGED <<thread, aborted, cancel, tried, recovered, durable, proof, late, unit, client, payload, starts, restarts>>

\* The unit is stopped when it ended, its time is over, or a stop was requested.
StopUnit(s) ==
  /\ thread = "watch" /\ part[s].known /\ ~Final(s) /\ Loaded(s) /\ Bound(s)
  /\ unit[s] # "active" \/ late \/ Requested \/ recovered \/ Torn(s)
  /\ part[s].term = "none" => unit[s] = "active"
  /\ \E ok \in IF Faults THEN BOOLEAN ELSE {TRUE}, gone \in IF Faults THEN BOOLEAN ELSE {TRUE} :
       /\ ok => gone
       /\ held' = [held EXCEPT ![s].stop = gone]
       /\ part' = [part EXCEPT ![s].stopped = ok]
       /\ unit' = IF gone THEN [unit EXCEPT ![s] = "gone"] ELSE unit
  /\ UNCHANGED <<thread, aborted, cancel, tried, recovered, durable, proof, late, client, payload, starts, restarts>>

\* Fault: an absent unit is a stage that is over.
OverAbsent(s) == part[s].known /\ ~Loaded(s) /\ TreeEmpty

\* observe: only a stop acknowledged for the bound identity bridges the unit's absence.
Over(s) ==
  /\ part[s].known /\ Bound(s) /\ Stopped(s) /\ ~Loaded(s) /\ TreeEmpty
  /\ recovered \/ (client[s] = "exited" /\ ~Torn(s))

\* The stage's exit is proved and kept; the deadline lets only a cancelled one end.
Finish(s) ==
  /\ thread = "watch" /\ ~Final(s) /\ Over(s)
  /\ late => Requested \/ recovered
  /\ part' = [part EXCEPT ![s].final = TRUE, ![s].term = IF late THEN "bad" ELSE @]
  /\ UNCHANGED <<thread, aborted, cancel, tried, recovered, durable, proof, world>>

\* The manager knows that a stage was never delivered (recovered handles only).
NeverDelivered(s) ==
  /\ thread = "watch" /\ recovered /\ part[s].known /\ ~Final(s) /\ ~Bound(s)
  /\ starts[s] = 0 /\ TreeEmpty
  /\ part' = [part EXCEPT ![s].final = TRUE, ![s].prevented = TRUE]
  /\ UNCHANGED <<thread, aborted, cancel, tried, recovered, durable, proof, world>>

-----------------------------------------------------------------------------
(* The proof the broker reads *)

Exit(verified, prevented) ==
  [state |-> "EXITED", verified |-> verified, prevented |-> prevented, collectors |-> ~recovered]

\* Nothing of a stage was given to the manager and nothing will be.
NotCalled(s) == ~part[s].attempted /\ (s \in tried \/ cancel)

\* _inspect_result_reader: the reader ended well with a complete frame.
Verified == Final(3) /\ part[3].term = "good" /\ payload = "whole"

\* inspect of a live handle: the stages in order.
Conclude ==
  /\ thread = "watch" /\ ~recovered /\ Final(1)
  /\ \/ part[1].term # "good" /\ proof' = Exit(FALSE, part[1].prevented)
     \/ part[1].term = "good" /\ NotCalled(2) /\ proof' = Exit(FALSE, FALSE)
     \/ Final(2) /\ part[2].attempted /\ NotCalled(3) /\ proof' = Exit(FALSE, FALSE)
     \/ Final(2) /\ part[2].attempted /\ Final(3) /\ proof' = Exit(Verified, FALSE)
  /\ thread' = "ended"
  /\ UNCHANGED <<memory, durable, world>>

\* inspect of a reattached handle: all three original identities are over.
ConcludeRecovered ==
  /\ thread = "watch" /\ recovered /\ \A s \in Stages : Final(s)
  /\ proof' = Exit(FALSE, part[2].prevented) /\ thread' = "ended"
  /\ UNCHANGED <<memory, durable, world>>

\* The broker stores the recovery handle of the latest observation.
Save ==
  /\ thread \in {"watch", "ended"}
  /\ LET seen == {s \in Stages : part[s].inv} IN seen # saved /\ saved' = saved \cup seen
  /\ saved' # saved
  /\ UNCHANGED <<thread, memory, cancelled, receipts, proof, world>>

-----------------------------------------------------------------------------
(* Restart, the broker's cancellation, and the manager's side *)

\* The broker process dies: thread, handle and pipes are lost.
Restart ==
  /\ restarts < MaxRestarts /\ thread # "none" /\ proof.state # "EXITED"
  /\ restarts' = restarts + 1
  /\ thread' = "gate" /\ aborted' = FALSE /\ recovered' = TRUE /\ cancel' = cancelled /\ tried' = Stages
  /\ part' = [s \in Stages |-> NewPart] /\ proof' = NoProof
  /\ client' = [s \in Stages |-> IF client[s] = "live" THEN "exited" ELSE client[s]]
  /\ payload' = "lost"
  /\ UNCHANGED <<durable, late, unit, held, starts>>

\* reattach: the identities are rebuilt from the plan and the saved handle.
Attach ==
  /\ thread = "attach"
  /\ part' = [s \in Stages |-> [NewPart EXCEPT !.known = TRUE, !.inv = s \in saved]]
  /\ thread' = "watch"
  /\ UNCHANGED <<aborted, cancel, tried, recovered, durable, proof, world>>

\* The durable cancellation of the broker.
Cancel ==
  /\ ~cancelled /\ cancelled' = TRUE
  /\ UNCHANGED <<thread, memory, receipts, saved, proof, world>>

UnitStarts(s) ==
  /\ unit[s] = "queued"
  /\ \E u \in IF Faults THEN {"active", "never"} ELSE {"active"} : unit' = [unit EXCEPT ![s] = u]
  /\ UNCHANGED <<thread, memory, durable, proof, late, held, client, payload, starts, restarts>>

UnitEnds(s) ==
  /\ unit[s] = "active"
  /\ \E u \in {"good", "bad"} :
       /\ unit' = [unit EXCEPT ![s] = u]
       /\ IF s = 3 /\ u = "good" /\ payload = "none"
          THEN \E p \in IF Faults THEN {"whole", "short"} ELSE {"whole"} : payload' = p
          ELSE UNCHANGED payload
  /\ UNCHANGED <<thread, memory, durable, proof, late, held, client, starts, restarts>>

ClientExits(s) ==
  /\ client[s] = "live" /\ unit[s] \in {"gone", "never"} /\ client' = [client EXCEPT ![s] = "exited"]
  /\ UNCHANGED <<thread, memory, durable, proof, late, unit, held, payload, starts, restarts>>

\* pump: a frame of the result is refused, or the pipe cannot be read.
PipeBreaks ==
  /\ Faults /\ payload \in {"none", "whole"} /\ unit[3] # "absent" /\ ~Final(3) /\ payload' = "broken"
  /\ UNCHANGED <<thread, memory, durable, proof, late, unit, held, client, starts, restarts>>

Expire == ~late /\ late' = TRUE /\ UNCHANGED <<thread, memory, durable, proof, unit, held, client, payload, starts, restarts>>

Init ==
  /\ thread = "none" /\ aborted = FALSE /\ cancel = FALSE /\ cancelled = FALSE /\ receipts = {}
  /\ part = [s \in Stages |-> NewPart] /\ tried = {} /\ recovered = FALSE /\ saved = {} /\ proof = NoProof
  /\ late = FALSE /\ unit = [s \in Stages |-> "absent"] /\ client = [s \in Stages |-> "none"]
  /\ held = [s \in Stages |-> [inv |-> FALSE, stop |-> FALSE]]
  /\ payload = "none" /\ starts = [s \in Stages |-> 0] /\ restarts = 0

Runner == Start \/ GateOpens \/ GateFails \/ Stop \/ CancelledEarly \/ Conclude \/ ConcludeRecovered \/ Save
Stage(s) ==
  \/ Deliver(s) \/ DeliverLost(s) \/ DeliverRefused(s) \/ DeliverFails(s)
  \/ Observe(s) \/ StopUnit(s) \/ Finish(s) \/ NeverDelivered(s)
World(s) == UnitStarts(s) \/ UnitEnds(s) \/ ClientExits(s)

Next ==
  \/ Runner \/ Restart \/ Attach \/ Cancel \/ PipeBreaks \/ Expire
  \/ \E s \in Stages : Stage(s) \/ World(s)

\* The thread polls without end, the manager handles what is queued and clients see their unit's end; a unit need not end.
Fairness ==
  /\ WF_vars(GateOpens) /\ WF_vars(Stop) /\ WF_vars(Attach) /\ WF_vars(CancelledEarly)
  /\ \A s \in Stages : /\ WF_vars(Observe(s)) /\ WF_vars(StopUnit(s)) /\ WF_vars(Finish(s))
                       /\ WF_vars(UnitStarts(s)) /\ WF_vars(ClientExits(s)) /\ WF_vars(DeliverRefused(s))
                       /\ WF_vars(NeverDelivered(s))
  /\ WF_vars(Conclude) /\ WF_vars(ConcludeRecovered)

Spec == Init /\ [][Next]_vars
FairSpec == Spec /\ Fairness

-----------------------------------------------------------------------------
TypeOK ==
  /\ thread \in {"none", "gate", "start", "attach", "watch", "ended"}
  /\ {aborted, cancel, cancelled, recovered, late} \subseteq BOOLEAN
  /\ receipts \subseteq Stages /\ tried \subseteq Stages /\ saved \subseteq Stages
  /\ unit \in [Stages -> {"absent", "queued", "active", "good", "bad", "gone", "never"}]
  /\ client \in [Stages -> {"none", "live", "exited"}] /\ payload \in {"none", "whole", "short", "broken", "lost"}
  /\ proof.state \in {"UNKNOWN", "EXITED"} /\ restarts \in 0..MaxRestarts
  /\ starts \in [Stages -> 0..1]

(* A stage is delivered once, and only after its durable receipt: no        *)
(* exception, no restart and no reattachment repeats it.                    *)
DeliveredOnce == \A s \in Stages : starts[s] <= 1 /\ (starts[s] = 1 => s \in receipts)

(* The processes of two stages never run together.                          *)
StagesExclude == Cardinality({s \in Stages : unit[s] = "active"}) <= 1

(* An exit proof means that no stage runs and that none is left that the    *)
(* manager may still start, however the execution got there.                *)
ExitIsFinal == proof.state = "EXITED" => \A s \in Stages : ~Live(s)

(* A verified result came through the pipes of the process that started the *)
(* execution, from a reader that ended well after a helper that is over.    *)
VerifiedIsReal ==
  proof.verified => /\ payload = "whole" /\ ~recovered
                    /\ \A s \in Stages : starts[s] = 1 /\ part[s].final

(* The safety of an execution: each stage once and alone, and nothing       *)
(* reported that is not so.                                                 *)
StageSafety == TypeOK /\ DeliveredOnce /\ StagesExclude /\ ExitIsFinal /\ VerifiedIsReal

(* After a restart nothing is delivered any more.                           *)
ReattachDeliversNothing == recovered => starts' = starts

(* A cancelled execution with no faults comes to an exit proof, in the      *)
(* process that started it or in the one that reattached.                   *)
CancelEnds == (cancelled /\ thread # "none") ~> (proof.state = "EXITED" \/ late)

=============================================================================
