------------------------------- MODULE Deploy -------------------------------
(***************************************************************************)
(* The deployment coordinator of tools/admin/local_hand_deploy:            *)
(* coordinator.py over the SQLite store (store.py), with the maintenance   *)
(* gate (module MaintenanceGate), the startup selection and the managed    *)
(* objects as its environment (runtime.py).                                *)
(*                                                                         *)
(* A command (apply, resume, rollback, supersede) takes the node lock,     *)
(* reads the operation and runs until it finishes or waits.  Every save is *)
(* a durable commit; the process may die, or an adapter may fail, between  *)
(* any two of them, and the next command starts from what was committed.   *)
(* "run" is the command in progress: run.at is the place before its next   *)
(* effect or commit.  The callers that carry out an action may outlive it. *)
(*                                                                         *)
(* Scope: security repairs (isolation before the drain), the retention of  *)
(* preparations and the record budgets are left out; the object of a step  *)
(* is one value; nobody but deployments changes objects or selection.      *)
(* An operator under a comment "Fault" is the definition below it with a   *)
(* plausible mistake and not part of the specification.                    *)
(***************************************************************************)
EXTENDS Integers, Sequences, FiniteSets, Functions

CONSTANTS
  Ops,          \* deployment operations
  NSteps,       \* managed objects, one step of a plan for each
  StartSteps,   \* the steps that start a service and so publish a candidate
  Deployments, Base,   \* deployments, and the one in place at first
  Keys, Tasks, Attempts, Boot,  \* responsibilities at the gate
  Nobody,       \* no operation, owner or decision
  NoExpectation,
  SyncLoss,     \* whether a rename of the gate can be visible and not durable
  MaxSequence,  \* bound: marker transitions explored (not in the code)
  MaxAttempts   \* store.limits.max_attempts

Steps == 1..NSteps
ASSUME StepsAssumption == NSteps \in Nat /\ StartSteps \subseteq Steps
ASSUME BaseAssumption == Base \in Deployments /\ Nobody \notin Ops
ASSUME SyncAssumption == SyncLoss \in BOOLEAN /\ MaxAttempts \in Nat

VARIABLES
  ops,       \* durable: the operation records
  run,       \* the command in progress
  object,    \* the deployment each managed object is at
  caller,    \* a caller that still works on an object
  selection, \* the startup selection: what a starting service may load
  gate, disk, promised   \* the maintenance gate

vars == <<ops, run, object, caller, selection, gate, disk, promised>>
marker == <<gate, disk, promised>>
world == <<object, caller, selection>>

DecisionKinds == {"COMMITTED", "ROLLED_BACK", "ABORTED_NO_CHANGE"}
Decisions == (Ops \cup {Nobody}) \X DecisionKinds

Gate == INSTANCE MaintenanceGate WITH
  Owners <- Ops, Operations <- Tasks, Boots <- {Boot}, NoOwner <- Nobody

Synced == {TRUE} \cup {~SyncLoss}

-----------------------------------------------------------------------------
(* Operation records (new_operation) *)

StepRecord == [prepared : Deployments \cup {Nobody}, attempts : Nat,
               effective : BOOLEAN, restore_attempts : Nat]
Operation == [known : BOOLEAN, source : Deployments, target : Deployments,
              recovery_from : BOOLEAN, phase : {"PLANNED", "PREPARING", "PREPARED"},
              direction : {"APPLY", "ROLLBACK"}, decision : DecisionKinds \cup {"NONE"},
              released : BOOLEAN, gate_owned : BOOLEAN,
              predecessor : Ops \cup {Nobody}, successor : Ops \cup {Nobody},
              handoff_complete : BOOLEAN, rollback_successor : Ops \cup {Nobody},
              inherited : Seq(Ops), blocked : BOOLEAN,
              steps : [Steps -> StepRecord],
              \* the steps of the fixed compensation list, once it is made
              compensating : BOOLEAN, compensation : SUBSET Steps]

\* Fault: a new record carries a decision that no reader knows.
NewOperationPending(source, target, predecessor, recovery_from) ==
  [known |-> TRUE, source |-> source, target |-> target,
   recovery_from |-> recovery_from, phase |-> "PLANNED", direction |-> "APPLY",
   decision |-> "PENDING", released |-> FALSE, gate_owned |-> FALSE,
   predecessor |-> predecessor, successor |-> Nobody, handoff_complete |-> FALSE,
   rollback_successor |-> Nobody, inherited |-> << >>, blocked |-> FALSE,
   steps |-> [s \in Steps |-> [prepared |-> Nobody, attempts |-> 0,
                               effective |-> FALSE, restore_attempts |-> 0]],
   compensating |-> FALSE, compensation |-> {}]
NewOperation(source, target, predecessor, recovery_from) ==
  [known |-> TRUE, source |-> source, target |-> target,
   recovery_from |-> recovery_from, phase |-> "PLANNED", direction |-> "APPLY",
   decision |-> "NONE", released |-> FALSE, gate_owned |-> FALSE,
   predecessor |-> predecessor, successor |-> Nobody, handoff_complete |-> FALSE,
   rollback_successor |-> Nobody, inherited |-> << >>, blocked |-> FALSE,
   steps |-> [s \in Steps |-> [prepared |-> Nobody, attempts |-> 0,
                               effective |-> FALSE, restore_attempts |-> 0]],
   compensating |-> FALSE, compensation |-> {}]
NoOperation == [NewOperation(Base, Base, Nobody, FALSE) EXCEPT !.known = FALSE]

Unfinished(o) == ops[o].known /\ ~ops[o].released /\ ~ops[o].handoff_complete

NoCaller == [op |-> Nobody, step |-> 0, to |-> Base, attempt |-> 0]

\* _origins and _source: a chain is restored to the source of its first member.
Origins(o) == ops[o].inherited \o <<o>>
SourceOf(o) == ops[Head(Origins(o))].source
Selected(o) == IF ops[o].decision = "COMMITTED" THEN ops[o].target ELSE SourceOf(o)
HasSteps(o) == ops[o].source # ops[o].target

\* Every action of the running command names its operation and its place.
Running(o, at) == run.op = o /\ run.at = at
Idle == run.at = "idle"
Goto(o, at) == run' = [op |-> o, at |-> at, step |-> 0]
GotoStep(o, at, s) == run' = [op |-> o, at |-> at, step |-> s]
Return == Goto(Nobody, "idle")
Save(o, r) == ops' = [ops EXCEPT ![o] = r]

\* _run: links come before the decision, the decision before the direction.
Entry(r) ==
  CASE r.successor # Nobody -> IF r.handoff_complete THEN "idle" ELSE "handoff"
    [] r.successor = Nobody /\ r.released -> "idle"
    [] r.successor = Nobody /\ ~r.released /\ r.decision # "NONE" -> "release"
    [] OTHER -> "work"
Run(o, r) == IF Entry(r) = "idle" THEN Return ELSE Goto(o, Entry(r))

\* _refresh: what the objects show of the steps that were attempted.
Observed(o) ==
  LET r == ops[o]
      reached == {s \in Steps : /\ r.steps[s].attempts > 0 /\ object[s] = r.target
                                 /\ r.steps[s].prepared # r.target}
  IN IF r.compensating THEN r ELSE
     [r EXCEPT !.steps =
        [s \in Steps |-> [r.steps[s] EXCEPT !.effective = @ \/ s \in reached]]]
HasEffects(r) == r.inherited # << >> \/ \E s \in Steps : r.steps[s].effective
Inheritance(o, r) == IF ~r.released /\ HasEffects(r) THEN Origins(o) ELSE << >>

-----------------------------------------------------------------------------
(* Commands *)

Apply(o, source, target) ==
  /\ Idle /\ ~ops[o].known
  /\ \A p \in Ops : ~Unfinished(p)
  /\ Save(o, NewOperation(source, target, Nobody, FALSE))
  /\ Goto(o, "work")
  /\ UNCHANGED <<world, marker>>

\* The same request again.
ApplyAgain(o) ==
  /\ Idle /\ ops[o].known
  /\ \/ \A p \in Ops \ {o} : Unfinished(p) => ops[p].successor = o
     \/ ops[o].released \/ ops[o].successor # Nobody
  /\ Run(o, ops[o])
  /\ UNCHANGED <<ops, world, marker>>

Resume(o) ==
  /\ Idle /\ ops[o].known
  /\ Run(o, ops[o])
  /\ UNCHANGED <<ops, world, marker>>

\* store.link with rollback: a committed deployment is undone by a new one.
RollbackCommitted(o, p) ==
  /\ Idle /\ ops[o].decision = "COMMITTED"
  /\ ops[o].successor = Nobody /\ ops[o].rollback_successor = Nobody
  /\ ~ops[p].known
  /\ caller = NoCaller /\ \A s \in Steps : object[s] = ops[o].target
  /\ ops' = [ops EXCEPT ![o].rollback_successor = p,
                        ![p] = NewOperation(ops[o].target, SourceOf(o), o, FALSE)]
  /\ Goto(p, "work")
  /\ UNCHANGED <<world, marker>>

\* Fault: a rollback reopens an operation that is already decided.
RollbackReopens(o) ==
  /\ Idle /\ ops[o].known
  /\ LET r == [ops[o] EXCEPT !.direction = "ROLLBACK", !.decision = "NONE"]
     IN Save(o, r) /\ Run(o, r)
  /\ UNCHANGED <<world, marker>>

Rollback(o) ==
  /\ Idle /\ ops[o].known
  /\ IF ops[o].successor = Nobody /\ ops[o].rollback_successor # Nobody
     THEN /\ Run(ops[o].rollback_successor, ops[ops[o].rollback_successor])
          /\ UNCHANGED ops
     ELSE /\ ops[o].successor = Nobody => ops[o].decision # "COMMITTED"
          /\ LET r == IF ops[o].successor = Nobody /\ ops[o].decision = "NONE"
                      THEN [ops[o] EXCEPT !.direction = "ROLLBACK"] ELSE ops[o]
             IN Save(o, r) /\ Run(o, r)
  /\ UNCHANGED <<world, marker>>

\* The successor and its link are one transaction.  What the successor inherits is
\* saved by the next one, Inherit: supersede and the _handoff it ends in save the
\* same record, and the second time there is nothing left to write.
Supersede(o, p, source, target) ==
  LET held == ops[o].gate_owned /\ ~ops[o].released IN
  /\ Idle /\ ops[o].known /\ ops[o].successor = Nobody /\ ~ops[p].known
  /\ held => /\ gate.state = "CLOSED" /\ gate.owner = o    \* validate_link
             /\ source = SourceOf(o)
  /\ ops[o].released \/ caller = NoCaller
  /\ ops' = [ops EXCEPT ![o] = [IF ops[o].released THEN ops[o] ELSE Observed(o)
                                EXCEPT !.successor = p],
                        ![p] = NewOperation(source, target, o, held)]
  /\ Goto(o, "handoff")
  /\ UNCHANGED <<world, marker>>

-----------------------------------------------------------------------------
(* _apply up to the closed gate *)

Preflight(o) ==
  LET r == ops[o] IN
  /\ Running(o, "work") /\ r.direction = "APPLY" /\ r.phase = "PLANNED"
  /\ gate.deployment = r.source
  /\ IF r.recovery_from
     THEN /\ r.gate_owned /\ ~ops[r.predecessor].released
          /\ gate.state = "CLOSED" /\ gate.owner = o /\ caller = NoCaller
     ELSE /\ selection.mode = "stable" /\ selection.deployment = r.source
          /\ \A s \in Steps : object[s] = r.source
  /\ Save(o, [r EXCEPT !.phase = "PREPARING"])
  /\ UNCHANGED <<run, world, marker>>

Prepare(o) ==
  /\ Running(o, "work") /\ ops[o].direction = "APPLY" /\ ops[o].phase = "PREPARING"
  /\ Save(o, [ops[o] EXCEPT !.phase = "PREPARED",
                !.steps = [s \in Steps |-> [@[s] EXCEPT !.prepared = object[s]]]])
  /\ Goto(o, IF HasSteps(o) THEN "work" ELSE "unchanged")
  /\ UNCHANGED <<world, marker>>

\* A plan without steps needs no maintenance if its command comes this far; a
\* command interrupted here continues with the gate.
CommitUnchanged(o) ==
  /\ Running(o, "unchanged")
  /\ \A s \in Steps : object[s] = ops[o].target
  /\ Save(o, [ops[o] EXCEPT !.decision = "COMMITTED"])
  /\ Goto(o, "release")
  /\ UNCHANGED <<world, marker>>

\* Where _apply and _rollback first look at the gate.
Begin(o) ==
  LET r == IF ops[o].direction = "APPLY" /\ ~ops[o].gate_owned THEN ops[o] ELSE Observed(o)
  IN /\ Running(o, "work")
     /\ ops[o].direction = "APPLY" => ops[o].phase = "PREPARED"
     /\ (ops[o].direction = "APPLY" /\ ~ops[o].gate_owned) \/ caller = NoCaller
     /\ Save(o, r)
     /\ Goto(o, IF r.direction = "ROLLBACK" /\ ~HasEffects(r) THEN "abort"
                ELSE IF r.gate_owned THEN "drain" ELSE "close")
     /\ UNCHANGED <<world, marker>>

\* No effect: accepted work need not be drained to abandon the plan.
DecideAborted(o) ==
  /\ Running(o, "abort")
  /\ Save(o, [ops[o] EXCEPT !.decision = "ABORTED_NO_CHANGE"])
  /\ Goto(o, "release")
  /\ UNCHANGED <<world, marker>>

\* _close: a gate that already names the operation is taken as it is read.
CloseGate(o, synced) ==
  /\ Running(o, "close")
  /\ IF gate.state = "CLOSED" /\ gate.owner = o
     THEN Goto(o, "closed") /\ UNCHANGED marker
     ELSE /\ Gate!Close(o, gate.sequence, synced)
          /\ IF synced THEN Goto(o, "closed") ELSE Return
  /\ UNCHANGED <<ops, world>>

SaveClosed(o) ==
  /\ Running(o, "closed")
  /\ Save(o, [ops[o] EXCEPT !.gate_owned = TRUE])
  /\ Goto(o, "work")
  /\ UNCHANGED <<world, marker>>

\* Fault: maintenance starts without waiting for the accepted responsibilities.
DrainSkipped(o) ==
  /\ Running(o, "drain")
  /\ gate.state = "CLOSED" /\ gate.owner = o
  /\ Goto(o, "block")
  /\ UNCHANGED <<ops, world, marker>>

\* Accepted responsibilities have ended and no new one can be admitted.
Drain(o) ==
  /\ Running(o, "drain")
  /\ gate.state = "CLOSED" /\ gate.owner = o /\ Gate!Active(gate) = {}
  /\ IF ops[o].direction = "APPLY"
     THEN IF ops[o].blocked THEN GotoStep(o, "step", 1) ELSE Goto(o, "block")
     ELSE IF ops[o].compensating THEN GotoStep(o, "step", 1) ELSE Goto(o, "block")
  /\ UNCHANGED <<ops, world, marker>>

\* Fault: the intent to block is recorded but the selection is not changed.
BlockForgotten(o) ==
  /\ Running(o, "block") /\ gate.state = "CLOSED" /\ gate.owner = o
  /\ Goto(o, "blocked")
  /\ UNCHANGED <<ops, world, marker>>

\* _block: publish (checked against the gate), then save.
Block(o) ==
  /\ Running(o, "block") /\ gate.state = "CLOSED" /\ gate.owner = o
  /\ selection' = [selection EXCEPT !.mode = "blocked"]
  /\ Goto(o, "blocked")
  /\ UNCHANGED <<ops, object, caller, marker>>

SaveBlocked(o) ==
  /\ Running(o, "blocked")
  /\ IF ops[o].direction = "APPLY"
     THEN Save(o, [ops[o] EXCEPT !.blocked = TRUE]) /\ GotoStep(o, "step", 1)
     ELSE Save(o, [ops[o] EXCEPT !.blocked = TRUE]) /\ Goto(o, "compensate")
  /\ UNCHANGED <<world, marker>>

\* prepare_compensation: one restoring action for each object that an
\* operation of the chain has changed.
Compensate(o) ==
  /\ Running(o, "compensate")
  /\ Save(o, [ops[o] EXCEPT !.compensating = TRUE,
       !.compensation = {s \in Steps :
          \E p \in Range(Origins(o)) : ops[p].steps[s].effective}])
  /\ GotoStep(o, "step", 1)
  /\ UNCHANGED <<world, marker>>

-----------------------------------------------------------------------------
(* _step: observe, record the intent, bind, execute, verify *)

\* The value an action of the running direction is to produce, and whether the
\* step is part of it.
Wanted(o) == IF ops[o].compensating THEN SourceOf(o) ELSE ops[o].target
Included(o, s) == IF ops[o].compensating THEN s \in ops[o].compensation ELSE HasSteps(o)
Tried(o, s) == IF ops[o].compensating THEN ops[o].steps[s].restore_attempts
               ELSE ops[o].steps[s].attempts
Known(o, s) == ops[o].compensating \/ object[s] = ops[o].steps[s].prepared

Verified(o, s) ==
  IF ops[o].compensating THEN ops[o]
  ELSE [ops[o] EXCEPT !.steps[s].effective = @ \/ ops[o].steps[s].prepared # ops[o].target]

\* The object is as wanted and nobody works on it: on to the next step.
StepDone(o, s) ==
  /\ Running(o, "step") /\ run.step = s /\ s \in Steps
  /\ Included(o, s) => object[s] = Wanted(o) /\ caller = NoCaller
  /\ Save(o, IF Included(o, s) THEN Verified(o, s) ELSE ops[o])
  /\ GotoStep(o, "step", s + 1)
  /\ UNCHANGED <<world, marker>>

\* Not done, and the last caller is closed: a new attempt is recorded.
StepIntent(o, s) ==
  /\ Running(o, "step") /\ run.step = s /\ s \in Steps
  /\ Included(o, s) /\ object[s] # Wanted(o) /\ caller = NoCaller
  /\ Known(o, s) /\ Tried(o, s) < MaxAttempts
  /\ GotoStep(o, "execute", s)
  /\ UNCHANGED <<ops, world, marker>>

\* candidate_startup: what a service that is started may load.
StepSelect(o, s) ==
  /\ Running(o, "execute") /\ run.step = s
  /\ IF s \in StartSteps
     THEN /\ gate.state = "CLOSED" /\ gate.owner = o
          /\ selection' = [mode |-> "candidate", deployment |-> Wanted(o)]
     ELSE UNCHANGED selection
  /\ GotoStep(o, "selected", s)
  /\ UNCHANGED <<ops, object, caller, marker>>

\* bind: the attempt is durable before its caller runs.
StepBind(o, s) ==
  /\ Running(o, "selected") /\ run.step = s
  /\ Save(o, IF ops[o].compensating
             THEN [ops[o] EXCEPT !.steps[s].restore_attempts = @ + 1]
             ELSE [ops[o] EXCEPT !.steps[s].attempts = @ + 1])
  /\ GotoStep(o, "bound", s)
  /\ UNCHANGED <<world, marker>>

StepExecute(o, s) ==
  /\ Running(o, "bound") /\ run.step = s
  /\ caller' = [op |-> o, step |-> s, to |-> Wanted(o), attempt |-> Tried(o, s)]
  /\ GotoStep(o, "executing", s)
  /\ UNCHANGED <<ops, object, selection, marker>>

\* Fault: an action that has not returned in time is attempted again.
StepRetries(o, s) ==
  /\ Running(o, "executing") /\ run.step = s
  /\ object[s] # Wanted(o)
  /\ GotoStep(o, "execute", s)
  /\ UNCHANGED <<ops, world, marker>>

\* The action returned with its postcondition; otherwise the command waits.
StepReturned(o, s) ==
  /\ Running(o, "executing") /\ run.step = s
  /\ caller = NoCaller /\ object[s] = Wanted(o)
  /\ Save(o, Verified(o, s))
  /\ GotoStep(o, "step", s + 1)
  /\ UNCHANGED <<world, marker>>

\* check_local and _decide.
Decide(o) ==
  /\ Running(o, "step") /\ run.step = NSteps + 1
  /\ caller = NoCaller /\ \A s \in Steps : object[s] = Wanted(o)
  /\ Save(o, [ops[o] EXCEPT !.decision = IF ops[o].compensating THEN "ROLLED_BACK" ELSE "COMMITTED"])
  /\ Goto(o, "release")
  /\ UNCHANGED <<world, marker>>

\* A caller does its work, if it does it at all, before it ends.
CallerWorks ==
  /\ caller # NoCaller
  /\ object' = [object EXCEPT ![caller.step] = caller.to]
  /\ UNCHANGED <<ops, run, caller, selection, marker>>

CallerEnds ==
  /\ caller # NoCaller
  /\ caller' = NoCaller
  /\ UNCHANGED <<ops, run, object, selection, marker>>

-----------------------------------------------------------------------------
(* _release and _handoff *)

ReleaseUnowned(o) ==
  /\ Running(o, "release") /\ ~ops[o].gate_owned
  /\ Save(o, [ops[o] EXCEPT !.released = TRUE])
  /\ Return
  /\ UNCHANGED <<world, marker>>

Opened(o) == /\ gate.state = "OPEN" /\ gate.decision = <<o, ops[o].decision>>
             /\ gate.deployment = Selected(o)

ReleaseObserved(o) ==
  /\ Running(o, "release") /\ ops[o].gate_owned /\ Opened(o)
  /\ Save(o, [ops[o] EXCEPT !.released = TRUE])
  /\ Return
  /\ UNCHANGED <<world, marker>>

\* release_valid, then publish_stable under the gate.
PublishStable(o) ==
  /\ Running(o, "release") /\ ops[o].gate_owned /\ ~Opened(o)
  /\ caller = NoCaller /\ \A s \in Steps : object[s] = Selected(o)
  /\ gate.state = "CLOSED" /\ gate.owner = o
  /\ selection' = [mode |-> "stable", deployment |-> Selected(o)]
  /\ Goto(o, "open")
  /\ UNCHANGED <<ops, object, caller, marker>>

\* Fault: the gate selects the target also after a rollback.
OpenTarget(o, synced) ==
  /\ Running(o, "open")
  /\ Gate!Release(o, <<o, ops[o].decision>>, ops[o].target, gate.sequence, synced)
  /\ IF synced THEN Goto(o, "opened") ELSE Return
  /\ UNCHANGED <<ops, world>>

OpenGate(o, synced) ==
  /\ Running(o, "open")
  /\ Gate!Release(o, <<o, ops[o].decision>>, Selected(o), gate.sequence, synced)
  /\ IF synced THEN Goto(o, "opened") ELSE Return
  /\ UNCHANGED <<ops, world>>

SaveReleased(o) ==
  /\ Running(o, "opened")
  /\ Save(o, [ops[o] EXCEPT !.released = TRUE])
  /\ Return
  /\ UNCHANGED <<world, marker>>

Inherit(o) ==
  LET p == ops[o].successor IN
  /\ Running(o, "handoff")
  /\ ops' = IF Inheritance(o, ops[o]) = << >> THEN ops
            ELSE [ops EXCEPT ![p].inherited = Inheritance(o, ops[o])]
  /\ Goto(o, "transfer")
  /\ UNCHANGED <<world, marker>>

\* A gate that already names the successor is taken as it is read; any other
\* owner is HANDOFF_CONFLICT.
Transfer(o, synced) ==
  LET p == ops[o].successor IN
  /\ Running(o, "transfer")
  /\ IF ops[o].gate_owned /\ ~ops[o].released
     THEN \/ /\ gate.state = "CLOSED" /\ gate.owner = o
             /\ Gate!Handoff(o, p, gate.sequence, synced)
             /\ IF synced THEN Goto(o, "received") ELSE Return
          \/ /\ gate.state = "CLOSED" /\ gate.owner = p
             /\ Goto(o, "received") /\ UNCHANGED marker
     ELSE Goto(o, "handed") /\ UNCHANGED marker
  /\ UNCHANGED <<ops, world>>

SaveReceived(o) ==
  /\ Running(o, "received")
  /\ Save(ops[o].successor, [ops[ops[o].successor] EXCEPT !.gate_owned = TRUE])
  /\ Goto(o, "handed")
  /\ UNCHANGED <<world, marker>>

SaveHandedOff(o) ==
  /\ Running(o, "handed")
  /\ Save(o, [ops[o] EXCEPT !.handoff_complete = TRUE])
  /\ Return
  /\ UNCHANGED <<world, marker>>

-----------------------------------------------------------------------------
(* Failures and the other users of the gate *)

\* The command waits, an adapter fails, or the process dies.
Stop ==
  /\ ~Idle /\ Return
  /\ UNCHANGED <<ops, world, marker>>

\* A power loss ends command and caller; the gate falls back to what is durable.
PowerLoss ==
  /\ Return /\ caller' = NoCaller
  /\ Gate!PowerLoss
  /\ UNCHANGED <<ops, object, selection>>

\* Services prepare and execute work under the gate.
Serve(k) ==
  /\ \/ \E d \in Deployments :
          Gate!Accept(k, [deployment |-> d, boot |-> Boot], Gate!NoPrepared, TRUE)
     \/ Gate!Finish(k, "process_exited", TRUE)
  /\ UNCHANGED <<ops, run, world>>

-----------------------------------------------------------------------------
Init ==
  /\ ops = [o \in Ops |-> NoOperation]
  /\ run = [op |-> Nobody, at |-> "idle", step |-> 0]
  /\ object = [s \in Steps |-> Base]
  /\ caller = NoCaller
  /\ selection = [mode |-> "stable", deployment |-> Base]
  /\ gate = [Gate!Absent EXCEPT !.state = "OPEN", !.sequence = 1,
                                !.decision = <<Nobody, "COMMITTED">>, !.deployment = Base]
  /\ disk = gate
  /\ promised = {}

Command(o) ==
  \/ \E d, e \in Deployments : Apply(o, d, e)
  \/ ApplyAgain(o) \/ Resume(o) \/ Rollback(o)
  \/ \E p \in Ops : \/ RollbackCommitted(o, p)
                    \/ \E d, e \in Deployments : Supersede(o, p, d, e)

Forward(o) ==
  \/ Preflight(o) \/ Prepare(o) \/ CommitUnchanged(o) \/ Begin(o) \/ DecideAborted(o)
  \/ \E synced \in Synced : CloseGate(o, synced)
  \/ SaveClosed(o) \/ Drain(o) \/ Block(o) \/ SaveBlocked(o) \/ Compensate(o)
  \/ \E s \in Steps : StepDone(o, s) \/ StepIntent(o, s) \/ StepSelect(o, s)
                        \/ StepBind(o, s) \/ StepExecute(o, s) \/ StepReturned(o, s)
  \/ Decide(o)

Finish(o) ==
  \/ ReleaseUnowned(o) \/ ReleaseObserved(o) \/ PublishStable(o)
  \/ \E synced \in Synced : OpenGate(o, synced) \/ Transfer(o, synced)
  \/ SaveReleased(o) \/ Inherit(o) \/ SaveReceived(o) \/ SaveHandedOff(o)

Next ==
  \/ \E o \in Ops : Command(o) \/ Forward(o) \/ Finish(o)
  \/ CallerWorks \/ CallerEnds
  \/ Stop \/ PowerLoss
  \/ \E k \in Keys : Serve(k)

Spec == Init /\ [][Next]_vars

-----------------------------------------------------------------------------
(* Correctness *)

Places == {"idle", "work", "unchanged", "abort", "close", "closed", "drain", "block",
           "blocked", "compensate", "step", "execute", "selected", "bound", "executing", "release",
           "open", "opened", "handoff", "transfer", "received", "handed"}

\* The records keep the form of new_operation; so do the command in progress, the
\* caller and the startup selection.  The marker's form is MaintenanceGate's.
TypeOK ==
  /\ ops \in [Ops -> Operation]
  /\ run \in [op : Ops \cup {Nobody}, at : Places, step : 0..(NSteps + 1)]
  /\ object \in [Steps -> Deployments]
  /\ caller \in [op : Ops \cup {Nobody}, step : 0..NSteps, to : Deployments,
                attempt : Nat]
  /\ selection \in [mode : {"stable", "blocked", "candidate"}, deployment : Deployments]

\* An action changes the node only under maintenance of its own operation and
\* after every accepted responsibility has ended (coordinator.py _apply,
\* _rollback: drain before effects), crashes and handoffs included.
EffectsUnderMaintenance ==
  caller # NoCaller =>
    gate.state = "CLOSED" /\ gate.owner = caller.op /\ Gate!Active(gate) = {}

\* Work is admitted only on a node on which every managed object is at the
\* deployment the gate selects and nobody changes one (_release, release_valid).
OpenMeansInstalled ==
  gate.state = "OPEN" => caller = NoCaller /\ \A s \in Steps : object[s] = gate.deployment

\* A stable startup selection never lets a service load a half-changed
\* deployment (_block precedes every effect, publish_stable follows the check).
StableMeansInstalled ==
  selection.mode = "stable" =>
    caller = NoCaller /\ \A s \in Steps : object[s] = selection.deployment

\* An action is never replayed while an earlier caller may still act (_step:
\* "waiting preserves the exact unfinished action instead of replaying it").
CallersNeverOverlap == [][caller # NoCaller => caller' \in {caller, NoCaller}]_vars

\* A recorded decision is never taken back (rollback of a committed operation
\* is a new operation), and a finished operation stays finished.
DecisionFinal ==
  [][\A o \in Ops : /\ ops[o].decision # "NONE" => ops'[o].decision = ops[o].decision
                    /\ ops[o].known /\ ~Unfinished(o) => ~Unfinished(o)']_vars

\* An operation that is over (released or handed off) does not own the gate:
\* after ABORTED_NO_CHANGE "the original admission is restored" (section 6.2).
FinishedOwnsNothing == \A o \in Ops : gate.owner = o => Unfinished(o)

\* As long as an object differs from what the gate selects, an operation that
\* is not over holds the gate and answers for it (_handoff: "must not lose
\* responsibility").
ResponsibilityKept ==
  (\E s \in Steps : object[s] # gate.deployment)
    => gate.state = "CLOSED" /\ Unfinished(gate.owner)

\* A recorded handoff can always be completed: the gate is still with the
\* operation or with its successor.
HandoffCompletable ==
  \A o \in Ops :
     Unfinished(o) /\ ops[o].successor # Nobody /\ ops[o].gate_owned
       => gate.state = "CLOSED" /\ gate.owner \in {o, ops[o].successor}
=============================================================================
