---------------------------- MODULE DeployProofs ----------------------------
(***************************************************************************)
(* The coordinator works on the node only for an undecided operation,      *)
(* under a closed and drained gate of its own, one caller at a time, and   *)
(* never takes a decision back, whatever stops, fails or loses power, and  *)
(* also when a rename of the gate is visible before it is durable          *)
(* (SyncLoss).                                                             *)
(*                                                                         *)
(* The argument: EffectsUnderMaintenance is not inductive, because a       *)
(* caller is started long after the gate was looked at.  "RunOK" carries   *)
(* what was seen at the gate from place to place of the command: from the  *)
(* drain on, the operation holds a closed gate without responsibilities    *)
(* (Held), and nobody can take that from it, since only the owner opens or *)
(* hands on a gate and only an open one admits work.  "CallerOK" says the  *)
(* same of a caller, which outlives its command: as long as it may act,    *)
(* its operation is undecided and unlinked, so no release and no handoff   *)
(* gives the gate away, and a power loss that rolls the marker back ends   *)
(* the caller as well. Almost every step only lets records advance         *)
(* (Advances) and moves the command to a place it may be at (Fits), so     *)
(* MoveInv proves those at once.                                           *)
(***************************************************************************)
EXTENDS Deploy, TLAPS

\* An operation that the coordinator still works towards a decision of.
Undecided(r) == r.known /\ r.decision = "NONE" /\ ~r.released /\ r.successor = Nobody

\* ... and that has passed the preparation, or is being rolled back.
Underway(r) == Undecided(r) /\ (r.phase = "PREPARED" \/ r.direction = "ROLLBACK")

\* The gate is closed for operation o and every accepted duty has ended.
Held(o) == gate.state = "CLOSED" /\ gate.owner = o /\ Gate!Active(gate) = {}

\* The places of a command, by what the record and the gate are known to show:
\* from the drained gate to the last action,
Effects == {"block", "blocked", "compensate", "step", "execute", "selected", "bound",
            "executing"}
\* on the way to the drained gate,
Closing == {"close", "closed", "drain"}
\* without a decision,
Working == {"work", "unchanged", "abort"} \cup Closing \cup Effects
\* with a decision that is not yet released,
Ending == {"release", "open", "opened"}
\* and with a successor to hand over to.
Handing == {"handoff", "transfer", "received", "handed"}

\* A record that was never written is the empty one; only a decision is released.
RecordOK(r) ==
  /\ ~r.known => r = NoOperation
  /\ r.released => r.decision # "NONE"

\* A link is committed with the record it names (store.link).
LinksOK ==
  \A o \in Ops : /\ ops[o].successor # Nobody => ops[ops[o].successor].known
                 /\ ops[o].rollback_successor # Nobody => ops[ops[o].rollback_successor].known

\* What the command in progress may rely on at its place.  Each
\* fact is about durable state: what a command remembers is lost with it.
RunOK ==
  LET r == ops[run.op] IN
  /\ run.at # "idle" => run.op \in Ops
  /\ run.at \in Working => Undecided(r)
  /\ run.at \in Closing \cup Effects => Underway(r)
  /\ run.at \in Effects => Held(run.op)
  /\ run.at \in {"execute", "selected", "bound", "open"} => caller = NoCaller
  /\ run.at \in {"unchanged", "abort"} => caller.op # run.op
  /\ run.at \in Ending => r.known /\ r.decision # "NONE"
  /\ run.at \in Handing => r.known /\ r.successor # Nobody

\* A caller acts for an undecided operation that holds the gate.
CallerOK ==
  caller # NoCaller => /\ caller.op \in Ops /\ caller.step \in Steps
                       /\ Underway(ops[caller.op]) /\ Held(caller.op)

\* Every record is well formed.
Records == \A o \in Ops : RecordOK(ops[o])
\* The control state hangs together.
Control == Records /\ LinksOK /\ RunOK /\ CallerOK

\* The type invariant, with the type of the visible and of the durable marker.
Typed == TypeOK /\ gate \in Gate!Record /\ disk \in Gate!Record

\* The inductive invariant, for either value of SyncLoss.
Inv == Typed /\ Control

-----------------------------------------------------------------------------
\* A save writes one record.
LEMMA SaveRow ==
  ASSUME TypeOK, NEW o \in Ops, NEW r \in Operation, Save(o, r)
  PROVE  /\ ops' \in [Ops -> Operation] /\ ops'[o] = r
         /\ \A i \in Ops \ {o} : ops'[i] = ops[i]
BY DEF Save, TypeOK

\* A new record has the type of a record.
LEMMA NewRecord ==
  ASSUME NEW source \in Deployments, NEW target \in Deployments,
         NEW p \in Ops \cup {Nobody}, NEW b \in BOOLEAN
  PROVE  NewOperation(source, target, p, b) \in Operation
<1>1. [s \in Steps |-> [prepared |-> Nobody, attempts |-> 0,
                       effective |-> FALSE, restore_attempts |-> 0]]
        \in [Steps -> StepRecord]
  BY DEF StepRecord
<1>2. << >> \in Seq(Ops) /\ {} \in SUBSET Steps
  OBVIOUS
<1> QED BY <1>1, <1>2 DEF NewOperation, Operation, DecisionKinds

\* The chain of an operation, and the deployments that it names, have their types.
LEMMA ChainTypes ==
  ASSUME TypeOK, NEW o \in Ops
  PROVE  /\ Origins(o) \in Seq(Ops) /\ SourceOf(o) \in Deployments
         /\ Selected(o) \in Deployments /\ Wanted(o) \in Deployments
<1>1. ops[o] \in Operation
  BY DEF TypeOK
<1>2. ops[o].inherited \in Seq(Ops)
  BY <1>1 DEF Operation
<1>3. Origins(o) \in Seq(Ops) /\ Head(Origins(o)) \in Ops
  BY <1>2 DEF Origins
<1>4. ops[Head(Origins(o))] \in Operation
  BY <1>3 DEF TypeOK
<1>5. SourceOf(o) \in Deployments
  BY <1>4 DEF SourceOf, Operation
<1> QED BY <1>1, <1>3, <1>5 DEF Selected, Wanted, Operation

\* _refresh keeps the type of a record,
LEMMA ObservedType ==
  ASSUME TypeOK, NEW o \in Ops
  PROVE  Observed(o) \in Operation
<1> DEFINE r == ops[o]
           reached == {s \in Steps : /\ r.steps[s].attempts > 0 /\ object[s] = r.target
                                      /\ r.steps[s].prepared # r.target}
           f == [s \in Steps |-> [r.steps[s] EXCEPT !.effective = @ \/ s \in reached]]
<1>1. r \in Operation /\ r.steps \in [Steps -> StepRecord]
  BY DEF TypeOK, Operation
<1>2. f \in [Steps -> StepRecord]
  <2> HIDE DEF reached
  <2> QED BY <1>1 DEF StepRecord
<1>3. Observed(o) = IF r.compensating THEN r ELSE [r EXCEPT !.steps = f]
  BY DEF Observed
<1> HIDE DEF f, r
<1>4. [r EXCEPT !.steps = f] \in Operation
  BY <1>1, <1>2 DEF Operation
<1> QED BY <1>1, <1>3, <1>4

\* and so does a verified step.
LEMMA VerifiedType ==
  ASSUME TypeOK, NEW o \in Ops, NEW s \in Steps
  PROVE  Verified(o, s) \in Operation
<1>1. ops[o] \in Operation /\ ops[o].steps \in [Steps -> StepRecord]
  BY DEF TypeOK, Operation
<1> DEFINE f == [ops[o].steps EXCEPT ![s].effective = @ \/ ops[o].steps[s].prepared # ops[o].target]
<1>2. f \in [Steps -> StepRecord]
  BY <1>1 DEF StepRecord
<1>3. Verified(o, s) = IF ops[o].compensating THEN ops[o] ELSE [ops[o] EXCEPT !.steps = f]
  BY DEF Verified
<1> HIDE DEF f
<1>4. [ops[o] EXCEPT !.steps = f] \in Operation
  BY <1>1, <1>2 DEF Operation
<1> QED BY <1>1, <1>3, <1>4

-----------------------------------------------------------------------------
\* A record that goes on without a decision.
Advances(r, s) ==
  /\ s \in Operation /\ s.known
  /\ s.decision = r.decision /\ s.released = r.released
  /\ s.successor = r.successor /\ s.rollback_successor = r.rollback_successor
  /\ r.handoff_complete => s.handoff_complete
  /\ r.phase = "PREPARED" => s.phase = "PREPARED"
  /\ r.direction = "ROLLBACK" => s.direction = "ROLLBACK"

\* No record is created, decided, released or linked.
Keep == \A i \in Ops : ops'[i] = ops[i] \/ Advances(ops[i], ops'[i])

\* What a record never takes back: its decision, and that it is over.
Final(r, s) == /\ r.decision # "NONE" => s.decision = r.decision
               /\ r.known /\ r.released => s.released
               /\ r.known /\ r.handoff_complete => s.handoff_complete

\* What no step does: take back a decision or replace a caller.
Lasting == /\ \A i \in Ops : Final(ops[i], ops'[i])
           /\ caller # NoCaller => caller' \in {caller, NoCaller}

\* Records that only advance take nothing back.
LEMMA KeepLasts ==
  ASSUME Keep, caller' \in {caller, NoCaller}
  PROVE  Lasting
BY DEF Keep, Advances, Final, Lasting

\* A save of an advanced record keeps all records.
LEMMA SaveKeeps ==
  ASSUME TypeOK, NEW o \in Ops, NEW r, Save(o, r), r = ops[o] \/ Advances(ops[o], r)
  PROVE  ops' \in [Ops -> Operation] /\ ops'[o] = r /\ Keep
<1>1. r \in Operation
  BY DEF Advances, TypeOK
<1> QED BY <1>1, SaveRow DEF Keep

\* Records that advance stay well formed, linked and as undecided as they were.
LEMMA KeepRows ==
  ASSUME Inv, ops' \in [Ops -> Operation], Keep
  PROVE  /\ Records' /\ LinksOK'
         /\ \A i \in Ops : /\ Undecided(ops[i]) => Undecided(ops'[i])
                           /\ Underway(ops[i]) => Underway(ops'[i])
                           /\ ops[i].known => ops'[i].known
                           /\ ops'[i].decision = ops[i].decision
                           /\ ops'[i].successor = ops[i].successor
<1>1. ASSUME NEW i \in Ops
      PROVE  /\ RecordOK(ops'[i])
             /\ Undecided(ops[i]) => Undecided(ops'[i])
             /\ Underway(ops[i]) => Underway(ops'[i])
             /\ ops[i].known => ops'[i].known
             /\ ops'[i].decision = ops[i].decision
             /\ ops'[i].successor = ops[i].successor
             /\ ops'[i].rollback_successor = ops[i].rollback_successor
  <2>1. RecordOK(ops[i])
    BY DEF Inv, Control, Records
  <2> QED BY <2>1 DEF Keep, Advances, RecordOK, Undecided, Underway
<1>2. LinksOK'
  <2> SUFFICES ASSUME NEW i \in Ops
               PROVE  /\ ops'[i].successor # Nobody => ops'[ops'[i].successor].known
                      /\ ops'[i].rollback_successor # Nobody => ops'[ops'[i].rollback_successor].known
    BY DEF LinksOK
  <2>1. /\ ops[i].successor \in Ops \cup {Nobody}
        /\ ops[i].rollback_successor \in Ops \cup {Nobody}
    BY DEF Inv, Typed, TypeOK, Operation
  <2>2. /\ ops[i].successor # Nobody => ops[ops[i].successor].known
        /\ ops[i].rollback_successor # Nobody => ops[ops[i].rollback_successor].known
    BY DEF Inv, Control, LinksOK
  <2> QED BY <1>1, <2>1, <2>2
<1> QED BY <1>1, <1>2 DEF Records

\* A caller, if it is not ended, goes on as before while records advance.
LEMMA QuietStep ==
  ASSUME Inv, ops' \in [Ops -> Operation], Keep, gate' = gate, caller' \in {caller, NoCaller}
  PROVE  CallerOK'
<1>1. CASE caller' = NoCaller
  BY <1>1 DEF CallerOK, NoCaller
<1>2. CASE caller' = caller /\ caller # NoCaller
  <2>1. CallerOK
    BY DEF Inv, Control
  <2> QED BY <1>2, <2>1, KeepRows DEF CallerOK, Held, Gate!Active, NoCaller
<1> QED BY <1>1, <1>2

\* The operation may be at this place of a command.
Fits(o, s, at, c) ==
  /\ at \in Places \ {"idle"}
  /\ at \in Working => Undecided(ops[o])
  /\ at \in Closing \cup Effects => Underway(s)
  /\ at \in Effects => Held(o)
  /\ at \in {"execute", "selected", "bound", "open"} => c = NoCaller
  /\ at \in {"unchanged", "abort"} => c.op # o
  /\ at \in Ending => ops[o].known /\ ops[o].decision # "NONE"
  /\ at \in Handing => ops[o].known /\ ops[o].successor # Nobody

\* The world keeps its types if it stays as it is.
LEMMA WorldTypes ==
  ASSUME Inv, UNCHANGED world
  PROVE  /\ object' \in [Steps -> Deployments]
         /\ selection' \in [mode : {"stable", "blocked", "candidate"}, deployment : Deployments]
         /\ caller' \in {caller, NoCaller}
BY DEF Inv, Typed, TypeOK, world

\* No caller is a caller by its type.
LEMMA NoCallerType ==
  NoCaller \in [op : Ops \cup {Nobody}, step : 0..NSteps, to : Deployments, attempt : Nat]
BY BaseAssumption, StepsAssumption DEF NoCaller

\* The step most actions are: one record advances, and the command moves to a
\* place it may be at; nobody but a caller that ends changes.
LEMMA MoveInv ==
  ASSUME Inv, NEW o \in Ops, NEW s, Save(o, s), s = ops[o] \/ Advances(ops[o], s),
         UNCHANGED marker, caller' \in {caller, NoCaller},
         object' \in [Steps -> Deployments],
         selection' \in [mode : {"stable", "blocked", "candidate"}, deployment : Deployments],
         NEW at, NEW n \in 0..(NSteps + 1), run' = [op |-> o, at |-> at, step |-> n],
         Fits(o, s, at, caller')
  PROVE  Inv' /\ Lasting
<1>1. ops' \in [Ops -> Operation] /\ ops'[o] = s /\ Keep
  BY SaveKeeps DEF Inv, Typed
<1>2. gate' = gate /\ disk' = disk
  BY DEF marker
<1>3. /\ Records' /\ LinksOK' /\ CallerOK'
      /\ Undecided(ops[o]) => Undecided(s)
      /\ ops[o].known => s.known
      /\ s.decision = ops[o].decision /\ s.successor = ops[o].successor
  BY <1>1, <1>2, KeepRows, QuietStep
<1>4. RunOK'
  BY <1>1, <1>2, <1>3 DEF Fits, RunOK, Held, Gate!Active
<1>5. Typed'
  BY <1>1, <1>2, NoCallerType DEF Inv, Typed, TypeOK, Fits
<1> QED BY <1>1, <1>3, <1>4, <1>5, KeepLasts DEF Inv, Control

\* ... and the command may wait at any time.
LEMMA ReturnInv ==
  ASSUME Inv, NEW o \in Ops, NEW s, Save(o, s), s = ops[o] \/ Advances(ops[o], s),
         UNCHANGED <<world, marker>>, Return
  PROVE  Inv' /\ Lasting
<1>1. ops' \in [Ops -> Operation] /\ ops'[o] = s /\ Keep
  BY SaveKeeps DEF Inv, Typed
<1>2. UNCHANGED <<gate, disk, caller, object, selection>>
  BY DEF marker, world
<1>3. Records' /\ LinksOK' /\ CallerOK'
  BY <1>1, <1>2, KeepRows, QuietStep
<1>4. run' = [op |-> Nobody, at |-> "idle", step |-> 0]
  BY DEF Return, Goto
<1>5. RunOK'
  BY <1>4 DEF RunOK, Working, Closing, Effects, Ending, Handing
<1>6. Typed'
  BY <1>1, <1>2, <1>4, StepsAssumption DEF Inv, Typed, TypeOK, Places
<1> QED BY <1>1, <1>2, <1>3, <1>5, <1>6, KeepLasts DEF Inv, Control

\* A step that saves nothing saves the record it has.
LEMMA SameOps ==
  ASSUME TypeOK, NEW o \in Ops, ops' = ops
  PROVE  Save(o, ops[o])
BY DEF Save, TypeOK

\* What is known at the place a command has come to.
LEMMA AtPlace ==
  ASSUME Inv, NEW o \in Ops, run.op = o
  PROVE  /\ ops[o] \in Operation /\ RecordOK(ops[o])
         /\ run.at \in Working => Undecided(ops[o])
         /\ run.at \in Closing \cup Effects => Underway(ops[o])
         /\ run.at \in Effects => Held(o)
         /\ run.at \in {"execute", "selected", "bound", "open"} => caller = NoCaller
         /\ run.at \in {"unchanged", "abort"} => caller.op # o
         /\ run.at \in Ending => ops[o].known /\ ops[o].decision # "NONE"
         /\ run.at \in Handing => ops[o].known /\ ops[o].successor # Nobody
BY DEF Inv, Typed, TypeOK, Control, RunOK, Records

-----------------------------------------------------------------------------
(* Up to the closed gate *)

\* _preflight only moves the phase on.
LEMMA PreflightInv ==
  ASSUME Inv, NEW o \in Ops, Preflight(o)
  PROVE  Inv' /\ Lasting
<1> DEFINE s == [ops[o] EXCEPT !.phase = "PREPARING"]
<1>1. run.op = o /\ run.at = "work" /\ ops[o].phase = "PLANNED"
  BY DEF Preflight, Running
<1>2. ops[o] \in Operation /\ Undecided(ops[o])
  BY <1>1, AtPlace DEF Working
<1>3. Advances(ops[o], s)
  BY <1>1, <1>2 DEF Advances, Operation, Undecided
<1>4. Save(o, s) /\ UNCHANGED <<run, world, marker>>
  BY DEF Preflight
<1> HIDE DEF s
<1>5. run' = [op |-> o, at |-> "work", step |-> run.step] /\ run.step \in 0..(NSteps + 1)
  BY <1>1, <1>4 DEF Inv, Typed, TypeOK
<1>6. Fits(o, s, "work", caller')
  BY <1>2 DEF Fits, Places, Working, Closing, Effects, Ending, Handing
<1> QED BY <1>3, <1>4, <1>5, <1>6, MoveInv, WorldTypes

\* _prepare records the objects; no caller of this operation can exist yet.
LEMMA PrepareInv ==
  ASSUME Inv, NEW o \in Ops, Prepare(o)
  PROVE  Inv' /\ Lasting
<1> DEFINE f == [i \in Steps |-> [ops[o].steps[i] EXCEPT !.prepared = object[i]]]
           s == [ops[o] EXCEPT !.phase = "PREPARED", !.steps = f]
           at == IF HasSteps(o) THEN "work" ELSE "unchanged"
<1>1. run.op = o /\ run.at = "work" /\ ops[o].phase = "PREPARING" /\ ops[o].direction = "APPLY"
  BY DEF Prepare, Running
<1>2. ops[o] \in Operation /\ Undecided(ops[o])
  BY <1>1, AtPlace DEF Working
<1>3. f \in [Steps -> StepRecord]
  <2>1. ops[o].steps \in [Steps -> StepRecord] /\ object \in [Steps -> Deployments]
    BY <1>2 DEF Inv, Typed, TypeOK, Operation
  <2> QED BY <2>1 DEF StepRecord
<1>4. Save(o, s) /\ UNCHANGED <<world, marker>> /\ run' = [op |-> o, at |-> at, step |-> 0]
  BY DEF Prepare, Goto
<1> HIDE DEF f
<1>5. Advances(ops[o], s)
  BY <1>2, <1>3 DEF Advances, Operation, Undecided
<1>6. caller # NoCaller => caller.op # o
  BY <1>1 DEF Inv, Control, CallerOK, Underway
<1>7. caller.op # o
  BY <1>6, BaseAssumption DEF NoCaller
<1>8. caller' = caller
  BY <1>4 DEF world
<1> HIDE DEF s
<1>9. Fits(o, s, at, caller')
  BY <1>2, <1>7, <1>8 DEF Fits, Places, Working, Closing, Effects, Ending, Handing
<1> QED BY <1>4, <1>5, <1>9, MoveInv, WorldTypes, StepsAssumption

\* _refresh only advances a record.
LEMMA ObservedAdvances ==
  ASSUME TypeOK, NEW o \in Ops, ops[o].known
  PROVE  Advances(ops[o], Observed(o))
<1>1. ops[o] \in Operation /\ Observed(o) \in Operation
  BY ObservedType DEF TypeOK
<1> QED BY <1>1 DEF Observed, Advances, Operation

\* The first look at the gate leads to the close, the drain or an abort.
LEMMA BeginInv ==
  ASSUME Inv, NEW o \in Ops, Begin(o)
  PROVE  Inv' /\ Lasting
<1> DEFINE s == IF ops[o].direction = "APPLY" /\ ~ops[o].gate_owned THEN ops[o] ELSE Observed(o)
           at == IF s.direction = "ROLLBACK" /\ ~HasEffects(s) THEN "abort"
                 ELSE IF s.gate_owned THEN "drain" ELSE "close"
<1>1. /\ run.op = o /\ run.at = "work" /\ (ops[o].direction = "APPLY" => ops[o].phase = "PREPARED")
      /\ (ops[o].direction = "APPLY" /\ ~ops[o].gate_owned) \/ caller = NoCaller
  BY DEF Begin, Running
<1>2. ops[o] \in Operation /\ Undecided(ops[o])
  BY <1>1, AtPlace DEF Working
<1>3. s = ops[o] \/ Advances(ops[o], s)
  BY <1>2, ObservedAdvances DEF Inv, Typed, Undecided
<1>4. Save(o, s) /\ UNCHANGED <<world, marker>> /\ run' = [op |-> o, at |-> at, step |-> 0]
  BY DEF Begin, Goto
<1>5. s.direction = ops[o].direction /\ s.phase = ops[o].phase
  BY <1>2 DEF Observed, Operation
<1>6. Underway(s)
  BY <1>1, <1>2, <1>3, <1>5 DEF Underway, Undecided, Advances, Operation
<1>7. caller' = caller
  BY <1>4 DEF world
<1>8. at = "abort" => caller.op # o
  BY <1>1, <1>5, BaseAssumption DEF NoCaller
<1>9. Fits(o, s, at, caller')
  <2> HIDE DEF s
  <2> QED BY <1>2, <1>6, <1>7, <1>8 DEF Fits, Places, Working, Closing, Effects, Ending, Handing
<1> HIDE DEF s, at
<1>10. 0 \in 0..(NSteps + 1)
  BY StepsAssumption
<1> QED BY <1>3, <1>4, <1>9, <1>10, MoveInv, WorldTypes

\* The ownership of the gate is saved.
LEMMA SaveClosedInv ==
  ASSUME Inv, NEW o \in Ops, SaveClosed(o)
  PROVE  Inv' /\ Lasting
<1> DEFINE s == [ops[o] EXCEPT !.gate_owned = TRUE]
<1>1. run.op = o /\ run.at = "closed"
  BY DEF SaveClosed, Running
<1>2. ops[o] \in Operation /\ Undecided(ops[o])
  BY <1>1, AtPlace DEF Working, Closing
<1>3. Advances(ops[o], s)
  <2>1. s \in Operation
    BY <1>2 DEF Operation
  <2>2. /\ s.known = ops[o].known /\ s.decision = ops[o].decision /\ s.released = ops[o].released
        /\ s.successor = ops[o].successor /\ s.rollback_successor = ops[o].rollback_successor
        /\ s.handoff_complete = ops[o].handoff_complete
        /\ s.phase = ops[o].phase /\ s.direction = ops[o].direction
    BY <1>2 DEF Operation
  <2> HIDE DEF s
  <2> QED BY <1>2, <2>1, <2>2 DEF Advances, Undecided
<1>4. Save(o, s) /\ UNCHANGED <<world, marker>> /\ run' = [op |-> o, at |-> "work", step |-> 0]
  BY DEF SaveClosed, Goto
<1> HIDE DEF s
<1>5. Fits(o, s, "work", caller')
  BY <1>2 DEF Fits, Places, Working, Closing, Effects, Ending, Handing
<1> QED BY <1>3, <1>4, <1>5, MoveInv, WorldTypes, StepsAssumption

\* The drain is where the gate is held from; nothing later looks at the
\* responsibilities again.
LEMMA DrainInv ==
  ASSUME Inv, NEW o \in Ops, Drain(o)
  PROVE  Inv' /\ Lasting
<1>1. /\ run.op = o /\ run.at = "drain" /\ ops' = ops /\ UNCHANGED <<world, marker>>
      /\ Held(o)
      /\ run' \in {[op |-> o, at |-> "block", step |-> 0], [op |-> o, at |-> "step", step |-> 1]}
  BY DEF Drain, Running, Held, Goto, GotoStep
<1>2. Underway(ops[o])
  BY <1>1, AtPlace DEF Closing
<1>3. Save(o, ops[o])
  BY <1>1, SameOps DEF Inv, Typed
<1>4. ASSUME NEW at \in {"block", "step"} PROVE Fits(o, ops[o], at, caller')
  BY <1>1, <1>2 DEF Fits, Places, Working, Closing, Effects, Ending, Handing, Underway
<1> QED BY <1>1, <1>3, <1>4, MoveInv, WorldTypes, StepsAssumption

\* The selection is blocked,
LEMMA BlockInv ==
  ASSUME Inv, NEW o \in Ops, Block(o)
  PROVE  Inv' /\ Lasting
<1>1. /\ run.op = o /\ run.at = "block" /\ UNCHANGED <<ops, object, caller, marker>>
      /\ selection' = [selection EXCEPT !.mode = "blocked"]
      /\ run' = [op |-> o, at |-> "blocked", step |-> 0]
  BY DEF Block, Running, Goto
<1>2. Underway(ops[o]) /\ Held(o)
  BY <1>1, AtPlace DEF Closing, Effects
<1>3. Save(o, ops[o])
  BY <1>1, SameOps DEF Inv, Typed
<1>4. Fits(o, ops[o], "blocked", caller')
  BY <1>1, <1>2 DEF Fits, Places, Working, Closing, Effects, Ending, Handing, Underway
<1>5. object' \in [Steps -> Deployments]
      /\ selection' \in [mode : {"stable", "blocked", "candidate"}, deployment : Deployments]
  BY <1>1 DEF Inv, Typed, TypeOK
<1> QED BY <1>1, <1>3, <1>4, <1>5, MoveInv, StepsAssumption

\* and the intent saved.
LEMMA SaveBlockedInv ==
  ASSUME Inv, NEW o \in Ops, SaveBlocked(o)
  PROVE  Inv' /\ Lasting
<1> DEFINE s == [ops[o] EXCEPT !.blocked = TRUE]
<1>1. /\ run.op = o /\ run.at = "blocked" /\ UNCHANGED <<world, marker>> /\ Save(o, s)
      /\ run' \in {[op |-> o, at |-> "compensate", step |-> 0], [op |-> o, at |-> "step", step |-> 1]}
  BY DEF SaveBlocked, Running, Goto, GotoStep
<1>2. ops[o] \in Operation /\ Undecided(ops[o]) /\ Underway(ops[o]) /\ Held(o)
  BY <1>1, AtPlace DEF Working, Effects
<1>3. Advances(ops[o], s) /\ Underway(s)
  BY <1>2 DEF Advances, Operation, Undecided, Underway
<1> HIDE DEF s
<1>4. ASSUME NEW at \in {"compensate", "step"} PROVE Fits(o, s, at, caller')
  BY <1>2, <1>3 DEF Fits, Places, Working, Closing, Effects, Ending, Handing
<1> QED BY <1>1, <1>3, <1>4, MoveInv, WorldTypes, StepsAssumption

\* The compensation list is fixed.
LEMMA CompensateInv ==
  ASSUME Inv, NEW o \in Ops, Compensate(o)
  PROVE  Inv' /\ Lasting
<1> DEFINE g == {s \in Steps : \E p \in Range(Origins(o)) : ops[p].steps[s].effective}
           s == [ops[o] EXCEPT !.compensating = TRUE, !.compensation = g]
<1>1. /\ run.op = o /\ run.at = "compensate" /\ UNCHANGED <<world, marker>> /\ Save(o, s)
      /\ run' = [op |-> o, at |-> "step", step |-> 1]
  BY DEF Compensate, Running, GotoStep
<1>2. ops[o] \in Operation /\ Undecided(ops[o]) /\ Underway(ops[o]) /\ Held(o)
  BY <1>1, AtPlace DEF Working, Effects
<1>3. g \in SUBSET Steps
  OBVIOUS
<1> HIDE DEF g
<1>4. Advances(ops[o], s) /\ Underway(s)
  BY <1>2, <1>3 DEF Advances, Operation, Undecided, Underway
<1> HIDE DEF s
<1>5. Fits(o, s, "step", caller')
  BY <1>2, <1>4 DEF Fits, Places, Working, Closing, Effects, Ending, Handing
<1> QED BY <1>1, <1>4, <1>5, MoveInv, WorldTypes, StepsAssumption

-----------------------------------------------------------------------------
(* The steps of a plan *)

\* A verified step only advances its record.
LEMMA VerifiedAdvances ==
  ASSUME TypeOK, NEW o \in Ops, NEW s \in Steps, Underway(ops[o])
  PROVE  Advances(ops[o], Verified(o, s)) /\ Underway(Verified(o, s))
<1>1. ops[o] \in Operation /\ Verified(o, s) \in Operation
  BY VerifiedType DEF TypeOK
<1> QED BY <1>1 DEF Verified, Advances, Operation, Underway, Undecided

\* A place among the effects keeps what the operation holds.
LEMMA EffectFits ==
  ASSUME Inv, NEW o \in Ops, run.op = o, run.at \in Effects, NEW s, Underway(s),
         NEW at \in Effects, NEW c, at \in {"execute", "selected", "bound"} => c = NoCaller
  PROVE  Fits(o, s, at, c)
<1>1. Undecided(ops[o]) /\ Held(o)
  BY AtPlace DEF Working
<1> QED BY <1>1 DEF Fits, Places, Working, Closing, Effects, Ending, Handing

\* A step that is done leads to the next one.
LEMMA StepDoneInv ==
  ASSUME Inv, NEW o \in Ops, NEW i \in Steps, StepDone(o, i)
  PROVE  Inv' /\ Lasting
<1> DEFINE s == IF Included(o, i) THEN Verified(o, i) ELSE ops[o]
<1>1. /\ run.op = o /\ run.at = "step" /\ UNCHANGED <<world, marker>> /\ Save(o, s)
      /\ run' = [op |-> o, at |-> "step", step |-> i + 1]
  BY DEF StepDone, Running, GotoStep
<1>2. Underway(ops[o])
  BY <1>1, AtPlace DEF Effects
<1>3. (s = ops[o] \/ Advances(ops[o], s)) /\ Underway(s)
  BY <1>2, VerifiedAdvances DEF Inv, Typed
<1> HIDE DEF s
<1>4. Fits(o, s, "step", caller')
  BY <1>1, <1>3, EffectFits DEF Effects
<1>5. i + 1 \in 0..(NSteps + 1)
  BY StepsAssumption DEF Steps
<1> QED BY <1>1, <1>3, <1>4, <1>5, MoveInv, WorldTypes

\* A new attempt is intended only when no caller is left.
LEMMA StepIntentInv ==
  ASSUME Inv, NEW o \in Ops, NEW i \in Steps, StepIntent(o, i)
  PROVE  Inv' /\ Lasting
<1>1. /\ run.op = o /\ run.at = "step" /\ UNCHANGED <<ops, world, marker>>
      /\ caller = NoCaller /\ run' = [op |-> o, at |-> "execute", step |-> i]
  BY DEF StepIntent, Running, GotoStep
<1>2. Underway(ops[o]) /\ Save(o, ops[o])
  BY <1>1, AtPlace, SameOps DEF Effects, Inv, Typed
<1>3. caller' = NoCaller
  BY <1>1 DEF world
<1>4. Fits(o, ops[o], "execute", caller')
  BY <1>1, <1>2, <1>3, EffectFits DEF Effects
<1>5. i \in 0..(NSteps + 1)
  BY StepsAssumption DEF Steps
<1> QED BY <1>1, <1>2, <1>4, <1>5, MoveInv, WorldTypes

\* The startup selection is made to name what a service may load.
LEMMA StepSelectInv ==
  ASSUME Inv, NEW o \in Ops, NEW i \in Steps, StepSelect(o, i)
  PROVE  Inv' /\ Lasting
<1>1. /\ run.op = o /\ run.at = "execute" /\ UNCHANGED <<ops, object, caller, marker>>
      /\ run' = [op |-> o, at |-> "selected", step |-> i]
      /\ selection' \in {selection, [mode |-> "candidate", deployment |-> Wanted(o)]}
  BY DEF StepSelect, Running, GotoStep
<1>2. Underway(ops[o]) /\ caller = NoCaller /\ Save(o, ops[o])
  BY <1>1, AtPlace, SameOps DEF Effects, Inv, Typed
<1>3. Fits(o, ops[o], "selected", caller')
  BY <1>1, <1>2, EffectFits DEF Effects
<1>4. i \in 0..(NSteps + 1)
  BY StepsAssumption DEF Steps
<1>5. object' \in [Steps -> Deployments]
      /\ selection' \in [mode : {"stable", "blocked", "candidate"}, deployment : Deployments]
  BY <1>1, ChainTypes DEF Inv, Typed, TypeOK
<1> QED BY <1>1, <1>2, <1>3, <1>4, <1>5, MoveInv

\* The attempt is made durable.
LEMMA StepBindInv ==
  ASSUME Inv, NEW o \in Ops, NEW i \in Steps, StepBind(o, i)
  PROVE  Inv' /\ Lasting
<1> DEFINE f == [ops[o].steps EXCEPT ![i].restore_attempts = @ + 1]
           h == [ops[o].steps EXCEPT ![i].attempts = @ + 1]
           s == IF ops[o].compensating THEN [ops[o] EXCEPT !.steps = f]
                ELSE [ops[o] EXCEPT !.steps = h]
<1>1. /\ run.op = o /\ run.at = "selected" /\ UNCHANGED <<world, marker>>
      /\ run' = [op |-> o, at |-> "bound", step |-> i]
  BY DEF StepBind, Running, GotoStep
<1>2. /\ ops[o] \in Operation /\ Underway(ops[o]) /\ caller = NoCaller
      /\ ops[o].steps \in [Steps -> StepRecord]
  BY <1>1, AtPlace DEF Effects, Operation
<1>3. f \in [Steps -> StepRecord] /\ h \in [Steps -> StepRecord]
  BY <1>2 DEF StepRecord
<1>4. Save(o, s)
  BY <1>2 DEF StepBind, Operation
<1> HIDE DEF f, h
<1>5. Advances(ops[o], s) /\ Underway(s)
  BY <1>2, <1>3 DEF Advances, Operation, Undecided, Underway
<1> HIDE DEF s
<1>6. caller' = NoCaller
  BY <1>1, <1>2 DEF world
<1>7. Fits(o, s, "bound", caller')
  BY <1>1, <1>5, <1>6, EffectFits DEF Effects
<1>8. i \in 0..(NSteps + 1)
  BY StepsAssumption DEF Steps
<1> QED BY <1>1, <1>4, <1>5, <1>7, <1>8, MoveInv, WorldTypes

\* The action has returned.
LEMMA StepReturnedInv ==
  ASSUME Inv, NEW o \in Ops, NEW i \in Steps, StepReturned(o, i)
  PROVE  Inv' /\ Lasting
<1> DEFINE s == Verified(o, i)
<1>1. /\ run.op = o /\ run.at = "executing" /\ UNCHANGED <<world, marker>> /\ Save(o, s)
      /\ run' = [op |-> o, at |-> "step", step |-> i + 1]
  BY DEF StepReturned, Running, GotoStep
<1>2. Underway(ops[o])
  BY <1>1, AtPlace DEF Effects
<1>3. Advances(ops[o], s) /\ Underway(s)
  BY <1>2, VerifiedAdvances DEF Inv, Typed
<1> HIDE DEF s
<1>4. Fits(o, s, "step", caller')
  BY <1>1, <1>3, EffectFits DEF Effects
<1>5. i + 1 \in 0..(NSteps + 1)
  BY StepsAssumption DEF Steps
<1> QED BY <1>1, <1>3, <1>4, <1>5, MoveInv, WorldTypes

\* The one step that starts a caller.
LEMMA StepExecuteInv ==
  ASSUME Inv, NEW o \in Ops, NEW i \in Steps, StepExecute(o, i)
  PROVE  Inv' /\ Lasting
<1>1. /\ run.op = o /\ run.at = "bound" /\ UNCHANGED <<ops, object, selection, marker>>
      /\ caller' = [op |-> o, step |-> i, to |-> Wanted(o), attempt |-> Tried(o, i)]
      /\ run' = [op |-> o, at |-> "executing", step |-> i]
  BY DEF StepExecute, Running, GotoStep
<1>2. gate' = gate /\ disk' = disk
  BY <1>1 DEF marker
<1>3. ops[o] \in Operation /\ Undecided(ops[o]) /\ Underway(ops[o]) /\ Held(o)
  BY <1>1, AtPlace DEF Effects, Working
<1>4. Tried(o, i) \in Nat
  BY <1>3 DEF Tried, Operation, StepRecord
<1>5. i \in 0..NSteps /\ i \in 0..(NSteps + 1)
  BY StepsAssumption DEF Steps
<1>6. Typed'
  BY <1>1, <1>2, <1>4, <1>5, ChainTypes DEF Inv, Typed, TypeOK, Places
<1>7. RunOK'
  BY <1>1, <1>2, <1>3 DEF RunOK, Held, Gate!Active, Working, Closing, Effects, Ending, Handing
<1>8. CallerOK'
  BY <1>1, <1>2, <1>3 DEF CallerOK, Held, Gate!Active
<1>9. Lasting
  BY <1>1, AtPlace DEF Lasting, Final
<1> QED BY <1>1, <1>6, <1>7, <1>8, <1>9 DEF Inv, Control, Records, LinksOK

-----------------------------------------------------------------------------
(* Decisions, release and handoff *)

\* Where the command stands after a commit that ends the plan or the operation.
LEMMA CloseRow ==
  ASSUME Inv, NEW o \in Ops, NEW s \in Operation, Save(o, s), s.known, s.decision # "NONE",
         s.successor = ops[o].successor, s.rollback_successor = ops[o].rollback_successor,
         Final(ops[o], s), caller.op # o, UNCHANGED <<world, marker>>,
         \/ run' = [op |-> o, at |-> "release", step |-> 0]
         \/ run' = [op |-> Nobody, at |-> "idle", step |-> 0]
  PROVE  Inv' /\ Lasting
<1>1. /\ ops' \in [Ops -> Operation] /\ ops'[o] = s
      /\ \A i \in Ops \ {o} : ops'[i] = ops[i]
  BY SaveRow DEF Inv, Typed
<1>2. UNCHANGED <<gate, disk, caller, object, selection>>
  BY DEF marker, world
<1>3. Records'
  BY <1>1 DEF Inv, Control, Records, RecordOK
<1>4. LinksOK'
  <2> SUFFICES ASSUME NEW i \in Ops
               PROVE  /\ ops'[i].successor # Nobody => ops'[ops'[i].successor].known
                      /\ ops'[i].rollback_successor # Nobody => ops'[ops'[i].rollback_successor].known
    BY DEF LinksOK
  <2>1. /\ ops[i].successor \in Ops \cup {Nobody}
        /\ ops[i].rollback_successor \in Ops \cup {Nobody}
    BY DEF Inv, Typed, TypeOK, Operation
  <2>2. /\ ops[i].successor # Nobody => ops[ops[i].successor].known
        /\ ops[i].rollback_successor # Nobody => ops[ops[i].rollback_successor].known
    BY DEF Inv, Control, LinksOK
  <2>3. /\ ops'[i].successor = ops[i].successor
        /\ ops'[i].rollback_successor = ops[i].rollback_successor
    BY <1>1
  <2>4. \A j \in Ops : ops[j].known => ops'[j].known
    BY <1>1
  <2> QED BY <2>1, <2>2, <2>3, <2>4
<1>5. RunOK'
  BY <1>1 DEF RunOK, Working, Closing, Effects, Ending, Handing
<1>6. CallerOK'
  BY <1>1, <1>2 DEF Inv, Control, CallerOK, Held, Gate!Active, NoCaller
<1>7. Typed'
  BY <1>1, <1>2, StepsAssumption DEF Inv, Typed, TypeOK, Places
<1>8. Lasting
  BY <1>1, <1>2 DEF Lasting, Final
<1> QED BY <1>3, <1>4, <1>5, <1>6, <1>7, <1>8 DEF Inv, Control

\* No operation works for no caller.
LEMMA NobodyWorks == \A o \in Ops : NoCaller.op # o
BY BaseAssumption DEF NoCaller

\* A decision is taken when no caller acts for the operation: none was ever
\* started, or the last one has ended.
LEMMA DecisionInv ==
  ASSUME Inv, NEW o \in Ops, CommitUnchanged(o) \/ DecideAborted(o) \/ Decide(o)
  PROVE  Inv' /\ Lasting
<1> DEFINE s(k) == [ops[o] EXCEPT !.decision = k]
<1>1. run.op = o /\ run.at \in {"unchanged", "abort", "step"} /\ (run.at = "step" => caller = NoCaller)
  BY DEF CommitUnchanged, DecideAborted, Decide, Running
<1>2. ops[o] \in Operation /\ Undecided(ops[o]) /\ caller.op # o
  BY <1>1, AtPlace, NobodyWorks DEF Working, Effects
<1>3. PICK k \in DecisionKinds : Save(o, s(k))
  BY DEF CommitUnchanged, DecideAborted, Decide, DecisionKinds
<1>4. UNCHANGED <<world, marker>> /\ run' = [op |-> o, at |-> "release", step |-> 0]
  BY DEF CommitUnchanged, DecideAborted, Decide, Goto
<1>5. /\ s(k) \in Operation /\ s(k).known /\ s(k).decision # "NONE"
      /\ s(k).successor = ops[o].successor
      /\ s(k).rollback_successor = ops[o].rollback_successor
  BY <1>2 DEF Operation, Undecided, DecisionKinds
<1>6. Final(ops[o], s(k))
  BY <1>2 DEF Final, Undecided, Operation
<1> QED BY <1>2, <1>3, <1>4, <1>5, <1>6, CloseRow

\* A decided operation is released; its callers ended before the decision.
LEMMA ReleaseInv ==
  ASSUME Inv, NEW o \in Ops, ReleaseUnowned(o) \/ ReleaseObserved(o) \/ SaveReleased(o)
  PROVE  Inv' /\ Lasting
<1> DEFINE s == [ops[o] EXCEPT !.released = TRUE]
<1>1. run.op = o /\ run.at \in {"release", "opened"}
  BY DEF ReleaseUnowned, ReleaseObserved, SaveReleased, Running
<1>2. ops[o] \in Operation /\ ops[o].known /\ ops[o].decision # "NONE"
  BY <1>1, AtPlace DEF Ending
<1>3. caller.op # o
  BY <1>2, NobodyWorks DEF Inv, Control, CallerOK, Underway, Undecided
<1>4. /\ Save(o, s) /\ UNCHANGED <<world, marker>>
      /\ run' = [op |-> Nobody, at |-> "idle", step |-> 0]
  BY DEF ReleaseUnowned, ReleaseObserved, SaveReleased, Return, Goto
<1>5. /\ s \in Operation /\ s.known /\ s.decision # "NONE"
      /\ s.successor = ops[o].successor /\ s.rollback_successor = ops[o].rollback_successor
      /\ Final(ops[o], s)
  BY <1>2 DEF Operation, Final
<1> HIDE DEF s
<1> QED BY <1>3, <1>4, <1>5, CloseRow

\* The stable selection is published before the gate opens.
LEMMA PublishStableInv ==
  ASSUME Inv, NEW o \in Ops, PublishStable(o)
  PROVE  Inv' /\ Lasting
<1>1. /\ run.op = o /\ run.at = "release" /\ UNCHANGED <<ops, object, caller, marker>>
      /\ caller = NoCaller
      /\ selection' = [mode |-> "stable", deployment |-> Selected(o)]
      /\ run' = [op |-> o, at |-> "open", step |-> 0]
  BY DEF PublishStable, Running, Goto
<1>2. ops[o].known /\ ops[o].decision # "NONE" /\ Save(o, ops[o])
  BY <1>1, AtPlace, SameOps DEF Ending, Inv, Typed
<1>3. Fits(o, ops[o], "open", caller')
  BY <1>1, <1>2 DEF Fits, Places, Working, Closing, Effects, Ending, Handing
<1>4. object' \in [Steps -> Deployments]
      /\ selection' \in [mode : {"stable", "blocked", "candidate"}, deployment : Deployments]
  BY <1>1, ChainTypes DEF Inv, Typed, TypeOK
<1> QED BY <1>1, <1>2, <1>3, <1>4, MoveInv, StepsAssumption

\* A commit of the handoff: the two operations keep their links.
LEMMA HandingInv ==
  ASSUME Inv, NEW o \in Ops, run.op = o, run.at \in Handing,
         ops' \in [Ops -> Operation], Keep, UNCHANGED <<world, marker>>,
         NEW at \in Handing,
         \/ run' = [op |-> o, at |-> at, step |-> 0]
         \/ run' = [op |-> Nobody, at |-> "idle", step |-> 0]
  PROVE  Inv' /\ Lasting
<1>1. ops[o].known /\ ops[o].successor # Nobody
  BY AtPlace
<1>2. UNCHANGED <<gate, disk, caller, object, selection>>
  BY DEF marker, world
<1>3. /\ Records' /\ LinksOK' /\ CallerOK'
      /\ ops'[o].known /\ ops'[o].successor # Nobody
  BY <1>1, <1>2, KeepRows, QuietStep
<1>4. RunOK'
  BY <1>3 DEF RunOK, Working, Closing, Effects, Ending, Handing
<1>5. Typed'
  BY <1>2, StepsAssumption DEF Inv, Typed, TypeOK, Places, Handing
<1> QED BY <1>2, <1>3, <1>4, <1>5, KeepLasts DEF Inv, Control

\* What the successor answers for is saved,
LEMMA InheritInv ==
  ASSUME Inv, NEW o \in Ops, Inherit(o)
  PROVE  Inv' /\ Lasting
<1> DEFINE p == ops[o].successor
           v == Inheritance(o, ops[o])
           s == [ops[p] EXCEPT !.inherited = v]
<1>1. /\ run.op = o /\ run.at = "handoff" /\ UNCHANGED <<world, marker>>
      /\ run' = [op |-> o, at |-> "transfer", step |-> 0]
      /\ ops' = IF v = << >> THEN ops ELSE [ops EXCEPT ![p].inherited = v]
  BY DEF Inherit, Running, Goto
<1>2. ops[o] \in Operation /\ p \in Ops /\ ops[p] \in Operation /\ ops[p].known
  BY <1>1, AtPlace DEF Handing, Inv, Typed, TypeOK, Operation, Control, LinksOK
<1>3. v \in Seq(Ops)
  BY ChainTypes DEF Inheritance, Inv, Typed
<1> HIDE DEF v, p
<1>4. Advances(ops[p], s)
  <2>1. ops[p] \in Operation
    BY <1>2
  <2>2. s \in Operation
    BY <2>1, <1>3 DEF Operation
  <2>3. /\ s.known = ops[p].known /\ s.decision = ops[p].decision
        /\ s.released = ops[p].released /\ s.successor = ops[p].successor
        /\ s.rollback_successor = ops[p].rollback_successor
        /\ s.handoff_complete = ops[p].handoff_complete
        /\ s.phase = ops[p].phase /\ s.direction = ops[p].direction
    BY <2>1 DEF Operation
  <2> HIDE DEF s
  <2> QED BY <1>2, <2>2, <2>3 DEF Advances
<1>5. ops' = ops \/ Save(p, s)
  <2>1. ops \in [Ops -> Operation] /\ p \in Ops
    BY <1>2 DEF Inv, Typed, TypeOK
  <2>2. CASE ops' = [ops EXCEPT ![p].inherited = v]
    BY <2>1, <2>2 DEF Save
  <2> QED BY <1>1, <2>2
<1> HIDE DEF s
<1>6. ops' \in [Ops -> Operation] /\ Keep
  <2>1. CASE ops' = ops
    BY <2>1 DEF Inv, Typed, TypeOK, Keep
  <2>2. CASE Save(p, s)
    BY <1>2, <1>4, <2>2, SaveKeeps DEF Inv, Typed
  <2> QED BY <1>5, <2>1, <2>2
<1> QED BY <1>1, <1>6, HandingInv DEF Handing

\* the successor owns the gate,
LEMMA SaveReceivedInv ==
  ASSUME Inv, NEW o \in Ops, SaveReceived(o)
  PROVE  Inv' /\ Lasting
<1> DEFINE p == ops[o].successor
           s == [ops[p] EXCEPT !.gate_owned = TRUE]
<1>1. /\ run.op = o /\ run.at = "received" /\ UNCHANGED <<world, marker>>
      /\ run' = [op |-> o, at |-> "handed", step |-> 0] /\ Save(p, s)
  BY DEF SaveReceived, Running, Goto
<1>2. p \in Ops /\ ops[p] \in Operation /\ ops[p].known
  BY <1>1, AtPlace DEF Handing, Inv, Typed, TypeOK, Operation, Control, LinksOK
<1> HIDE DEF p
<1>3. Advances(ops[p], s)
  <2>1. s \in Operation
    BY <1>2 DEF Operation
  <2>2. /\ s.known = ops[p].known /\ s.decision = ops[p].decision /\ s.released = ops[p].released
        /\ s.successor = ops[p].successor /\ s.rollback_successor = ops[p].rollback_successor
        /\ s.handoff_complete = ops[p].handoff_complete
        /\ s.phase = ops[p].phase /\ s.direction = ops[p].direction
    BY <1>2 DEF Operation
  <2> HIDE DEF s
  <2> QED BY <1>2, <2>1, <2>2 DEF Advances
<1> HIDE DEF s
<1>4. ops' \in [Ops -> Operation] /\ Keep
  BY <1>1, <1>2, <1>3, SaveKeeps DEF Inv, Typed
<1> QED BY <1>1, <1>4, HandingInv DEF Handing

\* and the predecessor is over.
LEMMA SaveHandedOffInv ==
  ASSUME Inv, NEW o \in Ops, SaveHandedOff(o)
  PROVE  Inv' /\ Lasting
<1> DEFINE s == [ops[o] EXCEPT !.handoff_complete = TRUE]
<1>1. /\ run.op = o /\ run.at = "handed" /\ UNCHANGED <<world, marker>>
      /\ run' = [op |-> Nobody, at |-> "idle", step |-> 0] /\ Save(o, s)
  BY DEF SaveHandedOff, Running, Goto, Return
<1>2. ops[o] \in Operation /\ ops[o].known
  BY <1>1, AtPlace DEF Handing
<1>3. Advances(ops[o], s)
  BY <1>2 DEF Advances, Operation
<1> HIDE DEF s
<1>4. ops' \in [Ops -> Operation] /\ Keep
  BY <1>1, <1>3, SaveKeeps DEF Inv, Typed
<1> QED BY <1>1, <1>4, HandingInv DEF Handing

-----------------------------------------------------------------------------
(* The gate *)

\* What a command does to the gate: as Write and Confirm, with the state and
\* the owner it leaves.
LEMMA ClosedGate ==
  ASSUME Inv, NEW o \in Ops, NEW synced \in BOOLEAN, Gate!Close(o, gate.sequence, synced)
  PROVE  /\ gate' \in Gate!Record /\ disk' \in Gate!Record
         /\ gate' = gate \/ gate.state = "OPEN"
<1> DEFINE last == [Gate!NoTransition EXCEPT !.kind = "close", !.owner = o]
           n == gate.sequence + 1
           r == [gate EXCEPT !.state = "CLOSED", !.owner = o, !.sequence = n, !.last = last]
<1>1. gate \in Gate!Record /\ disk \in Gate!Record
  BY DEF Inv, Typed
<1>2. \/ gate' = gate /\ disk' = gate
      \/ gate.state = "OPEN" /\ gate' = r /\ disk' \in {r, disk}
  BY <1>1 DEF Gate!Close, Gate!Confirm, Gate!Write, Gate!Record
<1>3. last \in Gate!Transition /\ n \in Nat
  <2>1. last \in Gate!Transition
    BY DEF Gate!NoTransition, Gate!Transition
  <2> QED BY <1>1, <2>1 DEF Gate!Record
<1> HIDE DEF last, n
<1>4. r \in Gate!Record
  BY <1>1, <1>3 DEF Gate!Record
<1> HIDE DEF r
<1> QED BY <1>1, <1>2, <1>4

\* A release keeps the type of the marker,
LEMMA ReleasedGate ==
  ASSUME Inv, NEW o \in Ops, NEW c \in Decisions, NEW d \in Deployments,
         NEW synced \in BOOLEAN, Gate!Release(o, c, d, gate.sequence, synced)
  PROVE  gate' \in Gate!Record /\ disk' \in Gate!Record
<1> DEFINE last == [Gate!NoTransition EXCEPT !.kind = "release", !.owner = o,
                       !.decision = c, !.deployment = d]
           n == gate.sequence + 1
           q == gate.retired \cup {o}
           r == [gate EXCEPT !.state = "OPEN", !.owner = Nobody, !.decision = c,
                             !.deployment = d, !.sequence = n, !.last = last, !.retired = q]
<1>1. gate \in Gate!Record /\ disk \in Gate!Record
  BY DEF Inv, Typed
<1>2. \/ gate' = gate /\ disk' = gate
      \/ gate' = r /\ disk' \in {r, disk}
  BY <1>1 DEF Gate!Release, Gate!Confirm, Gate!Write, Gate!Record
<1>3. last \in Gate!Transition /\ n \in Nat /\ q \in SUBSET Ops
  <2>1. last \in Gate!Transition
    BY DEF Gate!NoTransition, Gate!Transition
  <2> QED BY <1>1, <2>1 DEF Gate!Record
<1> HIDE DEF last, n, q
<1>4. r \in Gate!Record
  BY <1>1, <1>3 DEF Gate!Record
<1> HIDE DEF r
<1> QED BY <1>1, <1>2, <1>4

\* and so does a handoff.
LEMMA HandedGate ==
  ASSUME Inv, NEW o \in Ops, NEW p \in Ops, NEW synced \in BOOLEAN,
         Gate!Handoff(o, p, gate.sequence, synced)
  PROVE  gate' \in Gate!Record /\ disk' \in Gate!Record
<1> DEFINE last == [Gate!NoTransition EXCEPT !.kind = "handoff", !.owner = o, !.successor = p]
           n == gate.sequence + 1
           q == gate.retired \cup {o}
           r == [gate EXCEPT !.owner = p, !.sequence = n, !.last = last, !.retired = q]
<1>1. gate \in Gate!Record /\ disk \in Gate!Record
  BY DEF Inv, Typed
<1>2. \/ gate' = gate /\ disk' = gate
      \/ gate' = r /\ disk' \in {r, disk}
  BY <1>1 DEF Gate!Handoff, Gate!Confirm, Gate!Write, Gate!Record
<1>3. last \in Gate!Transition /\ n \in Nat /\ q \in SUBSET Ops
  <2>1. last \in Gate!Transition
    BY DEF Gate!NoTransition, Gate!Transition
  <2> QED BY <1>1, <2>1 DEF Gate!Record
<1> HIDE DEF last, n, q
<1>4. r \in Gate!Record
  BY <1>1, <1>3 DEF Gate!Record
<1> HIDE DEF r
<1> QED BY <1>1, <1>2, <1>4

\* The service side: duties only, and a new one only while the gate is open.
LEMMA ServedGate ==
  ASSUME Inv, NEW k \in Keys, Serve(k)
  PROVE  /\ gate' \in Gate!Record /\ disk' \in Gate!Record
         /\ UNCHANGED <<ops, run, world>>
         /\ gate'.state = gate.state /\ gate'.owner = gate.owner
         /\ gate'.retired = gate.retired /\ gate'.deployment = gate.deployment
         /\ gate.state # "OPEN" => Gate!Active(gate') \subseteq Gate!Active(gate)
         /\ disk' = gate'
<1> DEFINE loaded(d) == [deployment |-> d, boot |-> Boot]
           new(d) == [state |-> "ACCEPTED", loaded |-> loaded(d), prepared |-> Gate!NoPrepared,
                      sequence |-> gate.sequence, proof |-> "none"]
           end == [gate.duties[k] EXCEPT !.state = "CLOSED", !.proof = "process_exited"]
<1>1. gate \in Gate!Record /\ disk \in Gate!Record /\ gate.duties \in [Keys -> Gate!Duty]
  BY DEF Inv, Typed, Gate!Record
<1>2. CASE gate' = gate /\ disk' = gate
  BY <1>1, <1>2 DEF Serve
<1>3. ASSUME NEW duty \in Gate!Duty,
             gate.state = "OPEN" \/ duty.state = "CLOSED",
             gate' = [gate EXCEPT !.duties[k] = duty], disk' = gate'
      PROVE  /\ gate' \in Gate!Record
             /\ gate'.state = gate.state /\ gate'.owner = gate.owner
             /\ gate'.retired = gate.retired /\ gate'.deployment = gate.deployment
             /\ gate.state # "OPEN" => Gate!Active(gate') \subseteq Gate!Active(gate)
  <2>1. gate'.duties = [gate.duties EXCEPT ![k] = duty]
    BY <1>1, <1>3 DEF Gate!Record
  <2>2. gate' \in Gate!Record
    BY <1>1, <1>3 DEF Gate!Record
  <2>3. gate.state # "OPEN" => Gate!Active(gate') \subseteq Gate!Active(gate)
    BY <1>1, <1>3, <2>1 DEF Gate!Active
  <2> QED BY <1>1, <1>3, <2>2, <2>3 DEF Gate!Record
<1>4. ASSUME NEW d \in Deployments,
             Gate!Accept(k, loaded(d), Gate!NoPrepared, TRUE), ~(gate' = gate /\ disk' = gate)
      PROVE  /\ gate.state = "OPEN"
             /\ gate' = [gate EXCEPT !.duties[k] = new(d)] /\ disk' = gate'
             /\ new(d) \in Gate!Duty
  <2>1. /\ gate.state = "OPEN"
        /\ gate' = [gate EXCEPT !.duties[k] = new(d)] /\ disk' = gate'
    BY <1>4 DEF Gate!Accept, Gate!Confirm, Gate!Write
  <2>2. loaded(d) \in Gate!Loaded /\ gate.sequence \in Nat
    BY <1>1 DEF Gate!Loaded, Gate!Record
  <2>3. new(d) \in Gate!Duty
    BY <2>2 DEF Gate!Duty, Gate!DutyStates, Gate!Proofs
  <2> QED BY <2>1, <2>3
<1>5. ASSUME Gate!Finish(k, "process_exited", TRUE), ~(gate' = gate /\ disk' = gate)
      PROVE  /\ gate' = [gate EXCEPT !.duties[k] = end] /\ disk' = gate'
             /\ end \in Gate!Duty /\ end.state = "CLOSED"
  <2>1. gate' = [gate EXCEPT !.duties[k].state = "CLOSED",
                             !.duties[k].proof = "process_exited"] /\ disk' = gate'
    BY <1>5 DEF Gate!Finish, Gate!Confirm, Gate!Write
  <2>2. end \in Gate!Duty /\ end.state = "CLOSED"
    BY <1>1 DEF Gate!Duty, Gate!DutyStates, Gate!Proofs
  <2>3. gate' = [gate EXCEPT !.duties[k] = end]
    BY <1>1, <2>1 DEF Gate!Record, Gate!Duty
  <2> QED BY <2>1, <2>2, <2>3
<1> HIDE DEF end, new, loaded
<1>6. UNCHANGED <<ops, run, world>>
  BY DEF Serve
<1>7. \/ \E d \in Deployments : Gate!Accept(k, loaded(d), Gate!NoPrepared, TRUE)
      \/ Gate!Finish(k, "process_exited", TRUE)
  BY DEF Serve, loaded
<1> QED BY <1>2, <1>3, <1>4, <1>5, <1>6, <1>7

\* Whether a write is synced is a Boolean.
LEMMA SyncedType == \A b \in Synced : b \in BOOLEAN
BY SyncAssumption DEF Synced

\* A gate step of a command goes on or waits; the places it leads to hold
\* nothing of the gate, and only a caller-free node changes hands.
LEMMA GateStep ==
  ASSUME Inv, NEW o \in Ops, UNCHANGED <<ops, world>>,
         gate' \in Gate!Record, disk' \in Gate!Record, gate' = gate \/ caller = NoCaller,
         NEW at \in {"closed", "opened", "received", "handed"},
         \/ run' = [op |-> o, at |-> at, step |-> 0]
         \/ run' = [op |-> Nobody, at |-> "idle", step |-> 0],
         at = "closed" => Undecided(ops[o]) /\ Underway(ops[o]),
         at = "opened" => ops[o].known /\ ops[o].decision # "NONE",
         at \in Handing => ops[o].known /\ ops[o].successor # Nobody
  PROVE  Inv' /\ Lasting
<1>1. UNCHANGED <<caller, object, selection>>
  BY DEF world
<1>2. Records' /\ LinksOK'
  BY DEF Inv, Control, Records, LinksOK
<1>3. RunOK'
  <2>1. CASE run' = [op |-> o, at |-> at, step |-> 0]
    BY <2>1 DEF RunOK, Working, Closing, Effects, Ending, Handing
  <2>2. CASE run' = [op |-> Nobody, at |-> "idle", step |-> 0]
    BY <2>2 DEF RunOK, Working, Closing, Effects, Ending, Handing
  <2> QED BY <2>1, <2>2
<1>4. CallerOK'
  BY <1>1 DEF Inv, Control, CallerOK, Held, Gate!Active
<1>5. Typed'
  BY <1>1, StepsAssumption DEF Inv, Typed, TypeOK, Places
<1>6. Lasting
  BY <1>1 DEF Lasting, Final
<1> QED BY <1>2, <1>3, <1>4, <1>5, <1>6 DEF Inv, Control

\* A close takes the gate from nobody: it was open, so no caller acts.
LEMMA CloseGateInv ==
  ASSUME Inv, NEW o \in Ops, NEW synced \in Synced, CloseGate(o, synced)
  PROVE  Inv' /\ Lasting
<1>1. /\ run.op = o /\ run.at = "close" /\ UNCHANGED <<ops, world>>
      /\ \/ run' = [op |-> o, at |-> "closed", step |-> 0]
         \/ run' = [op |-> Nobody, at |-> "idle", step |-> 0]
      /\ (gate' = gate /\ disk' = disk) \/ Gate!Close(o, gate.sequence, synced)
  BY DEF CloseGate, Running, Goto, Return, marker
<1>2. Undecided(ops[o]) /\ Underway(ops[o])
  BY <1>1, AtPlace DEF Working, Closing
<1>3. /\ gate' \in Gate!Record /\ disk' \in Gate!Record
      /\ gate' = gate \/ gate.state = "OPEN"
  BY <1>1, ClosedGate, SyncedType DEF Inv, Typed
<1>4. gate.state = "OPEN" => caller = NoCaller
  BY DEF Inv, Control, CallerOK, Held
<1> QED BY <1>1, <1>2, <1>3, <1>4, GateStep DEF Handing

\* A release opens the gate of a decided operation, without callers.
LEMMA OpenGateInv ==
  ASSUME Inv, NEW o \in Ops, NEW synced \in Synced, OpenGate(o, synced)
  PROVE  Inv' /\ Lasting
<1>1. /\ run.op = o /\ run.at = "open" /\ UNCHANGED <<ops, world>>
      /\ \/ run' = [op |-> o, at |-> "opened", step |-> 0]
         \/ run' = [op |-> Nobody, at |-> "idle", step |-> 0]
      /\ Gate!Release(o, <<o, ops[o].decision>>, Selected(o), gate.sequence, synced)
  BY DEF OpenGate, Running, Goto, Return
<1>2. /\ ops[o] \in Operation /\ ops[o].known /\ ops[o].decision # "NONE"
      /\ caller = NoCaller
  BY <1>1, AtPlace DEF Ending
<1>3. <<o, ops[o].decision>> \in Decisions /\ Selected(o) \in Deployments
  BY <1>2, ChainTypes DEF Decisions, Operation, Inv, Typed
<1>4. gate' \in Gate!Record /\ disk' \in Gate!Record
  BY <1>1, <1>3, ReleasedGate, SyncedType
<1> QED BY <1>1, <1>2, <1>4, GateStep DEF Handing

\* A handoff moves the gate from a linked operation, for which nobody acts.
LEMMA TransferInv ==
  ASSUME Inv, NEW o \in Ops, NEW synced \in Synced, Transfer(o, synced)
  PROVE  Inv' /\ Lasting
<1> DEFINE p == ops[o].successor
<1>1. run.op = o /\ run.at = "transfer" /\ UNCHANGED <<ops, world>>
  BY DEF Transfer, Running
<1>2. ops[o] \in Operation /\ ops[o].known /\ p # Nobody
  BY <1>1, AtPlace DEF Handing
<1>3. p \in Ops
  BY <1>2 DEF Operation
<1>4. \/ /\ gate.owner = o /\ Gate!Handoff(o, p, gate.sequence, synced)
         /\ \/ run' = [op |-> o, at |-> "received", step |-> 0]
            \/ run' = [op |-> Nobody, at |-> "idle", step |-> 0]
      \/ /\ gate' = gate /\ disk' = disk
         /\ \/ run' = [op |-> o, at |-> "received", step |-> 0]
            \/ run' = [op |-> o, at |-> "handed", step |-> 0]
  BY DEF Transfer, Goto, Return, marker
<1>5. gate.owner = o => caller = NoCaller
  BY <1>2 DEF Inv, Control, CallerOK, Held, Underway, Undecided
<1>6. gate' \in Gate!Record /\ disk' \in Gate!Record /\ (gate' = gate \/ caller = NoCaller)
  BY <1>3, <1>4, <1>5, HandedGate, SyncedType DEF Inv, Typed
<1> HIDE DEF p
<1> QED BY <1>1, <1>2, <1>4, <1>6, GateStep DEF Handing, p

\* Work ends under a closed gate and begins only under an open one.
LEMMA ServeInv ==
  ASSUME Inv, NEW k \in Keys, Serve(k)
  PROVE  Inv' /\ Lasting
<1>1. /\ gate' \in Gate!Record /\ disk' \in Gate!Record
      /\ UNCHANGED <<ops, run, object, caller, selection>>
      /\ gate'.state = gate.state /\ gate'.owner = gate.owner
      /\ gate.state # "OPEN" => Gate!Active(gate') \subseteq Gate!Active(gate)
  BY ServedGate DEF world
<1>2. \A o \in Ops : Held(o) => Held(o)'
  BY <1>1 DEF Held, Gate!Active
<1>3. run.at \in Effects => Held(run.op)'
  <2>1. run.at \in Effects => run.op \in Ops /\ Held(run.op)
    BY DEF Inv, Control, RunOK, Effects
  <2> QED BY <1>1, <1>2, <2>1 DEF Held, Gate!Active
<1>4. RunOK'
  BY <1>1, <1>3 DEF Inv, Control, RunOK, Held, Gate!Active
<1>5. CallerOK'
  BY <1>1, <1>2 DEF Inv, Control, CallerOK, Held, Gate!Active
<1>6. Records' /\ LinksOK' /\ Typed'
  BY <1>1 DEF Inv, Control, Records, LinksOK, Typed, TypeOK
<1>7. Lasting
  BY <1>1 DEF Lasting, Final
<1> QED BY <1>4, <1>5, <1>6, <1>7 DEF Inv, Control

-----------------------------------------------------------------------------
(* Commands *)

\* The fields of a record that was never written.
LEMMA UnknownRow ==
  ASSUME Inv, NEW p \in Ops, ~ops[p].known
  PROVE  /\ ops[p].decision = "NONE" /\ ops[p].released = FALSE
         /\ ops[p].successor = Nobody /\ ops[p].rollback_successor = Nobody
         /\ ops[p].handoff_complete = FALSE
         /\ ops[p].phase = "PLANNED" /\ ops[p].direction = "APPLY"
<1>1. ops[p] = NoOperation
  BY DEF Inv, Control, Records, RecordOK
<1>2. NoOperation = [NewOperation(Base, Base, Nobody, FALSE) EXCEPT !.known = FALSE]
  BY DEF NoOperation
<1> QED BY <1>1, <1>2 DEF NewOperation

\* A command that continues an operation from its record.
LEMMA StartInv ==
  ASSUME Inv, NEW o \in Ops, ops' \in [Ops -> Operation], Keep, ops'[o].known,
         Run(o, ops'[o]), UNCHANGED <<world, marker>>
  PROVE  Inv' /\ Lasting
<1> DEFINE r == ops'[o]
<1>1. UNCHANGED <<gate, disk, caller, object, selection>>
  BY DEF marker, world
<1>2. Records' /\ LinksOK' /\ CallerOK'
  BY <1>1, KeepRows, QuietStep
<1>3. \/ run' = [op |-> Nobody, at |-> "idle", step |-> 0]
      \/ run' = [op |-> o, at |-> "handoff", step |-> 0] /\ r.successor # Nobody
      \/ run' = [op |-> o, at |-> "release", step |-> 0] /\ r.decision # "NONE"
      \/ run' = [op |-> o, at |-> "work", step |-> 0] /\ Undecided(r)
  BY DEF Run, Entry, Return, Goto, Undecided
<1>4. RunOK'
  BY <1>3 DEF RunOK, Working, Closing, Effects, Ending, Handing
<1>5. Typed'
  BY <1>1, <1>3, StepsAssumption DEF Inv, Typed, TypeOK, Places
<1> QED BY <1>1, <1>2, <1>4, <1>5, KeepLasts DEF Inv, Control

\* apply of a new operation.
LEMMA ApplyInv ==
  ASSUME Inv, NEW o \in Ops, NEW d \in Deployments, NEW e \in Deployments, Apply(o, d, e)
  PROVE  Inv' /\ Lasting
<1> DEFINE s == NewOperation(d, e, Nobody, FALSE)
<1>1. /\ ~ops[o].known /\ UNCHANGED <<world, marker>> /\ Save(o, s)
      /\ run' = [op |-> o, at |-> "work", step |-> 0]
  BY DEF Apply, Goto
<1>2. s \in Operation
  BY NewRecord
<1>3. /\ s.known /\ s.decision = "NONE" /\ s.released = FALSE /\ s.successor = Nobody
      /\ s.rollback_successor = Nobody /\ s.handoff_complete = FALSE
  BY DEF NewOperation
<1> HIDE DEF s
<1>4. Advances(ops[o], s) /\ Undecided(s)
  BY <1>1, <1>2, <1>3, UnknownRow DEF Advances, Undecided
<1>5. ops' \in [Ops -> Operation] /\ ops'[o] = s /\ Keep
  BY <1>1, <1>4, SaveKeeps DEF Inv, Typed
<1>6. Run(o, ops'[o])
  BY <1>1, <1>3, <1>5 DEF Run, Entry, Goto
<1> QED BY <1>1, <1>3, <1>5, <1>6, StartInv

\* apply of the same request, and resume, continue from the record.
LEMMA ContinueInv ==
  ASSUME Inv, NEW o \in Ops, ApplyAgain(o) \/ Resume(o)
  PROVE  Inv' /\ Lasting
<1>1. ops' = ops /\ ops[o].known /\ Run(o, ops[o]) /\ UNCHANGED <<world, marker>>
  BY DEF ApplyAgain, Resume
<1>2. ops' \in [Ops -> Operation] /\ Keep
  BY <1>1 DEF Keep, Inv, Typed, TypeOK
<1> QED BY <1>1, <1>2, StartInv

\* rollback changes the direction of an undecided operation only.
LEMMA RollbackInv ==
  ASSUME Inv, NEW o \in Ops, Rollback(o)
  PROVE  Inv' /\ Lasting
<1> DEFINE q == ops[o].rollback_successor
           s == IF ops[o].successor = Nobody /\ ops[o].decision = "NONE"
                THEN [ops[o] EXCEPT !.direction = "ROLLBACK"] ELSE ops[o]
<1>1. ops[o].known /\ UNCHANGED <<world, marker>> /\ ops[o] \in Operation
  BY DEF Rollback, Inv, Typed, TypeOK
<1>2. CASE q # Nobody /\ Run(q, ops[q]) /\ ops' = ops
  <2>1. q \in Ops /\ ops[q].known
    BY <1>1, <1>2 DEF Inv, Control, LinksOK, Operation
  <2>2. ops' \in [Ops -> Operation] /\ Keep
    BY <1>2 DEF Keep, Inv, Typed, TypeOK
  <2> HIDE DEF q
  <2> QED BY <1>1, <1>2, <2>1, <2>2, StartInv
<1>3. CASE Save(o, s) /\ Run(o, s)
  <2>1. (s = ops[o] \/ Advances(ops[o], s)) /\ s.known
    BY <1>1 DEF Advances, Operation
  <2> HIDE DEF s
  <2>2. ops' \in [Ops -> Operation] /\ ops'[o] = s /\ Keep
    BY <1>3, <2>1, SaveKeeps DEF Inv, Typed
  <2> QED BY <1>1, <1>3, <2>1, <2>2, StartInv
<1> QED BY <1>2, <1>3 DEF Rollback

\* A command that links a new operation to one that is over or free of callers.
LEMMA LinkInv ==
  ASSUME Inv, NEW o \in Ops, NEW p \in Ops, ops[o].known, ~ops[p].known,
         NEW s \in Operation, NEW d \in Deployments, NEW e \in Deployments, NEW b \in BOOLEAN,
         ops' = [ops EXCEPT ![o] = s, ![p] = NewOperation(d, e, o, b)],
         s.known, s.decision = ops[o].decision, s.released = ops[o].released,
         s.handoff_complete = ops[o].handoff_complete,
         s.successor \in {ops[o].successor, p},
         s.rollback_successor \in {ops[o].rollback_successor, p},
         caller.op # o, UNCHANGED <<world, marker>>,
         \/ run' = [op |-> o, at |-> "handoff", step |-> 0] /\ s.successor # Nobody
         \/ run' = [op |-> p, at |-> "work", step |-> 0]
  PROVE  Inv' /\ Lasting
<1> DEFINE n == NewOperation(d, e, o, b)
<1>1. n \in Operation
  BY NewRecord
<1>2. /\ n.known /\ n.decision = "NONE" /\ n.released = FALSE /\ n.successor = Nobody
      /\ n.rollback_successor = Nobody
  BY DEF NewOperation
<1>3. ops \in [Ops -> Operation]
  BY DEF Inv, Typed, TypeOK
<1> HIDE DEF n
<1>4. /\ ops' \in [Ops -> Operation] /\ ops'[o] = s /\ ops'[p] = n
      /\ \A i \in Ops \ {o, p} : ops'[i] = ops[i]
  BY <1>1, <1>3 DEF n
<1>5. UNCHANGED <<gate, disk, caller, object, selection>>
  BY DEF marker, world
<1>6. Records'
  BY <1>2, <1>4 DEF Inv, Control, Records, RecordOK
<1>7. LinksOK'
  <2> SUFFICES ASSUME NEW i \in Ops
               PROVE  /\ ops'[i].successor # Nobody => ops'[ops'[i].successor].known
                      /\ ops'[i].rollback_successor # Nobody => ops'[ops'[i].rollback_successor].known
    BY DEF LinksOK
  <2>1. /\ ops[i].successor \in Ops \cup {Nobody}
        /\ ops[i].rollback_successor \in Ops \cup {Nobody}
    BY DEF Inv, Typed, TypeOK, Operation
  <2>2. /\ ops[i].successor # Nobody => ops[ops[i].successor].known
        /\ ops[i].rollback_successor # Nobody => ops[ops[i].rollback_successor].known
    BY DEF Inv, Control, LinksOK
  <2>3. \/ ops'[i].successor = Nobody \/ ops'[i].successor = ops[i].successor
        \/ ops'[i].successor = p
    BY <1>2, <1>4
  <2>4. \/ ops'[i].rollback_successor = Nobody \/ ops'[i].rollback_successor = p
        \/ ops'[i].rollback_successor = ops[i].rollback_successor
    BY <1>2, <1>4
  <2>5. \A j \in Ops : ops[j].known => ops'[j].known
    BY <1>2, <1>4
  <2> QED BY <1>2, <1>4, <2>1, <2>2, <2>3, <2>4, <2>5
<1>8. RunOK'
  BY <1>2, <1>4 DEF RunOK, Undecided, Working, Closing, Effects, Ending, Handing
<1>9. CallerOK'
  <2>1. caller # NoCaller => Undecided(ops[caller.op])
    BY DEF Inv, Control, CallerOK, Underway
  <2>2. caller # NoCaller => caller.op \in Ops \ {o, p}
    BY <2>1 DEF Inv, Control, CallerOK, Undecided
  <2> QED BY <1>4, <1>5, <2>2 DEF Inv, Control, CallerOK, Held, Gate!Active
<1>10. Typed'
  BY <1>4, <1>5, StepsAssumption DEF Inv, Typed, TypeOK, Places
<1>11. Lasting
  BY <1>2, <1>4, <1>5, UnknownRow DEF Lasting, Final
<1> QED BY <1>6, <1>7, <1>8, <1>9, <1>10, <1>11 DEF Inv, Control

\* rollback of a committed operation is a new operation.
LEMMA RollbackCommittedInv ==
  ASSUME Inv, NEW o \in Ops, NEW p \in Ops, RollbackCommitted(o, p)
  PROVE  Inv' /\ Lasting
<1> DEFINE s == [ops[o] EXCEPT !.rollback_successor = p]
<1>1. /\ ops[o].decision = "COMMITTED" /\ ~ops[p].known /\ caller = NoCaller
      /\ UNCHANGED <<world, marker>> /\ run' = [op |-> p, at |-> "work", step |-> 0]
  BY DEF RollbackCommitted, Goto
<1>2. ops[o] \in Operation /\ ops[o].known
  BY <1>1, UnknownRow DEF Inv, Typed, TypeOK
<1>3. ops' = [ops EXCEPT ![o] = s, ![p] = NewOperation(ops[o].target, SourceOf(o), o, FALSE)]
  BY DEF RollbackCommitted
<1>4. ops[o].target \in Deployments /\ SourceOf(o) \in Deployments
  BY <1>2, ChainTypes DEF Operation, Inv, Typed
<1>5. /\ s \in Operation /\ s.known /\ s.decision = ops[o].decision
      /\ s.released = ops[o].released /\ s.handoff_complete = ops[o].handoff_complete
      /\ s.successor = ops[o].successor /\ s.rollback_successor = p
  BY <1>2 DEF Operation
<1> HIDE DEF s
<1> QED BY <1>1, <1>2, <1>3, <1>4, <1>5, NobodyWorks, LinkInv

\* supersede links a successor while nobody acts for the operation.
LEMMA SupersedeInv ==
  ASSUME Inv, NEW o \in Ops, NEW p \in Ops, NEW d \in Deployments, NEW e \in Deployments,
         Supersede(o, p, d, e)
  PROVE  Inv' /\ Lasting
<1> DEFINE u == IF ops[o].released THEN ops[o] ELSE Observed(o)
           s == [u EXCEPT !.successor = p]
           held == ops[o].gate_owned /\ ~ops[o].released
<1>1. /\ UNCHANGED <<world, marker>> /\ run' = [op |-> o, at |-> "handoff", step |-> 0]
      /\ ops' = [ops EXCEPT ![o] = s, ![p] = NewOperation(d, e, o, held)]
  BY DEF Supersede, Goto
<1>2. ops[o] \in Operation /\ ops[o].known /\ Observed(o) \in Operation
  BY ObservedType DEF Supersede, Inv, Typed, TypeOK
<1>3. Advances(ops[o], u) \/ u = ops[o]
  BY <1>2, ObservedAdvances DEF Inv, Typed
<1>4. u \in Operation /\ u.handoff_complete = ops[o].handoff_complete
  <2>1. \A steps : [ops[o] EXCEPT !.steps = steps].handoff_complete = ops[o].handoff_complete
    BY <1>2 DEF Operation
  <2>2. Observed(o).handoff_complete = ops[o].handoff_complete
    BY <2>1 DEF Observed
  <2> QED BY <1>2, <2>2
<1>5. /\ u.known /\ u.decision = ops[o].decision /\ u.released = ops[o].released
      /\ u.rollback_successor = ops[o].rollback_successor
  BY <1>2, <1>3 DEF Advances
<1> HIDE DEF u
<1>6. /\ s \in Operation /\ s.known /\ s.decision = ops[o].decision
      /\ s.released = ops[o].released /\ s.handoff_complete = ops[o].handoff_complete
      /\ s.successor = p /\ s.rollback_successor = ops[o].rollback_successor
  BY <1>4, <1>5 DEF Operation
<1> HIDE DEF s
<1>7. caller.op # o
  <2>1. CASE caller = NoCaller
    BY <2>1, NobodyWorks
  <2>2. CASE ops[o].released /\ caller # NoCaller
    BY <2>2 DEF Inv, Control, CallerOK, Underway, Undecided
  <2> QED BY <2>1, <2>2 DEF Supersede
<1>8. held \in BOOLEAN /\ ~ops[p].known /\ p # Nobody
  BY <1>2, BaseAssumption DEF Supersede, Operation
<1> HIDE DEF held
<1> QED BY <1>1, <1>2, <1>6, <1>7, <1>8, LinkInv

-----------------------------------------------------------------------------
(* Callers, failures and the whole step *)

\* A caller does its work or ends.
LEMMA CallerStepInv ==
  ASSUME Inv, CallerWorks \/ CallerEnds
  PROVE  Inv' /\ Lasting
<1>1. /\ UNCHANGED <<ops, run, selection, gate, disk>> /\ caller # NoCaller
      /\ \/ caller' = caller /\ object' = [object EXCEPT ![caller.step] = caller.to]
         \/ caller' = NoCaller /\ object' = object
  BY DEF CallerWorks, CallerEnds, marker
<1>2. object' \in [Steps -> Deployments] /\ caller' \in {caller, NoCaller}
  BY <1>1 DEF Inv, Typed, TypeOK
<1>3. Typed'
  BY <1>1, <1>2, NoCallerType DEF Inv, Typed, TypeOK
<1>4. Records' /\ LinksOK' /\ CallerOK'
  BY <1>1, <1>2 DEF Inv, Control, Records, LinksOK, CallerOK, Held, Gate!Active
<1>5. RunOK'
  <2>1. caller' = caller \/ (\A o \in Ops : caller'.op # o)
    BY <1>1, NobodyWorks
  <2>2. run.at # "idle" => run.op \in Ops
    BY DEF Inv, Control, RunOK
  <2> QED BY <1>1, <2>1, <2>2 DEF Inv, Control, RunOK, Held, Gate!Active
<1>6. Lasting
  BY <1>1, <1>2 DEF Lasting, Final
<1> QED BY <1>3, <1>4, <1>5, <1>6 DEF Inv, Control

\* A stop leaves callers at work and the gate as it is; a power loss ends them,
\* so it may take the gate back to what is durable.
LEMMA FailureInv ==
  ASSUME Inv, Stop \/ PowerLoss
  PROVE  Inv' /\ Lasting
<1>1. /\ UNCHANGED <<ops, object, selection>>
      /\ run' = [op |-> Nobody, at |-> "idle", step |-> 0]
      /\ \/ caller' = caller /\ gate' = gate /\ disk' = disk
         \/ caller' = NoCaller /\ gate' \in {gate, disk} /\ disk' = gate'
  BY DEF Stop, PowerLoss, Gate!PowerLoss, Return, Goto, world, marker
<1>2. Typed'
  BY <1>1, NoCallerType, StepsAssumption DEF Inv, Typed, TypeOK, Places
<1>3. RunOK'
  BY <1>1 DEF RunOK, Working, Closing, Effects, Ending, Handing
<1>4. Records' /\ LinksOK' /\ CallerOK'
  BY <1>1 DEF Inv, Control, Records, LinksOK, CallerOK, Held, Gate!Active
<1>5. Lasting
  BY <1>1 DEF Lasting, Final
<1> QED BY <1>2, <1>3, <1>4, <1>5 DEF Inv, Control

\* Every command,
LEMMA CommandInv ==
  ASSUME Inv, NEW o \in Ops, Command(o)
  PROVE  Inv' /\ Lasting
<1>1. CASE \E d, e \in Deployments : Apply(o, d, e)
  BY <1>1, ApplyInv
<1>2. CASE ApplyAgain(o) \/ Resume(o)
  BY <1>2, ContinueInv
<1>3. CASE Rollback(o)
  BY <1>3, RollbackInv
<1>4. CASE \E p \in Ops : RollbackCommitted(o, p)
  BY <1>4, RollbackCommittedInv
<1>5. CASE \E p \in Ops : \E d, e \in Deployments : Supersede(o, p, d, e)
  BY <1>5, SupersedeInv
<1> QED BY <1>1, <1>2, <1>3, <1>4, <1>5 DEF Command

\* every step towards a decision,
LEMMA ForwardInv ==
  ASSUME Inv, NEW o \in Ops, Forward(o)
  PROVE  Inv' /\ Lasting
<1>1. CASE Preflight(o) \/ Prepare(o) \/ Begin(o) \/ SaveClosed(o)
  BY <1>1, PreflightInv, PrepareInv, BeginInv, SaveClosedInv
<1>2. CASE CommitUnchanged(o) \/ DecideAborted(o) \/ Decide(o)
  BY <1>2, DecisionInv
<1>3. CASE \E synced \in Synced : CloseGate(o, synced)
  BY <1>3, CloseGateInv
<1>4. CASE Drain(o) \/ Block(o) \/ SaveBlocked(o) \/ Compensate(o)
  BY <1>4, DrainInv, BlockInv, SaveBlockedInv, CompensateInv
<1>5. CASE \E s \in Steps : StepDone(o, s) \/ StepIntent(o, s) \/ StepSelect(o, s)
                              \/ StepBind(o, s) \/ StepExecute(o, s) \/ StepReturned(o, s)
  BY <1>5, StepDoneInv, StepIntentInv, StepSelectInv, StepBindInv, StepExecuteInv, StepReturnedInv
<1> QED BY <1>1, <1>2, <1>3, <1>4, <1>5 DEF Forward

\* every step after it,
LEMMA FinishInv ==
  ASSUME Inv, NEW o \in Ops, Finish(o)
  PROVE  Inv' /\ Lasting
<1>1. CASE ReleaseUnowned(o) \/ ReleaseObserved(o) \/ SaveReleased(o)
  BY <1>1, ReleaseInv
<1>2. CASE PublishStable(o)
  BY <1>2, PublishStableInv
<1>3. CASE \E synced \in Synced : OpenGate(o, synced) \/ Transfer(o, synced)
  BY <1>3, OpenGateInv, TransferInv
<1>4. CASE Inherit(o) \/ SaveReceived(o) \/ SaveHandedOff(o)
  BY <1>4, InheritInv, SaveReceivedInv, SaveHandedOffInv
<1> QED BY <1>1, <1>2, <1>3, <1>4 DEF Finish

\* and a step of somebody else,
LEMMA StutterInv ==
  ASSUME Inv, UNCHANGED vars
  PROVE  Inv' /\ Lasting
<1>1. UNCHANGED <<ops, run, object, caller, selection, gate, disk>>
  BY DEF vars
<1>2. Typed' /\ Records' /\ LinksOK'
  BY <1>1 DEF Inv, Typed, TypeOK, Control, Records, LinksOK
<1>3. RunOK' /\ CallerOK'
  BY <1>1 DEF Inv, Control, RunOK, CallerOK, Held, Gate!Active
<1>4. Lasting
  BY <1>1 DEF Lasting, Final
<1> QED BY <1>2, <1>3, <1>4 DEF Inv, Control

\* hence every step, keeps the invariant and takes nothing back.
LEMMA NextInv ==
  ASSUME Inv, [Next]_vars
  PROVE  Inv' /\ Lasting
<1>1. CASE \E o \in Ops : Command(o) \/ Forward(o) \/ Finish(o)
  BY <1>1, CommandInv, ForwardInv, FinishInv
<1>2. CASE CallerWorks \/ CallerEnds
  BY <1>2, CallerStepInv
<1>3. CASE Stop \/ PowerLoss
  BY <1>3, FailureInv
<1>4. CASE \E k \in Keys : Serve(k)
  BY <1>4, ServeInv
<1>5. CASE UNCHANGED vars
  BY <1>5, StutterInv
<1> QED BY <1>1, <1>2, <1>3, <1>4, <1>5 DEF Next

\* The node starts with an open gate that selects the deployment in place.
LEMMA FirstGate ==
  ASSUME Init
  PROVE  gate \in Gate!Record /\ disk = gate /\ gate.state = "OPEN"
         /\ gate.owner = Nobody /\ gate.deployment = Base /\ gate.retired = {}
<1> DEFINE c == <<Nobody, "COMMITTED">>
<1>1. c \in Decisions
  BY DEF Decisions, DecisionKinds
<1>2. Gate!Absent \in Gate!Record
  <2>1. Gate!NoDuty \in Gate!Duty
    BY DEF Gate!NoDuty, Gate!Duty, Gate!DutyStates, Gate!Proofs
  <2>2. Gate!NoTransition \in Gate!Transition
    BY DEF Gate!NoTransition, Gate!Transition
  <2> QED BY <2>1, <2>2 DEF Gate!Absent, Gate!Record
<1>3. gate = [Gate!Absent EXCEPT !.state = "OPEN", !.sequence = 1, !.decision = c,
                                 !.deployment = Base]
  BY DEF Init
<1>4. Gate!Absent.owner = Nobody /\ Gate!Absent.retired = {}
  BY DEF Gate!Absent
<1> HIDE DEF c
<1>5. gate \in Gate!Record
  BY <1>1, <1>2, <1>3, BaseAssumption DEF Gate!Record
<1> QED BY <1>2, <1>3, <1>4, <1>5 DEF Init, Gate!Record

\* The invariant holds at first.
LEMMA InitInv ==
  ASSUME Init
  PROVE  Inv
<1>1. NewOperation(Base, Base, Nobody, FALSE) \in Operation
  BY NewRecord, BaseAssumption
<1>2. NoOperation \in Operation /\ ~NoOperation.known /\ NoOperation.released = FALSE
      /\ NoOperation.successor = Nobody /\ NoOperation.rollback_successor = Nobody
  <2>1. NoOperation = [NewOperation(Base, Base, Nobody, FALSE) EXCEPT !.known = FALSE]
    BY DEF NoOperation
  <2>2. NoOperation \in Operation /\ ~NoOperation.known
    BY <1>1, <2>1 DEF Operation
  <2> QED BY <2>1, <2>2 DEF NewOperation
<1>3. \A o \in Ops : ops[o] = NoOperation
  BY DEF Init
<1>4. caller = NoCaller /\ run = [op |-> Nobody, at |-> "idle", step |-> 0]
  BY DEF Init
<1>5. TypeOK
  <2>1. ops \in [Ops -> Operation]
    BY <1>2 DEF Init
  <2>2. object \in [Steps -> Deployments]
    BY BaseAssumption DEF Init
  <2>3. selection \in [mode : {"stable", "blocked", "candidate"}, deployment : Deployments]
    BY BaseAssumption DEF Init
  <2> QED BY <1>4, <2>1, <2>2, <2>3, NoCallerType, StepsAssumption DEF TypeOK, Places
<1>6. Typed
  BY <1>5, FirstGate DEF Typed
<1>7. Records /\ LinksOK
  BY <1>2, <1>3 DEF Records, RecordOK, LinksOK
<1>8. RunOK /\ CallerOK
  BY <1>4 DEF RunOK, CallerOK, Working, Closing, Effects, Ending, Handing
<1> QED BY <1>6, <1>7, <1>8 DEF Inv, Control

\* The inductive invariant holds in every reachable state, for every set of
\* operations, plan and limit.
THEOREM Invariance == Spec => []Inv
<1>1. Init => Inv
  BY InitInv
<1>2. Inv /\ [Next]_vars => Inv'
  BY NextInv
<1> QED BY <1>1, <1>2, PTL DEF Spec

\* Records, command, caller and selection keep their form (new_operation).
THEOREM TypeCorrect == Spec => []TypeOK
<1>1. Inv => TypeOK
  BY DEF Inv, Typed
<1> QED BY <1>1, Invariance, PTL

\* An action changes the node only under maintenance of its own operation and
\* after the drain (coordinator.py _apply, _rollback, _step).
THEOREM EffectsMaintained == Spec => []EffectsUnderMaintenance
<1>1. Inv => EffectsUnderMaintenance
  BY DEF Inv, Control, CallerOK, Held, EffectsUnderMaintenance
<1> QED BY <1>1, Invariance, PTL

\* No action is replayed while an earlier caller may still act (_step: an
\* unfinished action waits).
THEOREM CallersAlone == Spec => CallersNeverOverlap
<1>1. Inv /\ [Next]_vars => [caller # NoCaller => caller' \in {caller, NoCaller}]_vars
  BY NextInv DEF Lasting
<1> QED BY <1>1, Invariance, PTL DEF Spec, CallersNeverOverlap

\* A recorded decision stands, and a finished operation stays finished (_decide,
\* _release, _handoff).
THEOREM DecisionsLast == Spec => DecisionFinal
<1> DEFINE A == \A o \in Ops :
                  /\ ops[o].decision # "NONE" => ops'[o].decision = ops[o].decision
                  /\ ops[o].known /\ ~Unfinished(o) => ~Unfinished(o)'
<1>1. Inv /\ [Next]_vars => [A]_vars
  BY NextInv DEF Lasting, Final, Unfinished
<1> QED BY <1>1, Invariance, PTL DEF Spec, DecisionFinal

-----------------------------------------------------------------------------
(***************************************************************************)
(* Work is admitted, and a service may load a deployment, only when every  *)
(* managed object is at that deployment and nobody changes one; provided   *)
(* that a rename of the gate which is visible is also durable (~SyncLoss). *)
(* With SyncLoss the first of these is false (run deploy_sync_loss).       *)
(*                                                                         *)
(* The argument: whether a stable selection may be published is decided at *)
(* one place (release_valid) and used at the next, so "RunSelects" carries *)
(* the observation to the place "open" and keeps the gate closed in        *)
(* between. That an effect never meets a stable selection needs the        *)
(* history of the operation: a command that comes back after a crash skips *)
(* the block if the record says "blocked".  "BlockedHolds" justifies that  *)
(* shortcut: an undecided operation that has blocked the selection and     *)
(* owns the gate finds it blocked, because only the owner publishes a      *)
(* stable one, and an owner that has gone is retired for good and cannot   *)
(* come back.                                                              *)
(***************************************************************************)

\* The marker that is visible is durable; an open gate has no owner, and the
\* owner of a closed one is not retired.
MarkerOK ==
  /\ disk = gate
  /\ gate.state \in {"OPEN", "CLOSED"}
  /\ gate.state = "OPEN" => gate.owner = Nobody
  /\ gate.owner \notin gate.retired

\* What the durable "blocked" and "compensating" of a record promise.
BlockedHolds ==
  \A o \in Ops :
     /\ ops[o].compensating => ops[o].blocked
     /\ ops[o].blocked => gate.owner = o \/ o \in gate.retired
     /\ ops[o].blocked /\ ops[o].decision = "NONE" /\ gate.owner = o
          => selection.mode # "stable"

\* The places behind the block.
Acting == Effects \ {"block", "blocked"}

\* What a command may rely on of selection and objects at its place.
RunSelects ==
  /\ run.at \in Acting \cup {"blocked"} => selection.mode # "stable"
  /\ run.at \in Acting => ops[run.op].blocked
  /\ run.at = "open" =>
       /\ gate.state = "CLOSED" /\ gate.owner = run.op
       /\ \A s \in Steps : object[s] = Selected(run.op)
       /\ selection = [mode |-> "stable", deployment |-> Selected(run.op)]

\* The inductive invariant, together with Inv.
Installed ==
  MarkerOK /\ BlockedHolds /\ RunSelects /\ OpenMeansInstalled /\ StableMeansInstalled

\* A record keeps what BlockedHolds reads, except that a decision may be taken.
Kept(r, s) == /\ s.blocked = r.blocked /\ s.compensating = r.compensating
              /\ s.decision = "NONE" => r.decision = "NONE"

\* All records keep it.
RowsKept == \A i \in Ops : Kept(ops[i], ops'[i])

\* A save of such a record.
LEMMA SavedRow ==
  ASSUME Inv, NEW o \in Ops, NEW s, Save(o, s), Kept(ops[o], s)
  PROVE  RowsKept
BY DEF Inv, Typed, TypeOK, Save, RowsKept, Kept

\* Nothing is saved.
LEMMA SameRows ==
  ASSUME ops' = ops
  PROVE  RowsKept
BY DEF RowsKept, Kept

\* The step most actions are: selection, objects and gate stay, and the command
\* does not come to a place that relies on them, or was behind the block already.
LEMMA Plain ==
  ASSUME Inv, Installed, RowsKept, UNCHANGED <<gate, disk, object, selection>>,
         caller' \in {caller, NoCaller},
         \/ run'.at \notin Effects \cup {"open"}
         \/ run'.op = run.op /\ run.at \in Acting /\ run'.at \in Acting
  PROVE  Installed'
<1>1. MarkerOK'
  BY DEF Installed, MarkerOK
<1>2. BlockedHolds'
  BY DEF Installed, BlockedHolds, RowsKept, Kept
<1>3. run.at \in Acting => run.op \in Ops
  BY DEF Inv, Control, RunOK, Acting, Effects
<1>4. RunSelects'
  BY <1>3 DEF Installed, RunSelects, RowsKept, Kept, Acting, Effects
<1>5. OpenMeansInstalled' /\ StableMeansInstalled'
  BY DEF Installed, OpenMeansInstalled, StableMeansInstalled
<1> QED BY <1>1, <1>2, <1>4, <1>5 DEF Installed

\* The variables that world and marker stand for.
LEMMA SameWorld ==
  ASSUME UNCHANGED <<world, marker>>
  PROVE  UNCHANGED <<gate, disk, object, selection, caller>>
BY DEF world, marker

\* Observation and verification keep what was blocked.
LEMMA RowForms ==
  ASSUME Inv, NEW o \in Ops
  PROVE  /\ Kept(ops[o], Observed(o))
         /\ \A s \in Steps : Kept(ops[o], Verified(o, s))
<1>1. ops[o] \in Operation
  BY DEF Inv, Typed, TypeOK
<1> QED BY <1>1 DEF Kept, Observed, Verified, Operation

\* Steps up to the drain, and decisions, touch neither selection nor objects.
LEMMA ForwardPlain ==
  ASSUME Inv, Installed, NEW o \in Ops,
         Preflight(o) \/ Prepare(o) \/ CommitUnchanged(o) \/ Begin(o) \/ DecideAborted(o)
           \/ SaveClosed(o) \/ Decide(o)
  PROVE  Installed'
<1>1. ops[o] \in Operation
  BY DEF Inv, Typed, TypeOK
<1>2. PICK s : Save(o, s) /\ Kept(ops[o], s)
  <2>1. CASE Preflight(o)
    BY <1>1, <2>1 DEF Preflight, Kept, Operation
  <2>2. CASE Prepare(o)
    <3> DEFINE f == [i \in Steps |-> [ops[o].steps[i] EXCEPT !.prepared = object[i]]]
               s == [ops[o] EXCEPT !.phase = "PREPARED", !.steps = f]
    <3>1. Save(o, s)
      BY <2>2 DEF Prepare
    <3> HIDE DEF f
    <3>2. Kept(ops[o], s)
      BY <1>1 DEF Kept, Operation
    <3> QED BY <3>1, <3>2
  <2>3. CASE CommitUnchanged(o) \/ DecideAborted(o) \/ Decide(o)
    BY <1>1, <2>3 DEF CommitUnchanged, DecideAborted, Decide, Kept, Operation
  <2>4. CASE Begin(o)
    <3>1. Kept(ops[o], ops[o]) /\ Kept(ops[o], Observed(o))
      BY RowForms DEF Kept
    <3> QED BY <2>4, <3>1 DEF Begin
  <2>5. CASE SaveClosed(o)
    BY <1>1, <2>5 DEF SaveClosed, Kept, Operation
  <2> QED BY <2>1, <2>2, <2>3, <2>4, <2>5
<1>3. RowsKept
  BY <1>2, SavedRow
<1>4. UNCHANGED <<world, marker>>
  BY DEF Preflight, Prepare, CommitUnchanged, Begin, DecideAborted, SaveClosed, Decide
<1>5. run'.at \notin Effects \cup {"open"}
  BY DEF Preflight, Prepare, CommitUnchanged, Begin, DecideAborted, SaveClosed, Decide,
         Running, Goto, Effects
<1> QED BY <1>3, <1>4, <1>5, SameWorld, Plain

\* Steps that observe an action touch neither.
LEMMA StepPlain ==
  ASSUME Inv, Installed, NEW o \in Ops, NEW s \in Steps,
         StepDone(o, s) \/ StepIntent(o, s) \/ StepReturned(o, s)
  PROVE  Installed'
<1>1. ops' = ops \/ Save(o, ops[o]) \/ Save(o, Verified(o, s))
  BY DEF StepDone, StepIntent, StepReturned
<1>2. RowsKept
  <2>1. Kept(ops[o], ops[o]) /\ Kept(ops[o], Verified(o, s))
    BY RowForms DEF Kept
  <2> QED BY <1>1, <2>1, SavedRow, SameRows
<1>3. UNCHANGED <<world, marker>>
  BY DEF StepDone, StepIntent, StepReturned
<1>4. run'.op = run.op /\ run.at \in Acting /\ run'.at \in Acting
  BY DEF StepDone, StepIntent, StepReturned, Running, GotoStep, Acting, Effects
<1> QED BY <1>2, <1>3, <1>4, SameWorld, Plain

\* Commits of the release and of the handoff touch neither.
LEMMA FinishPlain ==
  ASSUME Inv, Installed, NEW o \in Ops,
         ReleaseUnowned(o) \/ ReleaseObserved(o) \/ SaveReleased(o) \/ Inherit(o)
           \/ SaveReceived(o) \/ SaveHandedOff(o)
  PROVE  Installed'
<1> DEFINE p == ops[o].successor
<1>1. ops[o] \in Operation /\ ops \in [Ops -> Operation]
  BY DEF Inv, Typed, TypeOK
<1>2. (Inherit(o) \/ SaveReceived(o)) => p \in Ops /\ ops[p] \in Operation
  BY <1>1, AtPlace DEF Inherit, SaveReceived, Running, Handing, Operation
<1>3. RowsKept
  <2>1. CASE ReleaseUnowned(o) \/ ReleaseObserved(o) \/ SaveReleased(o)
    <3> DEFINE s == [ops[o] EXCEPT !.released = TRUE]
    <3>1. Save(o, s)
      BY <2>1 DEF ReleaseUnowned, ReleaseObserved, SaveReleased
    <3>2. Kept(ops[o], s)
      BY <1>1 DEF Kept, Operation
    <3> QED BY <3>1, <3>2, SavedRow
  <2>2. CASE SaveHandedOff(o)
    <3> DEFINE s == [ops[o] EXCEPT !.handoff_complete = TRUE]
    <3>1. Save(o, s)
      BY <2>2 DEF SaveHandedOff
    <3>2. Kept(ops[o], s)
      BY <1>1 DEF Kept, Operation
    <3> QED BY <3>1, <3>2, SavedRow
  <2>3. CASE SaveReceived(o)
    <3> DEFINE s == [ops[p] EXCEPT !.gate_owned = TRUE]
    <3>1. Save(p, s) /\ p \in Ops
      BY <1>2, <2>3 DEF SaveReceived
    <3>2. Kept(ops[p], s)
      BY <1>2, <2>3 DEF Kept, Operation
    <3> QED BY <3>1, <3>2, SavedRow
  <2>4. CASE Inherit(o)
    <3> DEFINE v == Inheritance(o, ops[o])
               s == [ops[p] EXCEPT !.inherited = v]
    <3>1. ops' = ops \/ ops' = [ops EXCEPT ![p].inherited = v]
      BY <2>4 DEF Inherit
    <3> HIDE DEF v
    <3>2. ops' = ops \/ Save(p, s)
      BY <1>1, <1>2, <2>4, <3>1 DEF Save
    <3>3. Kept(ops[p], s)
      BY <1>2, <2>4 DEF Kept, Operation
    <3> QED BY <1>2, <2>4, <3>2, <3>3, SavedRow, SameRows
  <2> QED BY <2>1, <2>2, <2>3, <2>4
<1>4. UNCHANGED <<world, marker>>
  BY DEF ReleaseUnowned, ReleaseObserved, SaveReleased, Inherit, SaveReceived, SaveHandedOff
<1>5. run'.at \notin Effects \cup {"open"}
  BY DEF ReleaseUnowned, ReleaseObserved, SaveReleased, Inherit, SaveReceived, SaveHandedOff,
         Return, Goto, Effects
<1> QED BY <1>3, <1>4, <1>5, SameWorld, Plain

\* A new record has blocked nothing.
LEMMA NewRow ==
  ASSUME Inv, NEW p \in Ops, ~ops[p].known, NEW d, NEW e, NEW o, NEW b
  PROVE  Kept(ops[p], NewOperation(d, e, o, b))
<1>1. ops[p] = NoOperation
  BY DEF Inv, Control, Records, RecordOK
<1>2. NoOperation = [NewOperation(Base, Base, Nobody, FALSE) EXCEPT !.known = FALSE]
  BY DEF NoOperation
<1>3. ops[p].blocked = FALSE /\ ops[p].compensating = FALSE /\ ops[p].decision = "NONE"
  BY <1>1, <1>2 DEF NewOperation
<1> QED BY <1>3 DEF NewOperation, Kept

\* Commands touch neither.
LEMMA CommandPlain ==
  ASSUME Inv, Installed, NEW o \in Ops, Command(o)
  PROVE  Installed'
<1>1. ops[o] \in Operation /\ ops \in [Ops -> Operation]
  BY DEF Inv, Typed, TypeOK
<1>2. UNCHANGED <<world, marker>>
  BY DEF Command, Apply, ApplyAgain, Resume, Rollback, RollbackCommitted, Supersede
<1>3. ASSUME NEW i, NEW r, Run(i, r)
      PROVE  run'.at \notin Effects \cup {"open"}
  BY <1>3 DEF Run, Entry, Return, Goto, Effects
<1>4. run'.at \notin Effects \cup {"open"}
  <2>1. CASE \E d, e \in Deployments : Apply(o, d, e)
    BY <2>1 DEF Apply, Goto, Effects
  <2>2. CASE ApplyAgain(o) \/ Resume(o) \/ Rollback(o)
    BY <1>3, <2>2 DEF ApplyAgain, Resume, Rollback
  <2>3. CASE \E p \in Ops : RollbackCommitted(o, p)
    BY <2>3 DEF RollbackCommitted, Goto, Effects
  <2>4. CASE \E p \in Ops : \E d, e \in Deployments : Supersede(o, p, d, e)
    <3>1. run' = [op |-> o, at |-> "handoff", step |-> 0]
      BY <2>4 DEF Supersede, Goto
    <3> QED BY <3>1 DEF Effects
  <2> QED BY <2>1, <2>2, <2>3, <2>4 DEF Command
<1>5. RowsKept
  <2>1. CASE \E d, e \in Deployments : Apply(o, d, e)
    BY <2>1, NewRow, SavedRow DEF Apply
  <2>2. CASE ApplyAgain(o) \/ Resume(o)
    BY <2>2, SameRows DEF ApplyAgain, Resume
  <2>3. CASE Rollback(o)
    <3> DEFINE s == [ops[o] EXCEPT !.direction = "ROLLBACK"]
    <3>1. ops' = ops \/ Save(o, s) \/ Save(o, ops[o])
      BY <2>3 DEF Rollback
    <3>2. Kept(ops[o], s) /\ Kept(ops[o], ops[o])
      BY <1>1 DEF Kept, Operation
    <3> HIDE DEF s
    <3> QED BY <3>1, <3>2, SavedRow, SameRows
  <2>4. ASSUME NEW p \in Ops, NEW s, NEW n, ops' = [ops EXCEPT ![o] = s, ![p] = n],
               o # p, Kept(ops[o], s), Kept(ops[p], n)
        PROVE  RowsKept
    BY <1>1, <2>4 DEF RowsKept, Kept
  <2>5. ASSUME NEW p \in Ops, RollbackCommitted(o, p)
        PROVE  RowsKept
    <3> DEFINE s == [ops[o] EXCEPT !.rollback_successor = p]
               n == NewOperation(ops[o].target, SourceOf(o), o, FALSE)
    <3>1. ops' = [ops EXCEPT ![o] = s, ![p] = n] /\ ~ops[p].known /\ ops[o].decision = "COMMITTED"
      BY <2>5 DEF RollbackCommitted
    <3>2. Kept(ops[o], s)
      BY <1>1 DEF Kept, Operation
    <3>3. Kept(ops[p], n) /\ o # p
      BY <3>1, NewRow, UnknownRow
    <3> HIDE DEF s, n
    <3> QED BY <2>4, <3>1, <3>2, <3>3
  <2>6. ASSUME NEW p \in Ops, NEW d \in Deployments, NEW e \in Deployments, Supersede(o, p, d, e)
        PROVE  RowsKept
    <3> DEFINE u == IF ops[o].released THEN ops[o] ELSE Observed(o)
               s == [u EXCEPT !.successor = p]
               n == NewOperation(d, e, o, ops[o].gate_owned /\ ~ops[o].released)
    <3>1. ops' = [ops EXCEPT ![o] = s, ![p] = n] /\ ~ops[p].known /\ ops[o].known
      BY <2>6 DEF Supersede
    <3>2. Kept(ops[o], u) /\ u \in Operation
      BY <1>1, RowForms, ObservedType DEF Kept, Inv, Typed
    <3> HIDE DEF u
    <3>3. Kept(ops[o], s)
      BY <3>2 DEF Kept, Operation
    <3>4. Kept(ops[p], n) /\ o # p
      BY <3>1, NewRow
    <3> HIDE DEF s, n
    <3> QED BY <2>4, <3>1, <3>3, <3>4
  <2> QED BY <2>1, <2>2, <2>3, <2>5, <2>6 DEF Command
<1> QED BY <1>2, <1>4, <1>5, SameWorld, Plain

-----------------------------------------------------------------------------
(* Maintenance: block the selection, then act *)

\* A command that skips the block finds the selection blocked.
LEMMA DrainInstalled ==
  ASSUME Inv, Installed, NEW o \in Ops, Drain(o)
  PROVE  Installed'
<1>1. /\ run.op = o /\ run.at = "drain" /\ ops' = ops /\ gate.owner = o
      /\ UNCHANGED <<world, marker>>
      /\ \/ run' = [op |-> o, at |-> "block", step |-> 0]
         \/ /\ run' = [op |-> o, at |-> "step", step |-> 1]
            /\ ops[o].blocked \/ ops[o].compensating
  BY DEF Drain, Running, Goto, GotoStep
<1>2. ops[o].decision = "NONE"
  BY <1>1, AtPlace DEF Working, Closing, Undecided
<1>3. UNCHANGED <<gate, disk, object, selection, caller>>
  BY <1>1, SameWorld
<1>4. ops[o].blocked \/ ops[o].compensating => ops[o].blocked /\ selection.mode # "stable"
  BY <1>1, <1>2 DEF Installed, BlockedHolds
<1>5. RunSelects'
  BY <1>1, <1>3, <1>4 DEF RunSelects, Acting, Effects
<1>6. MarkerOK' /\ BlockedHolds' /\ OpenMeansInstalled' /\ StableMeansInstalled'
  BY <1>1, <1>3 DEF Installed, MarkerOK, BlockedHolds, OpenMeansInstalled, StableMeansInstalled
<1> QED BY <1>5, <1>6 DEF Installed

\* _block: the selection is no longer stable.
LEMMA BlockInstalled ==
  ASSUME Inv, Installed, NEW o \in Ops, Block(o)
  PROVE  Installed'
<1>1. /\ run' = [op |-> o, at |-> "blocked", step |-> 0]
      /\ UNCHANGED <<ops, object, caller, gate, disk>>
      /\ selection' = [selection EXCEPT !.mode = "blocked"]
  BY DEF Block, Goto, marker
<1>2. selection'.mode = "blocked"
  BY <1>1 DEF Inv, Typed, TypeOK
<1>3. RunSelects'
  BY <1>1, <1>2 DEF RunSelects, Acting, Effects
<1>4. MarkerOK' /\ BlockedHolds' /\ OpenMeansInstalled' /\ StableMeansInstalled'
  BY <1>1, <1>2 DEF Installed, MarkerOK, BlockedHolds, OpenMeansInstalled, StableMeansInstalled
<1> QED BY <1>3, <1>4 DEF Installed

\* The intent is durable only after the selection is blocked.
LEMMA SaveBlockedInstalled ==
  ASSUME Inv, Installed, NEW o \in Ops, SaveBlocked(o) \/ Compensate(o)
  PROVE  Installed'
<1>1. /\ run.op = o /\ UNCHANGED <<world, marker>>
      /\ run.at = "blocked" \/ run.at \in Acting
      /\ run'.op = o /\ run'.at \in Acting
  BY DEF SaveBlocked, Compensate, Running, Goto, GotoStep, Acting, Effects
<1>2. UNCHANGED <<gate, disk, object, selection, caller>>
  BY <1>1, SameWorld
<1>3. PICK s : /\ Save(o, s) /\ s.blocked /\ s.decision = ops[o].decision
  <2>1. ops[o] \in Operation
    BY DEF Inv, Typed, TypeOK
  <2>2. CASE SaveBlocked(o)
    BY <2>1, <2>2 DEF SaveBlocked, Operation
  <2>3. CASE Compensate(o)
    <3> DEFINE g == {i \in Steps : \E p \in Range(Origins(o)) : ops[p].steps[i].effective}
               s == [ops[o] EXCEPT !.compensating = TRUE, !.compensation = g]
    <3>1. Save(o, s) /\ run.at = "compensate" /\ run.op = o
      BY <2>3 DEF Compensate, Running
    <3>2. ops[o].blocked
      BY <3>1 DEF Installed, RunSelects, Acting, Effects
    <3> HIDE DEF g
    <3>3. s.blocked /\ s.decision = ops[o].decision
      BY <2>1, <3>2 DEF Operation
    <3> QED BY <3>1, <3>3
  <2> QED BY <2>2, <2>3
<1>4. ops'[o] = s /\ \A i \in Ops \ {o} : ops'[i] = ops[i]
  BY <1>3 DEF Save, Inv, Typed, TypeOK
<1>5. gate.owner = o /\ selection.mode # "stable"
  <2>1. run.at \in Effects
    BY <1>1 DEF Acting, Effects
  <2> QED BY <1>1, <2>1, AtPlace DEF Held, Installed, RunSelects
<1>6. BlockedHolds'
  BY <1>2, <1>3, <1>4, <1>5 DEF Installed, BlockedHolds
<1>7. RunSelects'
  BY <1>1, <1>2, <1>3, <1>4, <1>5 DEF RunSelects, Acting, Effects
<1>8. MarkerOK' /\ OpenMeansInstalled' /\ StableMeansInstalled'
  BY <1>2 DEF Installed, MarkerOK, OpenMeansInstalled, StableMeansInstalled
<1> QED BY <1>6, <1>7, <1>8 DEF Installed

\* candidate_startup publishes a candidate, which is not stable either.
LEMMA StepSelectInstalled ==
  ASSUME Inv, Installed, NEW o \in Ops, NEW i \in Steps, StepSelect(o, i)
  PROVE  Installed'
<1>1. /\ run.op = o /\ run.at = "execute" /\ UNCHANGED <<ops, object, caller, gate, disk>>
      /\ run' = [op |-> o, at |-> "selected", step |-> i]
      /\ selection' = selection \/ selection'.mode = "candidate"
  BY DEF StepSelect, Running, GotoStep, marker
<1>2. selection.mode # "stable" /\ ops[o].blocked
  BY <1>1 DEF Installed, RunSelects, Acting, Effects
<1>3. RowsKept /\ selection'.mode # "stable"
  BY <1>1, <1>2, SameRows
<1>4. BlockedHolds'
  BY <1>1, <1>3 DEF Installed, BlockedHolds, RowsKept, Kept
<1>5. RunSelects'
  BY <1>1, <1>2, <1>3 DEF RunSelects, RowsKept, Kept, Acting, Effects
<1>6. MarkerOK' /\ OpenMeansInstalled' /\ StableMeansInstalled'
  BY <1>1, <1>3 DEF Installed, MarkerOK, OpenMeansInstalled, StableMeansInstalled
<1> QED BY <1>4, <1>5, <1>6 DEF Installed

\* bind changes the record of an attempt only.
LEMMA StepBindInstalled ==
  ASSUME Inv, Installed, NEW o \in Ops, NEW i \in Steps, StepBind(o, i)
  PROVE  Installed'
<1> DEFINE s == IF ops[o].compensating
                THEN [ops[o] EXCEPT !.steps[i].restore_attempts = @ + 1]
                ELSE [ops[o] EXCEPT !.steps[i].attempts = @ + 1]
<1>1. /\ run.op = o /\ run.at = "selected" /\ UNCHANGED <<object, caller, selection, gate, disk>>
      /\ run' = [op |-> o, at |-> "bound", step |-> i] /\ Save(o, s)
  BY DEF StepBind, Running, GotoStep, world, marker
<1>2. ops[o] \in Operation /\ selection.mode # "stable" /\ ops[o].blocked
  BY <1>1, AtPlace DEF Installed, RunSelects, Acting, Effects
<1>3. Kept(ops[o], s)
  BY <1>2 DEF Kept, Operation
<1> HIDE DEF s
<1>4. RowsKept
  BY <1>1, <1>3, SavedRow
<1>5. BlockedHolds'
  BY <1>1, <1>4 DEF Installed, BlockedHolds, RowsKept, Kept
<1>6. RunSelects'
  BY <1>1, <1>2, <1>4 DEF RunSelects, RowsKept, Kept, Acting, Effects
<1>7. MarkerOK' /\ OpenMeansInstalled' /\ StableMeansInstalled'
  BY <1>1, <1>2, <1>4 DEF Installed, MarkerOK, OpenMeansInstalled, StableMeansInstalled
<1> QED BY <1>5, <1>6, <1>7 DEF Installed

\* A caller, and what it does, under a closed gate and a selection that is not
\* stable.
LEMMA CallerInstalled ==
  ASSUME Inv, Installed,
         (\E o \in Ops : \E i \in Steps : StepExecute(o, i)) \/ CallerWorks \/ CallerEnds
  PROVE  Installed'
<1>1. UNCHANGED <<ops, gate, disk, selection>>
  BY DEF StepExecute, CallerWorks, CallerEnds, marker
<1>2. MarkerOK' /\ BlockedHolds'
  BY <1>1 DEF Installed, MarkerOK, BlockedHolds
<1>3. CASE CallerEnds
  <2>1. UNCHANGED <<run, object>> /\ caller' = NoCaller
    BY <1>3 DEF CallerEnds
  <2>2. RunSelects'
    BY <1>1, <2>1 DEF Installed, RunSelects, Selected, SourceOf, Origins
  <2>3. OpenMeansInstalled' /\ StableMeansInstalled'
    BY <1>1, <2>1 DEF Installed, OpenMeansInstalled, StableMeansInstalled
  <2> QED BY <1>2, <2>2, <2>3 DEF Installed
<1>4. CASE CallerWorks
  <2>1. caller # NoCaller /\ UNCHANGED run
    BY <1>4 DEF CallerWorks
  <2>2. gate.state # "OPEN" /\ selection.mode # "stable" /\ run.at # "open"
    BY <2>1 DEF Installed, OpenMeansInstalled, StableMeansInstalled, Inv, Control, RunOK
  <2>3. RunSelects'
    BY <1>1, <2>1, <2>2 DEF Installed, RunSelects
  <2>4. OpenMeansInstalled' /\ StableMeansInstalled'
    BY <1>1, <2>2 DEF OpenMeansInstalled, StableMeansInstalled
  <2> QED BY <1>2, <2>3, <2>4 DEF Installed
<1>5. ASSUME NEW o \in Ops, NEW i \in Steps, StepExecute(o, i)
      PROVE  Installed'
  <2>1. /\ run.op = o /\ run.at = "bound"
        /\ run' = [op |-> o, at |-> "executing", step |-> i]
    BY <1>5 DEF StepExecute, Running, GotoStep
  <2>2. gate.state # "OPEN" /\ selection.mode # "stable" /\ ops[o].blocked
    BY <2>1, AtPlace DEF Installed, RunSelects, Acting, Effects, Held
  <2>3. RunSelects'
    BY <1>1, <2>1, <2>2 DEF RunSelects, Acting, Effects
  <2>4. OpenMeansInstalled' /\ StableMeansInstalled'
    BY <1>1, <2>2 DEF OpenMeansInstalled, StableMeansInstalled
  <2> QED BY <1>2, <2>3, <2>4 DEF Installed
<1> QED BY <1>3, <1>4, <1>5

-----------------------------------------------------------------------------
(* The gate *)

\* release_valid holds when the stable selection is published.
LEMMA PublishInstalled ==
  ASSUME Inv, Installed, NEW o \in Ops, PublishStable(o)
  PROVE  Installed'
<1>1. /\ run.op = o /\ run.at = "release" /\ UNCHANGED <<ops, object, caller, gate, disk>>
      /\ caller = NoCaller /\ gate.state = "CLOSED" /\ gate.owner = o
      /\ \A s \in Steps : object[s] = Selected(o)
      /\ selection' = [mode |-> "stable", deployment |-> Selected(o)]
      /\ run' = [op |-> o, at |-> "open", step |-> 0]
  BY DEF PublishStable, Running, Goto, marker
<1>2. ops[o].decision # "NONE"
  BY <1>1, AtPlace DEF Ending
<1>3. Selected(o)' = Selected(o)
  BY <1>1 DEF Selected, SourceOf, Origins
<1>4. RunSelects'
  BY <1>1, <1>3 DEF RunSelects, Acting, Effects
<1>5. BlockedHolds'
  BY <1>1, <1>2 DEF Installed, BlockedHolds
<1>6. MarkerOK' /\ OpenMeansInstalled' /\ StableMeansInstalled'
  BY <1>1 DEF Installed, MarkerOK, OpenMeansInstalled, StableMeansInstalled
<1> QED BY <1>4, <1>5, <1>6 DEF Installed

\* The gate opens for what was just published; nothing changed in between.
LEMMA OpenGateInstalled ==
  ASSUME Inv, Installed, NEW o \in Ops, OpenGate(o, TRUE)
  PROVE  Installed'
<1> DEFINE c == <<o, ops[o].decision>>
           d == Selected(o)
           last == [Gate!NoTransition EXCEPT !.kind = "release", !.owner = o,
                       !.decision = c, !.deployment = d]
           r == [gate EXCEPT !.state = "OPEN", !.owner = Nobody, !.decision = c,
                             !.deployment = d, !.sequence = @ + 1, !.last = last,
                             !.retired = @ \cup {o}]
<1>1. /\ run.op = o /\ run.at = "open" /\ UNCHANGED <<ops, object, caller, selection>>
      /\ run'.at = "opened" /\ Gate!Release(o, c, d, gate.sequence, TRUE)
  <2>1. /\ Running(o, "open") /\ Gate!Release(o, c, d, gate.sequence, TRUE)
        /\ Goto(o, "opened") /\ UNCHANGED <<ops, world>>
    BY DEF OpenGate
  <2> QED BY <2>1 DEF Running, Goto, world
<1>2. /\ gate.state = "CLOSED" /\ gate.owner = o /\ caller = NoCaller
      /\ \A s \in Steps : object[s] = d
  BY <1>1, AtPlace DEF Installed, RunSelects
<1>3. gate' = r /\ disk' = r
  BY <1>1, <1>2 DEF Gate!Release, Gate!Write
<1>4. /\ gate'.state = "OPEN" /\ gate'.owner = Nobody /\ gate'.deployment = d
      /\ gate'.retired = gate.retired \cup {o}
  BY <1>3 DEF Inv, Typed, Gate!Record
<1>5. gate.retired \subseteq Ops
  BY DEF Inv, Typed, Gate!Record
<1> HIDE DEF r, d
<1>6. MarkerOK'
  BY <1>3, <1>4, <1>5, BaseAssumption DEF MarkerOK
<1>7. BlockedHolds'
  BY <1>1, <1>2, <1>4, BaseAssumption DEF Installed, BlockedHolds
<1>8. RunSelects'
  BY <1>1 DEF RunSelects, Acting, Effects
<1>9. OpenMeansInstalled' /\ StableMeansInstalled'
  BY <1>1, <1>2, <1>4 DEF Installed, OpenMeansInstalled, StableMeansInstalled
<1> QED BY <1>6, <1>7, <1>8, <1>9 DEF Installed

\* A gate that is taken, or handed on, goes to an operation that has not owned it.
LEMMA OwnedGate ==
  ASSUME Inv, Installed, NEW p \in Ops, p \notin gate.retired,
         gate'.state = "CLOSED", gate'.owner = p, disk' = gate',
         gate'.retired \in SUBSET Ops, p \notin gate'.retired,
         gate.retired \subseteq gate'.retired,
         gate.owner = Nobody \/ gate.owner \in gate'.retired,
         gate.owner # p, UNCHANGED <<ops, world>>,
         run'.at \notin Effects \cup {"open"}
  PROVE  Installed'
<1>1. UNCHANGED <<object, caller, selection>>
  BY DEF world
<1>2. MarkerOK'
  BY DEF MarkerOK
<1>3. BlockedHolds'
  BY <1>1, BaseAssumption DEF Installed, BlockedHolds
<1>4. RunSelects'
  BY DEF RunSelects, Acting, Effects
<1>5. OpenMeansInstalled' /\ StableMeansInstalled'
  BY <1>1 DEF Installed, OpenMeansInstalled, StableMeansInstalled
<1> QED BY <1>2, <1>3, <1>4, <1>5 DEF Installed

\* close.
LEMMA CloseGateInstalled ==
  ASSUME Inv, Installed, NEW o \in Ops, CloseGate(o, TRUE)
  PROVE  Installed'
<1> DEFINE last == [Gate!NoTransition EXCEPT !.kind = "close", !.owner = o]
           r == [gate EXCEPT !.state = "CLOSED", !.owner = o, !.sequence = @ + 1, !.last = last]
<1>1. UNCHANGED <<ops, world>> /\ run'.at = "closed"
  <2>1. UNCHANGED <<ops, world>> /\ Goto(o, "closed")
    BY DEF CloseGate
  <2> QED BY <2>1 DEF Goto
<1>2. \/ gate' = gate /\ disk' = disk
      \/ gate' = gate /\ disk' = gate
      \/ gate.state = "OPEN" /\ o \notin gate.retired /\ gate' = r /\ disk' = r
  BY DEF CloseGate, Gate!Close, Gate!Confirm, Gate!Write, marker
<1>3. CASE gate' = gate /\ disk' \in {gate, disk}
  <2>1. UNCHANGED <<gate, disk, object, caller, selection>>
    BY <1>1, <1>3 DEF world, Installed, MarkerOK
  <2> QED BY <1>1, <2>1, SameRows, Plain DEF Effects
<1>4. CASE gate.state = "OPEN" /\ o \notin gate.retired /\ gate' = r /\ disk' = r
  <2>1. gate'.state = "CLOSED" /\ gate'.owner = o /\ gate'.retired = gate.retired
    BY <1>4 DEF Inv, Typed, Gate!Record
  <2>2. gate.owner = Nobody /\ gate.retired \in SUBSET Ops
    BY <1>4 DEF Installed, MarkerOK, Inv, Typed, Gate!Record
  <2> QED BY <1>1, <1>4, <2>1, <2>2, BaseAssumption, OwnedGate DEF Effects
<1> QED BY <1>2, <1>3, <1>4

\* handoff.
LEMMA TransferInstalled ==
  ASSUME Inv, Installed, NEW o \in Ops, Transfer(o, TRUE)
  PROVE  Installed'
<1> DEFINE p == ops[o].successor
           last == [Gate!NoTransition EXCEPT !.kind = "handoff", !.owner = o, !.successor = p]
           r == [gate EXCEPT !.owner = p, !.sequence = @ + 1, !.last = last,
                             !.retired = @ \cup {o}]
<1>1. UNCHANGED <<ops, world>> /\ run'.at \in Handing /\ run.op = o /\ run.at = "transfer"
  <2>1. /\ UNCHANGED <<ops, world>> /\ Running(o, "transfer")
        /\ Goto(o, "received") \/ Goto(o, "handed")
    BY DEF Transfer
  <2> QED BY <2>1 DEF Goto, Running, Handing
<1>2. p \in Ops
  BY <1>1, AtPlace DEF Handing, Operation
<1>3. \/ gate' = gate /\ disk' \in {gate, disk}
      \/ /\ gate.state = "CLOSED" /\ gate.owner = o /\ o # p /\ p \notin gate.retired
         /\ gate' = r /\ disk' = r
  BY DEF Transfer, Gate!Handoff, Gate!Confirm, Gate!Write, marker
<1>4. CASE gate' = gate /\ disk' \in {gate, disk}
  <2>1. UNCHANGED <<gate, disk, object, caller, selection>>
    BY <1>1, <1>4 DEF world, Installed, MarkerOK
  <2> QED BY <1>1, <2>1, SameRows, Plain DEF Effects, Handing
<1>5. CASE /\ gate.state = "CLOSED" /\ gate.owner = o /\ o # p /\ p \notin gate.retired
           /\ gate' = r /\ disk' = r
  <2>1. /\ gate'.state = "CLOSED" /\ gate'.owner = p
        /\ gate'.retired = gate.retired \cup {o} /\ gate.retired \subseteq Ops
    BY <1>5 DEF Inv, Typed, Gate!Record
  <2> HIDE DEF p, r
  <2> QED BY <1>1, <1>2, <1>5, <2>1, OwnedGate DEF Effects, Handing
<1> QED BY <1>3, <1>4, <1>5

\* Services change duties only.
LEMMA ServeInstalled ==
  ASSUME Inv, Installed, NEW k \in Keys, Serve(k)
  PROVE  Installed'
<1>1. /\ UNCHANGED <<ops, run, object, caller, selection>> /\ disk' = gate'
      /\ gate'.state = gate.state /\ gate'.owner = gate.owner
      /\ gate'.retired = gate.retired /\ gate'.deployment = gate.deployment
  BY ServedGate DEF world
<1>2. RunSelects'
  BY <1>1 DEF Installed, RunSelects, Selected, SourceOf, Origins
<1>3. MarkerOK' /\ BlockedHolds' /\ OpenMeansInstalled' /\ StableMeansInstalled'
  BY <1>1 DEF Installed, MarkerOK, BlockedHolds, OpenMeansInstalled, StableMeansInstalled
<1> QED BY <1>2, <1>3 DEF Installed

\* A crash finds the marker on disk as it was visible.
LEMMA FailureInstalled ==
  ASSUME Inv, Installed, Stop \/ PowerLoss
  PROVE  Installed'
<1>1. /\ UNCHANGED <<ops, gate, disk, object, selection>> /\ caller' \in {caller, NoCaller}
      /\ run'.at = "idle"
  BY DEF Stop, PowerLoss, Gate!PowerLoss, Return, Goto, world, marker, Installed, MarkerOK
<1> QED BY <1>1, SameRows, Plain DEF Effects

-----------------------------------------------------------------------------
\* Every step keeps the invariant.
LEMMA NextInstalled ==
  ASSUME ~SyncLoss, Inv, Installed, [Next]_vars
  PROVE  Installed'
<1> Synced = {TRUE}
  BY DEF Synced
<1>1. CASE \E o \in Ops : Command(o)
  BY <1>1, CommandPlain
<1>2. ASSUME NEW o \in Ops, Forward(o)
      PROVE  Installed'
  <2>1. CASE \E s \in Steps : StepExecute(o, s)
    BY <2>1, CallerInstalled
  <2> QED BY <1>2, <2>1, ForwardPlain, CloseGateInstalled, DrainInstalled, BlockInstalled,
             SaveBlockedInstalled, StepPlain, StepSelectInstalled, StepBindInstalled
             DEF Forward
<1>3. CASE \E o \in Ops : Finish(o)
  BY <1>3, FinishPlain, PublishInstalled, OpenGateInstalled, TransferInstalled DEF Finish
<1>4. CASE CallerWorks \/ CallerEnds
  BY <1>4, CallerInstalled
<1>5. CASE Stop \/ PowerLoss
  BY <1>5, FailureInstalled
<1>6. CASE \E k \in Keys : Serve(k)
  BY <1>6, ServeInstalled
<1>7. CASE UNCHANGED vars
  <2>1. UNCHANGED <<ops, run, gate, disk, object, selection, caller>>
    BY <1>7 DEF vars
  <2>2. RunSelects'
    BY <2>1 DEF Installed, RunSelects, Selected, SourceOf, Origins
  <2> QED BY <2>1, <2>2 DEF Installed, MarkerOK, BlockedHolds, OpenMeansInstalled, StableMeansInstalled
<1> QED BY <1>1, <1>2, <1>3, <1>4, <1>5, <1>6, <1>7 DEF Next

\* The invariant holds at first.
LEMMA InitInstalled ==
  ASSUME Init
  PROVE  Installed
<1>1. \A o \in Ops : ops[o].blocked = FALSE /\ ops[o].compensating = FALSE
  <2>1. NoOperation.blocked = FALSE /\ NoOperation.compensating = FALSE
    <3>1. NoOperation = [NewOperation(Base, Base, Nobody, FALSE) EXCEPT !.known = FALSE]
      BY DEF NoOperation
    <3> QED BY <3>1 DEF NewOperation
  <2> QED BY <2>1 DEF Init
<1>2. run.at = "idle" /\ caller = NoCaller /\ \A s \in Steps : object[s] = Base
  BY DEF Init
<1>3. selection.deployment = Base
  BY DEF Init
<1> QED BY <1>1, <1>2, <1>3, FirstGate DEF Installed, MarkerOK, BlockedHolds, RunSelects,
           Acting, Effects, OpenMeansInstalled, StableMeansInstalled

\* Both invariants hold in every reachable state if visible means durable.
THEOREM InstalledInvariance ==
  ASSUME ~SyncLoss
  PROVE  Spec => [](Inv /\ Installed)
<1>1. Init => Inv /\ Installed
  BY InitInv, InitInstalled
<1>2. Inv /\ Installed /\ [Next]_vars => (Inv /\ Installed)'
  BY NextInv, NextInstalled
<1> QED BY <1>1, <1>2, PTL DEF Spec

\* An open gate means that every managed object is at the deployment the gate
\* selects and that nobody changes one (_release, release_valid).
THEOREM OpenInstalled ==
  ASSUME ~SyncLoss
  PROVE  Spec => []OpenMeansInstalled
<1>1. Inv /\ Installed => OpenMeansInstalled
  BY DEF Installed
<1> QED BY <1>1, InstalledInvariance, PTL

\* A stable startup selection never lets a service load a half-changed deployment
\* (_block, publish_stable).
THEOREM StableInstalled ==
  ASSUME ~SyncLoss
  PROVE  Spec => []StableMeansInstalled
<1>1. Inv /\ Installed => StableMeansInstalled
  BY DEF Installed
<1> QED BY <1>1, InstalledInvariance, PTL
=============================================================================
