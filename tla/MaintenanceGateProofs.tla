------------------------ MODULE MaintenanceGateProofs ------------------------
(***************************************************************************)
(* The safety of the admission barrier for every number of owners,         *)
(* responsibilities, deployments and transitions.  The argument: each      *)
(* promise is a fact that no write can falsify (it is monotone in the      *)
(* order in which the file evolves), the durable record is always an       *)
(* earlier state of the visible one, and a success is only reported after  *)
(* the two have been made equal.                                           *)
(***************************************************************************)
EXTENDS MaintenanceGate, TLAPS

\* An owner is recorded exactly while the marker is CLOSED, and it is not
\* one that has already given maintenance up.
OwnerOK(r) ==
  /\ r.state = "CLOSED" <=> r.owner \in Owners
  /\ r.owner \notin r.retired

\* What the durable record keeps, the visible one keeps.
Monotone == \A p \in Promises : Keeps(disk, p) => Keeps(gate, p)

Kept == \A p \in promised : Keeps(disk, p)

AdmissionOK(r) ==
  \A k \in Keys :
     r.duties[k].state # "NONE" =>
        /\ r.duties[k].sequence <= r.sequence
        /\ r.duties[k].sequence = r.sequence =>
             r.state = "OPEN" /\ r.duties[k].loaded.deployment = r.deployment

\* The owner a release or a handoff names has been retired by it, which is
\* what lets the repeated call answer from the record.
ReleaseRetires(r) ==
  r.last.kind \in {"release", "handoff"} => r.last.owner \in r.retired

AbsentEmpty(r) ==
  r.state = "ABSENT" => r.retired = {} /\ \A k \in Keys : r.duties[k].state = "NONE"

RecordOK(r) == /\ r \in Record
               /\ OwnerOK(r)
               /\ AdmissionOK(r)
               /\ ReleaseRetires(r)
               /\ AbsentEmpty(r)

Inv == /\ RecordOK(gate)
       /\ RecordOK(disk)
       /\ promised \in SUBSET Promises
       /\ Monotone
       /\ Kept

\* r is a legal successor of the visible record: well formed, and no promise
\* that held of the visible record is lost.
Extends(r) == RecordOK(r) /\ \A p \in Promises : Keeps(gate, p) => Keeps(r, p)

\* A write (_write) of a well-formed record that keeps every old promise and
\* the new facts preserves the invariant, synced or not.
LEMMA WriteInv ==
  ASSUME Inv, NEW r, Extends(r), NEW synced \in BOOLEAN,
         NEW facts \in SUBSET Promises, \A p \in facts : Keeps(r, p),
         Write(r, synced, facts)
  PROVE  Inv'
<1>1. CASE synced
  <2>1. gate' = r /\ disk' = r /\ promised' = promised \cup facts
    BY <1>1 DEF Write
  <2>2. RecordOK(gate)' /\ RecordOK(disk)' /\ Monotone'
    BY <2>1 DEF Extends, RecordOK, OwnerOK, AdmissionOK, ReleaseRetires, AbsentEmpty, Monotone, Keeps
  <2>3. Kept'
    BY <2>1 DEF Inv, Kept, Monotone, Extends, Keeps
  <2> QED BY <2>1, <2>2, <2>3 DEF Inv
<1>2. CASE ~synced
  <2>1. gate' = r /\ UNCHANGED <<disk, promised>>
    BY <1>2 DEF Write
  <2>2. RecordOK(gate)' /\ RecordOK(disk)'
    BY <2>1 DEF Inv, Extends, RecordOK, OwnerOK, AdmissionOK, ReleaseRetires, AbsentEmpty
  <2>3. Monotone' /\ Kept'
    BY <2>1 DEF Inv, Monotone, Kept, Extends, Keeps
  <2> QED BY <2>1, <2>2, <2>3 DEF Inv
<1> QED BY <1>1, <1>2

\* A re-sync (_confirm) of the visible file preserves the invariant.
LEMMA ConfirmInv ==
  ASSUME Inv, NEW facts \in SUBSET Promises, \A p \in facts : Keeps(gate, p),
         Confirm(facts)
  PROVE  Inv'
<1>1. gate' = gate /\ disk' = gate /\ promised' = promised \cup facts
  BY DEF Confirm
<1>2. RecordOK(gate)' /\ RecordOK(disk)' /\ Monotone'
  BY <1>1 DEF Inv, RecordOK, OwnerOK, AdmissionOK, ReleaseRetires, AbsentEmpty, Monotone, Keeps
<1>3. Kept'
  BY <1>1 DEF Inv, Kept, Monotone, Keeps
<1> QED BY <1>1, <1>2, <1>3 DEF Inv

\* A missing gate.json satisfies the invariant.
LEMMA InitInv == Init => Inv
<1> SUFFICES ASSUME Init PROVE Inv
  OBVIOUS
<1>1. Absent \in Record
  BY DEF Absent, Record, NoDuty, Duty, DutyStates, Proofs, NoTransition, Transition
<1>2. RecordOK(Absent)
  BY <1>1, OwnersAssumption DEF RecordOK, OwnerOK, AdmissionOK, ReleaseRetires, AbsentEmpty, Absent, NoDuty, NoTransition
<1> QED BY <1>2 DEF Init, Inv, Monotone, Kept

\* initialize: the first marker, or its confirmation.
LEMMA InitializeInv ==
  ASSUME Inv, NEW d \in Deployments, NEW c \in Decisions, NEW synced \in BOOLEAN,
         Initialize(d, c, synced)
  PROVE  Inv'
<1> DEFINE r == [Absent EXCEPT !.state = "OPEN", !.sequence = 1,
                               !.decision = c, !.deployment = d]
<1>1. CASE gate.state = "ABSENT" /\ Write(r, synced, {})
  <2>1. r \in Record
    BY DEF Absent, Record, NoDuty, Duty, DutyStates, Proofs, NoTransition, Transition
  <2>2. RecordOK(r)
    BY <2>1, OwnersAssumption DEF RecordOK, OwnerOK, AdmissionOK, ReleaseRetires, AbsentEmpty, Absent, NoDuty, NoTransition
  <2>3. Extends(r)
    BY <1>1, <2>2 DEF Extends, Inv, RecordOK, OwnerOK, AbsentEmpty, Keeps, Promises
  <2> HIDE DEF r
  <2> QED BY <1>1, <2>3, WriteInv
<1>2. CASE Confirm({})
  BY <1>2, ConfirmInv
<1> QED BY <1>1, <1>2 DEF Initialize

\* close: from OPEN by an owner that is not retired, or its confirmation.
LEMMA CloseInv ==
  ASSUME Inv, NEW o \in Owners, NEW e, NEW synced \in BOOLEAN,
         Close(o, e, synced)
  PROVE  Inv'
<1> DEFINE n == gate.sequence + 1
           last == [NoTransition EXCEPT !.kind = "close", !.owner = o]
           r == [gate EXCEPT !.state = "CLOSED", !.owner = o,
                             !.sequence = n, !.last = last]
           fact == {[fact |-> "closed", owner |-> o]}
<1>1. fact \in SUBSET Promises
  BY DEF Promises
<1>2. CASE gate.state = "CLOSED" /\ gate.owner = o /\ Confirm(fact)
  <2>1. \A p \in fact : Keeps(gate, p)
    BY <1>2 DEF Keeps
  <2> QED BY <1>1, <1>2, <2>1, ConfirmInv
<1>3. CASE gate.state = "OPEN" /\ o \notin gate.retired /\ Write(r, synced, fact)
  <2>1. r \in Record
    <3>1. last \in Transition
      BY DEF NoTransition, Transition
    <3>2. gate \in Record
      BY DEF Inv, RecordOK
    <3>3. n \in Nat
      BY <3>2 DEF Record
    <3> HIDE DEF last, n
    <3> QED BY <3>1, <3>2, <3>3 DEF Record
  <2>2. OwnerOK(r)
    BY <1>3 DEF Inv, RecordOK, Record, OwnerOK
  <2>3. AdmissionOK(r)
    BY DEF Inv, RecordOK, Record, AdmissionOK, Duty
  <2>4. ASSUME NEW p \in Promises, Keeps(gate, p) PROVE Keeps(r, p)
    BY <1>3, <2>4 DEF Inv, RecordOK, OwnerOK, Record, Keeps, Promises
  <2>5. \A p \in fact : Keeps(r, p)
    BY DEF Inv, RecordOK, Record, Keeps
  <2>6. ReleaseRetires(r)
    BY DEF Inv, RecordOK, Record, ReleaseRetires, NoTransition
  <2>a. AbsentEmpty(r)
    BY <1>3 DEF Inv, RecordOK, Record, AbsentEmpty
  <2>7. Extends(r)
    BY <2>1, <2>2, <2>3, <2>4, <2>6, <2>a DEF Extends, RecordOK
  <2> HIDE DEF r, fact
  <2> QED BY <1>1, <1>3, <2>5, <2>7, WriteInv
<1> QED BY <1>2, <1>3 DEF Close

\* release: by the owner, who is retired, or its confirmation.
LEMMA ReleaseInv ==
  ASSUME Inv, NEW o \in Owners, NEW c \in Decisions, NEW d \in Deployments,
         NEW e, NEW synced \in BOOLEAN, Release(o, c, d, e, synced)
  PROVE  Inv'
<1> DEFINE n == gate.sequence + 1
           last == [NoTransition EXCEPT !.kind = "release", !.owner = o,
                       !.decision = c, !.deployment = d]
           fact == {[fact |-> "retired", owner |-> o]}
           r == [gate EXCEPT !.state = "OPEN", !.owner = NoOwner,
                             !.decision = c, !.deployment = d,
                             !.sequence = n, !.last = last,
                             !.retired = @ \cup {o}]
<1>1. fact \in SUBSET Promises
  BY DEF Promises
<1>2. CASE gate.state = "OPEN" /\ gate.last = last /\ Confirm(fact)
  <2>1. o \in gate.retired
    BY <1>2 DEF Inv, RecordOK, ReleaseRetires, NoTransition
  <2>2. \A p \in fact : Keeps(gate, p)
    BY <2>1 DEF Keeps
  <2> QED BY <1>1, <1>2, <2>2, ConfirmInv
<1>3. CASE gate.state = "CLOSED" /\ gate.owner = o /\ Write(r, synced, fact)
  <2>1. r \in Record
    <3>1. last \in Transition
      BY DEF NoTransition, Transition
    <3>2. gate \in Record
      BY DEF Inv, RecordOK
    <3>3. n \in Nat
      BY <3>2 DEF Record
    <3> HIDE DEF last, n
    <3> QED BY <3>1, <3>2, <3>3 DEF Record
  <2>2. OwnerOK(r)
    BY OwnersAssumption, <1>3 DEF Inv, RecordOK, Record, OwnerOK
  <2>3. AdmissionOK(r)
    BY DEF Inv, RecordOK, Record, AdmissionOK, Duty
  <2>4. ASSUME NEW p \in Promises, Keeps(gate, p) PROVE Keeps(r, p)
    BY <1>3, <2>4 DEF Inv, RecordOK, OwnerOK, Record, Keeps, Promises
  <2>5. \A p \in fact : Keeps(r, p)
    BY DEF Inv, RecordOK, Record, Keeps
  <2>6. ReleaseRetires(r)
    BY DEF Inv, RecordOK, Record, ReleaseRetires, NoTransition
  <2>a. AbsentEmpty(r)
    BY <1>3 DEF Inv, RecordOK, Record, AbsentEmpty
  <2>7. Extends(r)
    BY <2>1, <2>2, <2>3, <2>4, <2>6, <2>a DEF Extends, RecordOK
  <2> HIDE DEF r, fact
  <2> QED BY <1>1, <1>3, <2>5, <2>7, WriteInv
<1> QED BY <1>2, <1>3 DEF Release

\* handoff: the owner is retired, the successor owns.
LEMMA HandoffInv ==
  ASSUME Inv, NEW o \in Owners, NEW s \in Owners, NEW e,
         NEW synced \in BOOLEAN, Handoff(o, s, e, synced)
  PROVE  Inv'
<1> DEFINE n == gate.sequence + 1
           last == [NoTransition EXCEPT !.kind = "handoff", !.owner = o,
                                        !.successor = s]
           facts == {[fact |-> "retired", owner |-> o],
                     [fact |-> "closed", owner |-> s]}
           r == [gate EXCEPT !.owner = s, !.sequence = n, !.last = last,
                             !.retired = @ \cup {o}]
<1>1. facts \in SUBSET Promises
  BY DEF Promises
<1>2. CASE gate.owner = s /\ gate.last = last /\ Confirm(facts)
  <2>1. o \in gate.retired
    BY <1>2 DEF Inv, RecordOK, ReleaseRetires, NoTransition
  <2>2. \A p \in facts : Keeps(gate, p)
    BY <1>2, <2>1 DEF Keeps
  <2> QED BY <1>1, <1>2, <2>2, ConfirmInv
<1>3. CASE /\ gate.state = "CLOSED" /\ gate.owner = o /\ o # s
           /\ s \notin gate.retired /\ Write(r, synced, facts)
  <2>1. r \in Record
    <3>1. last \in Transition
      BY DEF NoTransition, Transition
    <3>2. gate \in Record
      BY DEF Inv, RecordOK
    <3>3. n \in Nat
      BY <3>2 DEF Record
    <3> HIDE DEF last, n
    <3> QED BY <3>1, <3>2, <3>3 DEF Record
  <2>2. OwnerOK(r)
    BY <1>3 DEF Inv, RecordOK, Record, OwnerOK
  <2>3. AdmissionOK(r)
    BY DEF Inv, RecordOK, Record, AdmissionOK, Duty
  <2>4. ASSUME NEW p \in Promises, Keeps(gate, p) PROVE Keeps(r, p)
    BY <1>3, <2>4 DEF Inv, RecordOK, OwnerOK, Record, Keeps, Promises
  <2>5. \A p \in facts : Keeps(r, p)
    BY DEF Inv, RecordOK, Record, Keeps
  <2>6. ReleaseRetires(r)
    BY DEF Inv, RecordOK, Record, ReleaseRetires, NoTransition
  <2>a. AbsentEmpty(r)
    BY <1>3 DEF Inv, RecordOK, Record, AbsentEmpty
  <2>7. Extends(r)
    BY <2>1, <2>2, <2>3, <2>4, <2>6, <2>a DEF Extends, RecordOK
  <2> HIDE DEF r, facts
  <2> QED BY <1>1, <1>3, <2>5, <2>7, WriteInv
<1> QED BY <1>2, <1>3 DEF Handoff

\* authorize_compatibility: changes neither marker nor responsibilities.
LEMMA CompatibilityInv ==
  ASSUME Inv, NEW o \in Owners, NEW q \in Prepared, NEW l \in Loaded,
         NEW synced \in BOOLEAN, AuthorizeCompatibility(o, q, l, synced)
  PROVE  Inv'
<1> DEFINE r == [gate EXCEPT !.compatibility[q] = [owner |-> o, target |-> l]]
<1>1. CASE Confirm({})
  BY <1>1, ConfirmInv
<1>2. CASE Write(r, synced, {})
  <2>1. r \in Record
    BY DEF Inv, RecordOK, Record, Compatibility
  <2>2. OwnerOK(r) /\ ReleaseRetires(r) /\ AbsentEmpty(r)
    BY DEF Inv, RecordOK, Record, OwnerOK, ReleaseRetires, AbsentEmpty
  <2>3. AdmissionOK(r)
    BY DEF Inv, RecordOK, Record, AdmissionOK
  <2>4. ASSUME NEW p \in Promises, Keeps(gate, p) PROVE Keeps(r, p)
    BY <2>4 DEF Inv, RecordOK, Record, Keeps, Promises
  <2>5. Extends(r)
    BY <2>1, <2>2, <2>3, <2>4 DEF Extends, RecordOK
  <2> HIDE DEF r
  <2> QED BY <1>2, <2>5, WriteInv
<1> QED BY <1>1, <1>2 DEF AuthorizeCompatibility

\* A write that changes one responsibility only, moving it forward.
LEMMA DutyInv ==
  ASSUME Inv, NEW k \in Keys, NEW duty \in Duty, NEW synced \in BOOLEAN,
         NEW facts \in SUBSET Promises,
         gate.state # "ABSENT", duty.state # "NONE",
         gate.duties[k].state \in {"DISPATCHING", "CLOSED"} =>
            duty.state \in {"DISPATCHING", "CLOSED"},
         gate.duties[k].state = "CLOSED" => duty.state = "CLOSED",
         duty.sequence <= gate.sequence,
         duty.sequence = gate.sequence =>
            gate.state = "OPEN" /\ duty.loaded.deployment = gate.deployment,
         \A p \in facts : Keeps([gate EXCEPT !.duties[k] = duty], p),
         Write([gate EXCEPT !.duties[k] = duty], synced, facts)
  PROVE  Inv'
<1> DEFINE r == [gate EXCEPT !.duties[k] = duty]
<1>1. r \in Record
  BY DEF Inv, RecordOK, Record
<1>2. OwnerOK(r) /\ ReleaseRetires(r) /\ AbsentEmpty(r)
  BY DEF Inv, RecordOK, Record, OwnerOK, ReleaseRetires, AbsentEmpty
<1>3. AdmissionOK(r)
  BY DEF Inv, RecordOK, Record, AdmissionOK, Duty
<1>4. ASSUME NEW p \in Promises, Keeps(gate, p) PROVE Keeps(r, p)
  BY <1>4 DEF Inv, RecordOK, Record, Keeps, Promises
<1>5. Extends(r)
  BY <1>1, <1>2, <1>3, <1>4 DEF Extends, RecordOK
<1> HIDE DEF r
<1> QED BY <1>5, WriteInv DEF r

\* accept: a new responsibility only from OPEN, or a confirmation.
LEMMA AcceptInv ==
  ASSUME Inv, NEW k \in Keys, NEW l \in Loaded,
         NEW q \in Prepared \cup {NoPrepared}, NEW synced \in BOOLEAN,
         Accept(k, l, q, synced)
  PROVE  Inv'
<1> DEFINE fact == {[fact |-> "accepted", key |-> k]}
           duty == [state |-> "ACCEPTED", loaded |-> l, prepared |-> q,
                    sequence |-> gate.sequence, proof |-> "none"]
<1>1. fact \in SUBSET Promises
  BY DEF Promises
<1>2. CASE gate.duties[k].state \in {"ACCEPTED", "DISPATCHING"} /\ Confirm(fact)
  <2>1. \A p \in fact : Keeps(gate, p)
    BY <1>2 DEF Keeps
  <2> QED BY <1>1, <1>2, <2>1, ConfirmInv
<1>3. CASE /\ gate.duties[k].state = "NONE" /\ gate.state = "OPEN"
           /\ gate.deployment = l.deployment
           /\ Write([gate EXCEPT !.duties[k] = duty], synced, fact)
  <2>1. duty \in Duty
    BY DEF Duty, DutyStates, Proofs, Inv, RecordOK, Record
  <2>2. \A p \in fact : Keeps([gate EXCEPT !.duties[k] = duty], p)
    BY DEF Keeps, Inv, RecordOK, Record
  <2>3. duty.sequence <= gate.sequence
    BY DEF Inv, RecordOK, Record
  <2>4. duty.state = "ACCEPTED" /\ duty.loaded.deployment = gate.deployment
    BY <1>3
  <2> HIDE DEF duty, fact
  <2> QED BY <1>1, <1>3, <2>1, <2>2, <2>3, <2>4, DutyInv
<1> QED BY <1>2, <1>3 DEF Accept

\* dispatch: ACCEPTED to DISPATCHING, once.
LEMMA DispatchInv ==
  ASSUME Inv, NEW k \in Keys, NEW synced \in BOOLEAN, Dispatch(k, synced)
  PROVE  Inv'
<1> DEFINE fact == {[fact |-> "dispatched", key |-> k]}
           duty == [gate.duties[k] EXCEPT !.state = "DISPATCHING"]
<1>1. fact \in SUBSET Promises
  BY DEF Promises
<1>2. gate.duties[k] \in Duty /\ gate.duties[k].state = "ACCEPTED"
  BY DEF Dispatch, Inv, RecordOK, Record
<1>3. duty \in Duty /\ duty.state = "DISPATCHING"
  BY <1>2 DEF Duty, DutyStates
<1>4. /\ duty.sequence <= gate.sequence
      /\ duty.sequence = gate.sequence =>
           gate.state = "OPEN" /\ duty.loaded.deployment = gate.deployment
  BY <1>2 DEF Duty, Inv, RecordOK, AdmissionOK
<1>5. gate.state # "ABSENT"
  BY <1>2 DEF Inv, RecordOK, AbsentEmpty
<1>6. \A p \in fact : Keeps([gate EXCEPT !.duties[k] = duty], p)
  BY <1>3 DEF Keeps, Inv, RecordOK, Record
<1>7. Write([gate EXCEPT !.duties[k] = duty], synced, fact)
  BY DEF Dispatch, Inv, RecordOK, Record
<1> HIDE DEF duty, fact
<1> QED BY <1>1, <1>2, <1>3, <1>4, <1>5, <1>6, <1>7, DutyInv

\* finish: to CLOSED with its proof, or a confirmation.
LEMMA FinishInv ==
  ASSUME Inv, NEW k \in Keys, NEW q \in Proofs \ {"none"},
         NEW synced \in BOOLEAN, Finish(k, q, synced)
  PROVE  Inv'
<1> DEFINE fact == {[fact |-> "finished", key |-> k]}
           duty == [gate.duties[k] EXCEPT !.state = "CLOSED", !.proof = q]
<1>1. fact \in SUBSET Promises
  BY DEF Promises
<1>2. CASE gate.duties[k].state = "CLOSED" /\ Confirm(fact)
  <2>1. \A p \in fact : Keeps(gate, p)
    BY <1>2 DEF Keeps
  <2> QED BY <1>1, <1>2, <2>1, ConfirmInv
<1>3. CASE /\ gate.duties[k].state \in {"ACCEPTED", "DISPATCHING"}
           /\ Write([gate EXCEPT !.duties[k].state = "CLOSED",
                                 !.duties[k].proof = q], synced, fact)
  <2>1. gate.duties[k] \in Duty
    BY DEF Inv, RecordOK, Record
  <2>2. duty \in Duty /\ duty.state = "CLOSED"
    BY <2>1 DEF Duty, DutyStates
  <2>3. /\ duty.sequence <= gate.sequence
        /\ duty.sequence = gate.sequence =>
             gate.state = "OPEN" /\ duty.loaded.deployment = gate.deployment
    BY <1>3, <2>1 DEF Duty, Inv, RecordOK, AdmissionOK
  <2>4. gate.state # "ABSENT"
    BY <1>3 DEF Inv, RecordOK, AbsentEmpty
  <2>5. \A p \in fact : Keeps([gate EXCEPT !.duties[k] = duty], p)
    BY <2>2 DEF Keeps, Inv, RecordOK, Record
  <2>6. Write([gate EXCEPT !.duties[k] = duty], synced, fact)
    <3>1. gate \in Record /\ gate.duties \in [Keys -> Duty]
      BY DEF Inv, RecordOK, Record
    <3>2. [gate EXCEPT !.duties[k].state = "CLOSED", !.duties[k].proof = q]
            = [gate EXCEPT !.duties[k] = duty]
      BY <2>1, <3>1 DEF Record, Duty
    <3> QED BY <1>3, <3>2
  <2> HIDE DEF duty, fact
  <2> QED BY <1>1, <2>1, <1>3, <2>2, <2>3, <2>4, <2>5, <2>6, DutyInv
<1> QED BY <1>2, <1>3 DEF Finish

\* A power failure leaves the visible or the durable record, and both are good.
LEMMA PowerLossInv == Inv /\ PowerLoss => Inv'
<1> SUFFICES ASSUME Inv, PowerLoss PROVE Inv'
  OBVIOUS
<1>1. PICK r \in {gate, disk} : gate' = r /\ disk' = r /\ promised' = promised
  BY DEF PowerLoss
<1>2. RecordOK(r) /\ \A p \in promised : Keeps(r, p)
  BY DEF Inv, Kept, Monotone
<1>3. RecordOK(gate)' /\ RecordOK(disk)' /\ Monotone' /\ Kept'
  BY <1>1, <1>2 DEF RecordOK, OwnerOK, AdmissionOK, ReleaseRetires, AbsentEmpty, Monotone, Kept, Keeps
<1> QED BY <1>1, <1>3 DEF Inv

\* Every step preserves the invariant.
LEMMA NextInv == Inv /\ [Next]_vars => Inv'
<1> SUFFICES ASSUME Inv, [Next]_vars PROVE Inv'
  OBVIOUS
<1>1. CASE UNCHANGED vars
  BY <1>1 DEF vars, Inv, RecordOK, OwnerOK, AdmissionOK, ReleaseRetires, AbsentEmpty, Monotone, Kept, Keeps
<1>2. ASSUME NEW synced \in BOOLEAN, Marker(synced) PROVE Inv'
  BY <1>2, InitializeInv, CloseInv, ReleaseInv, HandoffInv, CompatibilityInv DEF Marker
<1>3. ASSUME NEW synced \in BOOLEAN, Responsibility(synced) PROVE Inv'
  BY <1>3, AcceptInv, DispatchInv, FinishInv DEF Responsibility
<1> QED BY <1>1, <1>2, <1>3, PowerLossInv DEF Next

\* The inductive invariant of maintenance.py's gate holds always.
THEOREM Invariance == Spec => []Inv
BY InitInv, NextInv, PTL DEF Spec

\* The file is always a well-formed record (maintenance.py _validate).
THEOREM TypeCorrect == Spec => []TypeOK
<1>1. Inv => TypeOK
  BY DEF Inv, RecordOK, TypeOK
<1> QED BY <1>1, Invariance, PTL

\* No acknowledged close, release, handoff, admission, dispatch or closure is
\* ever lost, whatever the power failures and lost directory syncs.
THEOREM Durability == Spec => []AcknowledgedSurvives
<1>1. Inv => AcknowledgedSurvives
  BY DEF Inv, Kept, Monotone, AcknowledgedSurvives
<1> QED BY <1>1, Invariance, PTL

\* An operation that gave maintenance up never owns it again.
THEOREM NoReturn == Spec => []RetiredNeverOwns
<1>1. Inv => RetiredNeverOwns
  <2> SUFFICES ASSUME Inv, NEW o \in Owners,
                      [fact |-> "retired", owner |-> o] \in promised
               PROVE  gate.owner # o
    BY DEF RetiredNeverOwns
  <2>1. Keeps(gate, [fact |-> "retired", owner |-> o])
    BY DEF Inv, Kept, Monotone
  <2>2. o \in gate.retired
    BY <2>1 DEF Keeps
  <2> QED BY <2>2 DEF Inv, RecordOK, OwnerOK
<1> QED BY <1>1, Invariance, PTL

\* Work is admitted only for the deployment the last release selected.
THEOREM Admission == Spec => []AdmittedUnderSelected
<1>1. Inv => AdmittedUnderSelected
  BY DEF Inv, RecordOK, AdmissionOK, AdmittedUnderSelected
<1> QED BY <1>1, Invariance, PTL

\* While an acknowledged close is in force nothing is admitted, even if the
\* machine loses power and gate.json falls back to its durable version.
THEOREM Barrier == Spec => NoAdmissionWhileHeld
<1>1. ASSUME Inv, [Next]_vars, NEW o \in Owners, NEW k \in Keys,
             [fact |-> "closed", owner |-> o] \in promised,
             o \notin gate.retired, gate.duties[k].state = "NONE"
      PROVE  gate'.duties[k].state = "NONE"
  <2>1. gate.state = "CLOSED"
    <3>1. Keeps(gate, [fact |-> "closed", owner |-> o])
      BY <1>1 DEF Inv, Kept, Monotone
    <3> QED BY <1>1, <3>1 DEF Keeps, Inv, RecordOK, OwnerOK
  <2>2. disk.duties[k].state = "NONE"
    <3>1. [fact |-> "accepted", key |-> k] \in Promises
      BY DEF Promises
    <3>2. ~Keeps(gate, [fact |-> "accepted", key |-> k])
      BY <1>1 DEF Keeps
    <3> QED BY <1>1, <3>1, <3>2 DEF Inv, Monotone, Keeps
  <2>3. gate \in Record
    BY <1>1 DEF Inv, RecordOK
  <2>4. ASSUME NEW synced \in BOOLEAN, Marker(synced)
        PROVE  gate'.duties[k].state = "NONE"
    <3>1. CASE \E d \in Deployments, c \in Decisions : Initialize(d, c, synced)
      BY <1>1, <2>1, <2>3, <3>1 DEF Initialize, Write, Confirm, Record
    <3>2. CASE \E p \in Owners, e \in Expectations : Close(p, e, synced)
      BY <1>1, <2>1, <2>3, <3>2 DEF Close, Write, Confirm, Record
    <3>3. CASE \E p \in Owners, c \in Decisions, d \in Deployments, e \in Expectations :
                 Release(p, c, d, e, synced)
      <4>1. PICK p \in Owners, c \in Decisions, d \in Deployments, e \in Expectations :
              Release(p, c, d, e, synced)
        BY <3>3
      <4> DEFINE l == [NoTransition EXCEPT !.kind = "release", !.owner = p, !.decision = c, !.deployment = d]
                 r == [gate EXCEPT !.state = "OPEN", !.owner = NoOwner, !.decision = c, !.deployment = d,
                                   !.sequence = @ + 1, !.last = l, !.retired = @ \cup {p}]
      <4>2. gate' = gate \/ gate' = r
        BY <4>1 DEF Release, Write, Confirm
      <4> HIDE DEF l
      <4>3. r.duties = gate.duties
        BY <2>3 DEF Record
      <4> HIDE DEF r
      <4> QED BY <1>1, <4>2, <4>3
    <3>4. CASE \E p, s \in Owners, e \in Expectations : Handoff(p, s, e, synced)
      BY <1>1, <2>1, <2>3, <3>4 DEF Handoff, Write, Confirm, Record
    <3>5. CASE \E q \in Owners, p \in Prepared, l \in Loaded :
                 AuthorizeCompatibility(q, p, l, synced)
      BY <1>1, <2>1, <2>3, <3>5 DEF AuthorizeCompatibility, Write, Confirm, Record
    <3> QED BY <2>4, <3>1, <3>2, <3>3, <3>4, <3>5 DEF Marker
  <2>5. ASSUME NEW synced \in BOOLEAN, Responsibility(synced)
        PROVE  gate'.duties[k].state = "NONE"
    <3>1. PICK j \in Keys :
             \/ \E l \in Loaded, p \in Prepared \cup {NoPrepared} :
                   Accept(j, l, p, synced)
             \/ Dispatch(j, synced)
             \/ \E p \in Proofs \ {"none"} : Finish(j, p, synced)
      BY <2>5 DEF Responsibility
    <3>2. CASE \E l \in Loaded, p \in Prepared \cup {NoPrepared} :
                 Accept(j, l, p, synced)
      <4>1. UNCHANGED gate
        BY <2>1, <3>2 DEF Accept, Confirm
      <4> QED BY <1>1, <4>1
    <3>3. CASE Dispatch(j, synced)
      <4>1. j # k /\ gate' = [gate EXCEPT !.duties[j].state = "DISPATCHING"]
        BY <1>1, <3>3 DEF Dispatch, Write
      <4> QED BY <1>1, <2>3, <4>1 DEF Record
    <3>4. CASE \E p \in Proofs \ {"none"} : Finish(j, p, synced)
      <4>1. PICK q \in Proofs \ {"none"} : Finish(j, q, synced)
        BY <3>4
      <4>2. CASE UNCHANGED gate
        BY <1>1, <4>2
      <4>3. CASE /\ j # k
                 /\ gate' = [gate EXCEPT !.duties[j].state = "CLOSED",
                                         !.duties[j].proof = q]
        BY <1>1, <2>3, <4>3 DEF Record
      <4> QED BY <1>1, <4>1, <4>2, <4>3 DEF Finish, Write, Confirm
    <3> QED BY <3>1, <3>2, <3>3, <3>4
  <2>6. CASE PowerLoss
    BY <1>1, <2>2, <2>6 DEF PowerLoss
  <2>7. CASE UNCHANGED vars
    BY <1>1, <2>7 DEF vars
  <2> QED BY <1>1, <2>4, <2>5, <2>6, <2>7 DEF Next
<1>2. Inv /\ [Next]_vars =>
        [\A o \in Owners, k \in Keys :
           /\ [fact |-> "closed", owner |-> o] \in promised
           /\ o \notin gate.retired
           /\ gate.duties[k].state = "NONE"
           => gate'.duties[k].state = "NONE"]_vars
  BY <1>1
<1> QED BY <1>2, Invariance, PTL DEF Spec, NoAdmissionWhileHeld
=============================================================================
