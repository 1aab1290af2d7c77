--------------------------- MODULE MaintenanceGate ---------------------------
(***************************************************************************)
(* The node admission barrier of tools/local_hand_jobs/maintenance.py: one *)
(* protected file, gate.json, changed only under one lock.  Every method   *)
(* of MaintenanceGate reads the file, decides, and then either replaces it *)
(* (_write: temporary file, fsync, rename, fsync of the directory) or      *)
(* re-syncs it (_confirm).  A rename whose directory sync is lost is       *)
(* visible to every later reader but need not survive a power loss; the    *)
(* caller then sees an error.  So there are two records:                   *)
(*    gate  what a reader of gate.json sees now,                           *)
(*    disk  what is certain to be there after a power loss.                *)
(* A refusal (JobError) changes nothing: it is an action that is disabled. *)
(*                                                                         *)
(* An operator under a comment "Fault" is not part of the specification:   *)
(* it is the definition below it with a plausible mistake, kept to show    *)
(* that the properties notice the mistake.                                 *)
(***************************************************************************)
EXTENDS Naturals

CONSTANTS
  Owners,       \* deployment operations that may own maintenance
  Operations,   \* business operations
  Attempts,     \* attempt identifiers of one operation
  Keys,         \* the (kind, operation, attempt) triples callers use
  Deployments,  \* deployment digests
  Boots,        \* boot identifiers
  Decisions,    \* local decisions applied by a release
  NoOwner,      \* null of the file's owner and decision fields
  NoExpectation, \* "expected" not given by the caller
  MaxSequence   \* bound: marker transitions explored (not in the code)

ASSUME OwnersAssumption == NoOwner \notin Owners /\ NoOwner \notin Decisions
ASSUME SequenceAssumption == MaxSequence \in Nat /\ NoExpectation \notin Nat

VARIABLES gate, disk, promised

vars == <<gate, disk, promised>>

(***************************************************************************)
(* Records.  The digests and identities of one process image (deployment,  *)
(* configuration, payload, boot, component) are one value, "loaded".  The  *)
(* binding of a preparation is its arguments, fixed by its key; that of an *)
(* execution is the preparation it consumes.                               *)
(***************************************************************************)
Kinds == {"prepare", "execute"}
ASSUME KeysAssumption == Keys \subseteq Kinds \X Operations \X Attempts

Loaded == [deployment : Deployments, boot : Boots]
\* Only the preparations that an execution of Keys can name are of interest.
Executed == {k[2] : k \in {key \in Keys : key[1] = "execute"}}
Prepared == [operation : Executed, attempt : Attempts, loaded : Loaded]
NoLoaded == [deployment |-> NoOwner, boot |-> NoOwner]
NoPrepared == [operation |-> NoOwner, attempt |-> NoOwner, loaded |-> NoLoaded]

Proofs == {"none", "never_dispatched", "process_exited"}
DutyStates == {"NONE", "ACCEPTED", "DISPATCHING", "CLOSED"}
Duty == [state : DutyStates, loaded : Loaded \cup {NoLoaded},
         prepared : Prepared \cup {NoPrepared}, sequence : Nat, proof : Proofs]
NoDuty == [state |-> "NONE", loaded |-> NoLoaded, prepared |-> NoPrepared,
           sequence |-> 0, proof |-> "none"]

Transition == [kind : {"none", "close", "handoff", "release"},
               owner : Owners \cup {NoOwner}, successor : Owners \cup {NoOwner},
               decision : Decisions \cup {NoOwner},
               deployment : Deployments \cup {NoOwner}]
NoTransition == [kind |-> "none", owner |-> NoOwner, successor |-> NoOwner,
                 decision |-> NoOwner, deployment |-> NoOwner]

\* A compatibility decision: the maintenance owner who made it, and the image
\* that may run the preparation.
Compatibility == [owner : Owners, target : Loaded]
NoCompatibility == [owner |-> NoOwner, target |-> NoLoaded]

Record == [state : {"ABSENT", "OPEN", "CLOSED"}, sequence : Nat,
           owner : Owners \cup {NoOwner}, decision : Decisions \cup {NoOwner},
           deployment : Deployments \cup {NoOwner}, duties : [Keys -> Duty],
           compatibility : [Prepared -> Compatibility \cup {NoCompatibility}],
           last : Transition, retired : SUBSET Owners]

\* A missing gate.json: neither open nor closed, every operation refuses.
Absent == [state |-> "ABSENT", sequence |-> 0, owner |-> NoOwner,
           decision |-> NoOwner, deployment |-> NoOwner,
           duties |-> [k \in Keys |-> NoDuty],
           compatibility |-> [p \in Prepared |-> NoCompatibility],
           last |-> NoTransition, retired |-> {}]

(***************************************************************************)
(* What a caller may rely on once a method returned to it.                 *)
(***************************************************************************)
Promises == [fact : {"closed", "retired"}, owner : Owners]
            \cup [fact : {"accepted", "dispatched", "finished"}, key : Keys]

Keeps(r, p) ==
  \/ p.fact = "closed" /\ (r.owner = p.owner \/ p.owner \in r.retired)
  \/ p.fact = "retired" /\ p.owner \in r.retired
  \/ p.fact = "accepted" /\ r.duties[p.key].state # "NONE"
  \/ p.fact = "dispatched" /\ r.duties[p.key].state \in {"DISPATCHING", "CLOSED"}
  \/ p.fact = "finished" /\ r.duties[p.key].state = "CLOSED"

-----------------------------------------------------------------------------
(* _write and _confirm.  "synced" is FALSE when the directory sync fails    *)
(* after the rename: the reply is an error, the new file is visible.        *)

Write(r, synced, facts) ==
  /\ gate' = r
  /\ disk' = IF synced THEN r ELSE disk
  /\ promised' = IF synced THEN promised \cup facts ELSE promised

\* Fault: the repeated call only reads the file and does not sync it again.
ConfirmReadsOnly(facts) ==
  /\ promised' = promised \cup facts
  /\ UNCHANGED <<gate, disk>>

Confirm(facts) ==
  /\ disk' = gate
  /\ promised' = promised \cup facts
  /\ UNCHANGED gate

Expected(r, expected) == expected = NoExpectation \/ r.sequence = expected

Initialize(deployment, decision, synced) ==
  \/ /\ gate.state = "ABSENT"
     /\ Write([Absent EXCEPT !.state = "OPEN", !.sequence = 1,
                             !.decision = decision, !.deployment = deployment],
              synced, {})
  \/ /\ gate.state = "OPEN" /\ gate.sequence = 1
     /\ gate.deployment = deployment /\ gate.decision = decision
     /\ Confirm({})

\* Fault: close does not look up the retired owners.
CloseByRetired(owner, expected, synced) ==
  /\ Expected(gate, expected)
  /\ gate.state = "OPEN" /\ gate.sequence < MaxSequence
  /\ Write([gate EXCEPT !.state = "CLOSED", !.owner = owner, !.sequence = @ + 1],
           synced, {[fact |-> "closed", owner |-> owner]})

Close(owner, expected, synced) ==
  LET fact == {[fact |-> "closed", owner |-> owner]} IN
  \/ /\ gate.state = "CLOSED" /\ gate.owner = owner
     /\ Confirm(fact)
  \/ /\ Expected(gate, expected)
     /\ gate.state = "OPEN" /\ owner \notin gate.retired
     /\ gate.sequence < MaxSequence
     /\ Write([gate EXCEPT !.state = "CLOSED", !.owner = owner,
                           !.sequence = @ + 1,
                           !.last = [NoTransition EXCEPT !.kind = "close",
                                                         !.owner = owner]],
              synced, fact)

\* Fault: the two digests of the release are stored in each other's field.
ReleaseSwapped(owner, decision, deployment, expected, synced) ==
  /\ Expected(gate, expected)
  /\ gate.state = "CLOSED" /\ gate.owner = owner
  /\ gate.sequence < MaxSequence
  /\ Write([gate EXCEPT !.state = "OPEN", !.owner = NoOwner,
                        !.decision = deployment, !.deployment = decision,
                        !.sequence = @ + 1, !.retired = @ \cup {owner}],
           synced, {[fact |-> "retired", owner |-> owner]})

Release(owner, decision, deployment, expected, synced) ==
  LET last == [NoTransition EXCEPT !.kind = "release", !.owner = owner,
                  !.decision = decision, !.deployment = deployment]
      fact == {[fact |-> "retired", owner |-> owner]}
  IN \/ /\ gate.state = "OPEN" /\ gate.last = last
        /\ Confirm(fact)
     \/ /\ Expected(gate, expected)
        /\ gate.state = "CLOSED" /\ gate.owner = owner
        /\ gate.sequence < MaxSequence
        /\ Write([gate EXCEPT !.state = "OPEN", !.owner = NoOwner,
                              !.decision = decision, !.deployment = deployment,
                              !.sequence = @ + 1, !.last = last,
                              !.retired = @ \cup {owner}],
                 synced, fact)

Handoff(owner, successor, expected, synced) ==
  LET last == [NoTransition EXCEPT !.kind = "handoff", !.owner = owner,
                                   !.successor = successor]
      facts == {[fact |-> "retired", owner |-> owner],
                [fact |-> "closed", owner |-> successor]}
  IN /\ owner # successor
     /\ \/ /\ gate.state = "CLOSED" /\ gate.owner = successor /\ gate.last = last
           /\ Confirm(facts)
        \/ /\ Expected(gate, expected)
           /\ gate.state = "CLOSED" /\ gate.owner = owner
           /\ successor \notin gate.retired
           /\ gate.sequence < MaxSequence
           /\ Write([gate EXCEPT !.owner = successor, !.sequence = @ + 1,
                                 !.last = last, !.retired = @ \cup {owner}],
                    synced, facts)

AuthorizeCompatibility(owner, prepared, target, synced) ==
  LET decision == [owner |-> owner, target |-> target] IN
  /\ gate.state = "CLOSED" /\ gate.owner = owner
  /\ IF gate.compatibility[prepared] = decision
     THEN Confirm({})
     ELSE Write([gate EXCEPT !.compatibility[prepared] = decision], synced, {})

\* _prepared: the preparation was made by this image, or the maintenance
\* owner decided that exactly this image may run it.
Compatible(r, prepared, loaded) ==
  prepared.loaded = loaded \/ r.compatibility[prepared].target = loaded

\* Faults: a new responsibility is accepted without looking at the marker, or
\* without comparing the deployment the process loaded with the selected one.
AcceptWhileClosed(key, loaded, prepared, synced) ==
  /\ gate.state # "ABSENT" /\ gate.duties[key].state = "NONE"
  /\ gate.deployment = loaded.deployment
  /\ Write([gate EXCEPT !.duties[key] =
              [NoDuty EXCEPT !.state = "ACCEPTED", !.loaded = loaded,
                             !.prepared = prepared, !.sequence = gate.sequence]],
           synced, {[fact |-> "accepted", key |-> key]})
AcceptOtherDeployment(key, loaded, prepared, synced) ==
  /\ gate.state = "OPEN" /\ gate.duties[key].state = "NONE"
  /\ Write([gate EXCEPT !.duties[key] =
              [NoDuty EXCEPT !.state = "ACCEPTED", !.loaded = loaded,
                             !.prepared = prepared, !.sequence = gate.sequence]],
           synced, {[fact |-> "accepted", key |-> key]})

Accept(key, loaded, prepared, synced) ==
  LET fact == {[fact |-> "accepted", key |-> key]}
      old == gate.duties[key]
  IN \/ /\ old.state \in {"ACCEPTED", "DISPATCHING"}
        /\ old.loaded = loaded /\ old.prepared = prepared
        /\ Confirm(fact)
     \/ /\ old.state = "NONE"
        /\ gate.state = "OPEN" /\ gate.deployment = loaded.deployment
        /\ IF key[1] = "execute"
           THEN /\ prepared \in Prepared /\ prepared.operation = key[2]
                /\ Compatible(gate, prepared, loaded)
           ELSE prepared = NoPrepared
        /\ Write([gate EXCEPT !.duties[key] =
                    [state |-> "ACCEPTED", loaded |-> loaded,
                     prepared |-> prepared, sequence |-> gate.sequence,
                     proof |-> "none"]],
                 synced, fact)

Dispatch(key, synced) ==
  /\ gate.duties[key].state = "ACCEPTED"
  /\ Write([gate EXCEPT !.duties[key].state = "DISPATCHING"], synced,
           {[fact |-> "dispatched", key |-> key]})

Finish(key, proof, synced) ==
  LET fact == {[fact |-> "finished", key |-> key]} IN
  \/ /\ gate.duties[key].state = "CLOSED" /\ gate.duties[key].proof = proof
     /\ Confirm(fact)
  \/ /\ gate.duties[key].state \in {"ACCEPTED", "DISPATCHING"}
     /\ Write([gate EXCEPT !.duties[key].state = "CLOSED",
                           !.duties[key].proof = proof], synced, fact)

\* A power loss may or may not drop a rename whose sync was never confirmed.
PowerLoss ==
  \E r \in {gate, disk} : gate' = r /\ disk' = r /\ UNCHANGED promised

Active(r) == {k \in Keys : r.duties[k].state \in {"ACCEPTED", "DISPATCHING"}}

-----------------------------------------------------------------------------
Init == gate = Absent /\ disk = Absent /\ promised = {}

Expectations == {NoExpectation} \cup 1..MaxSequence

Marker(synced) ==
  \/ \E d \in Deployments, c \in Decisions : Initialize(d, c, synced)
  \/ \E o \in Owners, e \in Expectations : Close(o, e, synced)
  \/ \E o \in Owners, c \in Decisions, d \in Deployments, e \in Expectations :
        Release(o, c, d, e, synced)
  \/ \E o, s \in Owners, e \in Expectations : Handoff(o, s, e, synced)
  \/ \E o \in Owners, p \in Prepared, l \in Loaded :
        AuthorizeCompatibility(o, p, l, synced)

Responsibility(synced) ==
  \E k \in Keys :
     \/ \E l \in Loaded, p \in Prepared \cup {NoPrepared} : Accept(k, l, p, synced)
     \/ Dispatch(k, synced)
     \/ \E p \in Proofs \ {"none"} : Finish(k, p, synced)

Next == \/ \E synced \in BOOLEAN : Marker(synced) \/ Responsibility(synced)
        \/ PowerLoss

Spec == Init /\ [][Next]_vars

-----------------------------------------------------------------------------
\* gate.json and its durable version always pass _validate: the types of all
\* fields of the file that a reader may see now or after a power loss.
TypeOK ==
  /\ gate \in Record
  /\ disk \in Record
  /\ promised \in SUBSET Promises

\* Every success a method of MaintenanceGate returned stays true of the file,
\* whatever is lost at a power failure (maintenance.py _write/_confirm: "A lost
\* directory-sync response needs re-sync, not just a read").
AcknowledgedSurvives == \A p \in promised : Keeps(gate, p) /\ Keeps(disk, p)

\* An operation that released or handed off maintenance never owns it again
\* (close and handoff refuse retired owners), so a late or repeated call of an
\* old operation cannot close the node a second time.
RetiredNeverOwns ==
  \A o \in Owners : [fact |-> "retired", owner |-> o] \in promised => gate.owner # o

\* While a close is acknowledged and its owner has neither released nor handed
\* off, no responsibility is admitted, power losses included.
NoAdmissionWhileHeld ==
  [][\A o \in Owners, k \in Keys :
       /\ [fact |-> "closed", owner |-> o] \in promised
       /\ o \notin gate.retired
       /\ gate.duties[k].state = "NONE"
       => gate'.duties[k].state = "NONE"]_vars

\* A responsibility admitted since the last marker transition runs the
\* deployment that transition selected: no process that loaded an older
\* deployment is admitted after the release that replaced it.
AdmittedUnderSelected ==
  \A k \in Keys :
     /\ gate.duties[k].state # "NONE"
     /\ gate.duties[k].sequence = gate.sequence
     => gate.state = "OPEN" /\ gate.duties[k].loaded.deployment = gate.deployment
=============================================================================
