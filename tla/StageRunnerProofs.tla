------------------------- MODULE StageRunnerProofs -------------------------
(***************************************************************************)
(* The safety of the supervision of one execution                          *)
(* (local_hand_jobs/runner.py), for any number of restarts of the broker   *)
(* and with or without failing deliveries, stops and observations. The     *)
(* argument: a stage is tried only after the proved end of the stage       *)
(* before it, and an end is proved only for a unit whose identity the      *)
(* gateway holds, so what has ended was delivered and cannot start again.  *)
(* A process that reattaches lost that order with its handle, but it tries *)
(* nothing, and its proof waits for all three stages.                      *)
(***************************************************************************)
EXTENDS StageRunner, FiniteSetTheorems, TLAPS

\* What the manager may have of a stage.
Units == {"absent", "queued", "active", "good", "bad", "gone", "never"}
\* A handle's part of one stage.
Parts == [known : BOOLEAN, attempted : BOOLEAN, prevented : BOOLEAN, inv : BOOLEAN,
          stopped : BOOLEAN, term : {"none", "good", "bad"}, final : BOOLEAN]
\* The proofs the broker may read.
Proofs == [state : {"UNKNOWN", "EXITED"}, verified : BOOLEAN, prevented : BOOLEAN,
           collectors : BOOLEAN]

\* The types of TypeOK and those of the handle, the gateway's record and the proof.
Types ==
  /\ TypeOK
  /\ part \in [Stages -> Parts]
  /\ held \in [Stages -> [inv : BOOLEAN, stop : BOOLEAN]]
  /\ proof \in Proofs

\* What the handle, the saved handle and the gateway know of a stage is so.
StageOK(s) ==
  /\ starts[s] = 0 <=> unit[s] = "absent"
  /\ starts[s] = 1 => s \in receipts /\ s \in tried
  /\ held[s].inv => unit[s] \notin {"absent", "queued", "never"}
  /\ part[s].inv \/ s \in saved \/ part[s].term # "none" => held[s].inv
  /\ part[s].final => part[s].known /\ s \in tried /\ ~Live(s)
  /\ part[s].attempted => starts[s] = 1

\* The process that started the execution knows each delivery, and a stage it
\* knows without one was refused by the durable cancellation.
OwnOK(s) ==
  ~recovered => /\ starts[s] = 1 => part[s].attempted
                /\ part[s].known => part[s].attempted \/ cancelled

\* A stage is tried after the end of the one before, which never runs again.
InOrder ==
  /\ ~recovered /\ 2 \in tried => part[1].final /\ part[1].term = "good"
  /\ ~recovered /\ 3 \in tried => part[2].final /\ 2 \in tried
  /\ starts[3] = 1 => starts[2] = 1
  /\ \A s, t \in Stages : s < t /\ starts[t] = 1 => ~Live(s)

\* Before the thread runs nothing was tried; a reattached one tries nothing,
\* and only it attaches.
ThreadOK ==
  /\ recovered => tried = Stages
  /\ ~recovered /\ thread \in {"none", "gate", "start"} => tried = {}
  /\ thread = "start" => ~recovered
  /\ thread = "attach" => recovered

\* A proof of the exit is the last thing a thread leaves.
ProofOK ==
  /\ proof.state = "EXITED" => thread = "ended" /\ \A s \in Stages : ~Live(s)
  /\ proof.verified => proof.state = "EXITED"

\* The inductive invariant.
Inv == /\ Types
       /\ \A s \in Stages : StageOK(s) /\ OwnOK(s)
       /\ InOrder
       /\ ThreadOK
       /\ ProofOK
       /\ VerifiedIsReal

-----------------------------------------------------------------------------
(* Steps that deliver nothing *)

\* The parts, units, identities and deliveries of all stages stay as they are.
Parked == UNCHANGED <<part, unit, held, starts, recovered, receipts>>

\* A step that leaves the stages alone, tries none, and writes no proof keeps
\* what is known of them.
LEMMA ParkedStages ==
  ASSUME Inv, Parked, UNCHANGED tried, cancelled => cancelled',
         \A s \in saved' : s \in saved \/ part[s].inv
  PROVE  (\A s \in Stages : StageOK(s)' /\ OwnOK(s)') /\ InOrder'
<1>1. \A s \in Stages : StageOK(s)' /\ OwnOK(s)'
  BY DEF Inv, Parked, StageOK, OwnOK, Live
<1>2. InOrder'
  BY DEF Inv, Parked, InOrder, Live
<1> QED BY <1>1, <1>2

\* The thread moves between its places and shows the proof it has.
LEMMA ThreadInv ==
  ASSUME Inv, Start \/ GateOpens \/ Stop
  PROVE  Inv'
<1>1. /\ Parked /\ UNCHANGED <<tried, cancelled, saved, proof, late, client, payload, restarts>>
      /\ thread' \in {"none", "gate", "start", "attach", "watch", "ended"}
      /\ aborted' \in BOOLEAN /\ cancel' \in BOOLEAN
  BY DEF Start, GateOpens, Stop, Parked, memory, durable, world, Inv, Types, TypeOK
<1>2. (\A s \in Stages : StageOK(s)' /\ OwnOK(s)') /\ InOrder'
  BY <1>1, ParkedStages
<1>3. Types'
  BY <1>1 DEF Inv, Types, TypeOK, Parked
<1>4. ThreadOK'
  BY DEF Inv, ThreadOK, Start, GateOpens, Stop, memory
<1>5. ProofOK'
  BY <1>1 DEF Inv, ProofOK, Start, GateOpens, Stop, NoProof, Parked, Live
<1>6. VerifiedIsReal'
  BY <1>1 DEF Inv, VerifiedIsReal, Parked
<1> QED BY <1>2, <1>3, <1>4, <1>5, <1>6 DEF Inv

\* The thread, or the broker beside it, only records something of its own.
LEMMA BesideInv ==
  ASSUME Inv, Save \/ Cancel \/ Expire \/ (\E s \in Stages : ClientExits(s))
  PROVE  Inv'
<1>1. /\ Parked /\ UNCHANGED <<tried, thread, cancel, aborted, proof, payload, restarts>>
      /\ cancelled => cancelled'
      /\ \A s \in saved' : s \in saved \/ part[s].inv
      /\ saved' \subseteq Stages /\ cancelled' \in BOOLEAN /\ late' \in BOOLEAN
      /\ client' \in [Stages -> {"none", "live", "exited"}]
  <2>1. /\ saved \subseteq Stages /\ cancelled \in BOOLEAN /\ late \in BOOLEAN
        /\ client \in [Stages -> {"none", "live", "exited"}]
    BY DEF Inv, Types, TypeOK
  <2>2. CASE Save
    <3>1. /\ saved' = saved \cup {s \in Stages : part[s].inv}
          /\ UNCHANGED <<thread, memory, cancelled, receipts, proof, world>>
      BY <2>2 DEF Save
    <3> QED BY <2>1, <3>1 DEF Parked, memory, world
  <2>3. CASE Cancel
    BY <2>1, <2>3 DEF Cancel, Parked, memory, world
  <2>4. CASE Expire
    BY <2>1, <2>4 DEF Expire, Parked, memory, durable
  <2>5. CASE \E s \in Stages : ClientExits(s)
    BY <2>1, <2>5 DEF ClientExits, Parked, memory, durable
  <2> QED BY <2>2, <2>3, <2>4, <2>5
<1>2. (\A s \in Stages : StageOK(s)' /\ OwnOK(s)') /\ InOrder'
  BY <1>1, ParkedStages
<1>3. Types'
  BY <1>1 DEF Inv, Types, TypeOK, Parked
<1>4. ThreadOK' /\ ProofOK'
  BY <1>1 DEF Inv, ThreadOK, ProofOK, Parked, Live
<1>5. VerifiedIsReal'
  BY <1>1 DEF Inv, VerifiedIsReal, Parked
<1> QED BY <1>2, <1>3, <1>4, <1>5 DEF Inv

\* PipeBreaks: the reader of a verified result is over.
LEMMA PipeInv ==
  ASSUME Inv, PipeBreaks
  PROVE  Inv'
<1>1. /\ Parked /\ payload' = "broken"
      /\ UNCHANGED <<tried, thread, cancel, aborted, cancelled, saved, proof, late, client,
                    restarts>>
  BY DEF PipeBreaks, Parked, memory, durable
<1>2. (\A s \in Stages : StageOK(s)' /\ OwnOK(s)') /\ InOrder'
  BY <1>1, ParkedStages
<1>3. Types'
  BY <1>1 DEF Inv, Types, TypeOK, Parked
<1>4. ThreadOK' /\ ProofOK'
  BY <1>1 DEF Inv, ThreadOK, ProofOK, Parked, Live
<1>5. ~proof.verified
  BY DEF PipeBreaks, Inv, VerifiedIsReal, Final, Stages
<1>6. VerifiedIsReal'
  BY <1>1, <1>5 DEF VerifiedIsReal
<1> QED BY <1>2, <1>3, <1>4, <1>6 DEF Inv

-----------------------------------------------------------------------------
(* Proofs of an exit *)

\* A thread that ends with a proof which is true keeps the invariant.
LEMMA EndInv ==
  ASSUME Inv, Parked, thread' = "ended", aborted' \in BOOLEAN, UNCHANGED tried,
         UNCHANGED <<cancel, durable, late, client, payload, restarts>>,
         proof' \in Proofs,
         proof'.state = "EXITED" => \A s \in Stages : ~Live(s),
         proof'.verified => /\ proof'.state = "EXITED" /\ payload = "whole" /\ ~recovered
                            /\ \A s \in Stages : starts[s] = 1 /\ part[s].final
  PROVE  Inv'
<1>1. UNCHANGED <<cancelled, receipts, saved>>
  BY DEF durable
<1>2. (\A s \in Stages : StageOK(s)' /\ OwnOK(s)') /\ InOrder'
  BY <1>1, ParkedStages
<1>3. Types'
  BY <1>1 DEF Inv, Types, TypeOK, Parked, Proofs
<1>4. ThreadOK' /\ ProofOK'
  BY <1>1 DEF Inv, ThreadOK, ProofOK, Parked, Live
<1>5. VerifiedIsReal'
  BY DEF VerifiedIsReal, Parked
<1> QED BY <1>2, <1>3, <1>4, <1>5 DEF Inv

\* Nothing runs of a stage that was never delivered.
LEMMA AbsentQuiet ==
  ASSUME Inv, NEW s \in Stages, starts[s] # 1
  PROVE  ~Live(s)
BY DEF Inv, Types, TypeOK, StageOK, Live

\* GateFails and CancelledEarly: no stage was tried.
LEMMA NothingTriedInv ==
  ASSUME Inv, GateFails \/ CancelledEarly
  PROVE  Inv'
<1>1. tried = {}
  BY DEF Inv, ThreadOK, GateFails, CancelledEarly
<1>2. \A s \in Stages : ~Live(s)
  BY <1>1, AbsentQuiet DEF Inv, StageOK
<1>3. /\ Parked /\ thread' = "ended" /\ aborted' \in BOOLEAN /\ UNCHANGED tried
      /\ UNCHANGED <<cancel, durable, late, client, payload, restarts>>
  BY DEF GateFails, CancelledEarly, memory, durable, world, Parked, Inv, Types, TypeOK
<1>4. proof' \in Proofs /\ ~proof'.verified
  BY DEF GateFails, CancelledEarly, NoProof, Proofs
<1> QED BY <1>2, <1>3, <1>4, EndInv

\* Conclude: whichever stage the execution ended at, no later one was delivered.
LEMMA ConcludeInv ==
  ASSUME Inv, Conclude
  PROVE  Inv'
<1>1. /\ Parked /\ thread' = "ended" /\ aborted' \in BOOLEAN /\ UNCHANGED tried
      /\ UNCHANGED <<cancel, durable, late, client, payload, restarts>>
  BY DEF Conclude, memory, durable, world, Parked, Inv, Types, TypeOK
<1>2. /\ ~recovered /\ part[1].final
      /\ 1 \in Stages /\ 2 \in Stages /\ 3 \in Stages /\ \A s \in Stages : s = 1 \/ s = 2 \/ s = 3
  BY DEF Conclude, Final, Stages
<1>3. ~Live(1)
  BY <1>2 DEF Inv, StageOK
<1>4. CASE part[1].term # "good" /\ proof' = Exit(FALSE, part[1].prevented)
  <2>1. starts[2] # 1 /\ starts[3] # 1
    BY <1>2, <1>4 DEF Inv, StageOK, InOrder
  <2>2. proof' \in Proofs /\ ~proof'.verified
    BY <1>2, <1>4 DEF Exit, Proofs, Inv, Types, TypeOK, Parts
  <2> QED BY <1>1, <1>2, <1>3, <2>1, <2>2, AbsentQuiet, EndInv
<1>5. CASE NotCalled(2) /\ proof' = Exit(FALSE, FALSE)
  <2>1. starts[2] # 1 /\ starts[3] # 1
    BY <1>2, <1>5 DEF Inv, OwnOK, InOrder, NotCalled
  <2>2. proof' \in Proofs /\ ~proof'.verified
    BY <1>2, <1>5 DEF Exit, Proofs, Inv, Types, TypeOK, Parts
  <2> QED BY <1>1, <1>2, <1>3, <2>1, <2>2, AbsentQuiet, EndInv
<1>6. CASE Final(2) /\ part[2].attempted /\ NotCalled(3) /\ proof' = Exit(FALSE, FALSE)
  <2>1. ~Live(2) /\ starts[3] # 1
    BY <1>2, <1>6 DEF Inv, StageOK, OwnOK, NotCalled, Final
  <2>2. proof' \in Proofs /\ ~proof'.verified
    BY <1>2, <1>6 DEF Exit, Proofs, Inv, Types, TypeOK, Parts
  <2> QED BY <1>1, <1>2, <1>3, <2>1, <2>2, AbsentQuiet, EndInv
<1>7. CASE Final(2) /\ part[2].attempted /\ Final(3) /\ proof' = Exit(Verified, FALSE)
  <2>1. \A s \in Stages : part[s].final /\ ~Live(s)
    BY <1>2, <1>3, <1>7 DEF Inv, StageOK, Final
  <2>2. proof' \in Proofs /\ proof'.verified = Verified /\ proof'.state = "EXITED"
    BY <1>2, <1>7 DEF Exit, Proofs, Verified, Final
  <2>3. ASSUME Verified
        PROVE  payload = "whole" /\ \A s \in Stages : starts[s] = 1
    <3>1. 3 \in tried /\ part[3].term = "good" /\ payload = "whole"
      BY <1>2, <2>1, <2>3 DEF Verified, Inv, StageOK
    <3>2. part[1].term = "good"
      BY <1>2, <3>1 DEF Inv, InOrder
    <3>3. held[1].inv /\ held[3].inv
      BY <1>2, <3>1, <3>2 DEF Inv, StageOK
    <3>4. starts[1] = 1 /\ starts[3] = 1 /\ starts[2] = 1
      BY <1>2, <1>7, <3>3 DEF Inv, Types, TypeOK, StageOK
    <3> QED BY <1>2, <3>1, <3>4
  <2> QED BY <1>1, <1>2, <2>1, <2>2, <2>3, EndInv
<1> QED BY <1>4, <1>5, <1>6, <1>7 DEF Conclude

\* ConcludeRecovered: all three stages are over.
LEMMA ConcludeRecoveredInv ==
  ASSUME Inv, ConcludeRecovered
  PROVE  Inv'
<1>1. /\ Parked /\ thread' = "ended" /\ aborted' \in BOOLEAN /\ UNCHANGED tried
      /\ UNCHANGED <<cancel, durable, late, client, payload, restarts>>
  BY DEF ConcludeRecovered, memory, durable, world, Parked, Inv, Types, TypeOK
<1>2. \A s \in Stages : ~Live(s)
  BY DEF ConcludeRecovered, Final, Inv, StageOK
<1>3. proof' \in Proofs /\ ~proof'.verified
  BY DEF ConcludeRecovered, Exit, Proofs, Inv, Types, TypeOK, Parts, Stages
<1> QED BY <1>1, <1>2, <1>3, EndInv

-----------------------------------------------------------------------------
(* Steps of one stage *)

\* The other stages, and all that is not about stages, stay as they are.
Only(k) ==
  /\ \A s \in Stages \ {k} : /\ part'[s] = part[s] /\ unit'[s] = unit[s]
                             /\ held'[s] = held[s] /\ starts'[s] = starts[s]
  /\ UNCHANGED <<aborted, cancel, recovered, cancelled, saved, late, restarts>>

\* The types and the facts of the other stages.
LEMMA OnlyStage ==
  ASSUME Inv, NEW k \in Stages, Only(k),
         tried \subseteq tried', receipts \subseteq receipts',
         StageOK(k)', OwnOK(k)'
  PROVE  \A s \in Stages : StageOK(s)' /\ OwnOK(s)'
<1> SUFFICES ASSUME NEW s \in Stages, s # k PROVE StageOK(s)' /\ OwnOK(s)'
  OBVIOUS
<1> QED BY DEF Inv, Only, StageOK, OwnOK, Live

\* A step that changes what is known of a delivered stage, ends it or starts
\* what was queued, and delivers nothing.
LEMMA StageInv ==
  ASSUME Inv, NEW k \in Stages, Only(k), UNCHANGED <<thread, tried, receipts, proof, starts>>,
         part' \in [Stages -> Parts], held' \in [Stages -> [inv : BOOLEAN, stop : BOOLEAN]],
         unit' \in [Stages -> Units], client' \in [Stages -> {"none", "live", "exited"}],
         payload' \in {"none", "whole", "short", "broken", "lost"},
         part[k].final => part'[k] = part[k],
         payload = "whole" => payload' = "whole",
         Live(k)' => Live(k), StageOK(k)', OwnOK(k)'
  PROVE  Inv'
<1>1. \A s \in Stages : StageOK(s)' /\ OwnOK(s)'
  BY OnlyStage
<1>2. \A s \in Stages : part[s].final => part'[s] = part[s]
  BY DEF Only
<1>3. \A s \in Stages : Live(s)' => Live(s)
  BY DEF Only, Live
<1>4. InOrder'
  BY <1>2, <1>3 DEF Inv, InOrder, Only, Stages
<1>5. Types'
  BY DEF Inv, Types, TypeOK, Only, Units
<1>6. ThreadOK' /\ ProofOK'
  BY <1>3 DEF Inv, ThreadOK, ProofOK, Only
<1>7. VerifiedIsReal'
  BY <1>2 DEF Inv, VerifiedIsReal, Only
<1> QED BY <1>1, <1>4, <1>5, <1>6, <1>7 DEF Inv

\* Observe: the manager has the unit, so it was delivered.
LEMMA ObserveInv ==
  ASSUME Inv, NEW k \in Stages, Observe(k)
  PROVE  Inv'
<1> DEFINE p == [part[k] EXCEPT !.inv = TRUE,
                   !.term = IF @ = "none" /\ unit[k] # "active" THEN unit[k] ELSE @]
           h == [held[k] EXCEPT !.inv = TRUE]
<1>1. /\ part \in [Stages -> Parts] /\ held \in [Stages -> [inv : BOOLEAN, stop : BOOLEAN]]
      /\ part[k] \in Parts /\ StageOK(k) /\ OwnOK(k) /\ ~part[k].final
  BY DEF Inv, Types, Observe, Final
<1>2. unit[k] \in {"active", "good", "bad"} /\ ~part[k].final /\ part[k].known
  BY DEF Observe, Loaded, Final
<1>3. part' = [part EXCEPT ![k] = p] /\ held' = [held EXCEPT ![k] = h]
  BY <1>1 DEF Observe
<1>4. /\ UNCHANGED <<thread, tried, receipts, proof, starts, unit, client, payload>>
      /\ UNCHANGED <<aborted, cancel, recovered, cancelled, saved, late, restarts>>
  BY DEF Observe, durable
<1>5. p \in Parts /\ h \in [inv : BOOLEAN, stop : BOOLEAN]
  BY <1>1, <1>2 DEF Parts
<1>6. /\ p.attempted = part[k].attempted /\ p.known = part[k].known /\ p.final = part[k].final
      /\ h.inv
  BY <1>1 DEF Parts
<1> HIDE DEF p, h
<1>7. part'[k] = p /\ held'[k] = h /\ Only(k)
  BY <1>1, <1>3, <1>4 DEF Only
<1>8. StageOK(k)' /\ OwnOK(k)'
  BY <1>1, <1>2, <1>4, <1>6, <1>7 DEF StageOK, OwnOK
<1>9. /\ part' \in [Stages -> Parts] /\ held' \in [Stages -> [inv : BOOLEAN, stop : BOOLEAN]]
      /\ unit' \in [Stages -> Units] /\ client' \in [Stages -> {"none", "live", "exited"}]
      /\ payload' \in {"none", "whole", "short", "broken", "lost"}
  BY <1>1, <1>3, <1>4, <1>5 DEF Inv, Types, TypeOK, Units
<1> QED BY <1>1, <1>4, <1>7, <1>8, <1>9, StageInv DEF Live

\* StopUnit: the unit is gone, or it is still there.
LEMMA StopUnitInv ==
  ASSUME Inv, NEW k \in Stages, StopUnit(k)
  PROVE  Inv'
<1>1. /\ part \in [Stages -> Parts] /\ held \in [Stages -> [inv : BOOLEAN, stop : BOOLEAN]]
      /\ unit \in [Stages -> Units]
      /\ part[k] \in Parts /\ StageOK(k) /\ OwnOK(k)
  BY DEF Inv, Types, TypeOK, Units
<1>2. unit[k] \in {"active", "good", "bad"} /\ ~part[k].final /\ (part[k].inv \/ held[k].inv)
  BY DEF StopUnit, Loaded, Final, Bound
<1>3. PICK ok \in BOOLEAN, gone \in BOOLEAN :
        /\ held' = [held EXCEPT ![k].stop = gone]
        /\ part' = [part EXCEPT ![k].stopped = ok]
        /\ unit' = IF gone THEN [unit EXCEPT ![k] = "gone"] ELSE unit
  BY DEF StopUnit
<1>4. /\ UNCHANGED <<thread, tried, receipts, proof, starts, client, payload>>
      /\ UNCHANGED <<aborted, cancel, recovered, cancelled, saved, late, restarts>>
  BY DEF StopUnit, durable
<1> DEFINE p == [part[k] EXCEPT !.stopped = ok]
           h == [held[k] EXCEPT !.stop = gone]
<1>5. /\ p \in Parts /\ h \in [inv : BOOLEAN, stop : BOOLEAN]
      /\ part' = [part EXCEPT ![k] = p] /\ held' = [held EXCEPT ![k] = h]
  BY <1>1, <1>3 DEF Parts
<1>6. /\ p.attempted = part[k].attempted /\ p.known = part[k].known /\ p.final = part[k].final
      /\ p.inv = part[k].inv /\ p.term = part[k].term /\ h.inv = held[k].inv
  BY <1>1 DEF Parts
<1> HIDE DEF p, h
<1>7. part'[k] = p /\ held'[k] = h /\ Only(k) /\ unit'[k] \in {unit[k], "gone"}
  BY <1>1, <1>3, <1>4, <1>5 DEF Only
<1>8. Live(k)' => Live(k)
  BY <1>7 DEF Live
<1>9. StageOK(k)' /\ OwnOK(k)'
  BY <1>1, <1>2, <1>4, <1>6, <1>7, <1>8 DEF StageOK, OwnOK
<1>10. /\ part' \in [Stages -> Parts] /\ held' \in [Stages -> [inv : BOOLEAN, stop : BOOLEAN]]
       /\ unit' \in [Stages -> Units] /\ client' \in [Stages -> {"none", "live", "exited"}]
       /\ payload' \in {"none", "whole", "short", "broken", "lost"}
  BY <1>1, <1>3, <1>4, <1>5 DEF Inv, Types, TypeOK, Units
<1> QED BY <1>2, <1>4, <1>7, <1>8, <1>9, <1>10, StageInv

\* Finish and NeverDelivered: the unit is gone, or it never was.
LEMMA FinishInv ==
  ASSUME Inv, NEW k \in Stages, Finish(k) \/ NeverDelivered(k)
  PROVE  Inv'
<1>1. /\ part \in [Stages -> Parts] /\ unit \in [Stages -> Units]
      /\ part[k] \in Parts /\ StageOK(k) /\ OwnOK(k)
  BY DEF Inv, Types, TypeOK, Units
<1>2. ~part[k].final /\ part[k].known
  BY DEF Finish, NeverDelivered, Over, Final
<1>3. ~Live(k) /\ k \in tried
  <2>1. CASE Finish(k)
    <3>1. held[k].inv /\ unit[k] \notin {"active", "good", "bad"}
      BY <1>1, <2>1 DEF Finish, Over, Bound, Loaded, StageOK
    <3>2. starts[k] = 1
      BY <1>1, <3>1 DEF StageOK, Inv, Types, TypeOK
    <3> QED BY <1>1, <3>1, <3>2 DEF StageOK, Live
  <2>2. CASE NeverDelivered(k)
    BY <1>1, <2>2 DEF NeverDelivered, StageOK, Live, Inv, ThreadOK
  <2> QED BY <2>1, <2>2
<1>4. (part[k].term # "none" => held[k].inv) /\ (Finish(k) => held[k].inv)
  BY <1>1 DEF Finish, Over, Bound, StageOK
<1>5. PICK p \in Parts : /\ part' = [part EXCEPT ![k] = p]
                         /\ p.attempted = part[k].attempted /\ p.known /\ p.final
                         /\ p.inv = part[k].inv /\ (p.term # "none" => held[k].inv)
  <2>1. CASE Finish(k)
    <3> DEFINE p == [part[k] EXCEPT !.final = TRUE, !.term = IF late THEN "bad" ELSE @]
    <3>1. /\ p \in Parts /\ part' = [part EXCEPT ![k] = p]
          /\ p.attempted = part[k].attempted /\ p.known /\ p.final
          /\ p.inv = part[k].inv /\ (p.term # "none" => held[k].inv)
      BY <1>1, <1>2, <1>4, <2>1 DEF Parts, Finish
    <3> HIDE DEF p
    <3> QED BY <3>1
  <2>2. CASE NeverDelivered(k)
    <3> DEFINE p == [part[k] EXCEPT !.final = TRUE, !.prevented = TRUE]
    <3>1. /\ p \in Parts /\ part' = [part EXCEPT ![k] = p]
          /\ p.attempted = part[k].attempted /\ p.known /\ p.final
          /\ p.inv = part[k].inv /\ (p.term # "none" => held[k].inv)
      BY <1>1, <1>2, <1>4, <2>2 DEF Parts, NeverDelivered
    <3> HIDE DEF p
    <3> QED BY <3>1
  <2> QED BY <2>1, <2>2
<1>6. /\ UNCHANGED <<thread, tried, receipts, proof, starts, unit, held, client, payload>>
      /\ UNCHANGED <<aborted, cancel, recovered, cancelled, saved, late, restarts>>
  BY DEF Finish, NeverDelivered, durable, world
<1>7. part'[k] = p /\ Only(k)
  BY <1>1, <1>5, <1>6 DEF Only
<1>8. StageOK(k)' /\ OwnOK(k)'
  BY <1>1, <1>2, <1>3, <1>5, <1>6, <1>7 DEF StageOK, OwnOK, Live
<1>9. /\ part' \in [Stages -> Parts] /\ held' \in [Stages -> [inv : BOOLEAN, stop : BOOLEAN]]
      /\ unit' \in [Stages -> Units] /\ client' \in [Stages -> {"none", "live", "exited"}]
      /\ payload' \in {"none", "whole", "short", "broken", "lost"}
  BY <1>1, <1>5, <1>6 DEF Inv, Types, TypeOK, Units
<1> QED BY <1>2, <1>6, <1>7, <1>8, <1>9, StageInv DEF Live

\* The manager starts what was queued; a unit ends.
LEMMA UnitInv ==
  ASSUME Inv, NEW k \in Stages, UnitStarts(k) \/ UnitEnds(k)
  PROVE  Inv'
<1>1. unit \in [Stages -> Units] /\ StageOK(k) /\ OwnOK(k)
  BY DEF Inv, Types, TypeOK, Units
<1>2. Live(k) /\ (UnitEnds(k) => unit[k] = "active") /\ (UnitStarts(k) => unit[k] = "queued")
  BY DEF UnitStarts, UnitEnds, Live
<1>3. PICK u \in Units : /\ unit' = [unit EXCEPT ![k] = u] /\ u # "absent" /\ u # "queued"
                         /\ u = "never" => unit[k] = "queued"
  BY <1>2 DEF UnitStarts, UnitEnds, Units
<1>4. /\ UNCHANGED <<thread, tried, receipts, proof, starts, part, held, client>>
      /\ UNCHANGED <<aborted, cancel, recovered, cancelled, saved, late, restarts>>
  BY DEF UnitStarts, UnitEnds, memory, durable
<1>5. /\ payload' \in {"none", "whole", "short", "broken", "lost"}
      /\ payload = "whole" => payload' = "whole"
  BY DEF UnitStarts, UnitEnds, Inv, Types, TypeOK
<1>6. unit'[k] = u /\ Only(k)
  BY <1>1, <1>3, <1>4 DEF Only
<1>7. StageOK(k)' /\ OwnOK(k)'
  BY <1>1, <1>2, <1>3, <1>4, <1>6 DEF StageOK, OwnOK, Live
<1>8. /\ part' \in [Stages -> Parts] /\ held' \in [Stages -> [inv : BOOLEAN, stop : BOOLEAN]]
      /\ unit' \in [Stages -> Units] /\ client' \in [Stages -> {"none", "live", "exited"}]
  BY <1>1, <1>3, <1>4 DEF Inv, Types, TypeOK, Units
<1> QED BY <1>2, <1>4, <1>5, <1>6, <1>7, <1>8, StageInv

-----------------------------------------------------------------------------
(* Attempts of a stage *)

\* What is so when a stage may be tried: it was not, and the one before is over.
LEMMA ReadyFacts ==
  ASSUME Inv, NEW k \in Stages, Ready(k), Untried(k)
  PROVE  /\ ~recovered /\ starts[k] = 0 /\ ~part[k].final
         /\ thread = IF k = 1 THEN "start" ELSE "watch"
         /\ k = 1 => tried = {}
         /\ k = 2 => part[1].final /\ part[1].term = "good"
         /\ k = 3 => part[2].final /\ 2 \in tried
         /\ \A s \in Stages : k < s => s \notin tried /\ starts[s] = 0
<1>1. ~recovered /\ k \notin tried /\ \A s \in Stages : starts[s] \in 0..1
  BY DEF Untried, Inv, Types, TypeOK
<1>2. \A s \in Stages : s \notin tried => starts[s] = 0 /\ ~part[s].final
  BY <1>1 DEF Inv, StageOK
<1>3. /\ 1 \in Stages /\ 2 \in Stages /\ 3 \in Stages /\ (k = 1 \/ k = 2 \/ k = 3)
      /\ \A s \in Stages : k < s => (s = 2 /\ k = 1) \/ (s = 3 /\ k = 1) \/ (s = 3 /\ k = 2)
  BY DEF Stages
<1>4. thread = IF k = 1 THEN "start" ELSE "watch"
  BY <1>3 DEF Ready
<1>5. k = 1 => tried = {}
  BY <1>1, <1>4 DEF Inv, ThreadOK
<1>6. k = 2 => part[1].final /\ part[1].term = "good" /\ 3 \notin tried
  BY <1>1 DEF Ready, Final, Inv, InOrder
<1>7. k = 3 => part[2].final /\ 2 \in tried
  BY <1>3 DEF Ready, Final, Inv, StageOK
<1> QED BY <1>1, <1>2, <1>3, <1>4, <1>5, <1>6, <1>7

\* Deliver and DeliverLost: the durable receipt, the attempt, and at most one
\* more queued unit while no other one is alive.
LEMMA DeliverInv ==
  ASSUME Inv, NEW k \in Stages, Deliver(k) \/ DeliverLost(k)
  PROVE  Inv'
<1>1. /\ part \in [Stages -> Parts] /\ unit \in [Stages -> Units] /\ starts \in [Stages -> 0..1]
      /\ client \in [Stages -> {"none", "live", "exited"}]
      /\ part[k] \in Parts /\ StageOK(k) /\ OwnOK(k)
  BY DEF Inv, Types, TypeOK, Units
<1>2. /\ ~recovered /\ starts[k] = 0 /\ ~part[k].final /\ ~cancelled
      /\ thread = IF k = 1 THEN "start" ELSE "watch"
      /\ k = 1 => tried = {}
      /\ k = 2 => part[1].final /\ part[1].term = "good"
      /\ k = 3 => part[2].final /\ 2 \in tried
      /\ \A s \in Stages : k < s => s \notin tried /\ starts[s] = 0
  BY ReadyFacts DEF Deliver, DeliverLost
<1>3. PICK u \in {"queued", "never"}, c \in {"live", "exited"} :
        unit' = [unit EXCEPT ![k] = u] /\ client' = [client EXCEPT ![k] = c]
  BY DEF Deliver, DeliverLost
<1>4. /\ tried' = tried \cup {k} /\ receipts' = receipts \cup {k} /\ thread' = "watch"
      /\ starts' = [starts EXCEPT ![k] = @ + 1]
      /\ UNCHANGED <<proof, held, payload>>
      /\ UNCHANGED <<aborted, cancel, recovered, cancelled, saved, late, restarts>>
  BY DEF Deliver, DeliverLost
<1> DEFINE p == [part[k] EXCEPT !.known = TRUE, !.attempted = TRUE]
<1>5. p \in Parts /\ part' = [part EXCEPT ![k] = p]
  BY <1>1 DEF Parts, Deliver, DeliverLost
<1>6. /\ p.attempted /\ p.known /\ p.final = part[k].final /\ p.inv = part[k].inv
      /\ p.term = part[k].term
  BY <1>1 DEF Parts
<1> HIDE DEF p
<1>7. part'[k] = p /\ unit'[k] = u /\ starts'[k] = 1 /\ Only(k)
  BY <1>1, <1>2, <1>3, <1>4, <1>5 DEF Only
<1>8. StageOK(k)' /\ OwnOK(k)'
  BY <1>1, <1>2, <1>4, <1>6, <1>7 DEF StageOK, OwnOK
<1>9. \A s \in Stages : StageOK(s)' /\ OwnOK(s)'
  BY <1>4, <1>7, <1>8, OnlyStage
<1>10. InOrder'
  <2>1. /\ 1 \in Stages /\ 2 \in Stages /\ 3 \in Stages /\ (k = 1 \/ k = 2 \/ k = 3)
        /\ \A s \in Stages : s = 1 \/ s = 2 \/ s = 3
    BY DEF Stages
  <2>2. 2 \in tried' => part'[1].final /\ part'[1].term = "good"
    BY <1>2, <1>4, <1>7, <2>1 DEF Inv, InOrder, Only
  <2>3. 3 \in tried' => part'[2].final /\ 2 \in tried'
    BY <1>2, <1>4, <1>7, <2>1 DEF Inv, InOrder, Only
  <2>4. starts'[3] = 1 => starts'[2] = 1
    <3>1. CASE k = 3
      <4>1. part[2].known /\ part[2].attempted /\ starts[2] = 1
        BY <1>2, <2>1, <3>1 DEF Inv, StageOK, OwnOK
      <4> QED BY <1>7, <2>1, <3>1, <4>1 DEF Only
    <3>2. CASE k # 3
      BY <1>2, <1>7, <2>1, <3>2 DEF Inv, InOrder, Only
    <3> QED BY <3>1, <3>2
  <2>5. ASSUME NEW s \in Stages, NEW t \in Stages, s < t, starts'[t] = 1
        PROVE  ~Live(s)'
    <3>1. s # k
      BY <1>2, <1>7, <2>5 DEF Only, Stages
    <3>2. ~Live(s)
      <4>1. CASE t # k
        BY <1>7, <2>5, <4>1 DEF Only, Inv, InOrder
      <4>2. CASE t = k
        <5>1. \A i \in Stages : part[i].final => ~Live(i)
          BY DEF Inv, StageOK
        <5>2. (k = 2 /\ s = 1) \/ (k = 3 /\ s = 2) \/ (k = 3 /\ s = 1)
          BY <2>1, <2>5, <4>2
        <5>3. k = 3 => part[1].final
          BY <1>2 DEF Inv, InOrder
        <5> QED BY <1>2, <2>1, <5>1, <5>2, <5>3
      <4> QED BY <4>1, <4>2
    <3> QED BY <1>7, <3>1, <3>2 DEF Only, Live
  <2> QED BY <2>2, <2>3, <2>4, <2>5 DEF InOrder
<1>11. Types'
  BY <1>1, <1>2, <1>3, <1>4, <1>5 DEF Inv, Types, TypeOK, Units
<1>12. ThreadOK' /\ ProofOK'
  BY <1>2, <1>4 DEF Inv, ThreadOK, ProofOK
<1>13. VerifiedIsReal'
  BY <1>2, <1>4 DEF Inv, VerifiedIsReal, ProofOK
<1> QED BY <1>9, <1>10, <1>11, <1>12, <1>13 DEF Inv

\* DeliverRefused: a stage that ends without a delivery.
LEMMA RefusedInv ==
  ASSUME Inv, NEW k \in Stages, DeliverRefused(k)
  PROVE  Inv'
<1>1. /\ part \in [Stages -> Parts] /\ unit \in [Stages -> Units] /\ starts \in [Stages -> 0..1]
      /\ part[k] \in Parts /\ StageOK(k) /\ OwnOK(k)
  BY DEF Inv, Types, TypeOK, Units
<1>2. /\ ~recovered /\ starts[k] = 0 /\ ~part[k].final /\ cancelled
      /\ thread = IF k = 1 THEN "start" ELSE "watch"
      /\ k = 1 => tried = {}
      /\ k = 2 => part[1].final /\ part[1].term = "good"
      /\ k = 3 => part[2].final /\ 2 \in tried
      /\ \A s \in Stages : k < s => s \notin tried /\ starts[s] = 0
  BY ReadyFacts DEF DeliverRefused
<1>3. /\ tried' = tried \cup {k} /\ thread' = "watch"
      /\ UNCHANGED <<receipts, proof, unit, held, client, starts, payload>>
      /\ UNCHANGED <<aborted, cancel, recovered, cancelled, saved, late, restarts>>
  BY DEF DeliverRefused, durable, world
<1> DEFINE p == [part[k] EXCEPT !.known = TRUE, !.prevented = TRUE, !.final = TRUE]
<1>4. p \in Parts /\ part' = [part EXCEPT ![k] = p]
  BY <1>1 DEF Parts, DeliverRefused
<1>5. /\ p.attempted = part[k].attempted /\ p.known /\ p.final /\ p.inv = part[k].inv
      /\ p.term = part[k].term
  BY <1>1 DEF Parts
<1> HIDE DEF p
<1>6. part'[k] = p /\ Only(k)
  BY <1>1, <1>3, <1>4 DEF Only
<1>7. StageOK(k)' /\ OwnOK(k)'
  BY <1>1, <1>2, <1>3, <1>5, <1>6 DEF StageOK, OwnOK, Live
<1>8. \A s \in Stages : StageOK(s)' /\ OwnOK(s)'
  BY <1>3, <1>6, <1>7, OnlyStage
<1>9. InOrder'
  <2>1. /\ 1 \in Stages /\ 2 \in Stages /\ 3 \in Stages /\ (k = 1 \/ k = 2 \/ k = 3)
    BY DEF Stages
  <2>2. 2 \in tried' => part'[1].final /\ part'[1].term = "good"
    BY <1>2, <1>3, <1>6, <2>1 DEF Inv, InOrder, Only
  <2>3. 3 \in tried' => part'[2].final /\ 2 \in tried'
    BY <1>2, <1>3, <1>6, <2>1 DEF Inv, InOrder, Only
  <2> QED BY <1>3, <2>2, <2>3 DEF Inv, InOrder, Live
<1>10. Types'
  BY <1>1, <1>3, <1>4 DEF Inv, Types, TypeOK, Units
<1>11. ThreadOK' /\ ProofOK' /\ VerifiedIsReal'
  BY <1>2, <1>3 DEF Inv, ThreadOK, ProofOK, VerifiedIsReal, Live
<1> QED BY <1>8, <1>9, <1>10, <1>11 DEF Inv

\* DeliverFails: a transition that failed before the attempt; without the
\* first stage there is nothing to observe and the thread ends.
LEMMA FailsInv ==
  ASSUME Inv, NEW k \in Stages, DeliverFails(k)
  PROVE  Inv'
<1>1. /\ ~recovered /\ starts[k] = 0 /\ ~part[k].final
      /\ thread = IF k = 1 THEN "start" ELSE "watch"
      /\ k = 1 => tried = {}
      /\ k = 2 => part[1].final /\ part[1].term = "good"
      /\ k = 3 => part[2].final /\ 2 \in tried
      /\ \A s \in Stages : k < s => s \notin tried /\ starts[s] = 0
  BY ReadyFacts DEF DeliverFails
<1>2. /\ tried' = tried \cup {k} /\ Parked
      /\ UNCHANGED <<aborted, cancel, cancelled, saved, late, client, payload, restarts>>
  BY DEF DeliverFails, durable, world, Parked
<1>3. \A s \in Stages : StageOK(s)' /\ OwnOK(s)'
  BY <1>2 DEF Inv, Parked, StageOK, OwnOK, Live
<1>4. InOrder'
  <2>1. k = 1 \/ k = 2 \/ k = 3
    BY DEF Stages
  <2> QED BY <1>1, <1>2, <2>1 DEF Inv, InOrder, Parked, Live
<1>5. CASE k = 1
  <2>1. thread' = "ended" /\ proof' \in Proofs /\ ~proof'.verified
    <3> DEFINE q == [NoProof EXCEPT !.state = "EXITED", !.prevented = TRUE, !.collectors = TRUE]
    <3>1. NoProof \in Proofs /\ ~NoProof.verified /\ q \in Proofs /\ ~q.verified
      BY DEF NoProof, Proofs
    <3>2. thread' = "ended" /\ (proof' = NoProof \/ proof' = q)
      BY <1>5 DEF DeliverFails
    <3> HIDE DEF q
    <3> QED BY <3>1, <3>2
  <2>2. \A s \in Stages : ~Live(s)
    <3>1. \A s \in Stages : starts[s] # 1
      BY <1>1, <1>5 DEF Inv, StageOK
    <3> QED BY <3>1, AbsentQuiet
  <2>3. Types'
    BY <1>2, <2>1 DEF Inv, Types, TypeOK, Parked, Proofs
  <2>4. ThreadOK' /\ ProofOK' /\ VerifiedIsReal'
    BY <1>1, <1>2, <2>1, <2>2 DEF ThreadOK, ProofOK, VerifiedIsReal, Parked, Live
  <2> QED BY <1>3, <1>4, <2>3, <2>4 DEF Inv
<1>6. CASE k # 1
  <2>1. UNCHANGED <<thread, proof>> /\ thread = "watch"
    BY <1>1, <1>6 DEF DeliverFails
  <2>2. Types'
    BY <1>2, <2>1 DEF Inv, Types, TypeOK, Parked
  <2>3. ThreadOK' /\ ProofOK' /\ VerifiedIsReal'
    BY <1>1, <1>2, <2>1 DEF Inv, ThreadOK, ProofOK, VerifiedIsReal, Parked, Live
  <2> QED BY <1>3, <1>4, <2>2, <2>3 DEF Inv
<1> QED BY <1>5, <1>6

-----------------------------------------------------------------------------
(* A new broker process *)

\* Restart: the handle, the pipes and the proof are lost, the units are not.
LEMMA RestartInv ==
  ASSUME RunnerAssumption, Inv, Restart
  PROVE  Inv'
<1>1. /\ part' = [s \in Stages |-> NewPart] /\ recovered' /\ tried' = Stages
      /\ thread' = "gate" /\ proof' = NoProof /\ payload' = "lost"
      /\ aborted' = FALSE /\ recovered' = TRUE /\ cancel' = cancelled
      /\ UNCHANGED <<cancelled, receipts, saved, late, unit, held, starts>>
      /\ client' = [s \in Stages |-> IF client[s] = "live" THEN "exited" ELSE client[s]]
      /\ restarts' = restarts + 1 /\ restarts < MaxRestarts
  BY DEF Restart, durable
<1>2. NewPart \in Parts /\ NoProof \in Proofs /\ ~NewPart.final /\ ~NewPart.attempted
      /\ ~NewPart.inv /\ NewPart.term = "none" /\ NoProof.state = "UNKNOWN" /\ ~NoProof.verified
  BY DEF NewPart, Parts, NoProof, Proofs
<1>3. \A s \in Stages : StageOK(s)' /\ OwnOK(s)'
  <2> SUFFICES ASSUME NEW s \in Stages PROVE StageOK(s)' /\ OwnOK(s)'
    OBVIOUS
  <2>1. part'[s] = NewPart /\ StageOK(s)
    BY <1>1 DEF Inv
  <2> QED BY <1>1, <1>2, <2>1 DEF StageOK, OwnOK, Live
<1>4. InOrder'
  BY <1>1 DEF Inv, InOrder, Live
<1>5. Types'
  <2>1. aborted' \in BOOLEAN /\ recovered' \in BOOLEAN /\ cancel' \in BOOLEAN
        /\ cancelled' \in BOOLEAN /\ late' \in BOOLEAN
    BY <1>1 DEF Inv, Types, TypeOK
  <2>2. restarts' \in 0..MaxRestarts
    BY <1>1 DEF Inv, Types, TypeOK, RunnerAssumption
  <2>3. part' \in [Stages -> Parts] /\ proof' \in Proofs /\ proof'.state \in {"UNKNOWN", "EXITED"}
    BY <1>1, <1>2
  <2>4. client' \in [Stages -> {"none", "live", "exited"}]
    BY <1>1 DEF Inv, Types, TypeOK
  <2>5. /\ receipts' \subseteq Stages /\ tried' \subseteq Stages /\ saved' \subseteq Stages
        /\ unit' \in [Stages -> Units] /\ starts' \in [Stages -> 0..1]
        /\ held' \in [Stages -> [inv : BOOLEAN, stop : BOOLEAN]]
    BY <1>1 DEF Inv, Types, TypeOK, Units
  <2> QED BY <1>1, <2>1, <2>2, <2>3, <2>4, <2>5 DEF Types, TypeOK, Units
<1>6. ThreadOK' /\ ProofOK' /\ VerifiedIsReal'
  BY <1>1, <1>2 DEF ThreadOK, ProofOK, VerifiedIsReal
<1> QED BY <1>3, <1>4, <1>5, <1>6 DEF Inv

\* Attach: what the saved handle names is what the gateway holds.
LEMMA AttachInv ==
  ASSUME Inv, Attach
  PROVE  Inv'
<1> DEFINE p(s) == [NewPart EXCEPT !.known = TRUE, !.inv = s \in saved]
<1>1. /\ part' = [s \in Stages |-> p(s)] /\ thread' = "watch" /\ thread = "attach"
      /\ UNCHANGED <<aborted, cancel, tried, recovered, cancelled, receipts, saved, proof>>
      /\ UNCHANGED <<late, unit, held, client, payload, starts, restarts>>
  BY DEF Attach, durable, world
<1>2. \A s \in Stages : /\ p(s) \in Parts /\ ~p(s).final /\ ~p(s).attempted
                        /\ p(s).inv => s \in saved
                        /\ p(s).term = "none"
  <2> SUFFICES ASSUME NEW s \in Stages
               PROVE  /\ p(s) \in Parts /\ ~p(s).final /\ ~p(s).attempted
                      /\ p(s).inv => s \in saved
                      /\ p(s).term = "none"
    OBVIOUS
  <2>1. CASE s \in saved
    <3>1. p(s) = [NewPart EXCEPT !.known = TRUE, !.inv = TRUE]
      BY <2>1
    <3> QED BY <2>1, <3>1 DEF NewPart, Parts
  <2>2. CASE s \notin saved
    <3>1. (s \in saved) = FALSE
      BY <2>2
    <3>2. p(s) = [NewPart EXCEPT !.known = TRUE, !.inv = FALSE]
      BY <3>1, Zenon
    <3> QED BY <3>2 DEF NewPart, Parts
  <2> QED BY <2>1, <2>2
<1> HIDE DEF p
<1>3. \A s \in Stages : StageOK(s)'
  <2> SUFFICES ASSUME NEW s \in Stages PROVE StageOK(s)'
    OBVIOUS
  <2>1. part'[s] = p(s) /\ StageOK(s)
    BY <1>1 DEF Inv
  <2> QED BY <1>1, <1>2, <2>1 DEF StageOK, Live
<1>4. recovered
  BY <1>1 DEF Inv, ThreadOK
<1>5. (\A s \in Stages : OwnOK(s)') /\ InOrder'
  BY <1>1, <1>4 DEF OwnOK, Inv, InOrder, Live
<1>6. Types'
  BY <1>1, <1>2 DEF Inv, Types, TypeOK
<1>7. ThreadOK' /\ ProofOK' /\ VerifiedIsReal'
  BY <1>1, <1>4 DEF Inv, ThreadOK, ProofOK, VerifiedIsReal, Live
<1> QED BY <1>3, <1>5, <1>6, <1>7 DEF Inv

-----------------------------------------------------------------------------
(* The theorems *)

\* Nothing was delivered yet.
LEMMA InitInv ==
  ASSUME RunnerAssumption, Init
  PROVE  Inv
<1>1. /\ NewPart \in Parts /\ ~NewPart.final /\ ~NewPart.attempted /\ ~NewPart.known
      /\ ~NewPart.inv /\ NewPart.term = "none"
      /\ NoProof \in Proofs /\ NoProof.state = "UNKNOWN" /\ ~NoProof.verified
  BY DEF NewPart, Parts, NoProof, Proofs
<1>2. Types
  <2>1. aborted \in BOOLEAN /\ recovered \in BOOLEAN /\ cancel \in BOOLEAN
        /\ cancelled \in BOOLEAN /\ late \in BOOLEAN
    BY DEF Init
  <2>2. restarts \in 0..MaxRestarts /\ starts \in [Stages -> 0..1]
    BY DEF Init, RunnerAssumption
  <2>3. part \in [Stages -> Parts] /\ proof \in Proofs /\ proof.state \in {"UNKNOWN", "EXITED"}
    BY <1>1 DEF Init
  <2>4. held \in [Stages -> [inv : BOOLEAN, stop : BOOLEAN]]
    BY DEF Init
  <2>5. /\ receipts \subseteq Stages /\ tried \subseteq Stages /\ saved \subseteq Stages
        /\ unit \in [Stages -> Units] /\ client \in [Stages -> {"none", "live", "exited"}]
        /\ thread = "none" /\ payload = "none"
    BY DEF Init, Units
  <2> QED BY <2>1, <2>2, <2>3, <2>4, <2>5 DEF Types, TypeOK, Units
<1>3. \A s \in Stages : StageOK(s) /\ OwnOK(s)
  BY <1>1 DEF Init, StageOK, OwnOK
<1>4. InOrder /\ ThreadOK /\ ProofOK /\ VerifiedIsReal
  BY <1>1 DEF Init, InOrder, ThreadOK, ProofOK, VerifiedIsReal, Stages
<1> QED BY <1>2, <1>3, <1>4 DEF Inv

\* Every step of Next keeps the invariant.
LEMMA StepInv ==
  ASSUME RunnerAssumption, Inv, [Next]_vars
  PROVE  Inv'
<1>1. CASE Runner
  BY <1>1, ThreadInv, BesideInv, NothingTriedInv, ConcludeInv, ConcludeRecoveredInv DEF Runner
<1>2. CASE Restart \/ Attach
  BY <1>2, RestartInv, AttachInv
<1>3. CASE Cancel \/ PipeBreaks \/ Expire
  BY <1>3, BesideInv, PipeInv
<1>4. CASE \E s \in Stages : Stage(s)
  BY <1>4, DeliverInv, RefusedInv, FailsInv, ObserveInv, StopUnitInv, FinishInv DEF Stage
<1>5. CASE \E s \in Stages : World(s)
  BY <1>5, UnitInv, BesideInv DEF World
<1>6. CASE UNCHANGED vars
  <2>1. Parked /\ UNCHANGED <<tried, cancelled, saved, thread, aborted, cancel, proof, late,
                              client, payload, restarts>>
    BY <1>6 DEF vars, Parked
  <2>2. (\A s \in Stages : StageOK(s)' /\ OwnOK(s)') /\ InOrder'
    BY <2>1, ParkedStages
  <2>3. Types'
    BY <2>1 DEF Inv, Types, TypeOK, Parked
  <2>4. ThreadOK' /\ ProofOK' /\ VerifiedIsReal'
    BY <2>1 DEF Inv, ThreadOK, ProofOK, VerifiedIsReal, Parked, Live
  <2> QED BY <2>2, <2>3, <2>4 DEF Inv
<1> QED BY <1>1, <1>2, <1>3, <1>4, <1>5, <1>6 DEF Next

\* Inv is an invariant of the supervision of an execution (Runner).
THEOREM Invariance ==
  ASSUME RunnerAssumption
  PROVE  Spec => []Inv
<1>1. Init => Inv
  BY InitInv
<1>2. Inv /\ [Next]_vars => Inv'
  BY StepInv
<1> QED BY <1>1, <1>2, PTL DEF Spec

\* The variables keep their types.
THEOREM TypeCorrect ==
  ASSUME RunnerAssumption
  PROVE  Spec => []TypeOK
<1>1. Inv => TypeOK
  BY DEF Inv, Types
<1> QED BY <1>1, Invariance, PTL

\* A stage is given to the manager at most once, after its durable receipt,
\* over all exceptions, restarts and reattachments (_start, reattach).
THEOREM OneDelivery ==
  ASSUME RunnerAssumption
  PROVE  Spec => []DeliveredOnce
<1>1. Inv => DeliveredOnce
  BY DEF Inv, Types, TypeOK, StageOK, DeliveredOnce
<1> QED BY <1>1, Invariance, PTL

\* No two stages of an execution run together (inspect, observe).
THEOREM StagesAlone ==
  ASSUME RunnerAssumption
  PROVE  Spec => []StagesExclude
<1>1. Inv => StagesExclude
  <2> SUFFICES ASSUME Inv PROVE StagesExclude
    OBVIOUS
  <2> DEFINE A == {s \in Stages : unit[s] = "active"}
  <2>1. \A s \in Stages : unit[s] = "active" => Live(s) /\ starts[s] = 1
    BY DEF Inv, Types, TypeOK, StageOK, Live
  <2>2. \A s, t \in A : s = t
    BY <2>1 DEF Inv, InOrder, Stages
  <2>3. CASE A = {}
    BY <2>3, FS_EmptySet DEF StagesExclude
  <2>4. CASE A # {}
    <3>1. PICK a \in A : A = {a}
      BY <2>2, <2>4
    <3>2. Cardinality(A) = 1
      BY <3>1, FS_Singleton
    <3> QED BY <3>2 DEF StagesExclude
  <2> QED BY <2>3, <2>4
<1> QED BY <1>1, Invariance, PTL

\* An exit proof leaves nothing that runs or that the manager may still start.
THEOREM ExitFinal ==
  ASSUME RunnerAssumption
  PROVE  Spec => []ExitIsFinal
<1>1. Inv => ExitIsFinal
  BY DEF Inv, ProofOK, ExitIsFinal
<1> QED BY <1>1, Invariance, PTL

\* A verified result is the whole output of a reader that ended well, in the
\* process that delivered all three stages (_inspect_result_reader).
THEOREM VerifiedReal ==
  ASSUME RunnerAssumption
  PROVE  Spec => []VerifiedIsReal
<1>1. Inv => VerifiedIsReal
  BY DEF Inv
<1> QED BY <1>1, Invariance, PTL

\* A reattached handle (reattach) delivers nothing.
THEOREM ReattachOnlyObserves == Spec => [][ReattachDeliversNothing]_vars
<1>1. [Next]_vars => [ReattachDeliversNothing]_vars
  BY DEF Next, vars, Runner, Stage, World, Start, GateOpens, GateFails, Stop, CancelledEarly,
         Conclude, ConcludeRecovered, Save, Restart, Attach, Cancel, PipeBreaks, Expire, Deliver,
         DeliverLost, DeliverRefused, DeliverFails, Observe, StopUnit, Finish, NeverDelivered,
         UnitStarts, UnitEnds, ClientExits, Untried, world, ReattachDeliversNothing
<1> QED BY <1>1, PTL DEF Spec

\* Every execution of runner.py delivers each stage once and alone, and reports
\* an exit or a verified result only when that is so, whatever fails.
THEOREM StageSafetyHolds ==
  ASSUME RunnerAssumption
  PROVE  Spec => []StageSafety
<1>1. TypeOK /\ DeliveredOnce /\ StagesExclude /\ ExitIsFinal /\ VerifiedIsReal => StageSafety
  BY DEF StageSafety
<1> QED BY <1>1, TypeCorrect, OneDelivery, StagesAlone, ExitFinal, VerifiedReal, PTL
=============================================================================
