---------------------------- MODULE BrokerProofs ----------------------------
(***************************************************************************)
(* The delivery of start requests is safe for every set of jobs, rounds,   *)
(* principals and resources, every limit and every number of restarts.     *)
(* The argument: a delivery intent is durable before the request leaves    *)
(* and is never taken back, so an execution that was requested fails the   *)
(* guard for ever; and while the guard holds the fence nothing that it has *)
(* checked can change, because cancel, revoke and a refusal need the fence *)
(* and a late report of the coordinator changes neither.                   *)
(***************************************************************************)
EXTENDS Broker, FiniteSetTheorems, TLAPS

\* A row is well formed, an identity never admitted has the empty row, and a
\* row to be sealed has a frozen result.
RowOK(r) ==
  /\ r \in Record
  /\ r.lifecycle = "NONE" => r = NoRow
  /\ r.phase \in {"AWAITING_SEAL", "EVIDENCE"} => r.business_outcome # "NONE"

LedgerOK == \A k \in Rows : RowOK(ledger[k])

\* The snapshot may be old, but a result once frozen stays frozen.
ViewOK ==
  \A k \in Rows :
     view[k].phase = "AWAITING_SEAL" => ledger[k].business_outcome # "NONE"

\* Every request that left the service had a durable intent of its own.
StartsOK ==
  \A k \in Rows, p \in Phases :
     /\ starts[k][p] <= 1
     /\ starts[k][p] = 1 => p \in ledger[k].delivery_intents

\* What the guard has checked still holds while it holds the fence.
Permitted(k, p) ==
  /\ k \in Rows /\ p \in Phases
  /\ starts[k][p] = 0 /\ p \in ledger[k].delivery_intents
  /\ ~ledger[k].cancel_requested
  /\ OwnerOf(k) \notin revoked /\ k \in fresh

FenceOK ==
  /\ ~up => fence.op = "none"
  /\ fence.op = "deliver" => Permitted(fence.row, fence.phase)

Inv == TypeOK /\ LedgerOK /\ ViewOK /\ StartsOK /\ FenceOK

\* What no step but a call or the guard changes of a row.
Keeps(r, s) ==
  /\ s.delivery_intents = r.delivery_intents
  /\ s.cancel_requested = r.cancel_requested
  /\ r.business_outcome # "NONE" => s.business_outcome # "NONE"

-----------------------------------------------------------------------------
(* Rows *)

\* _unknown yields a well-formed row and touches neither intents nor cancel.
LEMMA UnknownRowOK ==
  ASSUME NEW r, RowOK(r)
  PROVE  RowOK(UnknownRow(r)) /\ Keeps(r, UnknownRow(r))
<1> DEFINE o == IF /\ r.phase \in {"AWAITING_SEAL", "EVIDENCE", "EXITED"}
                  /\ r.business_outcome # "NONE"
                THEN r.business_outcome ELSE "UNKNOWN"
           v == IF r.phase = "EVIDENCE" THEN "DURABILITY_UNKNOWN" ELSE r.evidence
<1>1. CASE r.lifecycle = "TERMINAL"
  BY <1>1 DEF UnknownRow, Keeps
<1>2. CASE r.lifecycle # "TERMINAL"
  <2>1. UnknownRow(r) = [r EXCEPT !.lifecycle = "RECONCILE_REQUIRED",
                                  !.outcome = o, !.evidence = v]
    BY <1>2 DEF UnknownRow
  <2>2. o \in Outcomes /\ v \in {"STAGING", "DURABILITY_UNKNOWN", "SEALED"}
    BY DEF RowOK, Record, Outcomes, Definite
  <2> HIDE DEF o, v
  <2> QED BY <2>1, <2>2 DEF RowOK, Keeps, Record, Lifecycles
<1> QED BY <1>1, <1>2

\* The reports of the runner are exits.
LEMMA ReportsAreExits ==
  ASSUME NEW k \in Rows
  PROVE  ExitReports(k) \subseteq Exits
<1>1. Prevented \in Exits /\ Orphaned \in Exits
  BY DEF Prevented, Orphaned, Exits, Outcomes, Definite, Flags
<1>2. ASSUME NEW p PROVE Observed(p) \subseteq Exits
  BY ReportedAssumption DEF Observed, Exits, Outcomes, Definite, Flags
<1> QED BY <1>1, <1>2 DEF ExitReports

\* Row r with a new phase, lifecycle, outcome, proof and evidence state, and a
\* frozen result and proof.
Over(r, phase, lifecycle, outcome, proof, evidence, frozen, frozen_proof) ==
  [r EXCEPT !.phase = phase, !.lifecycle = lifecycle, !.outcome = outcome,
            !.exit_proof = proof, !.evidence = evidence,
            !.business_outcome = frozen, !.business_exit_proof = frozen_proof]

Sound(r, phase, lifecycle, outcome, proof, evidence, frozen, frozen_proof) ==
  /\ RowOK(r)
  /\ phase \in AllPhases
  /\ lifecycle \in Lifecycles \ {"NONE"}
  /\ outcome \in Outcomes
  /\ proof \in SUBSET Flags
  /\ evidence \in {"STAGING", "DURABILITY_UNKNOWN", "SEALED"}
  /\ frozen \in Outcomes \cup {"NONE"}
  /\ frozen_proof \in SUBSET Flags
  /\ phase \in {"AWAITING_SEAL", "EVIDENCE"} \/ r.business_outcome # "NONE"
       => frozen # "NONE"

\* Such a row is well formed if a row to be sealed, and one that had a frozen
\* result, has a frozen result.
LEMMA OverOK ==
  ASSUME NEW r, NEW p, NEW l, NEW o, NEW x, NEW v, NEW b, NEW y,
         Sound(r, p, l, o, x, v, b, y)
  PROVE  /\ RowOK(Over(r, p, l, o, x, v, b, y))
         /\ Keeps(r, Over(r, p, l, o, x, v, b, y))
<1> DEFINE s == Over(r, p, l, o, x, v, b, y)
<1>1. s \in Record
  BY DEF Sound, RowOK, Record, Over
<1>2. /\ s.lifecycle = l /\ s.phase = p /\ s.business_outcome = b
      /\ s.delivery_intents = r.delivery_intents
      /\ s.cancel_requested = r.cancel_requested
  BY DEF Sound, RowOK, Record, Over
<1> HIDE DEF s
<1>3. RowOK(s) /\ Keeps(r, s)
  BY <1>1, <1>2 DEF Sound, RowOK, Keeps
<1> QED BY <1>3 DEF s

\* _complete yields a well-formed row, whatever exit is reported.
LEMMA CompletedRowOK ==
  ASSUME NEW r, RowOK(r), NEW e \in Exits
  PROVE  RowOK(CompletedRow(r, e)) /\ Keeps(r, CompletedRow(r, e))
<1>1. r \in Record /\ e.exit_proof \in SUBSET Flags
  BY DEF RowOK, Exits
<1>2. CASE r.phase = "EVIDENCE"
  <2> DEFINE l == IF Published(e) /\ r.business_outcome # "UNKNOWN"
                  THEN "TERMINAL" ELSE "RECONCILE_REQUIRED"
             v == IF Published(e) THEN "SEALED" ELSE "DURABILITY_UNKNOWN"
  <2>1. /\ l \in Lifecycles /\ l # "NONE" /\ v \in {"STAGING", "DURABILITY_UNKNOWN", "SEALED"}
        /\ r.business_outcome \in Outcomes /\ r.business_outcome # "NONE"
        /\ r.business_exit_proof \in SUBSET Flags /\ "EXITED" \in AllPhases
    BY <1>2 DEF RowOK, Record, Lifecycles, AllPhases
  <2>2. CompletedRow(r, e) =
          [r EXCEPT !.phase = "EXITED", !.lifecycle = l, !.outcome = r.business_outcome,
                    !.exit_proof = e.exit_proof, !.evidence = v]
    <3>1. CompletedRow(r, e) = SealRow(r, e)
      BY <1>2 DEF CompletedRow, PreflightPassed
    <3> QED BY <3>1 DEF SealRow
  <2> HIDE DEF l, v
  <2>3. CompletedRow(r, e) =
          Over(r, "EXITED", l, r.business_outcome, e.exit_proof, v,
               r.business_outcome, r.business_exit_proof)
    BY <1>1, <2>2 DEF Record, Over
  <2>4. Sound(r, "EXITED", l, r.business_outcome, e.exit_proof, v,
              r.business_outcome, r.business_exit_proof)
    BY <1>1, <2>1 DEF Sound
  <2> QED BY <2>3, <2>4, OverOK
<1>3. CASE r.phase # "EVIDENCE" /\ PreflightPassed(r, e)
  <2> DEFINE p == IF r.recovered THEN "EXITED" ELSE "PREFLIGHT_COMPLETE"
             l == IF r.recovered THEN "RECONCILE_REQUIRED" ELSE "RUNNING"
             o == IF r.recovered THEN "UNKNOWN" ELSE "PENDING"
  <2>1. /\ p \in AllPhases /\ p \notin {"AWAITING_SEAL", "EVIDENCE"}
        /\ l \in Lifecycles /\ l # "NONE" /\ o \in Outcomes
        /\ r.evidence \in {"STAGING", "DURABILITY_UNKNOWN", "SEALED"}
        /\ r.business_outcome \in Outcomes \cup {"NONE"}
        /\ r.business_exit_proof \in SUBSET Flags
    BY <1>1 DEF Record, Lifecycles, AllPhases, Outcomes
  <2>2. CompletedRow(r, e) = [r EXCEPT !.phase = p, !.lifecycle = l, !.outcome = o,
                                       !.exit_proof = e.exit_proof]
    BY <1>3 DEF CompletedRow, PassedRow
  <2> HIDE DEF p, l, o
  <2>3. CompletedRow(r, e) =
          Over(r, p, l, o, e.exit_proof, r.evidence,
               r.business_outcome, r.business_exit_proof)
    BY <1>1, <2>2 DEF Record, Over
  <2>4. Sound(r, p, l, o, e.exit_proof, r.evidence,
              r.business_outcome, r.business_exit_proof)
    BY <1>1, <2>1 DEF Sound
  <2> QED BY <2>3, <2>4, OverOK
<1>4. CASE r.phase # "EVIDENCE" /\ ~PreflightPassed(r, e)
  <2> DEFINE w == WillSeal(r, e)
             o == Verdict(r, e)
             p == IF w THEN "AWAITING_SEAL" ELSE "EXITED"
             l == IF w THEN "RUNNING"
                  ELSE IF "effects_checked" \in e.exit_proof THEN "TERMINAL"
                  ELSE "RECONCILE_REQUIRED"
             v == IF e.verified /\ ~e.published THEN "DURABILITY_UNKNOWN" ELSE r.evidence
             b == IF w THEN o ELSE r.business_outcome
             x == IF w THEN e.exit_proof ELSE r.business_exit_proof
  <2>1. o \in Outcomes
    BY DEF Verdict, Exits, Outcomes, Definite
  <2>2. o # "NONE"
    BY <2>1 DEF Outcomes, Definite
  <2>3. CompletedRow(r, e) = Over(r, p, l, o, e.exit_proof, v, b, x)
    BY <1>4 DEF CompletedRow, ExitRow, Over
  <2> HIDE DEF w, o
  <2>4. /\ p \in AllPhases /\ l \in Lifecycles /\ l # "NONE"
        /\ v \in {"STAGING", "DURABILITY_UNKNOWN", "SEALED"}
        /\ b \in Outcomes \cup {"NONE"} /\ x \in SUBSET Flags
        /\ p \in {"AWAITING_SEAL", "EVIDENCE"} \/ r.business_outcome # "NONE" => b # "NONE"
    BY <1>1, <2>1, <2>2 DEF Record, Lifecycles, AllPhases
  <2> HIDE DEF p, l, v, b, x
  <2>5. Sound(r, p, l, o, e.exit_proof, v, b, x)
    BY <1>1, <2>1, <2>4 DEF Sound
  <2> QED BY <2>3, <2>5, OverOK
<1> QED BY <1>2, <1>3, <1>4

\* The recovery barrier keeps intents and cancellations.
LEMMA BarrierRowOK ==
  ASSUME NEW r, RowOK(r)
  PROVE  RowOK(BarrierRow(r)) /\ Keeps(r, BarrierRow(r))
<1> DEFINE u == UnknownRow(r)
<1>1. RowOK(u) /\ Keeps(r, u)
  BY UnknownRowOK
<1>2. r.lifecycle # "NONE" => u.lifecycle # "NONE"
  BY DEF UnknownRow, RowOK, Record
<1>3. r.lifecycle \in {"NONE", "TERMINAL"} \/ r.phase = "QUEUED" => BarrierRow(r) = r
  BY DEF BarrierRow
<1>4. ~(r.lifecycle \in {"NONE", "TERMINAL"} \/ r.phase = "QUEUED") =>
        BarrierRow(r) = [u EXCEPT !.recovered = TRUE, !.barrier = r.handles,
                            !.exit_proof = IF r.phase \in Phases THEN {} ELSE @]
  BY DEF BarrierRow
<1>5. CASE r.lifecycle \in {"NONE", "TERMINAL"} \/ r.phase = "QUEUED"
  BY <1>3, <1>5 DEF Keeps
<1>6. CASE ~(r.lifecycle \in {"NONE", "TERMINAL"} \/ r.phase = "QUEUED")
  <2> DEFINE x == IF r.phase \in Phases THEN {} ELSE u.exit_proof
             s == [u EXCEPT !.recovered = TRUE, !.barrier = r.handles, !.exit_proof = x]
  <2>1. BarrierRow(r) = s
    BY <1>4, <1>6
  <2>2. u \in Record /\ r \in Record /\ u.lifecycle # "NONE"
    BY <1>1, <1>2, <1>6 DEF RowOK
  <2> HIDE DEF u
  <2>3. x \in SUBSET Flags /\ r.handles \in SUBSET Phases
    BY <2>2 DEF Record
  <2> HIDE DEF x
  <2>4. s \in Record
    BY <2>2, <2>3 DEF Record
  <2>5. /\ s.lifecycle = u.lifecycle /\ s.phase = u.phase /\ s.business_outcome = u.business_outcome
        /\ s.delivery_intents = u.delivery_intents /\ s.cancel_requested = u.cancel_requested
    BY <2>2 DEF Record
  <2> HIDE DEF s
  <2> QED BY <1>1, <2>1, <2>2, <2>4, <2>5 DEF RowOK, Keeps
<1> QED BY <1>5, <1>6

-----------------------------------------------------------------------------
(* Steps *)

\* The ledger and the leases stay well formed, and no row loses anything the
\* guard relies on.
LedgerStep ==
  /\ ledger' \in [Rows -> Record]
  /\ lease' \in [Resources -> Jobs \cup {Free}]
  /\ LedgerOK'
  /\ \A i \in Rows : Keeps(ledger[i], ledger'[i])

\* A transaction that writes a well-formed row keeping what the guard relies on
\* is such a step, whether it releases or not.
LEMMA CommitStep ==
  ASSUME Inv, NEW k \in Rows, NEW row, NEW free,
         RowOK(row), Keeps(ledger[k], row), Commit(k, row, free)
  PROVE  LedgerStep
<1>1. /\ ledger \in [Rows -> Record] /\ lease \in [Resources -> Jobs \cup {Free}]
      /\ \A i \in Rows : RowOK(ledger[i])
  BY DEF Inv, TypeOK, LedgerOK
<1>2. ledger' = [ledger EXCEPT ![k] = row] /\ row \in Record
  BY DEF Commit, RowOK
<1>3. ledger' \in [Rows -> Record]
  BY <1>1, <1>2
<1>4. \A i \in Rows : ledger'[i] = IF i = k THEN row ELSE ledger[i]
  BY <1>1, <1>2
<1>5. \A i \in Rows : RowOK(ledger'[i])
  BY <1>1, <1>4
<1>6. \A i \in Rows : Keeps(ledger[i], ledger'[i])
  BY <1>4 DEF Keeps
<1>7. lease' \in [Resources -> Jobs \cup {Free}]
  BY <1>1 DEF Commit, Released
<1> QED BY <1>3, <1>5, <1>6, <1>7 DEF LedgerStep, LedgerOK

\* A step that leaves the ledger and the leases alone is one, too.
LEMMA SameLedgerStep ==
  ASSUME Inv, UNCHANGED <<ledger, lease>>
  PROVE  LedgerStep
BY DEF Inv, TypeOK, LedgerOK, LedgerStep, Keeps

\* The step issues no request, takes no snapshot and grants no delivery.
Quiet ==
  /\ UNCHANGED <<starts, revoked>>
  /\ fresh' = fresh \/ (fence.op # "deliver" /\ fresh' \subseteq fresh)
  /\ fence' = fence \/ (fence' \in Fences /\ fence'.op # "deliver")
  /\ up' \/ fence'.op = "none"
  /\ view' = view \/ \E k \in Rows : view' = [view EXCEPT ![k] = NoView]

Memory ==
  /\ up' \in BOOLEAN /\ restarts' \in Nat
  /\ active' \in SUBSET Rows /\ recovering' \in SUBSET Rows
  /\ watch' \in [Rows -> Watches]
  /\ unit' \in [Rows -> [Phases -> {"none", "requested", "live", "gone", "lost"}]]

\* Such a step preserves the invariant.
LEMMA QuietStep ==
  ASSUME Inv, LedgerStep, Quiet, Memory
  PROVE  Inv'
<1>1. view' \in [Rows -> Views] /\
      \A i \in Rows : view'[i].phase = "AWAITING_SEAL" => view[i].phase = "AWAITING_SEAL"
  <2>1. NoView \in Views /\ NoView.phase # "AWAITING_SEAL"
    BY DEF NoView, Views, Lifecycles, AllPhases, Outcomes
  <2> QED BY <2>1 DEF Quiet, Inv, TypeOK
<1>2. TypeOK'
  BY <1>1 DEF Quiet, Memory, LedgerStep, Inv, TypeOK
<1>3. LedgerOK'
  BY DEF LedgerStep
<1>4. ViewOK'
  BY <1>1 DEF ViewOK, Inv, LedgerStep, Keeps
<1>5. StartsOK'
  BY DEF StartsOK, Inv, LedgerStep, Keeps, Quiet
<1>6. FenceOK'
  <2>1. ASSUME fence'.op = "deliver" PROVE Permitted(fence.row, fence.phase)'
    <3>1. fence' = fence /\ fence.op = "deliver" /\ fresh' = fresh
      BY <2>1 DEF Quiet
    <3> QED BY <3>1 DEF Inv, FenceOK, Permitted, Quiet, LedgerStep, Keeps, OwnerOf, ParentOf
  <2>2. ~up' => fence'.op = "none"
    BY DEF Quiet
  <2> QED BY <2>1, <2>2 DEF FenceOK
<1> QED BY <1>2, <1>3, <1>4, <1>5, <1>6 DEF Inv

-----------------------------------------------------------------------------
(* The coordinator *)

\* Reattachment, retried or refused.
LEMMA ReattachInv ==
  ASSUME Inv, NEW k \in Rows,
         TickReattach(k) \/ \E retry \in BOOLEAN : TickReattachFails(k, retry)
  PROVE  Inv'
<1>1. RowOK(ledger[k])
  BY DEF Inv, LedgerOK
<1>2. CASE TickReattach(k)
  <2>1. LedgerStep
    BY <1>2, SameLedgerStep DEF TickReattach, durable
  <2>2. Quiet /\ Memory
    BY <1>2 DEF TickReattach, At, Quiet, Memory, Inv, TypeOK, Watches, durable, units
  <2> QED BY <2>1, <2>2, QuietStep
<1>3. ASSUME NEW retry \in BOOLEAN, TickReattachFails(k, retry) PROVE Inv'
  <2>1. LedgerStep
    BY <1>1, <1>3, UnknownRowOK, CommitStep DEF TickReattachFails
  <2>2. NoWatch \in Watches
    BY DEF NoWatch, Watches, AllPhases
  <2>3. Quiet /\ Memory
    BY <1>3, <2>2 DEF TickReattachFails, At, Handled, Quiet, Memory, Inv, TypeOK, units
  <2> QED BY <2>1, <2>3, QuietStep
<1> QED BY <1>2, <1>3

\* Reports that change nothing, or only uncertainty.
LEMMA ReportInv ==
  ASSUME Inv, NEW k \in Rows, TickRunning(k) \/ TickUnknown(k) \/ TickDeferred(k)
  PROVE  Inv'
<1>1. RowOK(ledger[k])
  BY DEF Inv, LedgerOK
<1>2. CASE TickUnknown(k)
  <2>1. LedgerStep
    BY <1>1, <1>2, UnknownRowOK, CommitStep DEF TickUnknown
  <2>2. Quiet /\ Memory
    BY <1>2 DEF TickUnknown, At, Handled, Quiet, Memory, Inv, TypeOK, units, service
  <2> QED BY <2>1, <2>2, QuietStep
<1>3. CASE TickRunning(k) \/ TickDeferred(k)
  <2>1. LedgerStep
    BY <1>3, SameLedgerStep DEF TickRunning, TickDeferred, durable
  <2>2. Quiet /\ Memory
    BY <1>3 DEF TickRunning, TickDeferred, Starting, Unattended, At, Handled, Quiet, Memory,
                Inv, TypeOK, units, service, durable
  <2> QED BY <2>1, <2>2, QuietStep
<1> QED BY <1>2, <1>3

\* _complete.
LEMMA CompleteInv ==
  ASSUME Inv, NEW k \in Rows, NEW e \in ExitReports(k), TickComplete(k, e)
  PROVE  Inv'
<1>1. RowOK(ledger[k]) /\ e \in Exits
  BY ReportsAreExits DEF Inv, LedgerOK
<1>2. LedgerStep
  BY <1>1, CompletedRowOK, CommitStep DEF TickComplete
<1>3. NoWatch \in Watches
  BY DEF NoWatch, Watches, AllPhases
<1>4. Quiet /\ Memory
  BY <1>3 DEF TickComplete, At, Handled, Quiet, Memory, Inv, TypeOK, units
<1> QED BY <1>2, <1>4, QuietStep

\* A cancelled row is settled by the snapshot.
LEMMA CancelledInv ==
  ASSUME Inv, NEW k \in Rows, TickCancelled(k)
  PROVE  Inv'
<1> DEFINE r == ledger[k]
           certain == view[k].phase = "AWAITING_SEAL"
                        => "effects_checked" \in r.business_exit_proof
           sealing == view[k].phase = "AWAITING_SEAL"
           p == IF sealing THEN "EXITED" ELSE "CANCELLED_BEFORE_BUSINESS"
           l == IF certain THEN "TERMINAL" ELSE "RECONCILE_REQUIRED"
           o == IF sealing THEN r.business_outcome ELSE "CANCELLED"
           v == IF sealing THEN "STAGING" ELSE r.evidence
           row == Over(r, p, l, o, r.exit_proof, v, r.business_outcome,
                       r.business_exit_proof)
<1>1. RowOK(r) /\ r \in Record
  BY DEF Inv, LedgerOK, RowOK
<1>2. sealing => r.business_outcome # "NONE"
  BY DEF Inv, ViewOK
<1>3. Commit(k, row, certain)
  <2>1. CASE sealing
    BY <1>1, <2>1 DEF TickCancelled, Over, Record, Commit
  <2>2. CASE ~sealing
    BY <1>1, <2>2 DEF TickCancelled, Over, Record, Commit
  <2> QED BY <2>1, <2>2
<1>4. Sound(r, p, l, o, r.exit_proof, v, r.business_outcome, r.business_exit_proof)
  BY <1>1, <1>2 DEF Sound, Record, AllPhases, Lifecycles, Outcomes, Definite
<1>5. RowOK(row) /\ Keeps(r, row)
  <2> HIDE DEF p, l, o, v, r
  <2> QED BY <1>4, OverOK
<1>6. LedgerStep
  <2> HIDE DEF row, certain
  <2> QED BY <1>3, <1>5, CommitStep
<1>7. Quiet /\ Memory
  BY DEF TickCancelled, Unattended, At, Handled, Quiet, Memory, Inv, TypeOK, units, service
<1> QED BY <1>6, <1>7, QuietStep

\* _start refuses the row.
LEMMA RefusedInv ==
  ASSUME Inv, NEW k \in Rows, TickRefused(k)
  PROVE  Inv'
<1>1. RowOK(ledger[k])
  BY DEF Inv, LedgerOK
<1>2. LedgerStep
  BY <1>1, UnknownRowOK, CommitStep DEF TickRefused
<1>3. Quiet /\ Memory
  BY DEF TickRefused, Starting, Unattended, At, Handled, Quiet, Memory, Inv, TypeOK, units, service
<1> QED BY <1>2, <1>3, QuietStep

\* EXECUTION_INTENT: the phase of a row to be sealed is EVIDENCE only if the
\* snapshot saw it AWAITING_SEAL, hence frozen.
LEMMA IntentInv ==
  ASSUME Inv, NEW k \in Rows, TickIntent(k)
  PROVE  Inv'
<1> DEFINE r == ledger[k]
           p == NextPhase(k)
           row == [r EXCEPT !.phase = p, !.lifecycle = "RUNNING",
                            !.handles = @ \cup {p}, !.exit_proof = {}]
<1>1. RowOK(r) /\ r \in Record
  BY DEF Inv, LedgerOK, RowOK
<1>2. p \in Phases /\ (p = "EVIDENCE" => r.business_outcome # "NONE")
  BY DEF NextPhase, Phases, Inv, ViewOK
<1>3. p \in AllPhases /\ p # "AWAITING_SEAL"
  BY <1>2 DEF Phases, AllPhases
<1>4. Commit(k, row, FALSE) /\ fence' = [op |-> "start", row |-> k, phase |-> p]
  BY DEF TickIntent
<1> HIDE DEF p
<1>5. RowOK(row) /\ Keeps(r, row)
  BY <1>1, <1>2, <1>3 DEF RowOK, Keeps, Record, Lifecycles
<1>6. LedgerStep
  <2> HIDE DEF row
  <2> QED BY <1>4, <1>5, CommitStep
<1>7. fence' \in Fences /\ fence'.op # "deliver"
  BY <1>3, <1>4 DEF Fences
<1>8. Quiet /\ Memory
  BY <1>7 DEF TickIntent, Starting, Unattended, At, Handled, Quiet, Memory, Inv, TypeOK, units, service
<1> QED BY <1>6, <1>8, QuietStep

\* _budget_blocked.
LEMMA BudgetInv ==
  ASSUME Inv, NEW k \in Rows, TickBudgetBlocked(k)
  PROVE  Inv'
<1> DEFINE r == ledger[k]
           sealing == r.phase = "AWAITING_SEAL"
           unsent == r.phase = "QUEUED" /\ r.handles = {}
           x == IF sealing THEN r.business_exit_proof
                ELSE IF unsent THEN Checked ELSE r.exit_proof
           o == IF sealing THEN r.business_outcome
                ELSE IF "effects_checked" \in x THEN "FAILED" ELSE "UNKNOWN"
           certain == o # "UNKNOWN" /\ Checked \subseteq x
           l == IF certain THEN "TERMINAL" ELSE "RECONCILE_REQUIRED"
           row == Over(r, "EXITED", l, o, x, r.evidence, r.business_outcome,
                       r.business_exit_proof)
<1>1. RowOK(r) /\ r \in Record
  BY DEF Inv, LedgerOK, RowOK
<1>2. Commit(k, [r EXCEPT !.phase = "EXITED", !.outcome = o, !.exit_proof = x,
                          !.lifecycle = l], certain)
  BY DEF TickBudgetBlocked
<1>3. x \in SUBSET Flags
  BY <1>1 DEF Record, Checked, Exited, Flags
<1>4. o \in Outcomes
  <2> HIDE DEF x
  <2> QED BY <1>1 DEF RowOK, Record, Outcomes, Definite
<1>5. l \in Lifecycles \ {"NONE"}
  <2> HIDE DEF certain
  <2> QED BY DEF Lifecycles
<1>6. Sound(r, "EXITED", l, o, x, r.evidence, r.business_outcome, r.business_exit_proof)
  <2> HIDE DEF l, o, x
  <2> QED BY <1>1, <1>3, <1>4, <1>5 DEF Sound, Record, AllPhases
<1>7. RowOK(row) /\ Keeps(r, row)
  <2> HIDE DEF l, o, x, r
  <2> QED BY <1>6, OverOK
<1>8. Commit(k, row, certain)
  <2> HIDE DEF l, o, x, certain
  <2> QED BY <1>1, <1>2 DEF Over, Record, Commit
<1>9. LedgerStep
  <2> HIDE DEF row, certain
  <2> QED BY <1>7, <1>8, CommitStep
<1>10. Quiet /\ Memory
  BY DEF TickBudgetBlocked, Starting, Unattended, At, Handled, Quiet, Memory, Inv, TypeOK, units, service
<1> QED BY <1>9, <1>10, QuietStep

\* The snapshot, taken or given up: it sees a row AWAITING_SEAL only if its
\* result is frozen.
LEMMA SnapshotInv ==
  ASSUME Inv, TickRead \/ TickAbort
  PROVE  Inv'
<1>1. UNCHANGED <<ledger, lease, revoked, fresh, up, active, recovering, restarts,
                  fence, watch, unit, starts>>
  BY DEF TickRead, TickAbort, durable, service, units
<1>2. NoView \in Views /\ NoView.phase # "AWAITING_SEAL"
  BY DEF NoView, Views, Lifecycles, AllPhases, Outcomes
<1>3. Attended \in Views /\ Attended.phase # "AWAITING_SEAL"
  BY DEF Attended, NoView, Views, Lifecycles, AllPhases, Outcomes
<1>4. \A k \in Rows : ledger[k] \in Record /\ RowOK(ledger[k])
  BY DEF Inv, TypeOK, LedgerOK
<1> DEFINE copy(k) == [lifecycle |-> ledger[k].lifecycle, phase |-> ledger[k].phase,
                       outcome |-> ledger[k].outcome,
                       cancel_requested |-> ledger[k].cancel_requested]
<1>5. \A k \in Rows : copy(k) \in Views /\ copy(k).phase = ledger[k].phase
  BY <1>4 DEF Record, Views
<1>6. \E f : view' = [k \in Rows |-> f[k]] /\ \A k \in Rows : f[k] \in {NoView, Attended, copy(k)}
  <2>1. CASE TickAbort
    <3> WITNESS [k \in Rows |-> NoView]
    <3> QED BY <2>1 DEF TickAbort
  <2>2. CASE TickRead
    <3>1. view' = [k \in Rows |->
             IF k \in active \cup recovering THEN Attended
             ELSE IF k \in Admitted /\ Resumable(ledger[k])
                       /\ (ledger[k].cancel_requested \/ Startable(ledger[k]))
             THEN copy(k) ELSE NoView]
      BY <2>2 DEF TickRead
    <3> WITNESS view'
    <3> QED BY <3>1
  <2> QED BY <2>1, <2>2
<1> HIDE DEF copy
<1>7. view' \in [Rows -> Views]
  BY <1>2, <1>3, <1>5, <1>6
<1>8. \A k \in Rows : view'[k].phase = "AWAITING_SEAL" => ledger[k].phase = "AWAITING_SEAL"
  BY <1>2, <1>3, <1>5, <1>6
<1>9. ViewOK'
  BY <1>1, <1>4, <1>8 DEF ViewOK, RowOK
<1>10. TypeOK'
  BY <1>1, <1>7 DEF Inv, TypeOK
<1>11. LedgerOK' /\ StartsOK' /\ FenceOK'
  BY <1>1 DEF Inv, LedgerOK, StartsOK, FenceOK, Permitted, OwnerOf, ParentOf
<1> QED BY <1>9, <1>10, <1>11 DEF Inv

\* runner.start answers.
LEMMA StartReturnsInv ==
  ASSUME Inv, NEW k \in Rows, StartReturns(k)
  PROVE  Inv'
<1>1. RowOK(ledger[k]) /\ RowOK(UnknownRow(ledger[k]))
      /\ Keeps(ledger[k], UnknownRow(ledger[k])) /\ Keeps(ledger[k], ledger[k])
  BY UnknownRowOK DEF Inv, LedgerOK, Keeps
<1>2. NoFence \in Fences /\ NoFence.op = "none"
  BY DEF NoFence, Fences, AllPhases
<1>3. ASSUME NEW state \in {"queued", "prevented"}, NEW acked \in BOOLEAN,
             StartEnqueued(k, state, acked)
      PROVE  Inv'
  <2> DEFINE row == IF acked THEN ledger[k] ELSE UnknownRow(ledger[k])
  <2>1. RowOK(row) /\ Keeps(ledger[k], row) /\ Commit(k, row, FALSE)
    BY <1>1, <1>3 DEF StartEnqueued
  <2>2. LedgerStep
    <3> HIDE DEF row
    <3> QED BY <2>1, CommitStep
  <2>3. [state |-> state, phase |-> fence.phase] \in Watches
    BY DEF Inv, TypeOK, Fences, Watches
  <2>4. Quiet /\ Memory
    BY <1>2, <1>3, <2>3 DEF StartEnqueued, Quiet, Memory, Inv, TypeOK, units
  <2> QED BY <2>2, <2>4, QuietStep
<1>4. CASE StartFailed(k)
  <2>1. LedgerStep
    BY <1>1, <1>4, CommitStep DEF StartFailed
  <2>2. Quiet /\ Memory
    BY <1>2, <1>4 DEF StartFailed, Quiet, Memory, Inv, TypeOK, units, service
  <2> QED BY <2>1, <2>2, QuietStep
<1> QED BY <1>3, <1>4 DEF StartReturns

-----------------------------------------------------------------------------
(* Observers, the manager, crash and recovery *)

\* _guard_start: an execution without a delivery intent was never requested.
LEMMA GuardInv ==
  ASSUME Inv, NEW k \in Rows, GuardStart(k)
  PROVE  Inv'
<1> DEFINE r == ledger[k]
           p == watch[k].phase
           row == [r EXCEPT !.delivery_intents = @ \cup {p}]
<1>1. RowOK(r) /\ r \in Record /\ ledger \in [Rows -> Record]
  BY DEF Inv, LedgerOK, RowOK, TypeOK
<1>2. /\ r.phase = p /\ p \in r.handles /\ ~r.cancel_requested
      /\ p \notin r.delivery_intents
      /\ k \in fresh /\ OwnerOf(k) \notin revoked
  BY DEF GuardStart, GuardPasses
<1>3. p \in Phases /\ p \in AllPhases
  BY <1>1, <1>2 DEF Record, AllPhases
<1>4. /\ ledger' = [ledger EXCEPT ![k] = row] /\ lease' = lease
      /\ fence' = [op |-> "deliver", row |-> k, phase |-> p] /\ up
  BY DEF GuardStart, Commit, Idle
<1>5. UNCHANGED <<revoked, fresh, up, active, recovering, restarts, view, watch, unit, starts>>
  BY DEF GuardStart, service, units
<1>6. r.lifecycle # "NONE"
  BY <1>1, <1>2 DEF RowOK, NoRow
<1> HIDE DEF p
<1>7. /\ RowOK(row) /\ row \in Record
      /\ row.delivery_intents = r.delivery_intents \cup {p}
      /\ row.business_outcome = r.business_outcome
      /\ row.cancel_requested = r.cancel_requested
  BY <1>1, <1>3, <1>6 DEF RowOK, Record
<1> HIDE DEF row
<1>8. ledger' \in [Rows -> Record] /\ \A i \in Rows : ledger'[i] = IF i = k THEN row ELSE ledger[i]
  BY <1>1, <1>4, <1>7
<1>9. LedgerOK'
  BY <1>7, <1>8 DEF Inv, LedgerOK
<1>10. fence' \in Fences
  BY <1>3, <1>4 DEF Fences
<1>11. TypeOK'
  BY <1>4, <1>5, <1>8, <1>10 DEF Inv, TypeOK
<1>12. ViewOK'
  BY <1>5, <1>7, <1>8 DEF Inv, ViewOK
<1>13. StartsOK'
  BY <1>5, <1>7, <1>8 DEF Inv, StartsOK
<1>14. starts[k][p] = 0
  <2>1. starts[k][p] <= 1 /\ starts[k][p] # 1 /\ starts[k][p] \in Nat
    BY <1>2, <1>3 DEF Inv, StartsOK, TypeOK
  <2> QED BY <2>1
<1>15. fence'.op = "deliver" /\ fence'.row = k /\ fence'.phase = p
  BY <1>4
<1>16. FenceOK'
  BY <1>2, <1>3, <1>4, <1>5, <1>7, <1>8, <1>14, <1>15 DEF FenceOK, Permitted, OwnerOf, ParentOf
<1> QED BY <1>9, <1>11, <1>12, <1>13, <1>16 DEF Inv

\* launch(): the one request of an execution.
LEMMA LaunchInv ==
  ASSUME Inv, NEW k \in Rows, Launch(k)
  PROVE  Inv'
<1> DEFINE p == fence.phase
<1>1. fence.op = "deliver" /\ fence.row = k /\ up
  BY DEF Launch
<1>2. Permitted(k, p)
  BY <1>1 DEF Inv, FenceOK
<1>3. NoFence \in Fences /\ NoFence.op = "none"
  BY DEF NoFence, Fences, AllPhases
<1>4. /\ starts' = [starts EXCEPT ![k][p] = @ + 1] /\ fence' = NoFence
      /\ unit' = [unit EXCEPT ![k][p] = "requested"]
      /\ watch' = [watch EXCEPT ![k].state = "watching"]
      /\ UNCHANGED <<ledger, lease, revoked, fresh, up, active, recovering, restarts, view>>
  BY DEF Launch, durable, service
<1>5. k \in Rows /\ p \in Phases /\ starts[k][p] = 0 /\ p \in ledger[k].delivery_intents
  BY <1>2 DEF Permitted
<1> HIDE DEF p
<1>6. starts \in [Rows -> [Phases -> Nat]]
  BY DEF Inv, TypeOK
<1>7. /\ starts' \in [Rows -> [Phases -> Nat]]
      /\ \A i \in Rows, q \in Phases :
           starts'[i][q] = IF i = k /\ q = p THEN 1 ELSE starts[i][q]
  BY <1>4, <1>5, <1>6
<1>8. unit' \in [Rows -> [Phases -> {"none", "requested", "live", "gone", "lost"}]]
  BY <1>4, <1>5 DEF Inv, TypeOK
<1>9. watch' \in [Rows -> Watches]
  BY <1>4 DEF Inv, TypeOK, Watches
<1>10. TypeOK'
  BY <1>3, <1>4, <1>7, <1>8, <1>9 DEF Inv, TypeOK
<1>11. StartsOK'
  BY <1>4, <1>5, <1>7 DEF Inv, StartsOK
<1>12. LedgerOK' /\ ViewOK' /\ FenceOK'
  BY <1>1, <1>3, <1>4 DEF Inv, LedgerOK, ViewOK, FenceOK
<1> QED BY <1>10, <1>11, <1>12 DEF Inv

\* Observers end, launches fail, units start and exit.
LEMMA ObserverInv ==
  ASSUME Inv, NEW k \in Rows, Observer(k) \/ \E phase \in Phases : Manager(k, phase)
  PROVE  Inv'
<1>1. NoFence \in Fences /\ NoFence.op = "none"
  BY DEF NoFence, Fences, AllPhases
<1>2. ASSUME NEW state \in {"prevented", "lost"}, ObserverEnds(k, state) PROVE Inv'
  <2>1. LedgerStep
    BY <1>2, SameLedgerStep DEF ObserverEnds, durable
  <2>2. Quiet /\ Memory
    BY <1>2 DEF ObserverEnds, Quiet, Memory, Inv, TypeOK, Watches, durable, service, units
  <2> QED BY <2>1, <2>2, QuietStep
<1>3. ASSUME NEW state \in {"prevented", "lost", "watching"}, LaunchFails(k, state) PROVE Inv'
  <2>1. LedgerStep
    BY <1>3, SameLedgerStep DEF LaunchFails, durable
  <2>2. Quiet /\ Memory
    BY <1>1, <1>3 DEF LaunchFails, Quiet, Memory, Inv, TypeOK, Watches, durable, service, units
  <2> QED BY <2>1, <2>2, QuietStep
<1>4. ASSUME NEW phase \in Phases, NEW from,
             NEW to \in {"live", "lost", "gone"}, Unit(k, phase, from, to)
      PROVE  Inv'
  <2>1. LedgerStep
    BY <1>4, SameLedgerStep DEF Unit, durable
  <2>2. Quiet /\ Memory
    BY <1>4 DEF Unit, Quiet, Memory, Inv, TypeOK, FenceOK, durable, service
  <2> QED BY <2>1, <2>2, QuietStep
<1> QED BY <1>2, <1>3, <1>4, GuardInv, LaunchInv DEF Observer, Manager

\* A crash loses the memory, not the ledger.
LEMMA CrashInv ==
  ASSUME Inv, NEW reboot \in BOOLEAN, Crash(reboot)
  PROVE  Inv'
<1>1. /\ up' = FALSE /\ active' = {} /\ recovering' = {} /\ fence' = NoFence
      /\ view' = [k \in Rows |-> NoView] /\ watch' = [k \in Rows |-> NoWatch]
      /\ restarts' = restarts + 1
      /\ UNCHANGED <<ledger, lease, revoked, fresh, starts>>
  BY DEF Crash, durable
<1>2. NoFence \in Fences /\ NoFence.op = "none"
  BY DEF NoFence, Fences, AllPhases
<1>3. NoView \in Views /\ NoView.phase # "AWAITING_SEAL" /\ NoWatch \in Watches
  BY DEF NoView, Views, NoWatch, Watches, Lifecycles, AllPhases, Outcomes
<1>4. unit' \in [Rows -> [Phases -> {"none", "requested", "live", "gone", "lost"}]]
  BY DEF Crash, Inv, TypeOK
<1>5. TypeOK'
  <2>1. restarts' \in Nat /\ view' \in [Rows -> Views] /\ watch' \in [Rows -> Watches]
    BY <1>1, <1>3 DEF Inv, TypeOK
  <2> QED BY <1>1, <1>2, <1>4, <2>1 DEF Inv, TypeOK
<1>6. ViewOK' /\ FenceOK'
  BY <1>1, <1>2, <1>3 DEF ViewOK, FenceOK
<1>7. LedgerOK' /\ StartsOK'
  BY <1>1 DEF Inv, LedgerOK, StartsOK
<1> QED BY <1>5, <1>6, <1>7 DEF Inv

\* Recovery records uncertainty in every row and issues nothing.
LEMMA RecoverInv ==
  ASSUME Inv, Restart
  PROVE  Inv'
<1> PICK attached \in SUBSET Reconnect, same \in BOOLEAN :
      \E retried \in SUBSET (Reconnect \ attached) : Recover(attached, retried, same)
  BY DEF Restart
<1> PICK retried \in SUBSET (Reconnect \ attached) : Recover(attached, retried, same)
  OBVIOUS
<1>1. \A k \in Rows : RowOK(ledger[k]) /\ ledger[k] \in Record
  BY DEF Inv, LedgerOK, RowOK
<1>2. ledger' = [k \in Rows |-> BarrierRow(ledger[k])]
  BY DEF Recover
<1>3. \A k \in Rows : /\ ledger'[k] = BarrierRow(ledger[k])
                       /\ RowOK(ledger'[k]) /\ Keeps(ledger[k], ledger'[k])
  BY <1>1, <1>2, BarrierRowOK
<1>4. ledger' \in [Rows -> Record]
  BY <1>2, <1>3 DEF RowOK
<1>5. LedgerStep
  BY <1>3, <1>4 DEF LedgerStep, LedgerOK, Recover, Inv, TypeOK
<1>6. watch' \in [Rows -> Watches]
  <2>1. NoWatch \in Watches
    BY DEF NoWatch, Watches, AllPhases
  <2>2. \A k \in Rows, st \in {"reattached", "pending"} :
          [state |-> st, phase |-> ledger[k].phase] \in Watches
    BY <1>1 DEF Record, Watches
  <2> QED BY <2>1, <2>2 DEF Recover
<1>7. Memory
  BY <1>6 DEF Memory, Recover, Reconnect, Inv, TypeOK, units
<1>8. Quiet
  BY DEF Quiet, Recover, Inv, FenceOK, units
<1> QED BY <1>5, <1>7, <1>8, QuietStep

-----------------------------------------------------------------------------
(* Calls *)

\* Admission: an identity never admitted was never requested, and no snapshot
\* holds a frozen result of it.
LEMMA AdmitInv ==
  ASSUME Inv, NEW k \in Rows, NEW j \in Jobs, fence.op = "none", up,
         ledger[k].lifecycle = "NONE",
         ledger' = [ledger EXCEPT ![k] = NewRow], lease' = Acquire(j),
         fresh' = fresh \cup {k},
         UNCHANGED <<revoked, service, view, fence, watch, units>>
  PROVE  Inv'
<1>1. ledger[k] = NoRow /\ ledger \in [Rows -> Record]
  BY DEF Inv, LedgerOK, RowOK, TypeOK
<1>2. /\ NewRow \in Record /\ NewRow.lifecycle = "ACCEPTED" /\ NewRow.phase = "QUEUED"
      /\ NoRow.delivery_intents = {} /\ NoRow.business_outcome = "NONE"
  BY DEF NewRow, NoRow, Record, Lifecycles, AllPhases, Outcomes
<1>3. RowOK(NewRow)
  BY <1>2 DEF RowOK
<1>4. /\ ledger' \in [Rows -> Record]
      /\ \A i \in Rows : ledger'[i] = IF i = k THEN NewRow ELSE ledger[i]
  BY <1>1, <1>2
<1>5. lease' \in [Resources -> Jobs \cup {Free}]
  BY DEF Acquire, Inv, TypeOK
<1>6. TypeOK'
  BY <1>4, <1>5 DEF Inv, TypeOK, service, units
<1>7. LedgerOK'
  BY <1>3, <1>4 DEF Inv, LedgerOK
<1>8. ViewOK'
  BY <1>1, <1>2, <1>4 DEF Inv, ViewOK
<1>9. StartsOK'
  BY <1>1, <1>2, <1>4 DEF Inv, StartsOK, units
<1>10. FenceOK'
  BY DEF FenceOK, service
<1> QED BY <1>6, <1>7, <1>8, <1>9, <1>10 DEF Inv

\* A cancellation or a revocation finds no permitted delivery on its way.
LEMMA WithdrawInv ==
  ASSUME Inv, fence.op = "none", up,
         ledger' \in [Rows -> Record], LedgerOK',
         \A i \in Rows : /\ ledger'[i].delivery_intents = ledger[i].delivery_intents
                         /\ ledger'[i].business_outcome = ledger[i].business_outcome,
         lease' \in [Resources -> Jobs \cup {Free}],
         revoked' \in SUBSET Principals, fresh' \in SUBSET Rows,
         UNCHANGED <<service, view, fence, watch, units>>
  PROVE  Inv'
<1>1. TypeOK'
  BY DEF Inv, TypeOK, service, units
<1>2. ViewOK' /\ StartsOK' /\ FenceOK'
  BY DEF Inv, ViewOK, StartsOK, FenceOK, service, units
<1> QED BY <1>1, <1>2 DEF Inv

\* cancel, of a queued row or of one that was started.
LEMMA CancelInv ==
  ASSUME Inv, NEW k \in Rows, Cancel(k)
  PROVE  Inv'
<1> DEFINE r == ledger[k]
<1>1. RowOK(r) /\ r \in Record /\ ledger \in [Rows -> Record] /\ r.lifecycle # "NONE"
  BY DEF Inv, LedgerOK, RowOK, TypeOK, Cancel, Nonterminal
<1>2. PICK row, free : /\ Commit(k, row, free) /\ RowOK(row)
                       /\ row.delivery_intents = r.delivery_intents
                       /\ row.business_outcome = r.business_outcome
  <2>1. CASE r.phase = "QUEUED"
    <3> DEFINE s == [r EXCEPT !.cancel_requested = TRUE, !.lifecycle = "TERMINAL",
                       !.outcome = "CANCELLED", !.phase = "CANCELLED_BEFORE_START",
                       !.exit_proof = Checked]
    <3>a. /\ Checked \in SUBSET Flags /\ "TERMINAL" \in Lifecycles
          /\ "CANCELLED" \in Outcomes /\ "CANCELLED_BEFORE_START" \in AllPhases
      BY DEF Lifecycles, AllPhases, Outcomes, Definite, Checked, Exited, Flags
    <3>b. s \in Record
      BY <1>1, <3>a DEF Record
    <3>1. RowOK(s) /\ s.delivery_intents = r.delivery_intents
          /\ s.business_outcome = r.business_outcome
      BY <1>1, <3>b DEF RowOK, Record
    <3>2. Commit(k, s, TRUE)
      BY <2>1 DEF Cancel
    <3> HIDE DEF s
    <3> QED BY <3>1, <3>2
  <2>2. CASE r.phase # "QUEUED"
    <3> DEFINE s == [r EXCEPT !.cancel_requested = TRUE]
    <3>1. RowOK(s) /\ s.delivery_intents = r.delivery_intents
          /\ s.business_outcome = r.business_outcome
      BY <1>1 DEF RowOK, Record
    <3>2. Commit(k, s, FALSE)
      BY <2>2 DEF Cancel
    <3> HIDE DEF s
    <3> QED BY <3>1, <3>2
  <2> QED BY <2>1, <2>2
<1>3. /\ ledger' \in [Rows -> Record]
      /\ \A i \in Rows : ledger'[i] = IF i = k THEN row ELSE ledger[i]
  BY <1>1, <1>2 DEF Commit, RowOK
<1>4. LedgerOK'
  BY <1>2, <1>3 DEF Inv, LedgerOK
<1>5. lease' \in [Resources -> Jobs \cup {Free}]
  BY <1>2 DEF Commit, Released, Inv, TypeOK
<1>6. /\ fence.op = "none" /\ up
      /\ UNCHANGED <<revoked, fresh, service, view, fence, watch, units>>
      /\ revoked \in SUBSET Principals /\ fresh \in SUBSET Rows
  BY DEF Cancel, Idle, Inv, TypeOK
<1>7. \A i \in Rows : /\ ledger'[i].delivery_intents = ledger[i].delivery_intents
                       /\ ledger'[i].business_outcome = ledger[i].business_outcome
  BY <1>2, <1>3
<1> QED BY <1>3, <1>4, <1>5, <1>6, <1>7, WithdrawInv

\* revoke.
LEMMA RevokeInv ==
  ASSUME Inv, NEW p \in Principals, Revoke(p)
  PROVE  Inv'
<1> DEFINE s(k) == IF Nonterminal(k) /\ OwnerOf(k) = p
                   THEN [ledger[k] EXCEPT !.cancel_requested = TRUE] ELSE ledger[k]
<1>1. \A k \in Rows : RowOK(ledger[k]) /\ ledger[k] \in Record
  BY DEF Inv, LedgerOK, RowOK
<1>2. \A k \in Rows : /\ RowOK(s(k)) /\ s(k) \in Record
                       /\ s(k).delivery_intents = ledger[k].delivery_intents
                       /\ s(k).business_outcome = ledger[k].business_outcome
  <2> TAKE k \in Rows
  <2> DEFINE t == [ledger[k] EXCEPT !.cancel_requested = TRUE]
  <2>1. RowOK(ledger[k]) /\ ledger[k] \in Record
    BY <1>1
  <2>2. /\ t \in Record /\ t.lifecycle = ledger[k].lifecycle /\ t.phase = ledger[k].phase
        /\ t.delivery_intents = ledger[k].delivery_intents
        /\ t.business_outcome = ledger[k].business_outcome
    BY <2>1 DEF Record
  <2> HIDE DEF t
  <2>3. t.lifecycle # "NONE" => RowOK(t)
    BY <2>1, <2>2 DEF RowOK
  <2>4. s(k) = ledger[k] \/ (s(k) = t /\ t.lifecycle # "NONE")
    BY <2>2 DEF Nonterminal, t
  <2> HIDE DEF s
  <2> QED BY <2>1, <2>2, <2>3, <2>4
<1>3. ledger' = [k \in Rows |-> s(k)]
  BY DEF Revoke
<1> HIDE DEF s
<1>4. /\ ledger' \in [Rows -> Record]
      /\ \A i \in Rows : /\ ledger'[i].delivery_intents = ledger[i].delivery_intents
                          /\ ledger'[i].business_outcome = ledger[i].business_outcome
  BY <1>2, <1>3
<1>5. LedgerOK'
  BY <1>2, <1>3 DEF LedgerOK
<1>6. /\ fence.op = "none" /\ up /\ lease' \in [Resources -> Jobs \cup {Free}]
      /\ revoked' \in SUBSET Principals /\ fresh' \in SUBSET Rows
      /\ UNCHANGED <<service, view, fence, watch, units>>
  BY DEF Revoke, Idle, Inv, TypeOK
<1> QED BY <1>4, <1>5, <1>6, WithdrawInv

\* complete_recovered_evidence.
LEMMA RecoveredEvidenceInv ==
  ASSUME Inv, NEW j \in Jobs, CompleteRecoveredEvidence(j)
  PROVE  Inv'
<1> DEFINE r == ledger[j]
           row == Over(r, "EXITED", "TERMINAL", r.outcome, Flags, "SEALED",
                       r.business_outcome, r.business_exit_proof)
<1>1. j \in Rows
  BY DEF Rows
<1>2. RowOK(r) /\ r \in Record
  BY <1>1 DEF Inv, LedgerOK, RowOK
<1>3. Commit(j, row, TRUE)
  BY <1>2 DEF CompleteRecoveredEvidence, Over, Record, Commit
<1>4. Sound(r, "EXITED", "TERMINAL", r.outcome, Flags, "SEALED",
            r.business_outcome, r.business_exit_proof)
  BY <1>2 DEF Sound, Record, AllPhases, Lifecycles
<1>5. RowOK(row) /\ Keeps(r, row)
  <2> HIDE DEF r
  <2> QED BY <1>4, OverOK
<1>6. LedgerStep
  <2> HIDE DEF row
  <2> QED BY <1>1, <1>3, <1>5, CommitStep
<1>7. Quiet /\ Memory
  BY DEF CompleteRecoveredEvidence, Idle, Quiet, Memory, Inv, TypeOK, units, service
<1> QED BY <1>6, <1>7, QuietStep

\* Every call of the API preserves the invariant.
LEMMA CallInv ==
  ASSUME Inv, Call
  PROVE  Inv'
<1>1. ASSUME NEW j \in Jobs, Submit(j) PROVE Inv'
  BY <1>1, AdmitInv DEF Submit, Idle, Rows
<1>2. ASSUME NEW c \in Reconciles, Reconcile(c) PROVE Inv'
  <2>1. Parent[c] \in Jobs
    BY ParentAssumption
  <2> QED BY <1>2, <2>1, AdmitInv DEF Reconcile, Idle, Rows
<1> QED BY <1>1, <1>2, CancelInv, RevokeInv, RecoveredEvidenceInv DEF Call

-----------------------------------------------------------------------------
(* Theorems *)

\* An empty ledger satisfies the invariant.
LEMMA InitInv == Init => Inv
<1> SUFFICES ASSUME Init PROVE Inv
  OBVIOUS
<1>1. NoRow \in Record /\ NoRow.phase = "QUEUED"
  BY DEF NoRow, Record, Lifecycles, AllPhases, Outcomes
<1>2. NoView \in Views /\ NoView.phase # "AWAITING_SEAL" /\ NoWatch \in Watches
  BY DEF NoView, Views, NoWatch, Watches, Lifecycles, AllPhases, Outcomes
<1>3. NoFence \in Fences /\ NoFence.op = "none"
  BY DEF NoFence, Fences, AllPhases
<1>4. TypeOK
  BY <1>1, <1>2, <1>3 DEF Init, TypeOK
<1>5. LedgerOK /\ ViewOK /\ StartsOK /\ FenceOK
  BY <1>1, <1>2, <1>3 DEF Init, LedgerOK, RowOK, ViewOK, StartsOK, FenceOK
<1> QED BY <1>4, <1>5 DEF Inv

\* Whatever tick does with a row preserves the invariant.
LEMMA TickRowInv ==
  ASSUME Inv, NEW k \in Rows, TickRow(k)
  PROVE  Inv'
BY ReattachInv, ReportInv, CompleteInv, CancelledInv, RefusedInv, IntentInv, BudgetInv
   DEF TickRow

\* The invariant is inductive.
LEMMA NextInv == Inv /\ [Next]_vars => Inv'
<1> SUFFICES ASSUME Inv, [Next]_vars PROVE Inv'
  OBVIOUS
<1>1. CASE UNCHANGED vars
  BY <1>1 DEF vars, Inv, TypeOK, LedgerOK, ViewOK, StartsOK, FenceOK, Permitted, OwnerOf, ParentOf
<1>2. CASE Next
  BY <1>2, CallInv, SnapshotInv, TickRowInv, StartReturnsInv, ObserverInv, CrashInv, RecoverInv
     DEF Next
<1> QED BY <1>1, <1>2

\* The strengthened invariant of intents, deliveries and frozen results.
THEOREM Invariance == Spec => []Inv
BY InitInv, NextInv, PTL DEF Spec

\* Ledger, leases, memory, observers and units keep their shape; in
\* particular a row is sealed only with the outcome of a frozen result.
THEOREM TypeCorrect == Spec => []TypeOK
<1>1. Inv => TypeOK
  BY DEF Inv
<1> QED BY <1>1, Invariance, PTL

\* The manager is asked at most once to start an execution, over any number
\* of crashes, late reports and retries (broker.py recover, _guard_start).
THEOREM StartedAtMostOnce == Spec => []AtMostOnce
<1>1. Inv => AtMostOnce
  BY DEF Inv, StartsOK, AtMostOnce
<1> QED BY <1>1, Invariance, PTL

\* Only launch issues a request.
LEMMA OnlyLaunchStarts ==
  ASSUME Inv, [Next]_vars, NEW k \in Rows, starts'[k] # starts[k]
  PROVE  Launch(k)
<1>1. ~UNCHANGED starts
  OBVIOUS
<1>2. ~Call /\ ~TickRead /\ ~TickAbort /\ ~Restart /\ ~UNCHANGED vars
  BY <1>1 DEF Call, Submit, CompleteRecoveredEvidence, Cancel, Reconcile, Revoke, TickRead,
     TickAbort, Restart, Recover, units, vars
<1>3. \A i \in Rows : ~TickRow(i) /\ ~StartReturns(i)
  BY <1>1 DEF TickRow, TickReattach, TickReattachFails, TickRunning, TickUnknown, TickComplete,
     TickCancelled, TickDeferred, TickRefused, TickIntent, TickBudgetBlocked, StartReturns,
     StartEnqueued, StartFailed, units
<1>4. \A i \in Rows, p \in Phases : ~Manager(i, p)
  BY <1>1 DEF Manager, Unit
<1>5. \A reboot \in BOOLEAN : ~Crash(reboot)
  BY <1>1 DEF Crash
<1>6. PICK i \in Rows : Observer(i)
  BY <1>2, <1>3, <1>4, <1>5 DEF Next
<1>7. Launch(i)
  BY <1>1, <1>6 DEF Observer, GuardStart, ObserverEnds, LaunchFails, units
<1>8. i = k
  <2>1. starts' = [starts EXCEPT ![i][fence.phase] = @ + 1] /\ starts \in [Rows -> [Phases -> Nat]]
    BY <1>7 DEF Launch, Inv, TypeOK
  <2> QED BY <2>1
<1> QED BY <1>7, <1>8

\* No request leaves the service once the row's cancellation or its
\* principal's revocation is committed, however the observer, the calls and
\* the coordinator interleave (broker.py _guard_start).
THEOREM CancelStopsStarts == Spec => NoStartAfterCancel
<1>1. ASSUME Inv, [Next]_vars, NEW k \in Rows, starts'[k] # starts[k]
      PROVE  ~ledger[k].cancel_requested /\ OwnerOf(k) \notin revoked /\ k \in fresh
  <2>1. Launch(k)
    BY <1>1, OnlyLaunchStarts
  <2> QED BY <1>1, <2>1 DEF Launch, Inv, FenceOK, Permitted
<1>2. Inv /\ [Next]_vars =>
        [\A k \in Rows : starts'[k] # starts[k] =>
           ~ledger[k].cancel_requested /\ OwnerOf(k) \notin revoked /\ k \in fresh]_vars
  BY <1>1
<1> QED BY <1>2, Invariance, PTL DEF Spec, NoStartAfterCancel

-----------------------------------------------------------------------------
(***************************************************************************)
(* The control state of the broker hangs together for every set of jobs    *)
(* and rounds, whatever crashes: a row that runs an execution, its         *)
(* observer, its unit and the thread that holds the fence all speak of the *)
(* same phase.                                                             *)
(*                                                                         *)
(* The argument: "Shape" and "Evidenced" say which rows state.py can hold; *)
(* "Fit" ties one row to the coordinator's memory (active, recovering,     *)
(* watch), to the manager (unit), to the fence and to the snapshot of the  *)
(* running tick.  Every action writes one row and one entry of each of     *)
(* these (Frame), so one row at a time is enough; crash, recovery, revoke  *)
(* and the reading of the snapshot touch all rows in the same way.  What   *)
(* the invariant buys: an execution that runs or can still be started is   *)
(* the phase its row is in (BusyIsInPhase), and hence not a settled one.   *)
(***************************************************************************)

\* What fields of a ledger row go together: an ACCEPTED row is QUEUED, a queued
\* row has no handles, a row in an execution has that execution's handle and no
\* exit proof, and a frozen result is the outcome until the row is at rest.
Shape(r) ==
  /\ r.lifecycle = "ACCEPTED" => r.phase = "QUEUED"
  /\ r.phase = "QUEUED" =>
       /\ r.handles = {} /\ r.exit_proof = {}
       /\ r.lifecycle \in {"NONE", "ACCEPTED", "RECONCILE_REQUIRED"}
  /\ r.phase \in Phases => r.phase \in r.handles /\ r.exit_proof = {}
  /\ r.phase \in Phases \cup {"PREFLIGHT_COMPLETE", "AWAITING_SEAL"} =>
       r.handles # {} /\ r.lifecycle \in {"RUNNING", "RECONCILE_REQUIRED"}
  /\ r.evidence = "SEALED" => r.phase = "EXITED"
  /\ r.delivery_intents \subseteq r.handles
  /\ r.business_outcome # "NONE" =>
       /\ r.outcome = r.business_outcome
       /\ r.phase \in {"AWAITING_SEAL", "EVIDENCE", "EXITED"}

\* What the exit proofs of a row show: a passed preflight is fully proved, and a
\* result was frozen from a proof that names its certainty.
Evidenced(r) ==
  /\ r.phase = "PREFLIGHT_COMPLETE" =>
       /\ Checked \subseteq r.exit_proof
       /\ r.outcome = "UNKNOWN" \/ r.lifecycle = "RUNNING"
  /\ r.business_outcome # "NONE" =>
       /\ Exited \subseteq r.business_exit_proof
       /\ r.business_outcome # "UNKNOWN" <=> "effects_checked" \in r.business_exit_proof
  /\ r.phase = "AWAITING_SEAL" => r.exit_proof = r.business_exit_proof
  /\ r.lifecycle = "TERMINAL" => r.outcome # "UNKNOWN"

\* Row s is row r with at most an uncertainty recorded.
Stays(r, s) ==
  /\ s.phase = r.phase /\ s.handles = r.handles
  /\ s.delivery_intents = r.delivery_intents
  /\ s.cancel_requested = r.cancel_requested
  /\ r.lifecycle = "TERMINAL" => s = r
  /\ r.lifecycle = "NONE" \/ s.lifecycle = r.lifecycle \/ s.lifecycle = "RECONCILE_REQUIRED"

\* _unknown keeps a row well formed, in its phase, and a TERMINAL row as it is.
LEMMA UnknownFields ==
  ASSUME NEW r, RowOK(r), Shape(r), Evidenced(r)
  PROVE  /\ Shape(UnknownRow(r)) /\ Evidenced(UnknownRow(r)) /\ Stays(r, UnknownRow(r))
<1> DEFINE o == IF /\ r.phase \in {"AWAITING_SEAL", "EVIDENCE", "EXITED"}
                  /\ r.business_outcome # "NONE"
                THEN r.business_outcome ELSE "UNKNOWN"
           v == IF r.phase = "EVIDENCE" THEN "DURABILITY_UNKNOWN" ELSE r.evidence
           s == UnknownRow(r)
<1>1. CASE r.lifecycle = "TERMINAL"
  BY <1>1 DEF UnknownRow, Stays
<1>2. CASE r.lifecycle # "TERMINAL"
  <2>1. s = [r EXCEPT !.lifecycle = "RECONCILE_REQUIRED", !.outcome = o, !.evidence = v]
    BY <1>2 DEF UnknownRow
  <2>2. /\ s.lifecycle = "RECONCILE_REQUIRED" /\ s.outcome = o /\ s.evidence = v
        /\ s.phase = r.phase /\ s.handles = r.handles /\ s.exit_proof = r.exit_proof
        /\ s.delivery_intents = r.delivery_intents
        /\ s.cancel_requested = r.cancel_requested
        /\ s.business_outcome = r.business_outcome
        /\ s.business_exit_proof = r.business_exit_proof
    <3> HIDE DEF s, o, v
    <3> QED BY <2>1 DEF RowOK, Record
  <2> HIDE DEF s
  <2>3. Shape(s)
    BY <2>2 DEF Shape
  <2>4. Evidenced(s)
    BY <2>2 DEF Evidenced, Shape
  <2>5. Stays(r, s)
    BY <1>2, <2>2 DEF Stays
  <2> QED BY <2>3, <2>4, <2>5 DEF s
<1> QED BY <1>1, <1>2

\* An exit report: the tree exited and cannot start again, and the outcome is
\* definite exactly if the effects were checked.
Good(e) ==
  /\ e \in Exits
  /\ Exited \subseteq e.exit_proof
  /\ e.outcome # "UNKNOWN" <=> "effects_checked" \in e.exit_proof

\* Whatever the runner reports of an execution is a report in this sense.
LEMMA ReportsAreGood ==
  ASSUME NEW k \in Rows, NEW e \in ExitReports(k)
  PROVE  Good(e)
<1>1. e \in Exits
  BY ReportsAreExits
<1>2. Good(Prevented) /\ Good(Orphaned)
  BY DEF Good, Prevented, Orphaned, Exits, Outcomes, Definite, Flags, Exited
<1>3. ASSUME NEW p, e \in Observed(p) PROVE Good(e)
  BY <1>1, <1>3, ReportedAssumption DEF Good, Observed, Flags, Exited
<1> QED BY <1>2, <1>3 DEF ExitReports

\* A row that leaves the execution or the queue it was in, and is TERMINAL
\* exactly if the transaction releases.
Settles(r, s, free) ==
  /\ s.phase \notin Phases \cup {"QUEUED"}
  /\ s.phase = "PREFLIGHT_COMPLETE" => r.phase = "PREFLIGHT"
  /\ s.handles = r.handles /\ s.delivery_intents = r.delivery_intents
  /\ r.cancel_requested => s.cancel_requested
  /\ s.lifecycle \in {"RUNNING", "RECONCILE_REQUIRED", "TERMINAL"}
  /\ s.lifecycle = "TERMINAL" <=> free
  /\ free => Checked \subseteq s.exit_proof \/ (r.lifecycle = "ACCEPTED" /\ r.cancel_requested)
  /\ r.lifecycle # "NONE"
  /\ r.lifecycle = "TERMINAL" => s.lifecycle = "TERMINAL" /\ s.outcome = r.outcome

\* _complete: an exit takes a row out of its execution, and it releases leases
\* exactly when the row becomes TERMINAL.
LEMMA CompletedFields ==
  ASSUME NEW r, RowOK(r), Shape(r), Evidenced(r), r.phase \in Phases, NEW e, Good(e)
  PROVE  /\ Shape(CompletedRow(r, e)) /\ Evidenced(CompletedRow(r, e))
         /\ Settles(r, CompletedRow(r, e), CompletionReleases(r, e))
<1> DEFINE s == CompletedRow(r, e)
           x == e.exit_proof
<1>1. /\ r \in Record /\ x \in SUBSET Flags /\ Exited \subseteq x
      /\ e.outcome # "UNKNOWN" <=> "effects_checked" \in x
      /\ r.handles # {} /\ r.evidence # "SEALED" /\ r.delivery_intents \subseteq r.handles
      /\ r.phase # "EVIDENCE" => r.business_outcome = "NONE"
      /\ r.lifecycle \notin {"NONE", "TERMINAL"}
  BY DEF RowOK, Good, Exits, Shape, Phases
<1>2. CASE r.phase = "EVIDENCE"
  <2> DEFINE l == IF Published(e) /\ r.business_outcome # "UNKNOWN"
                  THEN "TERMINAL" ELSE "RECONCILE_REQUIRED"
             v == IF Published(e) THEN "SEALED" ELSE "DURABILITY_UNKNOWN"
  <2>1. s = [r EXCEPT !.phase = "EXITED", !.lifecycle = l, !.outcome = r.business_outcome,
                      !.exit_proof = x, !.evidence = v]
    BY <1>2 DEF CompletedRow, PreflightPassed, SealRow
  <2>2. CompletionReleases(r, e) <=>
          Published(e) /\ "effects_checked" \in r.business_exit_proof
    BY <1>2 DEF CompletionReleases, PreflightPassed
  <2>3. Published(e) => "effects_checked" \in x
    BY <1>1 DEF Published
  <2>4. r.business_outcome # "NONE" /\ r.business_outcome \in Outcomes
    BY <1>1, <1>2 DEF RowOK, Record
  <2> HIDE DEF s, x
  <2>5. /\ s.phase = "EXITED" /\ s.lifecycle = l /\ s.outcome = r.business_outcome
        /\ s.exit_proof = x /\ s.evidence = v /\ s.handles = r.handles
        /\ s.delivery_intents = r.delivery_intents
        /\ s.cancel_requested = r.cancel_requested
        /\ s.business_outcome = r.business_outcome
        /\ s.business_exit_proof = r.business_exit_proof
    <3> HIDE DEF l, v
    <3> QED BY <1>1, <2>1 DEF Record
  <2>6. Shape(s)
    BY <1>1, <2>5 DEF Shape, Phases
  <2>7. Evidenced(s)
    BY <2>4, <2>5 DEF Evidenced
  <2>8. Settles(r, s, CompletionReleases(r, e))
    BY <1>1, <2>2, <2>3, <2>4, <2>5 DEF Settles, Evidenced, Checked, Phases
  <2> QED BY <2>6, <2>7, <2>8 DEF s
<1>3. CASE r.phase # "EVIDENCE" /\ PreflightPassed(r, e)
  <2> DEFINE p == IF r.recovered THEN "EXITED" ELSE "PREFLIGHT_COMPLETE"
             l == IF r.recovered THEN "RECONCILE_REQUIRED" ELSE "RUNNING"
             o == IF r.recovered THEN "UNKNOWN" ELSE "PENDING"
  <2>1. s = [r EXCEPT !.phase = p, !.lifecycle = l, !.outcome = o, !.exit_proof = x]
    BY <1>3 DEF CompletedRow, PassedRow
  <2>2. /\ ~CompletionReleases(r, e) /\ r.phase = "PREFLIGHT"
        /\ "effects_checked" \in x
    BY <1>3 DEF CompletionReleases, PreflightPassed
  <2> HIDE DEF s, x
  <2>3. /\ s.phase = p /\ s.lifecycle = l /\ s.outcome = o
        /\ s.exit_proof = x /\ s.evidence = r.evidence /\ s.handles = r.handles
        /\ s.delivery_intents = r.delivery_intents
        /\ s.cancel_requested = r.cancel_requested
        /\ s.business_outcome = r.business_outcome
        /\ s.business_exit_proof = r.business_exit_proof
    <3> HIDE DEF p, l, o
    <3> QED BY <1>1, <2>1 DEF Record
  <2>4. Shape(s)
    BY <1>1, <1>3, <2>3 DEF Shape, Phases
  <2>5. Evidenced(s)
    BY <1>1, <1>3, <2>2, <2>3 DEF Evidenced, Checked
  <2>6. Settles(r, s, CompletionReleases(r, e))
    BY <1>1, <2>2, <2>3 DEF Settles, Phases
  <2> QED BY <2>4, <2>5, <2>6 DEF s
<1>4. CASE r.phase # "EVIDENCE" /\ ~PreflightPassed(r, e)
  <2> DEFINE w == WillSeal(r, e)
             o == Verdict(r, e)
             p == IF w THEN "AWAITING_SEAL" ELSE "EXITED"
             l == IF w THEN "RUNNING"
                  ELSE IF "effects_checked" \in x THEN "TERMINAL"
                  ELSE "RECONCILE_REQUIRED"
             v == IF e.verified /\ ~e.published THEN "DURABILITY_UNKNOWN" ELSE r.evidence
             b == IF w THEN o ELSE r.business_outcome
             y == IF w THEN x ELSE r.business_exit_proof
  <2>1. o # "UNKNOWN" <=> "effects_checked" \in x
    BY <1>1 DEF Verdict
  <2>2. o \in Outcomes /\ o # "NONE"
    BY DEF Verdict, Good, Exits, Outcomes, Definite
  <2>3. s = Over(r, p, l, o, x, v, b, y)
    BY <1>4 DEF CompletedRow, ExitRow, Over
  <2>4. CompletionReleases(r, e) <=> ~w /\ "effects_checked" \in x
    BY <1>4 DEF CompletionReleases
  <2> HIDE DEF s, x, w, o
  <2>5. /\ s.phase = p /\ s.lifecycle = l /\ s.outcome = o
        /\ s.exit_proof = x /\ s.evidence = v /\ s.handles = r.handles
        /\ s.delivery_intents = r.delivery_intents
        /\ s.cancel_requested = r.cancel_requested
        /\ s.business_outcome = b
        /\ s.business_exit_proof = y
    <3> HIDE DEF p, l, v, b, y
    <3> QED BY <1>1, <2>3 DEF Record, Over
  <2>6. Shape(s)
    BY <1>1, <1>4, <2>5 DEF Shape, Phases
  <2>7. Evidenced(s)
    BY <1>1, <1>4, <2>1, <2>5 DEF Evidenced
  <2>8. Settles(r, s, CompletionReleases(r, e))
    BY <1>1, <2>4, <2>5 DEF Settles, Checked, Phases
  <2> QED BY <2>6, <2>7, <2>8 DEF s
<1> QED BY <1>2, <1>3, <1>4

\* The recovery barrier keeps a row well formed and in its phase.
LEMMA BarrierFields ==
  ASSUME NEW r, RowOK(r), Shape(r), Evidenced(r)
  PROVE  /\ Shape(BarrierRow(r)) /\ Evidenced(BarrierRow(r)) /\ Stays(r, BarrierRow(r))
         /\ r.lifecycle = "NONE" => BarrierRow(r) = r
<1> DEFINE u == UnknownRow(r)
           s == BarrierRow(r)
<1>1. RowOK(u) /\ Shape(u) /\ Evidenced(u) /\ Stays(r, u)
  BY UnknownRowOK, UnknownFields
<1>2. CASE r.lifecycle \in {"NONE", "TERMINAL"} \/ r.phase = "QUEUED"
  BY <1>2 DEF BarrierRow, Stays
<1>3. CASE ~(r.lifecycle \in {"NONE", "TERMINAL"} \/ r.phase = "QUEUED")
  <2>1. s = [u EXCEPT !.recovered = TRUE, !.barrier = r.handles,
                      !.exit_proof = IF r.phase \in Phases THEN {} ELSE @]
    BY <1>3 DEF BarrierRow
  <2> HIDE DEF u, s
  <2>2. /\ s.lifecycle = u.lifecycle /\ s.outcome = u.outcome /\ s.evidence = u.evidence
        /\ s.phase = u.phase /\ s.handles = u.handles
        /\ s.exit_proof = IF r.phase \in Phases THEN {} ELSE u.exit_proof
        /\ s.delivery_intents = u.delivery_intents
        /\ s.cancel_requested = u.cancel_requested
        /\ s.business_outcome = u.business_outcome
        /\ s.business_exit_proof = u.business_exit_proof
    BY <1>1, <2>1 DEF RowOK, Record
  <2>3. Shape(s)
    BY <1>1, <2>2 DEF Shape, Stays
  <2>4. Evidenced(s)
    BY <1>1, <2>2 DEF Evidenced, Stays, Phases
  <2>5. Stays(r, s)
    BY <1>1, <1>3, <2>2 DEF Stays
  <2> QED BY <1>3, <2>3, <2>4, <2>5 DEF s
<1> QED BY <1>2, <1>3

-----------------------------------------------------------------------------
\* The coordinator observes exactly the rows in its memory, each in the phase of
\* the row; a queued or prevented observer has not asked the manager.  The one
\* row it may outlive is an evidence helper lost with an earlier boot.
WatchFit(k) ==
  LET w == watch[k] IN
  /\ k \in recovering => w.state = "pending"
  /\ k \in active => w.state \notin {"none", "pending"}
  /\ w.state # "none" =>
       /\ k \in active \cup recovering
       /\ w.phase \in Phases
       /\ \/ ledger[k].phase = w.phase
          \/ ledger[k].lifecycle = "TERMINAL" /\ unit[k][w.phase] = "lost"
  /\ w.state \in {"queued", "prevented"} => unit[k][w.phase] = "none"

\* A unit exists only after a durable delivery intent, and one that is requested
\* or live belongs to the phase of its row.
UnitFit(k) ==
  \A p \in Phases :
    /\ unit[k][p] # "none" => p \in ledger[k].delivery_intents
    /\ unit[k][p] \in {"requested", "live"} => ledger[k].phase = p

\* A thread between two commits holds the fence for the phase its row is in:
\* _start for an unobserved row without a unit, the guard for a queued observer.
FenceFit(k) ==
  fence.op # "none" /\ fence.row = k =>
    /\ fence.phase \in Phases /\ ledger[k].phase = fence.phase
    /\ fence.op = "start" => k \notin active \cup recovering /\ unit[k][fence.phase] = "none"
    /\ fence.op = "deliver" => watch[k].state = "queued" /\ watch[k].phase = fence.phase

\* A snapshot of an unobserved row is still true of the row, or a cancel, or the
\* completion of recovered evidence, has made the row TERMINAL since.
ViewFit(k) ==
  LET v == view[k]
      r == ledger[k] IN
  /\ v.cancel_requested => Resumable(v)
  /\ Resumable(v) =>
       /\ up /\ k \notin active \cup recovering
       /\ ~(fence.op # "none" /\ fence.row = k)
       /\ v.lifecycle # "NONE" /\ v.phase \in {"QUEUED", "PREFLIGHT_COMPLETE", "AWAITING_SEAL"}
       /\ \/ /\ r.phase = v.phase /\ r.lifecycle = v.lifecycle /\ r.outcome = v.outcome
             /\ v.cancel_requested => r.cancel_requested
          \/ r.lifecycle = "TERMINAL" /\ r.cancel_requested /\ ~v.cancel_requested

\* A row is one that the ledger can hold.
Sane(k) == RowOK(ledger[k]) /\ Shape(ledger[k]) /\ Evidenced(ledger[k])
\* Everything outside the ledger agrees with the row.
Fit(k) == WatchFit(k) /\ UnitFit(k) /\ FenceFit(k) /\ ViewFit(k)

\* The inductive invariant of the control state.
Control ==
  /\ \A k \in Rows : Sane(k) /\ Fit(k)
  /\ fence.op # "none" => fence.row \in Rows

\* A step that concerns row k alone.
Frame(k) ==
  /\ \A i \in Rows \ {k} :
       /\ ledger'[i] = ledger[i] /\ view'[i] = view[i]
       /\ watch'[i] = watch[i] /\ unit'[i] = unit[i]
       /\ i \in active' <=> i \in active
       /\ i \in recovering' <=> i \in recovering
  /\ fence' = fence \/ fence'.op = "none" \/ fence'.row = k
  /\ up' = up

\* After a step that concerns one row only that row has to be looked at.
LEMMA FrameStep ==
  ASSUME Control, NEW k \in Rows, Frame(k), Sane(k)', Fit(k)'
  PROVE  Control'
<1>1. ASSUME NEW i \in Rows, i # k PROVE Sane(i)' /\ Fit(i)'
  <2>1. Sane(i) /\ Fit(i)
    BY <1>1 DEF Control
  <2>2. /\ ledger'[i] = ledger[i] /\ view'[i] = view[i]
        /\ watch'[i] = watch[i] /\ unit'[i] = unit[i]
        /\ i \in active' <=> i \in active
        /\ i \in recovering' <=> i \in recovering
        /\ fence' = fence \/ fence'.op = "none" \/ fence'.row # i
        /\ up' = up
    BY <1>1 DEF Frame
  <2>3. Sane(i)'
    BY <2>1, <2>2 DEF Sane
  <2>4. WatchFit(i)' /\ UnitFit(i)'
    BY <2>1, <2>2 DEF Fit, WatchFit, UnitFit
  <2>5. FenceFit(i)' /\ ViewFit(i)'
    BY <2>1, <2>2 DEF Fit, FenceFit, ViewFit
  <2> QED BY <2>3, <2>4, <2>5 DEF Fit
<1> QED BY <1>1 DEF Control, Frame

\* A row that tick has handled is not in the snapshot any more.
LEMMA HandledFit ==
  ASSUME NEW k \in Rows, view'[k] = NoView
  PROVE  ViewFit(k)'
BY DEF ViewFit, NoView, Resumable

\* A transaction writes one row.
LEMMA CommitRow ==
  ASSUME Inv, NEW k \in Rows, NEW row, NEW free, Commit(k, row, free)
  PROVE  ledger'[k] = row /\ \A i \in Rows \ {k} : ledger'[i] = ledger[i]
BY DEF Commit, Inv, TypeOK

\* Handling a row takes it, and no other one, off the snapshot.
LEMMA HandledRow ==
  ASSUME Inv, NEW k \in Rows, Handled(k)
  PROVE  view'[k] = NoView /\ \A i \in Rows \ {k} : view'[i] = view[i]
BY DEF Handled, Inv, TypeOK

\* An observer that changes its state changes nothing else.
LEMMA WatchRow ==
  ASSUME Inv, NEW k \in Rows, NEW s, watch' = [watch EXCEPT ![k].state = s]
  PROVE  /\ watch'[k].state = s /\ watch'[k].phase = watch[k].phase
         /\ \A i \in Rows \ {k} : watch'[i] = watch[i]
BY DEF Inv, TypeOK, Watches

\* A late error of an observed row, and reports that change nothing.
LEMMA ReportControl ==
  ASSUME Inv, Control, NEW k \in Rows, TickUnknown(k) \/ TickRunning(k)
  PROVE  Control'
<1>1. Sane(k) /\ Fit(k) /\ Stays(ledger[k], UnknownRow(ledger[k]))
  BY UnknownFields DEF Control, Sane
<1>2. /\ ledger'[k] \in {ledger[k], UnknownRow(ledger[k])}
      /\ view'[k] = NoView
      /\ UNCHANGED <<active, recovering, fence, watch, unit, up>>
  BY CommitRow, HandledRow DEF TickUnknown, TickRunning, durable, service, units
<1>3. Frame(k)
  BY CommitRow, HandledRow DEF TickUnknown, TickRunning, Frame, durable, service, units
<1>4. Sane(k)'
  BY <1>1, <1>2, UnknownFields, UnknownRowOK DEF Sane
<1>5. Stays(ledger[k], ledger'[k])
  BY <1>1, <1>2 DEF Stays
<1>6. WatchFit(k)' /\ UnitFit(k)' /\ FenceFit(k)'
  BY <1>1, <1>2, <1>5 DEF Fit, WatchFit, UnitFit, FenceFit, Stays
<1> QED BY <1>2, <1>3, <1>4, <1>6, HandledFit, FrameStep DEF Fit

\* Reattachment, retried or refused.
LEMMA ReattachControl ==
  ASSUME Inv, Control, NEW k \in Rows,
         TickReattach(k) \/ \E retry \in BOOLEAN : TickReattachFails(k, retry)
  PROVE  Control'
<1>1. Sane(k) /\ Fit(k) /\ Stays(ledger[k], UnknownRow(ledger[k]))
  BY UnknownFields DEF Control, Sane
<1>2. CASE TickReattach(k)
  <2>1. /\ ledger' = ledger /\ view' = view /\ fence' = fence /\ unit' = unit /\ up' = up
        /\ active' = active \cup {k} /\ recovering' = recovering \ {k}
        /\ watch' = [watch EXCEPT ![k].state = "reattached"]
        /\ k \in recovering \ active
    BY <1>2 DEF TickReattach, durable, units
  <2>2. Frame(k) /\ watch'[k].state = "reattached" /\ watch'[k].phase = watch[k].phase
    BY <2>1, WatchRow DEF Frame
  <2>3. Sane(k)'
    BY <1>1, <2>1 DEF Sane
  <2>4. WatchFit(k)' /\ UnitFit(k)'
    BY <1>1, <2>1, <2>2 DEF Fit, WatchFit, UnitFit
  <2>5. FenceFit(k)' /\ ViewFit(k)'
    BY <1>1, <2>1, <2>2 DEF Fit, FenceFit, ViewFit, WatchFit
  <2> QED BY <2>2, <2>3, <2>4, <2>5, FrameStep DEF Fit
<1>3. ASSUME NEW retry \in BOOLEAN, TickReattachFails(k, retry) PROVE Control'
  <2>1. /\ ledger'[k] = UnknownRow(ledger[k]) /\ view'[k] = NoView
        /\ fence' = fence /\ unit' = unit /\ up' = up /\ active' = active
        /\ recovering' = IF retry THEN recovering ELSE recovering \ {k}
        /\ watch' = IF retry THEN watch ELSE [watch EXCEPT ![k] = NoWatch]
        /\ k \in recovering \ active
    BY <1>3, CommitRow, HandledRow DEF TickReattachFails, units
  <2>2. \A i \in Rows : watch'[i] = IF i = k /\ ~retry THEN NoWatch ELSE watch[i]
    BY <2>1 DEF Inv, TypeOK
  <2>3. Frame(k)
    BY <1>3, <2>1, <2>2, CommitRow, HandledRow DEF TickReattachFails, Frame
  <2>4. Sane(k)'
    BY <1>1, <2>1, UnknownFields, UnknownRowOK DEF Sane
  <2>5. WatchFit(k)' /\ UnitFit(k)' /\ FenceFit(k)'
    BY <1>1, <2>1, <2>2 DEF Fit, WatchFit, UnitFit, FenceFit, Stays, NoWatch
  <2> QED BY <2>1, <2>3, <2>4, <2>5, HandledFit, FrameStep DEF Fit
<1> QED BY <1>2, <1>3

\* What a report of an exit tells: the row is in the execution observed, and
\* nothing of it runs or can still start.
LEMMA ReportMeansQuiet ==
  ASSUME Inv, Control, NEW k \in Rows, k \in active, ExitReports(k) # {}, fence.op # "start"
  PROVE  /\ ledger[k].phase = watch[k].phase /\ ledger[k].phase \in Phases
         /\ watch[k].state # "queued"
         /\ \A p \in Phases : unit[k][p] \notin {"requested", "live"}
         /\ ~(fence.op # "none" /\ fence.row = k)
<1>1. Sane(k) /\ Fit(k)
  BY DEF Control
<1>2. \/ watch[k].state = "prevented"
      \/ watch[k].state \in {"watching", "reattached"} /\ unit[k][watch[k].phase] = "gone"
  BY DEF ExitReports
<1>3. ledger[k].phase = watch[k].phase /\ watch[k].phase \in Phases
  BY <1>1, <1>2 DEF Fit, WatchFit
<1>4. \A p \in Phases : unit[k][p] \notin {"requested", "live"}
  BY <1>1, <1>2, <1>3 DEF Fit, WatchFit, UnitFit
<1>5. ~(fence.op # "none" /\ fence.row = k)
  BY <1>1, <1>2 DEF Fit, FenceFit, Inv, TypeOK, Fences
<1> QED BY <1>2, <1>3, <1>4, <1>5

\* _complete.
LEMMA CompleteControl ==
  ASSUME Inv, Control, NEW k \in Rows, NEW e \in ExitReports(k), TickComplete(k, e)
  PROVE  Control'
<1> DEFINE r == ledger[k]
           s == CompletedRow(ledger[k], e)
<1>1. /\ k \in active /\ fence.op # "start" /\ ExitReports(k) # {}
      /\ ledger'[k] = s /\ view'[k] = NoView
      /\ fence' = fence /\ unit' = unit /\ up' = up /\ recovering' = recovering
      /\ active' = active \ {k} /\ watch' = [watch EXCEPT ![k] = NoWatch]
  BY CommitRow, HandledRow DEF TickComplete, At, units
<1>2. /\ r.phase = watch[k].phase /\ r.phase \in Phases
      /\ \A p \in Phases : unit[k][p] \notin {"requested", "live"}
      /\ ~(fence.op # "none" /\ fence.row = k)
  BY <1>1, ReportMeansQuiet
<1>3. Sane(k) /\ Fit(k) /\ Good(e)
  BY ReportsAreGood DEF Control
<1>4. RowOK(s) /\ Shape(s) /\ Evidenced(s) /\ Settles(r, s, CompletionReleases(r, e))
  BY <1>2, <1>3, CompletedFields, CompletedRowOK DEF Sane, Good
<1> HIDE DEF r, s
<1>5. watch'[k] = NoWatch /\ \A i \in Rows \ {k} : watch'[i] = watch[i]
  BY <1>1 DEF Inv, TypeOK
<1>6. Frame(k)
  BY <1>1, <1>5, CommitRow, HandledRow DEF Frame, TickComplete
<1>7. Sane(k)'
  BY <1>1, <1>4 DEF Sane
<1>8. WatchFit(k)' /\ FenceFit(k)'
  BY <1>1, <1>2, <1>3, <1>5 DEF Fit, WatchFit, FenceFit, NoWatch
<1>9. UnitFit(k)'
  BY <1>1, <1>2, <1>3, <1>4 DEF Fit, UnitFit, Settles, r
<1> QED BY <1>1, <1>6, <1>7, <1>8, <1>9, HandledFit, FrameStep DEF Fit

-----------------------------------------------------------------------------
\* A row that tick handles with the snapshot.
LEMMA SnapshotFits ==
  ASSUME Inv, Control, NEW k \in Rows, Unattended(k), Resumable(view[k])
  PROVE  /\ watch[k].state = "none" /\ ~(fence.op # "none" /\ fence.row = k)
         /\ ledger[k].phase \notin Phases
         /\ \A p \in Phases : unit[k][p] \notin {"requested", "live"}
         /\ \/ /\ ledger[k].phase = view[k].phase /\ ledger[k].lifecycle = view[k].lifecycle
               /\ ledger[k].outcome = view[k].outcome
               /\ ledger[k].lifecycle \notin {"NONE", "TERMINAL"}
               /\ ledger[k].phase \in {"QUEUED", "PREFLIGHT_COMPLETE", "AWAITING_SEAL"}
            \/ /\ ledger[k].lifecycle = "TERMINAL" /\ ledger[k].cancel_requested
               /\ ~view[k].cancel_requested
<1>1. Sane(k) /\ Fit(k) /\ k \notin active \cup recovering
  BY DEF Control, Unattended
<1>2. watch[k].state = "none" /\ ~(fence.op # "none" /\ fence.row = k)
  BY <1>1 DEF Fit, WatchFit, ViewFit
<1>3. \/ /\ ledger[k].phase = view[k].phase /\ ledger[k].lifecycle = view[k].lifecycle
         /\ ledger[k].outcome = view[k].outcome
         /\ ledger[k].lifecycle \notin {"NONE", "TERMINAL"}
         /\ ledger[k].phase \in {"QUEUED", "PREFLIGHT_COMPLETE", "AWAITING_SEAL"}
      \/ /\ ledger[k].lifecycle = "TERMINAL" /\ ledger[k].cancel_requested
         /\ ~view[k].cancel_requested
  BY <1>1 DEF Fit, ViewFit, Sane, Shape
<1>4. ledger[k].phase \notin Phases
  BY <1>1, <1>3 DEF Sane, Shape, Phases
<1>5. \A p \in Phases : unit[k][p] \notin {"requested", "live"}
  BY <1>1, <1>4 DEF Fit, UnitFit
<1> QED BY <1>2, <1>3, <1>4, <1>5

\* A row that is handled without an execution ends outside the phases of one.
LEMMA UnattendedStep ==
  ASSUME Inv, Control, NEW k \in Rows, Unattended(k), Resumable(view[k]), Handled(k),
         NEW row, NEW free, Commit(k, row, free),
         RowOK(row), Shape(row), Evidenced(row),
         row.delivery_intents = ledger[k].delivery_intents,
         UNCHANGED <<service, fence, watch, units>>
  PROVE  Control'
<1>1. /\ Sane(k) /\ Fit(k) /\ watch[k].state = "none" /\ ~(fence.op # "none" /\ fence.row = k)
      /\ \A p \in Phases : unit[k][p] \notin {"requested", "live"}
  BY SnapshotFits DEF Control
<1>2. /\ ledger'[k] = row /\ view'[k] = NoView
      /\ UNCHANGED <<up, active, recovering, fence, watch, unit>>
  BY CommitRow, HandledRow DEF service, units
<1>3. Frame(k)
  BY <1>2, CommitRow, HandledRow DEF Frame
<1>4. Sane(k)'
  BY <1>2 DEF Sane
<1>5. WatchFit(k)' /\ UnitFit(k)' /\ FenceFit(k)'
  BY <1>1, <1>2 DEF Fit, WatchFit, UnitFit, FenceFit
<1> QED BY <1>2, <1>3, <1>4, <1>5, HandledFit, FrameStep DEF Fit

\* _start defers or refuses the row.
LEMMA DeferredControl ==
  ASSUME Inv, Control, NEW k \in Rows, TickDeferred(k) \/ TickRefused(k)
  PROVE  Control'
<1>1. Sane(k) /\ Unattended(k) /\ Resumable(view[k]) /\ Handled(k)
      /\ UNCHANGED <<service, fence, watch, units>>
  BY DEF Control, TickDeferred, TickRefused, Starting, Startable
<1>2. CASE TickRefused(k)
  <2> DEFINE row == UnknownRow(ledger[k])
  <2>1. RowOK(row) /\ Shape(row) /\ Evidenced(row)
        /\ row.delivery_intents = ledger[k].delivery_intents
    BY <1>1, UnknownFields, UnknownRowOK DEF Sane, Stays
  <2>2. Commit(k, row, FALSE)
    BY <1>2 DEF TickRefused
  <2> HIDE DEF row
  <2> QED BY <1>1, <2>1, <2>2, UnattendedStep
<1>3. CASE TickDeferred(k)
  <2> DEFINE row == ledger[k]
  <2>1. RowOK(row) /\ Shape(row) /\ Evidenced(row)
    BY <1>1 DEF Sane
  <2>2. Commit(k, row, FALSE)
    BY <1>3 DEF TickDeferred, Commit, durable, Inv, TypeOK
  <2> QED BY <1>1, <2>1, <2>2, UnattendedStep
<1> QED BY <1>2, <1>3

\* EVIDENCE_START_BLOCKED, STARTUP_BLOCKED: the row ends, proved or to be reconciled.
LEMMA CancelledSettles ==
  ASSUME Inv, Control, NEW k \in Rows, TickCancelled(k)
  PROVE  \E row, free :
           /\ Commit(k, row, free) /\ Settles(ledger[k], row, free)
           /\ RowOK(row) /\ Shape(row) /\ Evidenced(row)
<1> DEFINE r == ledger[k]
<1>1. Sane(k) /\ Unattended(k) /\ Resumable(view[k]) /\ view[k].cancel_requested
  BY DEF Control, TickCancelled, Fit, ViewFit
<1>2. /\ r.phase = view[k].phase /\ r.lifecycle \notin {"NONE", "TERMINAL"}
      /\ r.phase \in {"QUEUED", "PREFLIGHT_COMPLETE", "AWAITING_SEAL"}
  BY <1>1, SnapshotFits
<1>3. r.cancel_requested /\ (r.phase = "QUEUED" => r.lifecycle = "ACCEPTED")
  BY <1>1, <1>2, SnapshotFits DEF Control, Fit, ViewFit, Resumable
<1>4. RowOK(r) /\ Shape(r) /\ Evidenced(r) /\ r \in Record
  BY <1>1 DEF Sane, RowOK
<1>5. CASE r.phase = "AWAITING_SEAL"
  <2> DEFINE free == "effects_checked" \in r.business_exit_proof
             l == IF free THEN "TERMINAL" ELSE "RECONCILE_REQUIRED"
             s == [r EXCEPT !.phase = "EXITED", !.evidence = "STAGING",
                            !.lifecycle = l, !.outcome = r.business_outcome]
  <2>1. Commit(k, s, free)
    BY <1>2, <1>5 DEF TickCancelled
  <2>2. /\ s = Over(r, "EXITED", l, r.business_outcome, r.exit_proof, "STAGING",
                    r.business_outcome, r.business_exit_proof)
        /\ s.phase = "EXITED" /\ s.evidence = "STAGING" /\ s.lifecycle = l
        /\ s.outcome = r.business_outcome /\ s.exit_proof = r.exit_proof
        /\ s.handles = r.handles /\ s.delivery_intents = r.delivery_intents
        /\ s.cancel_requested = r.cancel_requested
        /\ s.business_outcome = r.business_outcome
        /\ s.business_exit_proof = r.business_exit_proof
    BY <1>4 DEF Record, Over
  <2>3. r.business_outcome # "NONE" /\ r.business_outcome \in Outcomes
    BY <1>4, <1>5 DEF RowOK, Record
  <2> HIDE DEF s
  <2>4. Shape(s) /\ Evidenced(s)
    BY <1>4, <1>5, <2>2, <2>3 DEF Shape, Evidenced, Phases
  <2>5. Settles(r, s, free)
    BY <1>2, <1>4, <1>5, <2>2, <2>3 DEF Settles, Evidenced, Phases, Checked
  <2>6. RowOK(s)
    <3>1. l \in Lifecycles \ {"NONE"}
      BY DEF Lifecycles
    <3>2. Sound(r, "EXITED", l, r.business_outcome, r.exit_proof, "STAGING",
                r.business_outcome, r.business_exit_proof)
      <4> HIDE DEF r, l
      <4> QED BY <1>4, <2>3, <3>1 DEF Sound, Record, AllPhases
    <3> HIDE DEF r, l
    <3> QED BY <2>2, <3>2, OverOK
  <2> HIDE DEF free
  <2> QED BY <2>1, <2>4, <2>5, <2>6
<1>6. CASE r.phase # "AWAITING_SEAL"
  <2> DEFINE s == [r EXCEPT !.lifecycle = "TERMINAL", !.outcome = "CANCELLED",
                            !.phase = "CANCELLED_BEFORE_BUSINESS"]
  <2>1. Commit(k, s, TRUE)
    BY <1>2, <1>6 DEF TickCancelled
  <2>2. /\ s \in Record
        /\ s.phase = "CANCELLED_BEFORE_BUSINESS" /\ s.evidence = r.evidence
        /\ s.lifecycle = "TERMINAL" /\ s.outcome = "CANCELLED" /\ s.exit_proof = r.exit_proof
        /\ s.handles = r.handles /\ s.delivery_intents = r.delivery_intents
        /\ s.cancel_requested = r.cancel_requested
        /\ s.business_outcome = r.business_outcome
        /\ s.business_exit_proof = r.business_exit_proof
    BY <1>4 DEF Record, AllPhases, Lifecycles, Outcomes, Definite
  <2>3. r.business_outcome = "NONE"
    BY <1>2, <1>4, <1>6 DEF Shape
  <2> HIDE DEF s
  <2>4. RowOK(s) /\ Shape(s) /\ Evidenced(s)
    BY <1>2, <1>4, <2>2, <2>3 DEF RowOK, Shape, Evidenced, Phases
  <2>5. Settles(r, s, TRUE)
    BY <1>2, <1>3, <1>4, <1>6, <2>2 DEF Settles, Evidenced, Phases
  <2> QED BY <2>1, <2>4, <2>5
<1> QED BY <1>5, <1>6

\* ... and so the control state survives EVIDENCE_START_BLOCKED and STARTUP_BLOCKED.
LEMMA CancelledControl ==
  ASSUME Inv, Control, NEW k \in Rows, TickCancelled(k)
  PROVE  Control'
<1>1. PICK row, free : /\ Commit(k, row, free) /\ Settles(ledger[k], row, free)
                       /\ RowOK(row) /\ Shape(row) /\ Evidenced(row)
  BY CancelledSettles
<1>2. /\ Unattended(k) /\ Resumable(view[k]) /\ Handled(k)
      /\ UNCHANGED <<service, fence, watch, units>>
  BY DEF TickCancelled, Control, Fit, ViewFit
<1> QED BY <1>1, <1>2, UnattendedStep DEF Settles

\* _budget_blocked: the row ends, proved or to be reconciled.
LEMMA BudgetSettles ==
  ASSUME Inv, Control, NEW k \in Rows, TickBudgetBlocked(k)
  PROVE  \E row, free :
           /\ Commit(k, row, free) /\ Settles(ledger[k], row, free)
           /\ RowOK(row) /\ Shape(row) /\ Evidenced(row)
<1> DEFINE r == ledger[k]
           sealing == r.phase = "AWAITING_SEAL"
           unsent == r.phase = "QUEUED" /\ r.handles = {}
           proof == IF sealing THEN r.business_exit_proof
                    ELSE IF unsent THEN Checked ELSE r.exit_proof
           outcome == IF sealing THEN r.business_outcome
                      ELSE IF "effects_checked" \in proof THEN "FAILED" ELSE "UNKNOWN"
           certain == outcome # "UNKNOWN" /\ Checked \subseteq proof
           l == IF certain THEN "TERMINAL" ELSE "RECONCILE_REQUIRED"
           s == [r EXCEPT !.phase = "EXITED", !.outcome = outcome, !.exit_proof = proof,
                          !.lifecycle = l]
<1>1. /\ Commit(k, s, certain) /\ Nonterminal(k)
      /\ sealing \/ unsent \/ r.phase = "PREFLIGHT_COMPLETE"
  BY DEF TickBudgetBlocked
<1>2. RowOK(r) /\ Shape(r) /\ Evidenced(r) /\ r \in Record
  BY DEF Control, Sane, RowOK
<1>3. /\ sealing => r.business_outcome # "NONE" /\ r.business_outcome \in Outcomes
      /\ ~sealing => r.business_outcome = "NONE"
      /\ r.lifecycle \notin {"NONE", "TERMINAL"} /\ r.evidence # "SEALED"
  BY <1>1, <1>2 DEF RowOK, Record, Shape, Nonterminal
<1>4. proof \in SUBSET Flags /\ outcome \in Outcomes /\ l \in Lifecycles \ {"NONE"}
  BY <1>2, <1>3 DEF Record, Checked, Exited, Flags, Outcomes, Definite, Lifecycles
<1>5. sealing => outcome = r.business_outcome
  OBVIOUS
<1> HIDE DEF sealing, unsent, proof, outcome, certain, r
<1>6. /\ s = Over(r, "EXITED", l, outcome, proof, r.evidence,
                  r.business_outcome, r.business_exit_proof)
      /\ s.phase = "EXITED" /\ s.evidence = r.evidence /\ s.lifecycle = l
      /\ s.outcome = outcome /\ s.exit_proof = proof
      /\ s.handles = r.handles /\ s.delivery_intents = r.delivery_intents
      /\ s.cancel_requested = r.cancel_requested
      /\ s.business_outcome = r.business_outcome
      /\ s.business_exit_proof = r.business_exit_proof
  <2> HIDE DEF l
  <2> QED BY <1>2 DEF Record, Over
<1>7. RowOK(s)
  <2>1. Sound(r, "EXITED", l, outcome, proof, r.evidence,
              r.business_outcome, r.business_exit_proof)
    <3> HIDE DEF l
    <3> QED BY <1>2, <1>4 DEF Sound, Record, AllPhases
  <2> HIDE DEF l
  <2> QED BY <1>6, <2>1, OverOK
<1> HIDE DEF s
<1>8. Shape(s)
  BY <1>2, <1>3, <1>5, <1>6 DEF Shape, Phases
<1>9. Evidenced(s)
  BY <1>2, <1>6 DEF Evidenced, certain
<1>10. Settles(r, s, certain)
  BY <1>3, <1>6 DEF Settles, Phases, certain
<1> QED BY <1>1, <1>7, <1>8, <1>9, <1>10 DEF r

\* ... and so the control state survives _budget_blocked.
LEMMA BudgetControl ==
  ASSUME Inv, Control, NEW k \in Rows, TickBudgetBlocked(k)
  PROVE  Control'
<1>1. PICK row, free : /\ Commit(k, row, free) /\ Settles(ledger[k], row, free)
                       /\ RowOK(row) /\ Shape(row) /\ Evidenced(row)
  BY BudgetSettles
<1>2. /\ Unattended(k) /\ Resumable(view[k]) /\ Handled(k)
      /\ UNCHANGED <<service, fence, watch, units>>
  BY DEF TickBudgetBlocked, Starting, Startable
<1> QED BY <1>1, <1>2, UnattendedStep DEF Settles

\* EXECUTION_INTENT: the row enters a phase it was never in.
LEMMA IntentControl ==
  ASSUME Inv, Control, NEW k \in Rows, TickIntent(k)
  PROVE  Control'
<1> DEFINE r == ledger[k]
           p == NextPhase(k)
           s == [r EXCEPT !.phase = p, !.lifecycle = "RUNNING",
                          !.handles = @ \cup {p}, !.exit_proof = {}]
<1>1. /\ Sane(k) /\ Fit(k) /\ Unattended(k) /\ Resumable(view[k]) /\ fence.op = "none"
      /\ ~r.cancel_requested /\ p \notin r.handles /\ up /\ Handled(k)
      /\ Commit(k, s, FALSE)
      /\ fence' = [op |-> "start", row |-> k, phase |-> p]
      /\ UNCHANGED <<service, watch, units>>
  BY DEF Control, TickIntent, Starting, Startable, StartDeferred, StartAllowed, Unattended, At
<1>2. /\ watch[k].state = "none"
      /\ r.phase = view[k].phase /\ r.lifecycle \notin {"NONE", "TERMINAL"}
      /\ r.phase \in {"QUEUED", "PREFLIGHT_COMPLETE", "AWAITING_SEAL"}
      /\ \A q \in Phases : unit[k][q] \notin {"requested", "live"}
  BY <1>1, SnapshotFits
<1>3. p \in Phases /\ (p = "EVIDENCE" <=> r.phase = "AWAITING_SEAL")
  BY <1>2 DEF NextPhase, Phases
<1>4. unit[k][p] = "none"
  BY <1>1, <1>3 DEF Fit, UnitFit, Sane, Shape
<1>5. RowOK(r) /\ Shape(r) /\ Evidenced(r) /\ r \in Record
  BY <1>1 DEF Sane, RowOK
<1> HIDE DEF p
<1>6. /\ s \in Record
      /\ s.phase = p /\ s.lifecycle = "RUNNING" /\ s.handles = r.handles \cup {p}
      /\ s.exit_proof = {} /\ s.outcome = r.outcome /\ s.evidence = r.evidence
      /\ s.delivery_intents = r.delivery_intents
      /\ s.business_outcome = r.business_outcome
      /\ s.business_exit_proof = r.business_exit_proof
  BY <1>3, <1>5 DEF Record, AllPhases, Lifecycles
<1>7. /\ ledger'[k] = s /\ view'[k] = NoView
      /\ UNCHANGED <<up, active, recovering, watch, unit>>
  BY <1>1, CommitRow, HandledRow DEF service, units
<1>8. Frame(k)
  BY <1>1, <1>7, CommitRow, HandledRow DEF Frame
<1> HIDE DEF s, r
<1>9. RowOK(s) /\ Shape(s)
  BY <1>2, <1>3, <1>5, <1>6 DEF RowOK, Shape, Phases
<1>10. Evidenced(s)
  BY <1>3, <1>5, <1>6 DEF Evidenced, Phases
<1>11. Sane(k)'
  BY <1>7, <1>9, <1>10 DEF Sane
<1>12. WatchFit(k)' /\ UnitFit(k)'
  BY <1>1, <1>2, <1>6, <1>7 DEF Fit, WatchFit, UnitFit, r
<1>13. FenceFit(k)'
  BY <1>1, <1>3, <1>4, <1>6, <1>7 DEF FenceFit, Unattended
<1> QED BY <1>7, <1>8, <1>11, <1>12, <1>13, HandledFit, FrameStep DEF Fit

\* Whatever tick does with a row.
LEMMA TickRowControl ==
  ASSUME Inv, Control, NEW k \in Rows, TickRow(k)
  PROVE  Control'
BY ReattachControl, ReportControl, CompleteControl, CancelledControl, DeferredControl,
   IntentControl, BudgetControl DEF TickRow

\* runner.start answers or raises.
LEMMA StartReturnsControl ==
  ASSUME Inv, Control, NEW k \in Rows, StartReturns(k)
  PROVE  Control'
<1>1. /\ Sane(k) /\ Fit(k) /\ up /\ fence.op = "start" /\ fence.row = k
      /\ fence' = NoFence /\ UNCHANGED <<view, unit, up, recovering>>
      /\ ledger'[k] \in {ledger[k], UnknownRow(ledger[k])}
      /\ \A i \in Rows \ {k} : ledger'[i] = ledger[i]
  BY CommitRow DEF Control, StartReturns, StartEnqueued, StartFailed, service, units
<1>2. Sane(k)' /\ Stays(ledger[k], ledger'[k])
  <2>1. RowOK(ledger[k]) /\ Shape(ledger[k]) /\ Evidenced(ledger[k])
    BY <1>1 DEF Sane
  <2> QED BY <1>1, <2>1, UnknownFields, UnknownRowOK DEF Sane, Stays
<1>3. /\ fence.phase \in Phases /\ ledger[k].phase = fence.phase
      /\ k \notin active \cup recovering /\ unit[k][fence.phase] = "none"
      /\ ~Resumable(view[k])
  BY <1>1 DEF Fit, FenceFit, ViewFit
<1>4. NoFence.op = "none"
  BY DEF NoFence
<1>5. ViewFit(k)' /\ UnitFit(k)' /\ FenceFit(k)'
  BY <1>1, <1>2, <1>3, <1>4 DEF Fit, ViewFit, UnitFit, FenceFit, Stays
<1>6. ASSUME NEW state \in {"queued", "prevented"}, NEW acked \in BOOLEAN,
             StartEnqueued(k, state, acked)
      PROVE  WatchFit(k)' /\ Frame(k)
  <2>1. /\ active' = active \cup {k}
        /\ watch'[k] = [state |-> state, phase |-> fence.phase]
        /\ \A i \in Rows \ {k} : watch'[i] = watch[i]
    BY <1>6 DEF StartEnqueued, Inv, TypeOK
  <2>2. Frame(k)
    BY <1>1, <1>4, <2>1 DEF Frame
  <2>3. WatchFit(k)'
    BY <1>1, <1>2, <1>3, <2>1 DEF WatchFit, Stays
  <2> QED BY <2>2, <2>3
<1>7. ASSUME StartFailed(k) PROVE WatchFit(k)' /\ Frame(k)
  <2>1. UNCHANGED <<active, watch>>
    BY <1>7 DEF StartFailed, service
  <2>2. Frame(k)
    BY <1>1, <1>4, <2>1 DEF Frame
  <2>3. WatchFit(k)'
    BY <1>1, <1>2, <2>1 DEF Fit, WatchFit, Stays
  <2> QED BY <2>2, <2>3
<1> QED BY <1>2, <1>5, <1>6, <1>7, FrameStep DEF Fit, StartReturns

-----------------------------------------------------------------------------
\* The guard permits one delivery.
LEMMA GuardControl ==
  ASSUME Inv, Control, NEW k \in Rows, GuardStart(k)
  PROVE  Control'
<1> DEFINE r == ledger[k]
           s == [r EXCEPT !.delivery_intents = @ \cup {watch[k].phase}]
<1>1. /\ Sane(k) /\ Fit(k) /\ watch[k].state = "queued" /\ GuardPasses(k)
      /\ Commit(k, s, FALSE)
      /\ fence' = [op |-> "deliver", row |-> k, phase |-> watch[k].phase]
      /\ UNCHANGED <<service, view, watch, units>>
  BY DEF Control, GuardStart
<1>2. r.phase = watch[k].phase /\ r.phase \in r.handles /\ r \in Record
      /\ RowOK(r) /\ Shape(r) /\ Evidenced(r)
  BY <1>1 DEF GuardPasses, Sane, RowOK
<1>3. watch[k].phase \in Phases /\ k \in active \cup recovering
  BY <1>1 DEF Fit, WatchFit
<1>4. /\ ledger'[k] = s /\ \A i \in Rows \ {k} : ledger'[i] = ledger[i]
      /\ UNCHANGED <<up, active, recovering, view, watch, unit>>
  BY <1>1, CommitRow DEF service, units
<1>5. /\ s \in Record
      /\ s.delivery_intents = r.delivery_intents \cup {watch[k].phase}
      /\ s.phase = r.phase /\ s.lifecycle = r.lifecycle /\ s.handles = r.handles
      /\ s.exit_proof = r.exit_proof /\ s.outcome = r.outcome /\ s.evidence = r.evidence
      /\ s.business_outcome = r.business_outcome
      /\ s.business_exit_proof = r.business_exit_proof
  BY <1>2, <1>3 DEF Record
<1>6. Frame(k)
  BY <1>1, <1>4 DEF Frame
<1> HIDE DEF s
<1>7. Shape(s) /\ Evidenced(s)
  BY <1>2, <1>5 DEF Shape, Evidenced
<1>8. RowOK(s)
  BY <1>2, <1>3, <1>5 DEF RowOK, Shape, Phases
<1>9. Sane(k)'
  BY <1>4, <1>7, <1>8 DEF Sane
<1>10. WatchFit(k)' /\ UnitFit(k)'
  BY <1>1, <1>4, <1>5 DEF Fit, WatchFit, UnitFit
<1>11. FenceFit(k)' /\ ViewFit(k)'
  BY <1>1, <1>2, <1>3, <1>4, <1>5 DEF Fit, FenceFit, ViewFit
<1> QED BY <1>6, <1>9, <1>10, <1>11, FrameStep DEF Fit

\* The request leaves, or the observer ends without one.
LEMMA ObserverControl ==
  ASSUME Inv, Control, NEW k \in Rows, Observer(k)
  PROVE  Control'
<1>1. Sane(k) /\ Fit(k) /\ NoFence.op = "none"
  BY DEF Control, NoFence
<1>2. ASSUME NEW state \in {"prevented", "lost"}, ObserverEnds(k, state) PROVE Control'
  <2>1. /\ UNCHANGED <<ledger, up, active, recovering, view, fence, unit>>
        /\ watch'[k].state = state /\ watch'[k].phase = watch[k].phase
        /\ watch[k].state = "queued" /\ ~(fence.op = "deliver" /\ fence.row = k)
        /\ \A i \in Rows \ {k} : watch'[i] = watch[i]
    BY <1>2, WatchRow DEF ObserverEnds, durable, service, units
  <2>2. Frame(k) /\ Sane(k)'
    BY <1>1, <2>1 DEF Frame, Sane
  <2>3. WatchFit(k)' /\ UnitFit(k)'
    BY <1>1, <2>1 DEF Fit, WatchFit, UnitFit
  <2>4. FenceFit(k)' /\ ViewFit(k)'
    BY <1>1, <2>1 DEF Fit, FenceFit, ViewFit
  <2> QED BY <2>2, <2>3, <2>4, FrameStep DEF Fit
<1>3. ASSUME NEW state \in {"prevented", "lost", "watching"}, LaunchFails(k, state) PROVE Control'
  <2>1. /\ UNCHANGED <<ledger, up, active, recovering, view, unit>> /\ fence' = NoFence
        /\ watch'[k].state = state /\ watch'[k].phase = watch[k].phase
        /\ fence.op = "deliver" /\ fence.row = k
        /\ \A i \in Rows \ {k} : watch'[i] = watch[i]
    BY <1>3, WatchRow DEF LaunchFails, durable, service, units
  <2>2. Frame(k) /\ Sane(k)'
    BY <1>1, <2>1 DEF Frame, Sane
  <2>3. WatchFit(k)' /\ UnitFit(k)'
    BY <1>1, <2>1 DEF Fit, WatchFit, UnitFit, FenceFit
  <2>4. FenceFit(k)' /\ ViewFit(k)'
    BY <1>1, <2>1 DEF Fit, FenceFit, ViewFit
  <2> QED BY <2>2, <2>3, <2>4, FrameStep DEF Fit
<1>4. ASSUME Launch(k) PROVE Control'
  <2>1. /\ UNCHANGED <<ledger, up, active, recovering, view>> /\ fence' = NoFence
        /\ watch'[k].state = "watching" /\ watch'[k].phase = watch[k].phase
        /\ fence.op = "deliver" /\ fence.row = k
        /\ \A i \in Rows \ {k} : watch'[i] = watch[i]
    BY <1>4, WatchRow DEF Launch, durable, service
  <2>2. /\ \A i \in Rows \ {k} : unit'[i] = unit[i]
        /\ \A q \in Phases : unit'[k][q] = IF q = fence.phase THEN "requested" ELSE unit[k][q]
    BY <1>4 DEF Launch, Inv, TypeOK
  <2>3. /\ watch[k].state = "queued" /\ watch[k].phase = fence.phase
        /\ ledger[k].phase = fence.phase /\ fence.phase \in Phases
        /\ fence.phase \in ledger[k].delivery_intents
    BY <1>1, <2>1 DEF Fit, FenceFit, Inv, FenceOK, Permitted
  <2>4. Frame(k) /\ Sane(k)'
    BY <1>1, <2>1, <2>2 DEF Frame, Sane
  <2>5. WatchFit(k)' /\ UnitFit(k)'
    BY <1>1, <2>1, <2>2, <2>3 DEF Fit, WatchFit, UnitFit
  <2>6. FenceFit(k)' /\ ViewFit(k)'
    BY <1>1, <2>1, <2>2 DEF Fit, FenceFit, ViewFit
  <2> QED BY <2>4, <2>5, <2>6, FrameStep DEF Fit
<1> QED BY <1>2, <1>3, <1>4, GuardControl DEF Observer

\* Units start, are lost and exit.
LEMMA ManagerControl ==
  ASSUME Inv, Control, NEW k \in Rows, NEW phase \in Phases, Manager(k, phase)
  PROVE  Control'
<1>1. PICK to \in {"live", "lost", "gone"} :
        \E from \in {"requested", "live"} : Unit(k, phase, from, to)
  BY DEF Manager
<1>2. /\ unit[k][phase] \in {"requested", "live"}
      /\ UNCHANGED <<ledger, up, active, recovering, view, fence, watch>>
      /\ unit' = [unit EXCEPT ![k][phase] = to]
  BY <1>1 DEF Unit, durable, service
<1>3. /\ \A i \in Rows \ {k} : unit'[i] = unit[i]
      /\ \A q \in Phases : unit'[k][q] = IF q = phase THEN to ELSE unit[k][q]
  BY <1>2 DEF Inv, TypeOK
<1>4. Sane(k) /\ Fit(k)
  BY DEF Control
<1>5. Frame(k) /\ Sane(k)'
  BY <1>2, <1>3, <1>4 DEF Frame, Sane
<1>6. WatchFit(k)' /\ UnitFit(k)'
  BY <1>2, <1>3, <1>4 DEF Fit, WatchFit, UnitFit
<1>7. FenceFit(k)' /\ ViewFit(k)'
  BY <1>2, <1>3, <1>4 DEF Fit, FenceFit, ViewFit
<1> QED BY <1>5, <1>6, <1>7, FrameStep DEF Fit

-----------------------------------------------------------------------------
\* A step that touches only the snapshot: it is dropped or taken anew.
LEMMA SnapshotControl ==
  ASSUME Inv, Control, TickRead \/ TickAbort
  PROVE  Control'
<1>1. /\ UNCHANGED <<ledger, up, active, recovering, fence, watch, unit>>
      /\ up /\ fence.op # "start"
  BY DEF TickRead, TickAbort, durable, service, units
<1>2. ASSUME NEW k \in Rows PROVE Sane(k)' /\ Fit(k)'
  <2>1. Sane(k) /\ Fit(k)
    BY DEF Control
  <2>2. Sane(k)' /\ WatchFit(k)' /\ UnitFit(k)' /\ FenceFit(k)'
    BY <1>1, <2>1 DEF Fit, Sane, WatchFit, UnitFit, FenceFit
  <2>3. CASE view'[k] = NoView
    BY <2>2, <2>3, HandledFit DEF Fit
  <2>4. CASE view'[k] # NoView /\ k \in active \cup recovering
    <3>1. view'[k] = Attended
      BY <2>4 DEF TickRead, TickAbort
    <3>2. ~Resumable(Attended) /\ ~Attended.cancel_requested
      BY DEF Attended, NoView, Resumable
    <3>3. ViewFit(k)'
      BY <3>1, <3>2 DEF ViewFit
    <3> QED BY <2>2, <3>3 DEF Fit
  <2>5. CASE view'[k] # NoView /\ k \notin active \cup recovering
    <3> DEFINE r == ledger[k]
    <3>1. /\ view'[k] = [lifecycle |-> r.lifecycle, phase |-> r.phase, outcome |-> r.outcome,
                         cancel_requested |-> r.cancel_requested]
          /\ k \in Admitted /\ Resumable(r)
      BY <2>5 DEF TickRead, TickAbort
    <3>2. ~(fence.op # "none" /\ fence.row = k)
      BY <1>1, <2>1, <2>5 DEF Fit, FenceFit, WatchFit, Inv, TypeOK, Fences
    <3>3. r.lifecycle # "NONE" /\ r.phase \in {"QUEUED", "PREFLIGHT_COMPLETE", "AWAITING_SEAL"}
      BY <2>1, <3>1 DEF Admitted, Resumable, Sane, Shape
    <3>4. Resumable(view'[k])
      BY <3>1 DEF Resumable
    <3>5. ViewFit(k)'
      BY <1>1, <2>5, <3>1, <3>2, <3>3, <3>4 DEF ViewFit
    <3> QED BY <2>2, <3>5 DEF Fit
  <2> QED BY <2>3, <2>4, <2>5
<1> QED BY <1>1, <1>2 DEF Control

\* A crash loses all memory; units go on or are lost.
LEMMA CrashControl ==
  ASSUME Inv, Control, NEW reboot \in BOOLEAN, Crash(reboot)
  PROVE  Control'
<1>1. /\ ledger' = ledger /\ up' = FALSE /\ active' = {} /\ recovering' = {}
      /\ fence' = NoFence /\ NoFence.op = "none"
      /\ \A k \in Rows : view'[k] = NoView /\ watch'[k] = NoWatch
      /\ \A k \in Rows, p \in Phases :
           unit'[k][p] = unit[k][p] \/ (unit[k][p] # "none" /\ unit'[k][p] = "lost")
  BY DEF Crash, durable, NoFence
<1>2. ASSUME NEW k \in Rows PROVE Sane(k)' /\ Fit(k)'
  <2>1. Sane(k) /\ Fit(k)
    BY DEF Control
  <2>2. Sane(k)' /\ ViewFit(k)'
    BY <1>1, <2>1, HandledFit DEF Sane
  <2>3. WatchFit(k)' /\ FenceFit(k)'
    BY <1>1 DEF WatchFit, FenceFit, NoWatch
  <2>4. UnitFit(k)'
    BY <1>1, <2>1 DEF Fit, UnitFit
  <2> QED BY <2>2, <2>3, <2>4 DEF Fit
<1> QED BY <1>1, <1>2 DEF Control

\* Recovery observes again what it can, and keeps every row in its phase.
LEMMA RestartControl ==
  ASSUME Inv, Control, Restart
  PROVE  Control'
<1> PICK attached \in SUBSET Reconnect, same \in BOOLEAN :
      \E retried \in SUBSET (Reconnect \ attached) : Recover(attached, retried, same)
  BY DEF Restart
<1> PICK retried \in SUBSET (Reconnect \ attached) : Recover(attached, retried, same)
  OBVIOUS
<1>1. /\ ~up /\ up' = TRUE /\ active' = attached /\ recovering' = retried
      /\ attached \subseteq Rows /\ retried \subseteq Rows /\ attached \cap retried = {}
      /\ fence.op = "none" /\ UNCHANGED <<view, fence, unit>>
  BY DEF Recover, Reconnect, Inv, FenceOK, units
<1>2. ASSUME NEW k \in Rows PROVE Sane(k)' /\ Fit(k)'
  <2>1. Sane(k) /\ Fit(k)
    BY DEF Control
  <2>2. RowOK(ledger[k]) /\ Shape(ledger[k]) /\ Evidenced(ledger[k])
    BY <2>1 DEF Sane
  <2>3. ledger'[k] = BarrierRow(ledger[k])
    BY DEF Recover
  <2>4. Sane(k)' /\ Stays(ledger[k], ledger'[k])
    BY <2>2, <2>3, BarrierFields, BarrierRowOK DEF Sane
  <2>5. watch'[k] = IF k \in attached \cup retried
                    THEN [state |-> IF k \in attached THEN "reattached" ELSE "pending",
                          phase |-> ledger[k].phase]
                    ELSE NoWatch
    BY DEF Recover
  <2>6. k \in attached \cup retried => ledger[k].phase \in Phases
    <3>1. k \in attached \cup retried => ledger[k].phase \in ledger[k].handles
      BY DEF Reconnect
    <3> QED BY <2>2, <3>1 DEF RowOK, Record
  <2>7. WatchFit(k)'
    BY <1>1, <2>4, <2>5, <2>6 DEF WatchFit, Stays, NoWatch
  <2>8. UnitFit(k)' /\ FenceFit(k)'
    BY <1>1, <2>1, <2>4 DEF Fit, UnitFit, FenceFit, Stays
  <2>9. ViewFit(k)'
    BY <1>1, <2>1 DEF Fit, ViewFit
  <2> QED BY <2>4, <2>7, <2>8, <2>9 DEF Fit
<1> QED BY <1>1, <1>2 DEF Control

-----------------------------------------------------------------------------
\* Calls find the fence free and leave memory and units alone.
LEMMA CallRow ==
  ASSUME Inv, Control, NEW k \in Rows, fence.op = "none",
         UNCHANGED <<service, view, fence, watch, units>>,
         Sane(k)',
         ledger'[k].delivery_intents = ledger[k].delivery_intents,
         ledger'[k].phase = ledger[k].phase \/ ledger[k].phase \notin Phases
           \/ (ledger'[k].lifecycle = "TERMINAL" /\ unit[k][ledger[k].phase] = "lost"),
         ledger[k].lifecycle = "TERMINAL" => ledger'[k].lifecycle = "TERMINAL",
         Resumable(view[k]) =>
            \/ /\ ledger'[k].phase = ledger[k].phase /\ ledger'[k].outcome = ledger[k].outcome
               /\ ledger'[k].lifecycle = ledger[k].lifecycle
               /\ ledger[k].cancel_requested => ledger'[k].cancel_requested
            \/ /\ ledger'[k].lifecycle = "TERMINAL" /\ ledger'[k].cancel_requested
               /\ ~ledger[k].cancel_requested \/ ledger[k].lifecycle = "TERMINAL"
  PROVE  Fit(k)'
<1>1. Sane(k) /\ Fit(k)
  BY DEF Control
<1>2. UNCHANGED <<up, active, recovering, view, fence, watch, unit>>
  BY DEF service, units
<1>3. WatchFit(k)'
  BY <1>1, <1>2 DEF Fit, WatchFit
<1>4. UnitFit(k)'
  BY <1>1, <1>2 DEF Fit, UnitFit
<1>5. FenceFit(k)'
  BY <1>1, <1>2 DEF Fit, FenceFit
<1>6. ViewFit(k)'
  BY <1>1, <1>2 DEF Fit, ViewFit, Sane, Shape
<1> QED BY <1>3, <1>4, <1>5, <1>6 DEF Fit

\* Admission: the identity was in no phase and in no snapshot.
LEMMA AdmitControl ==
  ASSUME Inv, Control, NEW k \in Rows, fence.op = "none",
         ledger[k].lifecycle = "NONE", ledger' = [ledger EXCEPT ![k] = NewRow],
         UNCHANGED <<service, view, fence, watch, units>>
  PROVE  Control'
<1>1. ledger'[k] = NewRow /\ \A i \in Rows \ {k} : ledger'[i] = ledger[i]
  BY DEF Inv, TypeOK
<1>2. ledger[k] = NoRow /\ Sane(k) /\ Fit(k)
  BY DEF Control, Sane, RowOK
<1>3. /\ NewRow \in Record /\ NewRow.lifecycle = "ACCEPTED" /\ NewRow.phase = "QUEUED"
      /\ NewRow.handles = {} /\ NewRow.delivery_intents = {} /\ NewRow.evidence = "STAGING"
      /\ NewRow.business_outcome = "NONE" /\ NewRow.exit_proof = {}
      /\ NoRow.delivery_intents = {} /\ NoRow.phase = "QUEUED" /\ NoRow.lifecycle = "NONE"
  BY DEF NewRow, NoRow, Record, Lifecycles, AllPhases, Outcomes
<1>4. Sane(k)'
  BY <1>1, <1>3 DEF Sane, RowOK, Shape, Evidenced, Phases
<1>5. ~Resumable(view[k])
  BY <1>2, <1>3 DEF Fit, ViewFit
<1>6. Fit(k)'
  BY <1>1, <1>2, <1>3, <1>4, <1>5, CallRow
<1>7. Frame(k)
  BY <1>1 DEF Frame, service, units
<1> QED BY <1>4, <1>6, <1>7, FrameStep

\* cancel: of a queued row it is the end, of another one a request.
LEMMA CancelMoves ==
  ASSUME Inv, Control, NEW k \in Rows, Cancel(k)
  PROVE  \E row :
           /\ Sane(k)' /\ ledger'[k] = row /\ Nonterminal(k) /\ row.cancel_requested
           /\ ~ledger[k].cancel_requested
           /\ row.delivery_intents = ledger[k].delivery_intents
           /\ row.handles = ledger[k].handles
           /\ \/ /\ ledger[k].phase = "QUEUED" /\ row.phase = "CANCELLED_BEFORE_START"
                 /\ Commit(k, row, TRUE) /\ Settles(ledger[k], row, TRUE)
              \/ /\ ledger[k].phase # "QUEUED" /\ row.phase = ledger[k].phase
                 /\ row.outcome = ledger[k].outcome /\ row.lifecycle = ledger[k].lifecycle
                 /\ row.exit_proof = ledger[k].exit_proof
                 /\ Commit(k, row, FALSE)
<1> DEFINE r == ledger[k]
<1>1. /\ RowOK(r) /\ Shape(r) /\ Evidenced(r) /\ r \in Record
      /\ Nonterminal(k) /\ r.lifecycle \notin {"NONE", "TERMINAL"} /\ ~r.cancel_requested
  BY DEF Control, Sane, RowOK, Cancel, Nonterminal
<1>2. CASE r.phase = "QUEUED"
  <2> DEFINE s == [r EXCEPT !.cancel_requested = TRUE, !.lifecycle = "TERMINAL",
                     !.outcome = "CANCELLED", !.phase = "CANCELLED_BEFORE_START",
                     !.exit_proof = Checked]
  <2>1. Commit(k, s, TRUE)
    BY <1>2 DEF Cancel
  <2>2. /\ s \in Record /\ s.phase = "CANCELLED_BEFORE_START" /\ s.lifecycle = "TERMINAL"
        /\ s.outcome = "CANCELLED" /\ s.exit_proof = Checked /\ s.cancel_requested
        /\ s.handles = r.handles /\ s.delivery_intents = r.delivery_intents
        /\ s.evidence = r.evidence /\ s.business_outcome = r.business_outcome
        /\ s.business_exit_proof = r.business_exit_proof
    BY <1>1 DEF Record, Lifecycles, AllPhases, Outcomes, Definite, Checked, Exited, Flags
  <2> HIDE DEF s
  <2>3. r.business_outcome = "NONE" /\ r.evidence # "SEALED"
    BY <1>1, <1>2 DEF Shape
  <2>4. RowOK(s) /\ Shape(s) /\ Evidenced(s)
    BY <1>1, <2>2, <2>3 DEF RowOK, Shape, Evidenced, Phases
  <2>5. Settles(r, s, TRUE)
    BY <1>1, <2>2 DEF Settles, Phases
  <2>6. ledger'[k] = s
    BY <2>1, CommitRow
  <2> QED BY <1>1, <1>2, <2>1, <2>2, <2>4, <2>5, <2>6 DEF Sane
<1>3. CASE r.phase # "QUEUED"
  <2> DEFINE s == [r EXCEPT !.cancel_requested = TRUE]
  <2>1. Commit(k, s, FALSE)
    BY <1>3 DEF Cancel
  <2>2. /\ s \in Record /\ s.phase = r.phase /\ s.lifecycle = r.lifecycle
        /\ s.outcome = r.outcome /\ s.exit_proof = r.exit_proof /\ s.cancel_requested
        /\ s.handles = r.handles /\ s.delivery_intents = r.delivery_intents
        /\ s.evidence = r.evidence /\ s.business_outcome = r.business_outcome
        /\ s.business_exit_proof = r.business_exit_proof
    BY <1>1 DEF Record
  <2> HIDE DEF s
  <2>3. RowOK(s) /\ Shape(s) /\ Evidenced(s)
    BY <1>1, <2>2 DEF RowOK, Shape, Evidenced
  <2>4. ledger'[k] = s
    BY <2>1, CommitRow
  <2> QED BY <1>1, <1>3, <2>1, <2>2, <2>3, <2>4 DEF Sane
<1> QED BY <1>2, <1>3

\* ... and so the control state survives cancel.
LEMMA CancelControl ==
  ASSUME Inv, Control, NEW k \in Rows, Cancel(k)
  PROVE  Control'
<1>1. PICK row :
           /\ Sane(k)' /\ ledger'[k] = row /\ Nonterminal(k) /\ row.cancel_requested
           /\ ~ledger[k].cancel_requested
           /\ row.delivery_intents = ledger[k].delivery_intents
           /\ row.handles = ledger[k].handles
           /\ \/ /\ ledger[k].phase = "QUEUED" /\ row.phase = "CANCELLED_BEFORE_START"
                 /\ Commit(k, row, TRUE) /\ Settles(ledger[k], row, TRUE)
              \/ /\ ledger[k].phase # "QUEUED" /\ row.phase = ledger[k].phase
                 /\ row.outcome = ledger[k].outcome /\ row.lifecycle = ledger[k].lifecycle
                 /\ row.exit_proof = ledger[k].exit_proof
                 /\ Commit(k, row, FALSE)
  BY CancelMoves
<1>2. fence.op = "none" /\ UNCHANGED <<service, view, fence, watch, units>>
  BY DEF Cancel, Idle
<1>3. \A i \in Rows \ {k} : ledger'[i] = ledger[i]
  BY <1>1, CommitRow
<1>4. Fit(k)'
  BY <1>1, <1>2, CallRow DEF Settles, Nonterminal, Phases
<1>5. Frame(k)
  BY <1>2, <1>3 DEF Frame, service, units
<1> QED BY <1>1, <1>4, <1>5, FrameStep

\* What revoke does to a row.
LEMMA RevokeMoves ==
  ASSUME Inv, Control, NEW p \in Principals, Revoke(p), NEW k \in Rows
  PROVE  /\ Sane(k)'
         /\ ledger'[k].phase = ledger[k].phase /\ ledger'[k].lifecycle = ledger[k].lifecycle
         /\ ledger'[k].outcome = ledger[k].outcome /\ ledger'[k].handles = ledger[k].handles
         /\ ledger'[k].exit_proof = ledger[k].exit_proof
         /\ ledger'[k].delivery_intents = ledger[k].delivery_intents
         /\ ledger[k].cancel_requested => ledger'[k].cancel_requested
         /\ ledger'[k].cancel_requested => ledger[k].cancel_requested \/ OwnerOf(k) \in revoked'
<1> DEFINE r == ledger[k]
           s == [r EXCEPT !.cancel_requested = TRUE]
<1>1. /\ RowOK(r) /\ Shape(r) /\ Evidenced(r) /\ r \in Record
  BY DEF Control, Sane, RowOK
<1>2. ledger'[k] = IF Nonterminal(k) /\ OwnerOf(k) = p THEN s ELSE r
  BY DEF Revoke
<1>3. p \in revoked'
  BY DEF Revoke
<1>4. /\ s \in Record /\ s.phase = r.phase /\ s.lifecycle = r.lifecycle
      /\ s.outcome = r.outcome /\ s.exit_proof = r.exit_proof /\ s.cancel_requested
      /\ s.handles = r.handles /\ s.delivery_intents = r.delivery_intents
      /\ s.evidence = r.evidence /\ s.business_outcome = r.business_outcome
      /\ s.business_exit_proof = r.business_exit_proof
  BY <1>1 DEF Record
<1> HIDE DEF s
<1>5. Nonterminal(k) => RowOK(s) /\ Shape(s) /\ Evidenced(s)
  BY <1>1, <1>4 DEF RowOK, Shape, Evidenced, Nonterminal
<1> QED BY <1>1, <1>2, <1>3, <1>4, <1>5 DEF Sane

\* ... and so the control state survives revoke.
LEMMA RevokeControl ==
  ASSUME Inv, Control, NEW p \in Principals, Revoke(p)
  PROVE  Control'
<1>1. fence.op = "none" /\ UNCHANGED <<service, view, fence, watch, units>>
  BY DEF Revoke, Idle
<1>2. ASSUME NEW k \in Rows PROVE Sane(k)' /\ Fit(k)'
  <2>1. /\ Sane(k)'
        /\ ledger'[k].phase = ledger[k].phase /\ ledger'[k].lifecycle = ledger[k].lifecycle
        /\ ledger'[k].outcome = ledger[k].outcome
        /\ ledger'[k].delivery_intents = ledger[k].delivery_intents
        /\ ledger[k].cancel_requested => ledger'[k].cancel_requested
    BY RevokeMoves
  <2> QED BY <1>1, <2>1, CallRow
<1> QED BY <1>1, <1>2 DEF Control

\* complete_recovered_evidence.
LEMMA RecoveredEvidenceSettles ==
  ASSUME Inv, Control, NEW j \in Jobs, CompleteRecoveredEvidence(j)
  PROVE  /\ Sane(j)' /\ Settles(ledger[j], ledger'[j], TRUE) /\ Commit(j, ledger'[j], TRUE)
         /\ ledger'[j].cancel_requested = ledger[j].cancel_requested
<1> DEFINE r == ledger[j]
           s == [r EXCEPT !.phase = "EXITED", !.lifecycle = "TERMINAL",
                          !.exit_proof = Flags, !.evidence = "SEALED"]
<1>1. /\ j \in Rows /\ RowOK(r) /\ Shape(r) /\ Evidenced(r) /\ r \in Record
  BY DEF Control, Sane, RowOK, Rows
<1>2. /\ Commit(j, s, TRUE) /\ r.outcome = r.business_outcome
      /\ r.business_outcome \in Definite /\ r.phase \in {"EVIDENCE", "EXITED"}
  BY DEF CompleteRecoveredEvidence
<1>3. /\ s \in Record /\ s.phase = "EXITED" /\ s.lifecycle = "TERMINAL"
      /\ s.outcome = r.outcome /\ s.exit_proof = Flags /\ s.evidence = "SEALED"
      /\ s.cancel_requested = r.cancel_requested
      /\ s.handles = r.handles /\ s.delivery_intents = r.delivery_intents
      /\ s.business_outcome = r.business_outcome
      /\ s.business_exit_proof = r.business_exit_proof
  BY <1>1 DEF Record, AllPhases, Lifecycles
<1>4. ledger'[j] = s
  BY <1>1, <1>2, CommitRow
<1> HIDE DEF s
<1>5. RowOK(s) /\ Shape(s) /\ Evidenced(s)
  BY <1>1, <1>2, <1>3 DEF RowOK, Shape, Evidenced, Phases, Definite
<1>6. Settles(r, s, TRUE)
  <2>1. r.lifecycle # "NONE"
    BY <1>1, <1>2 DEF RowOK, NoRow
  <2> QED BY <1>2, <1>3, <2>1 DEF Settles, Phases, Checked, Exited, Flags
<1> QED BY <1>2, <1>3, <1>4, <1>5, <1>6 DEF Sane

\* ... and so the control state survives complete_recovered_evidence.
LEMMA RecoveredEvidenceControl ==
  ASSUME Inv, Control, NEW j \in Jobs, CompleteRecoveredEvidence(j)
  PROVE  Control'
<1>1. /\ Sane(j)' /\ Settles(ledger[j], ledger'[j], TRUE) /\ Commit(j, ledger'[j], TRUE)
      /\ ledger'[j].cancel_requested = ledger[j].cancel_requested /\ j \in Rows
  BY RecoveredEvidenceSettles DEF Rows
<1>2. /\ fence.op = "none" /\ UNCHANGED <<service, view, fence, watch, units>>
      /\ ledger[j].phase \in {"EVIDENCE", "EXITED"} /\ unit[j]["EVIDENCE"] = "lost"
  BY DEF CompleteRecoveredEvidence, Idle
<1>3. Resumable(view[j]) => ledger[j].lifecycle = "TERMINAL" /\ ledger[j].cancel_requested
  BY <1>1, <1>2 DEF Control, Fit, ViewFit
<1>4. Fit(j)'
  BY <1>1, <1>2, <1>3, CallRow DEF Settles, Phases
<1>5. \A i \in Rows \ {j} : ledger'[i] = ledger[i]
  BY <1>1, CommitRow
<1>6. Frame(j)
  BY <1>2, <1>5 DEF Frame, service, units
<1> QED BY <1>1, <1>4, <1>6, FrameStep

\* Every call of the API.
LEMMA CallControl ==
  ASSUME Inv, Control, Call
  PROVE  Control'
<1>1. ASSUME NEW j \in Jobs, Submit(j) PROVE Control'
  BY <1>1, AdmitControl DEF Submit, Idle, Rows
<1>2. ASSUME NEW c \in Reconciles, Reconcile(c) PROVE Control'
  BY <1>2, AdmitControl DEF Reconcile, Idle, Rows
<1> QED BY <1>1, <1>2, CancelControl, RevokeControl, RecoveredEvidenceControl DEF Call

-----------------------------------------------------------------------------
(* Theorems *)

\* A new deployment starts with an empty ledger, nothing observed and no unit.
LEMMA InitControl == Init => Control
<1> SUFFICES ASSUME Init, NEW k \in Rows PROVE Sane(k) /\ Fit(k)
  BY DEF Init, NoFence, Control
<1>1. RowOK(NoRow) /\ Shape(NoRow) /\ Evidenced(NoRow)
  BY DEF RowOK, Shape, Evidenced, NoRow, Record, Lifecycles, AllPhases, Outcomes, Phases
<1>2. Sane(k)
  BY <1>1 DEF Init, Sane
<1>3. WatchFit(k) /\ UnitFit(k)
  BY DEF Init, WatchFit, UnitFit, NoWatch
<1>4. FenceFit(k) /\ ViewFit(k)
  BY DEF Init, FenceFit, ViewFit, NoFence, NoView, Resumable
<1> QED BY <1>2, <1>3, <1>4 DEF Fit

\* Every step of calls, coordinator, observers, manager, crash and recovery.
LEMMA NextControl == Inv /\ Control /\ [Next]_vars => Control'
<1> SUFFICES ASSUME Inv, Control, [Next]_vars PROVE Control'
  OBVIOUS
<1>1. CASE UNCHANGED vars
  BY <1>1 DEF vars, Control, Sane, Fit, WatchFit, UnitFit, FenceFit, ViewFit
<1>2. CASE Next
  BY <1>2, CallControl, SnapshotControl, TickRowControl, StartReturnsControl, ObserverControl,
     ManagerControl, CrashControl, RestartControl DEF Next
<1> QED BY <1>1, <1>2

\* In every reachable state the ledger, the coordinator's memory, the observers,
\* the units, the fence and the snapshot fit together (broker.py tick, recover,
\* _guard_start; runner.py's observers).
THEOREM ControlInvariance == Spec => [](Inv /\ Control)
<1>1. Init => Inv /\ Control
  BY InitInv, InitControl
<1>2. Inv /\ Control /\ [Next]_vars => (Inv /\ Control)'
  BY NextInv, NextControl
<1> QED BY <1>1, <1>2, PTL DEF Spec

\* An execution that runs, or that a thread or the manager may still start, is
\* the one its row records as current.
LEMMA BusyIsInPhase ==
  ASSUME Inv, Control, NEW k \in Rows, NEW p \in Phases, Pending(k, p)
  PROVE  ledger[k].phase = p
<1>1. Fit(k)
  BY DEF Control
<1>2. CASE fence.op # "none" /\ fence.row = k /\ fence.phase = p
  BY <1>1, <1>2 DEF Fit, FenceFit
<1>3. CASE watch[k].state = "queued" /\ watch[k].phase = p
  BY <1>1, <1>3 DEF Fit, WatchFit
<1>4. CASE unit[k][p] \in {"requested", "live"}
  BY <1>1, <1>4 DEF Fit, UnitFit
<1> QED BY <1>2, <1>3, <1>4 DEF Pending

\* Nothing of a TERMINAL or SEALED row runs or can still start: a row leaves an
\* execution only through a report that proves its end (_complete), and no
\* recovery brings an ended one back (recover, start).
THEOREM SettledQuiet == Spec => []SettledIsQuiet
<1>1. Inv /\ Control => SettledIsQuiet
  <2> SUFFICES ASSUME Inv, Control, NEW k \in Rows, NEW p \in Phases, Pending(k, p)
               PROVE  ledger[k].lifecycle # "TERMINAL" /\ ledger[k].evidence # "SEALED"
    BY DEF SettledIsQuiet, Busy
  <2>1. ledger[k].phase = p /\ Shape(ledger[k])
    BY BusyIsInPhase DEF Control, Sane
  <2> QED BY <2>1 DEF Shape, Phases
<1> QED BY <1>1, ControlInvariance, PTL

\* A result frozen before sealing stays the row's outcome, through failed seals,
\* late errors, cancellation, budget exhaustion and recovery (_unknown, _complete,
\* _budget_blocked).
THEOREM FrozenKept == Spec => []FrozenResultKept
<1>1. Control => FrozenResultKept
  BY DEF Control, Sane, Shape, FrozenResultKept
<1> QED BY <1>1, ControlInvariance, PTL

-----------------------------------------------------------------------------
(***************************************************************************)
(* What the broker promises to callers and to the owners of resources:     *)
(* TERMINAL is final, leases cover all work and do not leak, max_running   *)
(* bounds what runs, and observation rounds wait for the job they observe. *)
(*                                                                         *)
(* The argument: seen from the ledger, every step of the system is one of  *)
(* four (Step): rows stay in their phases, one row settles and may         *)
(* release, one row is admitted, or one row enters an execution.  Each     *)
(* promise is an invariant of these four kinds of steps, and so each is    *)
(* proved without the actions.  Only an execution intent can break the     *)
(* bounds, and it is there that _start checks them.                        *)
(***************************************************************************)

\* Row i stays in its phase; at most uncertainty or a cancellation is recorded.
Rests(i) ==
  LET r == ledger[i]
      s == ledger'[i] IN
  /\ s.phase = r.phase /\ s.handles = r.handles
  /\ s.lifecycle = "NONE" <=> r.lifecycle = "NONE"
  /\ s.lifecycle = r.lifecycle \/ s.lifecycle = "RECONCILE_REQUIRED"
  /\ r.lifecycle = "TERMINAL" =>
       s.lifecycle = "TERMINAL" /\ s.outcome = r.outcome /\ s.exit_proof = r.exit_proof
  /\ r.phase = "PREFLIGHT_COMPLETE" /\ r.outcome = "UNKNOWN" => s.outcome = "UNKNOWN"
  /\ r.phase = "QUEUED" /\ s.cancel_requested =>
       r.cancel_requested \/ OwnerOf(i) \in revoked'

\* No row changes its phase, no lease changes, no principal is restored.
Resting == lease' = lease /\ revoked \subseteq revoked' /\ \A i \in Rows : Rests(i)

\* Row k leaves the queue or an execution, with or without a release.
Settling(k, free) ==
  /\ Commit(k, ledger'[k], free)
  /\ Settles(ledger[k], ledger'[k], free)
  /\ revoked' = revoked

\* submit or reconcile writes a new row and takes the leases it needs.
Admitting(k) ==
  /\ ledger[k].lifecycle = "NONE" /\ ledger' = [ledger EXCEPT ![k] = NewRow]
  /\ Acquirable(ParentOf(k)) /\ lease' = Acquire(ParentOf(k))
  /\ OwnerOf(k) \notin revoked /\ revoked' = revoked
  /\ k \in Reconciles => ledger[Parent[k]].lifecycle \in {"RECONCILE_REQUIRED", "TERMINAL"}

\* What any step of the system is, seen from ledger, leases and revocations.
Step ==
  \/ Resting
  \/ \E k \in Rows, free \in BOOLEAN : Settling(k, free)
  \/ \E k \in Rows : Admitting(k)
  \/ \E k \in Rows : TickIntent(k)

\* An unchanged row rests.
LEMMA SameRests ==
  ASSUME NEW i \in Rows, ledger'[i] = ledger[i]
  PROVE  Rests(i)
BY DEF Rests

\* A row for which _unknown was recorded rests.
LEMMA UnknownRests ==
  ASSUME Control, NEW i \in Rows, ledger[i].lifecycle # "NONE",
         ledger'[i] = UnknownRow(ledger[i])
  PROVE  Rests(i)
<1>1. RowOK(ledger[i]) /\ Shape(ledger[i]) /\ Evidenced(ledger[i])
  BY DEF Control, Sane
<1>2. Stays(ledger[i], ledger'[i])
  BY <1>1, UnknownFields
<1>3. ledger[i].phase = "PREFLIGHT_COMPLETE" /\ ledger[i].outcome = "UNKNOWN"
        => ledger'[i].outcome = "UNKNOWN"
  BY <1>1 DEF UnknownRow, RowOK, Record
<1>4. ledger'[i].lifecycle # "NONE"
  BY <1>2 DEF Stays
<1> QED BY <1>2, <1>3, <1>4 DEF Stays, Rests

\* A transaction on a row that rests, without release, lets all rows rest.
LEMMA CommitRests ==
  ASSUME Inv, NEW k \in Rows, NEW row, Commit(k, row, FALSE), revoked' = revoked, Rests(k)
  PROVE  Resting
<1>1. lease' = lease /\ \A i \in Rows \ {k} : ledger'[i] = ledger[i]
  BY CommitRow DEF Commit
<1> QED BY <1>1, SameRests DEF Resting

\* What tick does with a row is a step of these kinds.
LEMMA TickRowStep ==
  ASSUME Inv, Control, NEW k \in Rows, TickRow(k)
  PROVE  Step
<1>1. Sane(k) /\ Fit(k) /\ RowOK(ledger[k]) /\ Shape(ledger[k])
  BY DEF Control, Sane
<1>2. k \in active \cup recovering => ledger[k].lifecycle # "NONE"
  <2>1. ledger[k].lifecycle = "NONE" => ledger[k].phase \notin Phases
    BY <1>1 DEF Shape
  <2> QED BY <1>1, <2>1 DEF Fit, WatchFit
<1>3. ASSUME TickReattach(k) \/ TickRunning(k) \/ TickDeferred(k) PROVE Step
  <2>1. UNCHANGED <<ledger, lease, revoked>>
    BY <1>3 DEF TickReattach, TickRunning, TickDeferred, durable
  <2> QED BY <2>1, SameRests DEF Step, Resting
<1>4. ASSUME NEW retry \in BOOLEAN, TickReattachFails(k, retry) PROVE Step
  <2>1. Commit(k, UnknownRow(ledger[k]), FALSE) /\ revoked' = revoked /\ k \in recovering
    BY <1>4 DEF TickReattachFails
  <2>2. Rests(k)
    BY <1>2, <2>1, CommitRow, UnknownRests
  <2> QED BY <2>1, <2>2, CommitRests DEF Step
<1>5. ASSUME TickUnknown(k) PROVE Step
  <2>1. Commit(k, UnknownRow(ledger[k]), FALSE) /\ revoked' = revoked /\ k \in active
    BY <1>5 DEF TickUnknown
  <2>2. Rests(k)
    BY <1>2, <2>1, CommitRow, UnknownRests
  <2> QED BY <2>1, <2>2, CommitRests DEF Step
<1>6. ASSUME TickRefused(k) PROVE Step
  <2>1. /\ Commit(k, UnknownRow(ledger[k]), FALSE) /\ revoked' = revoked
        /\ Unattended(k) /\ Resumable(view[k])
    BY <1>6 DEF TickRefused, Starting, Startable
  <2>2. Rests(k)
    <3>1. ledger[k].lifecycle # "NONE"
      BY <2>1, SnapshotFits
    <3>2. ledger'[k] = UnknownRow(ledger[k])
      BY <2>1, CommitRow
    <3> QED BY <3>1, <3>2, UnknownRests
  <2> QED BY <2>1, <2>2, CommitRests DEF Step
<1>7. ASSUME NEW e \in ExitReports(k), TickComplete(k, e) PROVE Step
  <2> DEFINE s == CompletedRow(ledger[k], e)
             free == CompletionReleases(ledger[k], e)
  <2>1. Commit(k, s, free) /\ revoked' = revoked /\ ledger[k].phase \in Phases
    BY <1>7, ReportMeansQuiet DEF TickComplete, At
  <2>2. Settles(ledger[k], s, free)
    BY <1>1, <2>1, ReportsAreGood, CompletedFields DEF Sane
  <2>3. free \in BOOLEAN
    BY DEF CompletionReleases
  <2> HIDE DEF s, free
  <2>4. ledger'[k] = s
    BY <2>1, CommitRow
  <2> QED BY <2>1, <2>2, <2>3, <2>4 DEF Settling, Step
<1>8. ASSUME TickCancelled(k) \/ TickBudgetBlocked(k) PROVE Step
  <2>1. PICK row, free : Commit(k, row, free) /\ Settles(ledger[k], row, free)
    BY <1>8, CancelledSettles, BudgetSettles
  <2>2. revoked' = revoked
    BY <1>8 DEF TickCancelled, TickBudgetBlocked
  <2>3. ledger'[k] = row
    BY <2>1, CommitRow
  <2>4. PICK f \in BOOLEAN : f <=> free
    OBVIOUS
  <2>5. Commit(k, row, f) /\ Settles(ledger[k], row, f)
    BY <2>1, <2>4 DEF Commit, Settles
  <2> QED BY <2>2, <2>3, <2>5 DEF Settling, Step
<1> QED BY <1>3, <1>4, <1>5, <1>6, <1>7, <1>8 DEF TickRow, Step

\* A call of the API is a step of these kinds.
LEMMA CallStep ==
  ASSUME Inv, Control, Call
  PROVE  Step
<1>1. ASSUME NEW j \in Jobs, Submit(j) PROVE Step
  <2>1. j \in Rows /\ ParentOf(j) = j /\ j \notin Reconciles
    BY RowsAssumption DEF Rows, ParentOf
  <2> QED BY <1>1, <2>1 DEF Submit, Admitting, Step
<1>2. ASSUME NEW c \in Reconciles, Reconcile(c) PROVE Step
  <2>1. c \in Rows /\ ParentOf(c) = Parent[c]
    BY RowsAssumption DEF Rows, ParentOf
  <2> QED BY <1>2, <2>1 DEF Reconcile, Admitting, Step
<1>3. ASSUME NEW k \in Rows, Cancel(k) PROVE Step
  <2>1. PICK row :
           /\ Sane(k)' /\ ledger'[k] = row /\ Nonterminal(k) /\ row.cancel_requested
           /\ ~ledger[k].cancel_requested
           /\ row.delivery_intents = ledger[k].delivery_intents
           /\ row.handles = ledger[k].handles
           /\ \/ /\ ledger[k].phase = "QUEUED" /\ row.phase = "CANCELLED_BEFORE_START"
                 /\ Commit(k, row, TRUE) /\ Settles(ledger[k], row, TRUE)
              \/ /\ ledger[k].phase # "QUEUED" /\ row.phase = ledger[k].phase
                 /\ row.outcome = ledger[k].outcome /\ row.lifecycle = ledger[k].lifecycle
                 /\ row.exit_proof = ledger[k].exit_proof
                 /\ Commit(k, row, FALSE)
    BY <1>3, CancelMoves
  <2>2. revoked' = revoked
    BY <1>3 DEF Cancel
  <2>3. CASE ledger[k].phase = "QUEUED"
    BY <2>1, <2>2, <2>3 DEF Settling, Step
  <2>4. CASE ledger[k].phase # "QUEUED"
    <3>1. Rests(k)
      BY <2>1, <2>4 DEF Rests
    <3> QED BY <2>1, <2>2, <2>4, <3>1, CommitRests DEF Step
  <2> QED BY <2>3, <2>4
<1>4. ASSUME NEW p \in Principals, Revoke(p) PROVE Step
  <2>1. lease' = lease /\ revoked \subseteq revoked'
    BY <1>4 DEF Revoke
  <2>2. \A i \in Rows : Rests(i)
    BY <1>4, RevokeMoves DEF Rests
  <2> QED BY <2>1, <2>2 DEF Resting, Step
<1>5. ASSUME NEW j \in Jobs, CompleteRecoveredEvidence(j) PROVE Step
  <2>1. j \in Rows /\ revoked' = revoked
    BY <1>5 DEF CompleteRecoveredEvidence, Rows
  <2> QED BY <1>5, <2>1, RecoveredEvidenceSettles DEF Settling, Step
<1> QED BY <1>1, <1>2, <1>3, <1>4, <1>5 DEF Call

\* What runner.start and the observers do is a step of these kinds.
LEMMA ThreadStep ==
  ASSUME Inv, Control, NEW k \in Rows, StartReturns(k) \/ Observer(k)
  PROVE  Step
<1>1. Sane(k) /\ Fit(k) /\ RowOK(ledger[k]) /\ Shape(ledger[k])
  BY DEF Control, Sane
<1>2. ASSUME StartReturns(k) PROVE Step
  <2>1. /\ fence.op = "start" /\ fence.row = k /\ revoked' = revoked
        /\ \/ Commit(k, ledger[k], FALSE)
           \/ Commit(k, UnknownRow(ledger[k]), FALSE)
    BY <1>2 DEF StartReturns, StartEnqueued, StartFailed
  <2>2. ledger[k].lifecycle # "NONE"
    BY <1>1, <2>1 DEF Fit, FenceFit, Shape
  <2>3. Rests(k)
    BY <2>1, <2>2, CommitRow, UnknownRests, SameRests
  <2> QED BY <2>1, <2>3, CommitRests DEF Step
<1>3. ASSUME GuardStart(k) PROVE Step
  <2>1. /\ Commit(k, [ledger[k] EXCEPT !.delivery_intents = @ \cup {watch[k].phase}], FALSE)
        /\ revoked' = revoked
    BY <1>3 DEF GuardStart
  <2>2. Rests(k)
    <3>1. ledger'[k] = [ledger[k] EXCEPT !.delivery_intents = @ \cup {watch[k].phase}]
          /\ ledger[k] \in Record
      BY <1>1, <2>1, CommitRow DEF RowOK
    <3> QED BY <3>1 DEF Rests, Record
  <2> QED BY <2>1, <2>2, CommitRests DEF Step
<1>4. ASSUME UNCHANGED <<ledger, lease, revoked>> PROVE Step
  BY <1>4, SameRests DEF Step, Resting
<1> QED BY <1>2, <1>3, <1>4 DEF Observer, ObserverEnds, Launch, LaunchFails, durable

\* Every step of the specification is a step of these kinds.
LEMMA NextStep ==
  ASSUME Inv, Control, [Next]_vars
  PROVE  Step
<1>1. ASSUME UNCHANGED <<ledger, lease, revoked>> PROVE Step
  BY <1>1, SameRests DEF Step, Resting
<1>2. ASSUME Restart PROVE Step
  <2>1. /\ lease' = lease /\ revoked' = revoked
        /\ \A i \in Rows : ledger'[i] = BarrierRow(ledger[i])
    BY <1>2 DEF Restart, Recover
  <2>2. ASSUME NEW i \in Rows PROVE Rests(i)
    <3>1. RowOK(ledger[i]) /\ Shape(ledger[i]) /\ Evidenced(ledger[i])
      BY DEF Control, Sane
    <3>2. Stays(ledger[i], ledger'[i]) /\ (ledger[i].lifecycle = "NONE" => ledger'[i] = ledger[i])
      BY <2>1, <3>1, BarrierFields
    <3>3. ledger[i].phase = "PREFLIGHT_COMPLETE" /\ ledger[i].outcome = "UNKNOWN"
            => ledger'[i].outcome = "UNKNOWN"
      <4> DEFINE u == UnknownRow(ledger[i])
      <4>1. u \in Record
        BY <3>1, UnknownRowOK DEF RowOK
      <4>2. ledger[i].phase = "PREFLIGHT_COMPLETE" /\ ledger[i].outcome = "UNKNOWN"
              => u.outcome = "UNKNOWN"
        BY <3>1 DEF UnknownRow, RowOK, Record
      <4>3. \/ ledger'[i] = ledger[i]
            \/ ledger'[i] = [u EXCEPT !.recovered = TRUE, !.barrier = ledger[i].handles,
                 !.exit_proof = IF ledger[i].phase \in Phases THEN {} ELSE @]
        BY <2>1 DEF BarrierRow
      <4> HIDE DEF u
      <4> QED BY <4>1, <4>2, <4>3 DEF Record
    <3> QED BY <3>2, <3>3 DEF Stays, Rests
  <2> QED BY <2>1, <2>2 DEF Resting, Step
<1>3. CASE UNCHANGED vars
  BY <1>1, <1>3 DEF vars
<1>4. ASSUME TickRead \/ TickAbort \/ (\E reboot \in BOOLEAN : Crash(reboot))
             \/ (\E k \in Rows, phase \in Phases : Manager(k, phase))
      PROVE Step
  BY <1>1, <1>4 DEF TickRead, TickAbort, Crash, Manager, Unit, durable
<1> QED BY <1>2, <1>3, <1>4, CallStep, TickRowStep, ThreadStep DEF Next

\* What an execution intent finds and what it writes.
LEMMA IntentMoves ==
  ASSUME Inv, Control, NEW k \in Rows, TickIntent(k)
  PROVE  /\ ledger[k].lifecycle \notin {"NONE", "TERMINAL"}
         /\ ledger[k].phase = view[k].phase /\ ledger[k].outcome = view[k].outcome
         /\ ledger[k].phase \in {"QUEUED", "PREFLIGHT_COMPLETE", "AWAITING_SEAL"}
         /\ ledger[k].phase = "PREFLIGHT_COMPLETE" => ledger[k].outcome # "UNKNOWN"
         /\ Owned(ParentOf(k)) /\ lease' = lease /\ revoked' = revoked
         /\ ledger'[k].phase = NextPhase(k) /\ ledger'[k].lifecycle = "RUNNING"
         /\ ledger'[k].handles = ledger[k].handles \cup {NextPhase(k)}
         /\ \A i \in Rows \ {k} : ledger'[i] = ledger[i]
<1>1. /\ Unattended(k) /\ Startable(view[k]) /\ ~StartDeferred(k) /\ StartAllowed(k)
      /\ revoked' = revoked
      /\ Commit(k, [ledger[k] EXCEPT !.phase = NextPhase(k), !.lifecycle = "RUNNING",
                      !.handles = @ \cup {NextPhase(k)}, !.exit_proof = {}], FALSE)
  BY DEF TickIntent, Starting
<1>2. Resumable(view[k]) /\ ~ledger[k].cancel_requested
  BY <1>1 DEF Startable, StartDeferred
<1>3. /\ ledger[k].lifecycle \notin {"NONE", "TERMINAL"}
      /\ ledger[k].phase = view[k].phase /\ ledger[k].outcome = view[k].outcome
      /\ ledger[k].phase \in {"QUEUED", "PREFLIGHT_COMPLETE", "AWAITING_SEAL"}
  BY <1>1, <1>2, SnapshotFits
<1>4. ledger[k].phase = "PREFLIGHT_COMPLETE" => ledger[k].outcome # "UNKNOWN"
  BY <1>1, <1>3 DEF Startable
<1>5. ledger[k] \in Record
  BY DEF Inv, TypeOK
<1>6. /\ ledger'[k] = [ledger[k] EXCEPT !.phase = NextPhase(k), !.lifecycle = "RUNNING",
                         !.handles = @ \cup {NextPhase(k)}, !.exit_proof = {}]
      /\ \A i \in Rows \ {k} : ledger'[i] = ledger[i]
  BY <1>1, CommitRow
<1>7. /\ ledger'[k].phase = NextPhase(k) /\ ledger'[k].lifecycle = "RUNNING"
      /\ ledger'[k].handles = ledger[k].handles \cup {NextPhase(k)}
  BY <1>5, <1>6 DEF Record
<1>8. Owned(ParentOf(k)) /\ lease' = lease
  BY <1>1 DEF StartAllowed, Commit
<1> QED BY <1>1, <1>3, <1>4, <1>6, <1>7, <1>8

-----------------------------------------------------------------------------
(* Finality *)

\* A TERMINAL row stays TERMINAL with the same outcome, against stale snapshots,
\* late reports and errors, retried cancels and recovery (_unknown, tick, cancel,
\* recover).
THEOREM TerminalFinal == Spec => TerminalIsFinal
<1>1. ASSUME Inv, Control, [Next]_vars, NEW k \in Rows, ledger[k].lifecycle = "TERMINAL"
      PROVE  ledger'[k].lifecycle = "TERMINAL" /\ ledger'[k].outcome = ledger[k].outcome
  <2>1. Step
    BY <1>1, NextStep
  <2>2. CASE Resting
    BY <1>1, <2>2 DEF Resting, Rests
  <2>3. ASSUME NEW i \in Rows, NEW free \in BOOLEAN, Settling(i, free)
        PROVE  ledger'[k].lifecycle = "TERMINAL" /\ ledger'[k].outcome = ledger[k].outcome
    BY <1>1, <2>3, CommitRow DEF Settling, Settles
  <2>4. ASSUME NEW i \in Rows, Admitting(i)
        PROVE  ledger'[k].lifecycle = "TERMINAL" /\ ledger'[k].outcome = ledger[k].outcome
    BY <1>1, <2>4 DEF Admitting, Inv, TypeOK
  <2>5. ASSUME NEW i \in Rows, TickIntent(i)
        PROVE  ledger'[k].lifecycle = "TERMINAL" /\ ledger'[k].outcome = ledger[k].outcome
    <3>1. i # k
      BY <1>1, <2>5, IntentMoves
    <3> QED BY <1>1, <2>5, <3>1, IntentMoves
  <2> QED BY <2>1, <2>2, <2>3, <2>4, <2>5 DEF Step
<1>2. Inv /\ Control /\ [Next]_vars =>
        [\A k \in Rows : ledger[k].lifecycle = "TERMINAL" =>
           /\ ledger'[k].lifecycle = "TERMINAL"
           /\ ledger'[k].outcome = ledger[k].outcome]_vars
  BY <1>1
<1> QED BY <1>2, ControlInvariance, PTL DEF Spec, TerminalIsFinal

-----------------------------------------------------------------------------
(* Leases *)

\* A row in an execution has all the leases of its job.
Held == \A k \in Rows : ledger[k].phase \in Phases => Owned(ParentOf(k))

\* The leases of a row are those of a job.
LEMMA ParentIsJob ==
  ASSUME NEW k \in Rows
  PROVE  ParentOf(k) \in Jobs
BY ParentAssumption DEF ParentOf, Rows

\* A release takes nothing from a row in a phase of its own.
LEMMA ReleaseSpares ==
  ASSUME Inv, Control, NEW k \in Rows, Releasable(k),
         NEW i \in Rows, i # k, ledger[i].phase \in Phases
  PROVE  ParentOf(i) # ParentOf(k)
<1>1. Shape(ledger[i]) /\ ledger[i].lifecycle \notin {"NONE", "TERMINAL"}
      /\ ledger[i].exit_proof = {}
  BY DEF Control, Sane, Shape
<1>2. SUFFICES ASSUME ParentOf(i) = ParentOf(k) PROVE FALSE
  OBVIOUS
<1>3. CASE i \in Reconciles
  <2>1. i \in Rounds(ParentOf(k)) \ {k}
    BY <1>2, <1>3, RowsAssumption DEF Rounds, ParentOf
  <2> QED BY <1>1, <2>1 DEF Releasable, Nonterminal
<1>4. CASE i \in Jobs
  <2>1. i = ParentOf(k) /\ k \in Reconciles
    BY <1>2, <1>4 DEF ParentOf, Rows
  <2>2. Checked \subseteq ledger[i].exit_proof
    BY <2>1 DEF Releasable
  <2> QED BY <1>1, <2>2 DEF Checked, Exited
<1> QED BY <1>3, <1>4 DEF Rows

\* Nothing takes a lease from a row in an execution: a release finds all other
\* rows of the job out of theirs (_release).
LEMMA NextHeld ==
  ASSUME Inv, Control, Held, [Next]_vars
  PROVE  Held'
<1> SUFFICES ASSUME NEW i \in Rows, ledger'[i].phase \in Phases PROVE Owned(ParentOf(i))'
  BY DEF Held, ParentOf
<1>1. Step /\ lease \in [Resources -> Jobs \cup {Free}] /\ ParentOf(i) \in Jobs
  BY NextStep, ParentIsJob DEF Inv, TypeOK
<1>2. CASE Resting
  BY <1>2 DEF Resting, Rests, Held, Owned, ParentOf
<1>3. ASSUME NEW k \in Rows, NEW free \in BOOLEAN, Settling(k, free)
      PROVE  Owned(ParentOf(i))'
  <2>1. i # k /\ ledger'[i] = ledger[i]
    BY <1>3, CommitRow DEF Settling, Settles
  <2>2. Owned(ParentOf(i))
    BY <2>1 DEF Held
  <2>3. CASE lease' = lease
    BY <2>2, <2>3 DEF Owned, ParentOf
  <2>4. CASE lease' # lease
    <3>1. Releasable(k)
          /\ lease' = [r \in Resources |-> IF lease[r] = ParentOf(k) THEN Free ELSE lease[r]]
      BY <1>3, <2>4 DEF Settling, Commit, Released
    <3>2. ParentOf(i) # ParentOf(k)
      BY <2>1, <3>1, ReleaseSpares
    <3>3. \A r \in Needs[ParentOf(i)] : r \in Resources
      BY <1>1, NeedsAssumption
    <3> QED BY <2>2, <3>1, <3>2, <3>3 DEF Owned, ParentOf
  <2> QED BY <2>3, <2>4
<1>4. ASSUME NEW k \in Rows, Admitting(k) PROVE Owned(ParentOf(i))'
  <2>1. i # k /\ ledger'[i] = ledger[i]
    BY <1>4 DEF Admitting, Inv, TypeOK, NewRow, NoRow, Phases
  <2>2. Owned(ParentOf(i))
    BY <2>1 DEF Held
  <2>3. /\ lease' = [r \in Resources |-> IF r \in Needs[ParentOf(k)] THEN ParentOf(k) ELSE lease[r]]
        /\ \A r \in Needs[ParentOf(k)] : lease[r] \in {Free, ParentOf(k)}
    BY <1>4 DEF Admitting, Acquire, Acquirable
  <2>4. \A r \in Needs[ParentOf(i)] : r \in Resources
    BY <1>1, NeedsAssumption
  <2> QED BY <1>1, <2>2, <2>3, <2>4, NeedsAssumption DEF Owned, ParentOf
<1>5. ASSUME NEW k \in Rows, TickIntent(k) PROVE Owned(ParentOf(i))'
  <2>1. lease' = lease /\ Owned(ParentOf(k))
    BY <1>5, IntentMoves
  <2>2. i = k \/ ledger'[i] = ledger[i]
    BY <1>5, IntentMoves
  <2>3. Owned(ParentOf(i))
    BY <2>1, <2>2 DEF Held
  <2> QED BY <2>1, <2>3 DEF Owned, ParentOf
<1> QED BY <1>1, <1>2, <1>3, <1>4, <1>5 DEF Step

\* A row in an execution has all the leases of its job, always.
LEMMA HeldInvariance == Spec => []Held
<1>1. Init => Held
  BY DEF Init, Held, NoRow, Phases
<1>2. Inv /\ Control /\ Held /\ [Next]_vars => Held'
  BY NextHeld
<1> QED BY <1>1, <1>2, ControlInvariance, PTL DEF Spec

\* As long as an execution runs or can still be started, its job holds all its
\* resources, whatever restarts, rounds and cancellations happen (resources.py
\* acquire and release, broker.py _release and _start).
THEOREM LeaseCovers == Spec => []LeaseCoversWork
<1>1. Inv /\ Control /\ Held => LeaseCoversWork
  <2> SUFFICES ASSUME Inv, Control, Held, NEW k \in Rows, NEW p \in Phases, Pending(k, p)
               PROVE  Owned(ParentOf(k))
    BY DEF LeaseCoversWork, Busy
  <2> QED BY BusyIsInPhase DEF Held
<1> QED BY <1>1, ControlInvariance, HeldInvariance, PTL

-----------------------------------------------------------------------------
(* The limit of running executions *)

\* The rows in an execution.
Running == {k \in Rows : ledger[k].phase \in Phases}
\* At most max_running rows are in an execution.
Bounded == Cardinality(Running) <= MaxRunning

\* There are finitely many rows in an execution.
LEMMA RunningFinite ==
  IsFiniteSet(Running) /\ Cardinality(Running) \in Nat
<1>1. Running \subseteq Rows
  BY DEF Running
<1> QED BY <1>1, RowsAssumption, FS_Subset, FS_CardinalityType

\* What runs is counted against max_running.
LEMMA RunningIsCounted ==
  ASSUME Inv, Control
  PROVE  /\ Running \subseteq ExecutionSlots /\ IsFiniteSet(ExecutionSlots)
<1>1. ASSUME NEW k \in Running PROVE Issued(ledger[k])
  BY <1>1 DEF Running, Control, Sane, Shape, Issued, Exited
<1>2. ExecutionSlots \subseteq Rows
  BY DEF ExecutionSlots, Inv, TypeOK
<1> QED BY <1>1, <1>2, RowsAssumption, FS_Subset DEF ExecutionSlots, Running

\* _start counts the executions, also the unobserved ones, before it adds one.
LEMMA NextBounded ==
  ASSUME Inv, Control, Bounded, [Next]_vars
  PROVE  Bounded'
<1>1. IsFiniteSet(Running) /\ Cardinality(Running) \in Nat /\ MaxRunning \in Nat
  BY RunningFinite, LimitsAssumption
<1>2. ASSUME Running' \subseteq Running PROVE Bounded'
  <2>1. Cardinality(Running') <= Cardinality(Running) /\ Cardinality(Running') \in Nat
    BY <1>1, <1>2, FS_Subset, FS_CardinalityType
  <2> QED BY <1>1, <2>1 DEF Bounded
<1>3. CASE Resting
  <2>1. Running' \subseteq Running
    BY <1>3 DEF Running, Resting, Rests
  <2> QED BY <1>2, <2>1
<1>4. ASSUME NEW k \in Rows, NEW free \in BOOLEAN, Settling(k, free) PROVE Bounded'
  <2>1. Running' \subseteq Running
    BY <1>4, CommitRow DEF Settling, Settles, Running
  <2> QED BY <1>2, <2>1
<1>5. ASSUME NEW k \in Rows, Admitting(k) PROVE Bounded'
  <2>1. Running' \subseteq Running
    BY <1>5 DEF Running, Admitting, Inv, TypeOK, NewRow, NoRow, Phases
  <2> QED BY <1>2, <2>1
<1>6. ASSUME NEW k \in Rows, TickIntent(k) PROVE Bounded'
  <2>1. Cardinality(ExecutionSlots) < MaxRunning
    <3>1. ~(Cardinality(ExecutionSlots) >= MaxRunning)
      BY <1>6 DEF TickIntent, StartDeferred
    <3>2. Cardinality(ExecutionSlots) \in Nat
      BY RunningIsCounted, FS_CardinalityType
    <3> QED BY <1>1, <3>1, <3>2
  <2>2. Cardinality(Running) <= Cardinality(ExecutionSlots) /\ Cardinality(ExecutionSlots) \in Nat
    BY RunningIsCounted, FS_Subset, FS_CardinalityType
  <2>3. Running' \subseteq Running \cup {k}
    BY <1>6, IntentMoves DEF Running
  <2>4. /\ IsFiniteSet(Running \cup {k})
        /\ Cardinality(Running \cup {k}) <= Cardinality(Running) + 1
    BY <1>1, FS_AddElement
  <2>5. Cardinality(Running') <= Cardinality(Running \cup {k})
        /\ Cardinality(Running') \in Nat /\ Cardinality(Running \cup {k}) \in Nat
    BY <2>3, <2>4, FS_Subset, FS_CardinalityType
  <2> QED BY <1>1, <2>1, <2>2, <2>4, <2>5 DEF Bounded
<1> QED BY <1>3, <1>4, <1>5, <1>6, NextStep DEF Step

\* max_running bounds the executions that run or can still be started, also
\* those that the service lost track of (_execution_slots).
THEOREM RunningLimited == Spec => []RunningBounded
<1>1. Init => Bounded
  <2> SUFFICES ASSUME Init PROVE Bounded
    OBVIOUS
  <2>1. Running = {}
    BY DEF Init, Running, NoRow, Phases
  <2> QED BY <2>1, FS_EmptySet, LimitsAssumption DEF Bounded
<1>2. Inv /\ Control /\ Bounded => RunningBounded
  <2> SUFFICES ASSUME Inv, Control, Bounded PROVE RunningBounded
    OBVIOUS
  <2> DEFINE B == {k \in Rows : Busy(k)}
  <2>1. B \subseteq Running
    BY BusyIsInPhase DEF Running, Busy
  <2>2. Cardinality(B) <= Cardinality(Running) /\ Cardinality(B) \in Nat
    BY <2>1, RunningFinite, FS_Subset, FS_CardinalityType
  <2> QED BY <2>2, RunningFinite, LimitsAssumption DEF Bounded, RunningBounded
<1>3. Inv /\ Control /\ Bounded /\ [Next]_vars => Bounded'
  BY NextBounded
<1> QED BY <1>1, <1>2, <1>3, ControlInvariance, PTL DEF Spec

-----------------------------------------------------------------------------
(* Observation rounds *)

\* The row is out of preparation and business for good.
Done(r) ==
  /\ r.phase \notin {"QUEUED", "PREFLIGHT", "BUSINESS"}
  /\ r.phase = "PREFLIGHT_COMPLETE" => r.outcome = "UNKNOWN"

\* A round that ever started found its job out of preparation and business.
Followed ==
  \A c \in Reconciles : ledger[c].handles # {} => Done(ledger[Parent[c]])

\* A row that is out of preparation and business does not enter them again.
LEMMA DoneStays ==
  ASSUME Inv, Control, [Next]_vars, NEW j \in Jobs, Done(ledger[j])
  PROVE  Done(ledger'[j])
<1>1. j \in Rows /\ j \notin Reconciles
  BY RowsAssumption DEF Rows
<1>2. CASE Resting
  BY <1>1, <1>2 DEF Resting, Rests, Done
<1>3. ASSUME NEW k \in Rows, NEW free \in BOOLEAN, Settling(k, free) PROVE Done(ledger'[j])
  BY <1>1, <1>3, CommitRow DEF Settling, Settles, Done, Phases
<1>4. ASSUME NEW k \in Rows, Admitting(k) PROVE Done(ledger'[j])
  <2>1. ledger[k].phase = "QUEUED" /\ \A i \in Rows \ {k} : ledger'[i] = ledger[i]
    BY <1>4 DEF Admitting, Inv, TypeOK, LedgerOK, RowOK, NoRow
  <2> QED BY <1>1, <2>1 DEF Done
<1>5. ASSUME NEW k \in Rows, TickIntent(k) PROVE Done(ledger'[j])
  <2>1. CASE k = j
    <3>1. ledger[j].phase = "AWAITING_SEAL" /\ view[j].phase = "AWAITING_SEAL"
      BY <1>5, <2>1, IntentMoves DEF Done
    <3> QED BY <1>5, <2>1, <3>1, IntentMoves DEF Done, NextPhase
  <2>2. CASE k # j
    BY <1>1, <1>5, <2>2, IntentMoves
  <2> QED BY <2>1, <2>2
<1> QED BY <1>2, <1>3, <1>4, <1>5, NextStep DEF Step

\* The first intent of a round finds a parent that is done.
LEMMA RoundStartsDone ==
  ASSUME Inv, Control, NEW c \in Reconciles, TickIntent(c),
         ledger[Parent[c]].lifecycle # "NONE", ledger[c].handles = {}
  PROVE  Done(ledger[Parent[c]])
<1> DEFINE r == ledger[Parent[c]]
<1>1. c \in Rows /\ Parent[c] \in Rows /\ c \notin Jobs
  BY ParentAssumption, RowsAssumption DEF Rows
<1>2. Shape(r) /\ Evidenced(r) /\ Shape(ledger[c])
  BY <1>1 DEF Control, Sane
<1>3. ledger[c].phase = view[c].phase /\ view[c].phase # "AWAITING_SEAL"
  BY <1>1, <1>2, IntentMoves DEF Shape
<1>4. NextPhase(c) = "RECONCILE"
  BY <1>3 DEF NextPhase
<1>5. r.lifecycle \notin {"NONE", "ACCEPTED", "RUNNING"} /\ Exited \subseteq r.exit_proof
  BY <1>4 DEF TickIntent, StartDeferred, StartAllowed
<1> HIDE DEF r
<1>6. r.phase \notin Phases \cup {"QUEUED"}
  BY <1>2, <1>5 DEF Shape, Exited
<1>7. r.phase = "PREFLIGHT_COMPLETE" => r.outcome = "UNKNOWN"
  BY <1>2, <1>5 DEF Evidenced
<1> QED BY <1>5, <1>6, <1>7 DEF Done, Phases, r

\* A row that is TERMINAL without a full exit proof: tick found it revoked in the queue.
Unproved(r) == r.lifecycle = "TERMINAL" /\ ~(Checked \subseteq r.exit_proof)

\* A queued row whose cancellation is only recorded was revoked, and so is the
\* owner of a TERMINAL row without a full proof.
Withdrawn ==
  \A k \in Rows :
     /\ ledger[k].phase = "QUEUED" /\ ledger[k].cancel_requested => OwnerOf(k) \in revoked
     /\ Unproved(ledger[k]) => OwnerOf(k) \in revoked

\* A round observes a job that was started and ended, if it ended, with a proof.
Parented ==
  \A c \in Reconciles :
     ledger[c].lifecycle # "NONE" =>
        ledger[Parent[c]].lifecycle \notin {"NONE", "ACCEPTED"} /\ ~Unproved(ledger[Parent[c]])

\* Only revoke records a cancellation of a queued row without ending it.
LEMMA NextWithdrawn ==
  ASSUME Inv, Control, Withdrawn, [Next]_vars
  PROVE  Withdrawn'
<1> SUFFICES ASSUME NEW i \in Rows
             PROVE  /\ ledger'[i].phase = "QUEUED" /\ ledger'[i].cancel_requested
                         => OwnerOf(i) \in revoked'
                    /\ Unproved(ledger'[i]) => OwnerOf(i) \in revoked'
  BY DEF Withdrawn, OwnerOf, ParentOf
<1>1. CASE Resting
  BY <1>1 DEF Resting, Rests, Withdrawn, Unproved
<1>2. ASSUME NEW k \in Rows, NEW free \in BOOLEAN, Settling(k, free)
      PROVE  /\ ledger'[i].phase = "QUEUED" /\ ledger'[i].cancel_requested
                  => OwnerOf(i) \in revoked'
             /\ Unproved(ledger'[i]) => OwnerOf(i) \in revoked'
  <2>1. CASE i # k
    BY <1>2, <2>1, CommitRow DEF Settling, Withdrawn
  <2>2. CASE i = k
    <3>1. Shape(ledger[i])
      BY DEF Control, Sane
    <3> QED BY <1>2, <2>2, <3>1 DEF Settling, Settles, Withdrawn, Unproved, Shape
  <2> QED BY <2>1, <2>2
<1>3. ASSUME NEW k \in Rows, Admitting(k)
      PROVE  /\ ledger'[i].phase = "QUEUED" /\ ledger'[i].cancel_requested
                  => OwnerOf(i) \in revoked'
             /\ Unproved(ledger'[i]) => OwnerOf(i) \in revoked'
  <2>1. ledger'[i] = (IF i = k THEN NewRow ELSE ledger[i]) /\ revoked' = revoked
    BY <1>3 DEF Admitting, Inv, TypeOK
  <2>2. ~NewRow.cancel_requested /\ NewRow.lifecycle = "ACCEPTED"
    BY DEF NewRow, NoRow
  <2> QED BY <2>1, <2>2 DEF Withdrawn, Unproved
<1>4. ASSUME NEW k \in Rows, TickIntent(k)
      PROVE  /\ ledger'[i].phase = "QUEUED" /\ ledger'[i].cancel_requested
                  => OwnerOf(i) \in revoked'
             /\ Unproved(ledger'[i]) => OwnerOf(i) \in revoked'
  <2>1. ledger'[k].phase # "QUEUED" /\ ledger'[k].lifecycle = "RUNNING" /\ revoked' = revoked
    BY <1>4, IntentMoves DEF NextPhase
  <2>2. i # k => ledger'[i] = ledger[i]
    BY <1>4, IntentMoves
  <2> QED BY <2>1, <2>2 DEF Withdrawn, Unproved
<1> QED BY <1>1, <1>2, <1>3, <1>4, NextStep DEF Step

\* reconcile admits no round of a job of a revoked owner, or of one still accepted.
LEMMA NextParented ==
  ASSUME Inv, Control, Withdrawn, Parented, [Next]_vars
  PROVE  Parented'
<1> SUFFICES ASSUME NEW c \in Reconciles, ledger'[c].lifecycle # "NONE"
             PROVE  /\ ledger'[Parent[c]].lifecycle \notin {"NONE", "ACCEPTED"}
                    /\ ~Unproved(ledger'[Parent[c]])
  BY DEF Parented
<1> DEFINE j == Parent[c]
           Fine == ledger'[j].lifecycle \notin {"NONE", "ACCEPTED"} /\ ~Unproved(ledger'[j])
<1>1. c \in Rows /\ j \in Rows /\ j \in Jobs /\ c # j /\ j \notin Reconciles
  BY ParentAssumption, RowsAssumption DEF Rows
<1>2. OwnerOf(c) = OwnerOf(j)
  BY <1>1, RowsAssumption DEF OwnerOf, ParentOf
<1> HIDE DEF j
<1>3. ledger[c].lifecycle # "NONE" =>
        ledger[j].lifecycle \notin {"NONE", "ACCEPTED"} /\ ~Unproved(ledger[j])
  BY DEF Parented, j
<1>4. ASSUME Resting PROVE Fine
  <2>1. Rests(c) /\ Rests(j)
    BY <1>1, <1>4 DEF Resting
  <2>2. ledger[c].lifecycle # "NONE"
    BY <2>1 DEF Rests
  <2> QED BY <1>3, <2>1, <2>2 DEF Rests, Unproved
<1>5. ASSUME NEW k \in Rows, NEW free \in BOOLEAN, Settling(k, free) PROVE Fine
  <2>1. \A i \in Rows \ {k} : ledger'[i] = ledger[i]
    BY <1>5, CommitRow DEF Settling
  <2>2. ledger[c].lifecycle # "NONE"
    BY <1>1, <1>5, <2>1 DEF Settling, Settles
  <2>3. CASE k # j
    BY <1>1, <1>3, <2>1, <2>2, <2>3
  <2>4. CASE k = j
    BY <1>3, <1>5, <2>2, <2>4 DEF Settling, Settles, Unproved
  <2> QED BY <2>3, <2>4
<1>6. ASSUME NEW k \in Rows, Admitting(k) PROVE Fine
  <2>1. \A i \in Rows \ {k} : ledger'[i] = ledger[i]
    BY <1>6 DEF Admitting, Inv, TypeOK
  <2>2. CASE k = c
    <3>1. /\ ledger[j].lifecycle \in {"RECONCILE_REQUIRED", "TERMINAL"}
          /\ OwnerOf(c) \notin revoked /\ ledger'[j] = ledger[j]
      BY <1>1, <1>6, <2>1, <2>2 DEF Admitting, j
    <3> QED BY <1>1, <1>2, <3>1 DEF Withdrawn
  <2>3. CASE k # c
    <3>1. ledger[c].lifecycle # "NONE" /\ k # j
      BY <1>1, <1>3, <1>6, <2>1, <2>3 DEF Admitting
    <3> QED BY <1>1, <1>3, <2>1, <3>1
  <2> QED BY <2>2, <2>3
<1>7. ASSUME NEW k \in Rows, TickIntent(k) PROVE Fine
  <2>1. /\ \A i \in Rows \ {k} : ledger'[i] = ledger[i]
        /\ ledger'[k].lifecycle = "RUNNING" /\ ledger[k].lifecycle # "NONE"
    BY <1>7, IntentMoves
  <2> QED BY <1>1, <1>3, <2>1 DEF Unproved
<1> QED BY <1>4, <1>5, <1>6, <1>7, NextStep DEF Step, j

\* _start asks for the exit proof of the job before it starts a round.
LEMMA NextFollowed ==
  ASSUME Inv, Control, Parented, Followed, [Next]_vars
  PROVE  Followed'
<1> SUFFICES ASSUME NEW c \in Reconciles, ledger'[c].handles # {}
             PROVE  Done(ledger'[Parent[c]])
  BY DEF Followed
<1>1. c \in Rows /\ Parent[c] \in Jobs /\ Parent[c] # c /\ Parent[c] \in Rows
  BY ParentAssumption, RowsAssumption DEF Rows
<1>2. Done(ledger[Parent[c]]) => Done(ledger'[Parent[c]])
  BY <1>1, DoneStays
<1>3. ledger[c].handles # {} => Done(ledger'[Parent[c]])
  BY <1>2 DEF Followed
<1>4. CASE Resting
  BY <1>1, <1>3, <1>4 DEF Resting, Rests
<1>5. ASSUME NEW k \in Rows, NEW free \in BOOLEAN, Settling(k, free)
      PROVE  Done(ledger'[Parent[c]])
  BY <1>1, <1>3, <1>5, CommitRow DEF Settling, Settles
<1>6. ASSUME NEW k \in Rows, Admitting(k) PROVE Done(ledger'[Parent[c]])
  <2>1. NewRow.handles = {}
    BY DEF NewRow, NoRow
  <2>2. ledger'[c] = IF c = k THEN NewRow ELSE ledger[c]
    BY <1>1, <1>6 DEF Admitting, Inv, TypeOK
  <2> QED BY <1>3, <2>1, <2>2
<1>7. ASSUME NEW k \in Rows, TickIntent(k) PROVE Done(ledger'[Parent[c]])
  <2>1. CASE k # c
    BY <1>1, <1>3, <1>7, <2>1, IntentMoves
  <2>2. CASE k = c /\ ledger[c].handles = {}
    <3>1. ledger[c].lifecycle # "NONE"
      BY <1>1, <1>7, <2>2, IntentMoves
    <3>2. ledger[Parent[c]].lifecycle # "NONE"
      BY <3>1 DEF Parented
    <3>3. Done(ledger[Parent[c]])
      BY <1>7, <2>2, <3>2, RoundStartsDone
    <3> QED BY <1>2, <3>3
  <2> QED BY <1>3, <2>1, <2>2
<1> QED BY <1>4, <1>5, <1>6, <1>7, NextStep DEF Step

\* What the ledger says of rounds and their jobs.
Rounded == Withdrawn /\ Parented /\ Followed

\* Rounds and the jobs they observe fit together in every reachable state.
LEMMA RoundedInvariance == Spec => []Rounded
<1>1. Init => Rounded
  BY ParentAssumption DEF Init, Rounded, Withdrawn, Parented, Followed, NoRow, Unproved, Rows
<1>2. Inv /\ Control /\ Rounded /\ [Next]_vars => Rounded'
  BY NextWithdrawn, NextParented, NextFollowed DEF Rounded
<1> QED BY <1>1, <1>2, ControlInvariance, PTL DEF Spec

\* An observation round never overlaps preparation or business of the job it
\* observes, not even after a crash between the two (_start, reconcile).
THEOREM RoundsWait == Spec => []RoundsObserveQuietJobs
<1>1. Inv /\ Control /\ Rounded => RoundsObserveQuietJobs
  <2> SUFFICES ASSUME Inv, Control, Rounded, NEW c \in Reconciles, NEW p \in Phases, Pending(c, p),
                      NEW phase \in {"PREFLIGHT", "BUSINESS"}, Pending(Parent[c], phase)
               PROVE  FALSE
    BY DEF RoundsObserveQuietJobs, Busy
  <2>1. c \in Rows /\ Parent[c] \in Rows /\ phase \in Phases
    BY ParentAssumption DEF Rows, Phases
  <2>2. ledger[c].phase = p /\ ledger[Parent[c]].phase = phase
    BY <2>1, BusyIsInPhase
  <2>3. ledger[c].handles # {}
    BY <2>1, <2>2 DEF Control, Sane, Shape
  <2> QED BY <2>2, <2>3 DEF Rounded, Followed, Done
<1> QED BY <1>1, ControlInvariance, RoundedInvariance, PTL

-----------------------------------------------------------------------------
(* No leak *)

\* The last row of a job to settle releases: an observation round releases for
\* the job, whose own proof is complete by then (_release).
LEMMA NextNoLeaseLeak ==
  ASSUME Inv, Control, Rounded, NoLeaseLeak, [Next]_vars
  PROVE  NoLeaseLeak'
<1> SUFFICES ASSUME NEW r \in Resources, NEW j \in Jobs, lease'[r] = j
             PROVE  \E k \in {j} \cup Rounds(j) : Nonterminal(k)'
  BY DEF NoLeaseLeak, Rounds
<1> DEFINE Kept == \E k \in {j} \cup Rounds(j) : Nonterminal(k)'
<1>1. /\ j \in Rows /\ \A c \in Rounds(j) : c \in Rows /\ ParentOf(c) = j /\ c \in Reconciles
      /\ ParentOf(j) = j
  BY RowsAssumption DEF Rows, Rounds, ParentOf
<1>2. lease[r] = j => \E k \in {j} \cup Rounds(j) : Nonterminal(k)
  BY DEF NoLeaseLeak
<1>3. CASE Resting
  <2>1. \A i \in Rows : Nonterminal(i) => Nonterminal(i)'
    BY <1>3 DEF Resting, Rests, Nonterminal
  <2> QED BY <1>1, <1>2, <1>3, <2>1 DEF Resting
<1>4. ASSUME NEW k \in Rows, NEW free \in BOOLEAN, Settling(k, free) PROVE Kept
  <2>1. /\ \A i \in Rows \ {k} : ledger'[i] = ledger[i]
        /\ lease' = IF free THEN Released(k) ELSE lease
        /\ ~free => Nonterminal(k)'
    BY <1>4, CommitRow DEF Settling, Commit, Settles, Nonterminal
  <2>2. lease[r] = j
    BY <2>1, NeedsAssumption DEF Released
  <2>3. PICK w \in {j} \cup Rounds(j) : Nonterminal(w)
    BY <1>2, <2>2
  <2>4. CASE w # k \/ ~free
    BY <1>1, <2>1, <2>3, <2>4 DEF Nonterminal
  <2>5. CASE w = k /\ free
    <3>1. ParentOf(k) = j
      BY <1>1, <2>5
    <3>2. ~Releasable(k)
      BY <2>1, <2>5, <3>1, NeedsAssumption DEF Released
    <3>3. CASE \E c \in Rounds(j) \ {k} : Nonterminal(c)
      BY <1>1, <2>1, <3>3 DEF Nonterminal
    <3>4. CASE ~\E c \in Rounds(j) \ {k} : Nonterminal(c)
      <4>1. /\ k \in Reconciles /\ k # j
            /\ \/ ledger[j].lifecycle \in {"ACCEPTED", "RUNNING"}
               \/ ledger[j].outcome = "UNKNOWN"
               \/ ~(Checked \subseteq ledger[j].exit_proof)
        BY <3>1, <3>2, <3>4, RowsAssumption DEF Releasable
      <4>2. ledger[k].lifecycle # "NONE" /\ Parent[k] = j
        BY <2>3, <2>5, <3>1, <4>1, RowsAssumption DEF Nonterminal, ParentOf
      <4>3. ledger[j].lifecycle # "NONE" /\ ~Unproved(ledger[j])
        BY <4>1, <4>2 DEF Rounded, Parented
      <4>4. ledger[j].lifecycle = "TERMINAL" => ledger[j].outcome # "UNKNOWN"
        BY <1>1 DEF Control, Sane, Evidenced
      <4>5. Nonterminal(j)
        BY <4>1, <4>3, <4>4 DEF Unproved, Nonterminal
      <4> QED BY <1>1, <2>1, <4>1, <4>5 DEF Nonterminal
    <3> QED BY <3>3, <3>4
  <2> QED BY <2>4, <2>5
<1>5. ASSUME NEW k \in Rows, Admitting(k) PROVE Kept
  <2>1. ledger'[k] = NewRow /\ \A i \in Rows \ {k} : ledger'[i] = ledger[i]
    BY <1>5 DEF Admitting, Inv, TypeOK
  <2>2. Nonterminal(k)' /\ ~Nonterminal(k)
    BY <1>5, <2>1 DEF Admitting, Nonterminal, NewRow, NoRow
  <2>3. CASE j = ParentOf(k)
    <3>1. k \in {j} \cup Rounds(j)
      BY <2>3 DEF ParentOf, Rounds, Rows
    <3> QED BY <2>2, <3>1
  <2>4. CASE j # ParentOf(k)
    <3>1. lease[r] = j
      BY <1>5, <2>4 DEF Admitting, Acquire
    <3>2. PICK w \in {j} \cup Rounds(j) : Nonterminal(w)
      BY <1>2, <3>1
    <3> QED BY <1>1, <2>1, <2>2, <3>2 DEF Nonterminal
  <2> QED BY <2>3, <2>4
<1>6. ASSUME NEW k \in Rows, TickIntent(k) PROVE Kept
  <2>1. /\ lease' = lease /\ \A i \in Rows \ {k} : ledger'[i] = ledger[i]
        /\ ledger'[k].lifecycle = "RUNNING"
    BY <1>6, IntentMoves
  <2>2. \A i \in Rows : Nonterminal(i) => Nonterminal(i)'
    BY <2>1 DEF Nonterminal
  <2> QED BY <1>1, <1>2, <2>1, <2>2
<1> QED BY <1>3, <1>4, <1>5, <1>6, NextStep DEF Step

\* When a job and all its observation rounds are TERMINAL its leases are gone: no
\* resource stays locked by an operation that is over (_release).
THEOREM NoLeak == Spec => []NoLeaseLeak
<1>1. Init => NoLeaseLeak
  BY NeedsAssumption DEF Init, NoLeaseLeak
<1>2. Inv /\ Control /\ Rounded /\ NoLeaseLeak /\ [Next]_vars => NoLeaseLeak'
  BY NextNoLeaseLeak
<1> QED BY <1>1, <1>2, ControlInvariance, RoundedInvariance, PTL DEF Spec

-----------------------------------------------------------------------------
(***************************************************************************)
(* The broker implements the abstract resource barrier: seen from leases   *)
(* and work alone every step is one of Take, Begin, End and Give.          *)
(*                                                                         *)
(* The argument: nothing but an execution intent makes a row busy, and it  *)
(* finds all leases there (WorkStays, IntentMoves); a release is made for  *)
(* a row of which nothing runs, at a time when no other row of the same    *)
(* job is in an execution (ReleaseIsQuiet, ReleaseSpares).                 *)
(***************************************************************************)

\* The jobs the abstract barrier sees at work.
Working == {ParentOf(k) : k \in {r \in Rows : Busy(r)}}

\* The work depends on the fence, the observers and the units alone.
LEMMA SameWork ==
  ASSUME UNCHANGED <<fence, watch, unit>>
  PROVE  Working' = Working
BY DEF Working, Busy, Pending, ParentOf

\* Only an execution intent makes a row busy: whatever else a thread, the
\* manager, a crash or a recovery does only hands a pending execution on.
LEMMA WorkStays ==
  ASSUME Inv, Control, [Next]_vars, NEW i \in Rows, NEW p \in Phases, Pending(i, p)'
  PROVE  Pending(i, p) \/ TickIntent(i)
<1>1. ASSUME UNCHANGED <<fence, watch, unit>> PROVE Pending(i, p)
  BY <1>1 DEF Pending
<1>2. /\ watch \in [Rows -> Watches]
      /\ unit \in [Rows -> [Phases -> {"none", "requested", "live", "gone", "lost"}]]
  BY DEF Inv, TypeOK
<1>3. ASSUME Call PROVE Pending(i, p)
  BY <1>1, <1>3 DEF Call, Submit, CompleteRecoveredEvidence, Cancel, Reconcile, Revoke, units
<1>4. ASSUME NEW k \in Rows, TickRow(k) PROVE Pending(i, p) \/ TickIntent(i)
  <2>1. ASSUME TickRunning(k) \/ TickUnknown(k) \/ TickCancelled(k) \/ TickDeferred(k)
               \/ TickRefused(k) \/ TickBudgetBlocked(k)
        PROVE  Pending(i, p)
    BY <1>1, <2>1 DEF TickRunning, TickUnknown, TickCancelled, TickDeferred, TickRefused,
                      TickBudgetBlocked, units
  <2>2. ASSUME TickReattach(k) \/ (\E retry \in BOOLEAN : TickReattachFails(k, retry))
               \/ (\E e \in ExitReports(k) : TickComplete(k, e))
        PROVE  Pending(i, p)
    <3>1. /\ fence' = fence /\ unit' = unit
          /\ watch'[i] = watch[i] \/ watch'[i].state # "queued"
      <4>1. watch[k] \in Watches /\ NoWatch.state = "none"
        BY <1>2 DEF NoWatch
      <4>2. CASE i = k
        BY <1>2, <2>2, <4>1, <4>2 DEF TickReattach, TickReattachFails, TickComplete, units, Watches
      <4>3. CASE i # k
        BY <1>2, <2>2, <4>3 DEF TickReattach, TickReattachFails, TickComplete, units
      <4> QED BY <4>2, <4>3
    <3> QED BY <3>1 DEF Pending
  <2>3. ASSUME TickIntent(k) PROVE Pending(i, p) \/ TickIntent(i)
    <3>1. watch' = watch /\ unit' = unit /\ fence'.row = k
      BY <2>3 DEF TickIntent, units
    <3> QED BY <2>3, <3>1 DEF Pending
  <2> QED BY <1>4, <2>1, <2>2, <2>3 DEF TickRow
<1>5. ASSUME NEW k \in Rows, StartReturns(k) PROVE Pending(i, p)
  <2>1. CASE StartFailed(k)
    BY <2>1 DEF StartFailed, NoFence, units, Pending
  <2>2. ASSUME NEW state, NEW acked, StartEnqueued(k, state, acked) PROVE Pending(i, p)
    <3>1. /\ fence'.op = "none" /\ unit' = unit /\ fence.op = "start" /\ fence.row = k
          /\ watch' = [watch EXCEPT ![k] = [state |-> state, phase |-> fence.phase]]
      BY <2>2 DEF StartEnqueued, NoFence, units
    <3>2. watch'[i] = watch[i] \/ (i = k /\ watch'[i].phase = fence.phase)
      BY <1>2, <3>1
    <3> QED BY <3>1, <3>2 DEF Pending
  <2> QED BY <1>5, <2>1, <2>2 DEF StartReturns
<1>6. ASSUME NEW k \in Rows, Observer(k) PROVE Pending(i, p)
  <2>1. CASE GuardStart(k)
    BY <2>1 DEF GuardStart, Pending, units
  <2>2. ASSUME NEW state \in {"prevented", "lost"}, ObserverEnds(k, state) PROVE Pending(i, p)
    <3>1. /\ fence' = fence /\ unit' = unit
          /\ watch'[i] = watch[i] \/ watch'[i].state # "queued"
      BY <1>2, <2>2 DEF ObserverEnds, units, Watches
    <3> QED BY <3>1 DEF Pending
  <2>3. ASSUME fence.op = "deliver", fence.row = k, fence'.op = "none",
               watch'[i] = watch[i] \/ watch'[i].state # "queued",
               unit' = unit \/ unit' = [unit EXCEPT ![k][fence.phase] = "requested"]
        PROVE  Pending(i, p)
    <3>1. unit'[i][p] = unit[i][p] \/ (i = k /\ p = fence.phase)
      BY <1>2, <2>3
    <3> QED BY <2>3, <3>1 DEF Pending
  <2>4. CASE Launch(k)
    BY <1>2, <2>3, <2>4 DEF Launch, NoFence, Watches
  <2>5. CASE \E state \in {"prevented", "lost", "watching"} : LaunchFails(k, state)
    BY <1>2, <2>3, <2>5 DEF LaunchFails, NoFence, Watches, units
  <2> QED BY <1>6, <2>1, <2>2, <2>4, <2>5 DEF Observer
<1>7. ASSUME NEW k \in Rows, NEW phase \in Phases, Manager(k, phase) PROVE Pending(i, p)
  <2>1. /\ fence' = fence /\ watch' = watch
        /\ \/ unit'[i][p] = unit[i][p]
           \/ unit[i][p] = "requested"
           \/ unit'[i][p] \in {"lost", "gone"}
    BY <1>2, <1>7 DEF Manager, Unit
  <2> QED BY <2>1 DEF Pending
<1>8. ASSUME NEW reboot \in BOOLEAN, Crash(reboot) PROVE Pending(i, p)
  <2>1. /\ fence'.op = "none" /\ watch'[i].state # "queued"
        /\ unit'[i][p] \in {unit[i][p], "none", "lost"}
    BY <1>8 DEF Crash, NoFence, NoWatch
  <2> QED BY <2>1 DEF Pending
<1>9. ASSUME Restart PROVE Pending(i, p)
  <2>1. fence' = fence /\ unit' = unit /\ watch'[i].state # "queued"
    BY <1>9 DEF Restart, Recover, NoWatch, units
  <2> QED BY <2>1 DEF Pending
<1>10. CASE TickRead \/ TickAbort \/ UNCHANGED vars
  BY <1>1, <1>10 DEF TickRead, TickAbort, units, vars
<1> QED BY <1>3, <1>4, <1>5, <1>6, <1>7, <1>8, <1>9, <1>10 DEF Next

\* A row that is in no execution is not busy.
LEMMA QuietMeansIdle ==
  ASSUME Inv, Control, NEW k \in Rows, ledger[k].phase \notin Phases
  PROVE  ~Busy(k)
BY BusyIsInPhase DEF Busy

\* A lease changes hands only when a job is admitted to free resources, or for a
\* row of which nothing runs.
LEMMA ReleaseIsQuiet ==
  ASSUME Inv, Control, [Next]_vars, lease' # lease
  PROVE  \/ \E j \in Jobs : Acquirable(j) /\ lease' = Acquire(j) /\ Working' = Working
         \/ \E k \in Rows : /\ Releasable(k) /\ lease' = Released(k) /\ ~Busy(k)
                            /\ Working' = Working
<1> DEFINE Taken == \E j \in Jobs : Acquirable(j) /\ lease' = Acquire(j) /\ Working' = Working
           Given == \E k \in Rows : /\ Releasable(k) /\ lease' = Released(k) /\ ~Busy(k)
                                    /\ Working' = Working
<1>1. ASSUME NEW k \in Rows, NEW row, NEW free, Commit(k, row, free), ~Busy(k), Working' = Working
      PROVE  Given
  BY <1>1 DEF Commit, Released
<1>2. ASSUME NEW j \in Jobs, Submit(j) PROVE Taken
  BY <1>2, SameWork DEF Submit, units
<1>3. ASSUME NEW c \in Reconciles, Reconcile(c) PROVE Taken
  <2>1. Parent[c] \in Jobs
    BY ParentAssumption
  <2> QED BY <1>3, <2>1, SameWork DEF Reconcile, units
<1>4. ASSUME NEW k \in Rows, Cancel(k) PROVE Given
  <2>1. CASE ledger[k].phase = "QUEUED"
    <3>1. ~Busy(k)
      BY <2>1, QuietMeansIdle DEF Phases
    <3>2. Working' = Working
      BY <1>4, SameWork DEF Cancel, units
    <3> QED BY <1>1, <1>4, <2>1, <3>1, <3>2 DEF Cancel
  <2>2. CASE ledger[k].phase # "QUEUED"
    BY <1>4, <2>2 DEF Cancel, Commit
  <2> QED BY <2>1, <2>2
<1>5. ASSUME NEW j \in Jobs, CompleteRecoveredEvidence(j) PROVE Given
  <2>1. j \in Rows /\ Fit(j)
    BY DEF Rows, Control
  <2>2. ledger[j].phase \in {"EVIDENCE", "EXITED"} /\ unit[j]["EVIDENCE"] = "lost" /\ fence.op = "none"
    BY <1>5 DEF CompleteRecoveredEvidence, Idle
  <2>3. ASSUME NEW p \in Phases, Pending(j, p) PROVE FALSE
    <3>1. p = "EVIDENCE"
      BY <2>1, <2>2, <2>3, BusyIsInPhase DEF Phases
    <3> QED BY <2>1, <2>2, <2>3, <3>1 DEF Pending, Fit, WatchFit
  <2>4. Working' = Working
    BY <1>5, SameWork DEF CompleteRecoveredEvidence, units
  <2>5. \E row : Commit(j, row, TRUE)
    BY <1>5 DEF CompleteRecoveredEvidence
  <2> QED BY <1>1, <2>1, <2>3, <2>4, <2>5 DEF Busy
<1>6. ASSUME NEW k \in Rows, NEW e \in ExitReports(k), TickComplete(k, e) PROVE Given
  <2>1. /\ k \in active /\ fence.op # "start" /\ unit' = unit /\ fence' = fence
        /\ watch' = [watch EXCEPT ![k] = NoWatch]
        /\ Commit(k, CompletedRow(ledger[k], e), CompletionReleases(ledger[k], e))
    BY <1>6 DEF TickComplete, At, units
  <2>2. ~Busy(k)
    BY <2>1, ReportMeansQuiet DEF Busy, Pending
  <2>3. \A i \in Rows : Busy(i)' <=> Busy(i)
    <3>1. watch[k].state # "queued" /\ watch'[k].state # "queued"
          /\ \A i \in Rows \ {k} : watch'[i] = watch[i]
      BY <2>1, ReportMeansQuiet DEF Inv, TypeOK, NoWatch
    <3> QED BY <2>1, <3>1 DEF Busy, Pending
  <2>4. Working' = Working
    BY <2>3 DEF Working, ParentOf
  <2> QED BY <1>1, <2>1, <2>2, <2>4
<1>7. ASSUME NEW k \in Rows, TickCancelled(k) \/ TickBudgetBlocked(k) PROVE Given
  <2>1. Unattended(k) /\ Resumable(view[k])
    <3>1. ViewFit(k)
      BY DEF Control, Fit
    <3> QED BY <1>7, <3>1 DEF TickCancelled, TickBudgetBlocked, Starting, Startable, ViewFit
  <2>2. ~Busy(k)
    BY <2>1, SnapshotFits, QuietMeansIdle
  <2>3. Working' = Working
    BY <1>7, SameWork DEF TickCancelled, TickBudgetBlocked, units
  <2>4. \E row, free : Commit(k, row, free)
    BY <1>7 DEF TickCancelled, TickBudgetBlocked
  <2> QED BY <1>1, <2>2, <2>3, <2>4
<1>8. ASSUME NEW k \in Rows, TickRow(k) PROVE Given
  BY <1>6, <1>7, <1>8 DEF TickRow, TickReattach, TickReattachFails, TickRunning, TickUnknown,
     TickDeferred, TickRefused, TickIntent, Commit, durable
<1>9. ASSUME NEW k \in Rows, StartReturns(k) \/ Observer(k) PROVE Given
  BY <1>9 DEF StartReturns, StartEnqueued, StartFailed, Observer, GuardStart, ObserverEnds,
     Launch, LaunchFails, Commit, durable
<1>10. ASSUME \/ TickRead \/ TickAbort \/ Restart \/ UNCHANGED vars
              \/ \E p \in Principals : Revoke(p)
              \/ \E reboot \in BOOLEAN : Crash(reboot)
              \/ \E k \in Rows, phase \in Phases : Manager(k, phase)
       PROVE  Given
  BY <1>10 DEF Revoke, TickRead, TickAbort, Restart, Recover, vars, Crash, Manager, Unit, durable
<1> HIDE DEF Taken, Given
<1>11. Taken \/ Given
  BY <1>2, <1>3, <1>4, <1>5, <1>8, <1>9, <1>10 DEF Next, Call
<1> QED BY <1>11 DEF Taken, Given

\* Every step of the broker is a step of the barrier or leaves it alone.
LEMMA BarrierStep ==
  ASSUME Inv, Control, Held, [Next]_vars
  PROVE  [Barrier!Next]_(Barrier!vars)
<1>1. Working \subseteq Jobs /\ lease \in [Resources -> Jobs \cup {Free}]
  BY ParentIsJob DEF Working, Inv, TypeOK
<1>2. ASSUME lease' = lease, Working' = Working PROVE UNCHANGED Barrier!vars
  BY <1>2 DEF Barrier!vars, Working
<1>3. ASSUME lease' = lease, Working' \subseteq Working PROVE Barrier!Next
  <2>1. Working' = Working \ (Working \ Working')
    BY <1>3
  <2>2. Barrier!End(Working \ Working')
    BY <1>3, <2>1 DEF Barrier!End, Working
  <2> QED BY <1>1, <2>2 DEF Barrier!Next
<1>4. ASSUME NEW k \in Rows, TickIntent(k) PROVE [Barrier!Next]_(Barrier!vars)
  <2>1. lease' = lease /\ Owned(ParentOf(k)) /\ ParentOf(k) \in Jobs
    BY <1>4, IntentMoves, ParentIsJob
  <2>2. /\ watch' = watch /\ unit' = unit /\ fence.op = "none"
        /\ fence' = [op |-> "start", row |-> k, phase |-> NextPhase(k)]
    BY <1>4 DEF TickIntent, Starting, units
  <2>3. NextPhase(k) \in Phases
    BY DEF NextPhase, Phases
  <2>4. \A i \in Rows : Busy(i)' <=> Busy(i) \/ i = k
    BY <2>2, <2>3 DEF Busy, Pending
  <2>5. Working' = Working \cup {ParentOf(k)}
    BY <2>4 DEF Working, ParentOf
  <2>6. CASE ParentOf(k) \in Working
    BY <1>2, <2>1, <2>5, <2>6
  <2>7. CASE ParentOf(k) \notin Working
    <3>1. Barrier!Begin(ParentOf(k))
      BY <2>1, <2>5, <2>7 DEF Barrier!Begin, Working, Owned
    <3> QED BY <2>1, <3>1 DEF Barrier!Next
  <2> QED BY <2>6, <2>7
<1>5. CASE lease' = lease /\ ~\E k \in Rows : TickIntent(k)
  <2>1. \A i \in Rows : Busy(i)' => Busy(i)
    BY <1>5, WorkStays DEF Busy
  <2>2. Working' \subseteq Working
    BY <2>1 DEF Working, ParentOf
  <2> QED BY <1>3, <1>5, <2>2
<1>6. ASSUME NEW j \in Jobs, Acquirable(j), lease' = Acquire(j), Working' = Working
      PROVE  Barrier!Next
  <2>1. Barrier!Take(j)
    BY <1>6 DEF Barrier!Take, Acquirable, Acquire, Working
  <2> QED BY <2>1 DEF Barrier!Next
<1>7. ASSUME NEW k \in Rows, Releasable(k), lease' = Released(k), ~Busy(k), Working' = Working
      PROVE  Barrier!Next
  <2>1. ASSUME NEW i \in Rows, Busy(i) PROVE ParentOf(i) # ParentOf(k)
    <3>1. ledger[i].phase \in Phases /\ i # k
      BY <1>7, <2>1, BusyIsInPhase DEF Busy
    <3> QED BY <1>7, <3>1, ReleaseSpares
  <2>2. ParentOf(k) \notin Working
    BY <2>1 DEF Working
  <2>3. Barrier!Give(ParentOf(k))
    BY <1>7, <2>2 DEF Barrier!Give, Released, Working
  <2> QED BY <2>3, ParentIsJob DEF Barrier!Next
<1>8. CASE lease' # lease
  BY <1>6, <1>7, <1>8, ReleaseIsQuiet
<1> QED BY <1>4, <1>5, <1>8

\* The broker with its crashes, late reports, lost acknowledgements and restarts
\* implements the abstract resource barrier: resources are taken whole, and never
\* taken from a job for which a process runs or can still start (resources.py
\* acquire and release, broker.py _release, _start, recover).
THEOREM BarrierImplemented == Spec => ImplementsBarrier
<1>1. Init => Barrier!Init
  <2> SUFFICES ASSUME Init PROVE Barrier!Init
    OBVIOUS
  <2>1. \A k \in Rows : ~Busy(k)
    BY DEF Init, Busy, Pending, NoFence, NoWatch
  <2> QED BY <2>1 DEF Init, Barrier!Init
<1>2. Inv /\ Control /\ Held /\ [Next]_vars => [Barrier!Next]_(Barrier!vars)
  BY BarrierStep
<1> QED BY <1>1, <1>2, ControlInvariance, HeldInvariance, PTL DEF Spec, ImplementsBarrier, Barrier!Spec

=============================================================================
