------------------------------- MODULE Broker -------------------------------
(***************************************************************************)
(* The durable job broker of tools/local_hand_jobs: broker.py over its     *)
(* SQLite ledger (state.py), the resource leases (resources.py) and the    *)
(* process runner (runner.py).                                             *)
(*                                                                         *)
(* Three kinds of threads share the broker.  API calls (submit, cancel,    *)
(* reconcile, revoke) run under the fence, each one ledger transaction.    *)
(* The coordinator (tick) takes one snapshot of all rows and then handles  *)
(* row after row with that snapshot, without the fence except in _start    *)
(* and _budget_blocked.  A runner observer per execution asks the broker   *)
(* (_guard_start, under the fence) for the one permission to launch.  The  *)
(* launched units belong to the service manager and outlive the service.   *)
(*                                                                         *)
(* Scope: no quota binding (quota_required is false), no task session, and *)
(* one delivery per execution (the "stage is None" form of the guard).     *)
(* A refused call (JobError) changes nothing and is a disabled action.     *)
(*                                                                         *)
(* An operator under a comment "Fault" is not part of the specification:   *)
(* it is the definition below it with a plausible mistake, kept to show    *)
(* that the properties notice the mistake.                                 *)
(***************************************************************************)
EXTENDS Naturals, FiniteSets

CONSTANTS
  Jobs,          \* operation ids of namespace "job"
  Reconciles,    \* reconcile ids
  Parent,        \* [Reconciles -> Jobs]
  Principals,
  Principal,     \* [Jobs -> Principals], the submitting principal
  Resources,
  Needs,         \* [Jobs -> SUBSET Resources], the plan's resource_ids
  Free,          \* a resource without a lease
  Reported,      \* the definite outcomes a trusted business result reports
  MaxQueued,     \* policy limit max_queued
  MaxRunning,    \* policy limit max_running
  MaxRestarts    \* bound: service restarts explored (not in the code)

Rows == Jobs \cup Reconciles

ASSUME RowsAssumption == Jobs \cap Reconciles = {} /\ IsFiniteSet(Rows)
ASSUME ParentAssumption == Parent \in [Reconciles -> Jobs]
ASSUME PrincipalAssumption == Principal \in [Jobs -> Principals]
ASSUME NeedsAssumption == Needs \in [Jobs -> SUBSET Resources] /\ Free \notin Jobs
ASSUME ReportedAssumption == Reported \subseteq {"SUCCEEDED", "FAILED", "CANCELLED"}
ASSUME LimitsAssumption == MaxQueued \in Nat /\ MaxRunning \in Nat /\ MaxRestarts \in Nat

VARIABLES
  ledger,     \* durable: the record of every row
  lease,      \* durable: resource -> owning job
  revoked,    \* durable: revoked principals
  fresh,      \* rows whose generation, deployment and plan binding still holds
  up,         \* the service process runs and has recovered
  active,     \* _active: rows whose execution the coordinator observes
  recovering, \* _recovering: rows whose reattachment is to be retried
  view,       \* the snapshot of the running tick: rows still to handle
  fence,      \* a thread that holds the fence between two commits
  watch,      \* the runner's observer of a row's current execution
  unit,       \* the manager's unit of every execution
  starts,     \* history: manager requests issued per execution
  restarts

vars == <<ledger, lease, revoked, fresh, up, active, recovering, view, fence,
          watch, unit, starts, restarts>>

durable == <<ledger, lease, revoked, fresh>>
service == <<up, active, recovering, restarts>>
units   == <<unit, starts>>

-----------------------------------------------------------------------------
(* Records *)

\* Phases with an execution of their own: the keys of record["handles"].
Phases == {"PREFLIGHT", "BUSINESS", "RECONCILE", "EVIDENCE"}
AllPhases == Phases \cup {"QUEUED", "PREFLIGHT_COMPLETE", "AWAITING_SEAL", "EXITED",
                          "CANCELLED_BEFORE_START", "CANCELLED_BEFORE_BUSINESS"}
Lifecycles == {"NONE", "ACCEPTED", "RUNNING", "RECONCILE_REQUIRED", "TERMINAL"}
Definite == {"SUCCEEDED", "FAILED", "CANCELLED"}
Outcomes == Definite \cup {"PENDING", "UNKNOWN"}

\* An exit proof is the set of its true flags; {} is a missing proof.
Flags == {"future_start_blocked", "tree_exited", "collectors_stopped",
          "writers_stopped", "effects_checked"}
Exited == {"future_start_blocked", "tree_exited"}
Checked == Exited \cup {"effects_checked"}

Record == [lifecycle : Lifecycles, outcome : Outcomes,
           evidence : {"STAGING", "DURABILITY_UNKNOWN", "SEALED"},
           phase : AllPhases, cancel_requested : BOOLEAN, recovered : BOOLEAN,
           handles : SUBSET Phases, delivery_intents : SUBSET Phases,
           \* the handles already there at the last RECOVERY_BARRIER event
           barrier : SUBSET Phases, exit_proof : SUBSET Flags,
           business_outcome : Outcomes \cup {"NONE"},
           business_exit_proof : SUBSET Flags]

\* The row of an identity that was never admitted.
NoRow == [lifecycle |-> "NONE", outcome |-> "PENDING", evidence |-> "STAGING",
          phase |-> "QUEUED", cancel_requested |-> FALSE, recovered |-> FALSE,
          handles |-> {}, delivery_intents |-> {}, barrier |-> {}, exit_proof |-> {},
          business_outcome |-> "NONE", business_exit_proof |-> {}]
\* Fault: the phase is stored as the lifecycle.
NewRowMixed == [NoRow EXCEPT !.lifecycle = "QUEUED"]
\* StateStore.insert
NewRow == [NoRow EXCEPT !.lifecycle = "ACCEPTED"]

Admitted == {k \in Rows : ledger[k].lifecycle # "NONE"}
Nonterminal(k) == ledger[k].lifecycle \notin {"NONE", "TERMINAL"}

ParentOf(k) == IF k \in Jobs THEN k ELSE Parent[k]
OwnerOf(k) == Principal[ParentOf(k)]
Rounds(j) == {c \in Reconciles : Parent[c] = j}

-----------------------------------------------------------------------------
(* ResourceManager and Broker._release *)

\* Fault: the holder of a lease is not compared.
AcquirableAlways(j) == \A r \in Needs[j] : lease[r] \in Jobs \cup {Free}
Acquirable(j) == \A r \in Needs[j] : lease[r] \in {Free, j}
Acquire(j) == [r \in Resources |-> IF r \in Needs[j] THEN j ELSE lease[r]]
Owned(j) == \A r \in Needs[j] : lease[r] = j

\* Fault: an observation round releases without looking at the parent's proof.
ReleasableByRound(k) == \A c \in Rounds(ParentOf(k)) \ {k} : ~Nonterminal(c)

\* Business and observation rounds share the parent's leases: they stay while
\* another round is open, and an observation round gives them up only if the
\* parent's own execution is proved stopped and checked.
Releasable(k) ==
  LET p == ledger[ParentOf(k)] IN
  /\ \A c \in Rounds(ParentOf(k)) \ {k} : ~Nonterminal(c)
  /\ k \in Reconciles =>
       /\ p.lifecycle \notin {"ACCEPTED", "RUNNING"}
       /\ p.outcome # "UNKNOWN"
       /\ Checked \subseteq p.exit_proof

Released(k) ==
  IF Releasable(k)
  THEN [r \in Resources |-> IF lease[r] = ParentOf(k) THEN Free ELSE lease[r]]
  ELSE lease

\* ledger' and lease' of a transaction that updates row k and, if "free",
\* releases with a complete proof.
Commit(k, row, free) ==
  /\ ledger' = [ledger EXCEPT ![k] = row]
  /\ lease' = IF free THEN Released(k) ELSE lease

-----------------------------------------------------------------------------
(* Calls of the API, each one transaction under the fence *)

Idle == up /\ fence.op = "none"

\* _capacity
Capacity == Cardinality({k \in Rows : Nonterminal(k)}) < MaxQueued

Submit(j) ==
  /\ Idle
  /\ ledger[j].lifecycle = "NONE"        \* otherwise the call returns the old row
  /\ OwnerOf(j) \notin revoked
  /\ Capacity /\ Acquirable(j)
  /\ ledger' = [ledger EXCEPT ![j] = NewRow]
  /\ lease' = Acquire(j)
  /\ fresh' = fresh \cup {j}
  /\ UNCHANGED <<revoked, service, view, fence, watch, units>>

\* Faults: a running row is cancelled as if nothing had been started, or the
\* cancelled row keeps its leases.
CancelRunning(k) ==
  /\ Idle
  /\ Nonterminal(k) /\ ~ledger[k].cancel_requested /\ OwnerOf(k) \notin revoked
  /\ Commit(k, [ledger[k] EXCEPT !.cancel_requested = TRUE, !.lifecycle = "TERMINAL",
                  !.outcome = "CANCELLED", !.exit_proof = Checked], TRUE)
  /\ UNCHANGED <<revoked, fresh, service, view, fence, watch, units>>
CancelKeepsLease(k) ==
  /\ Idle
  /\ Nonterminal(k) /\ ~ledger[k].cancel_requested /\ OwnerOf(k) \notin revoked
  /\ ledger[k].phase = "QUEUED"
  /\ Commit(k, [ledger[k] EXCEPT !.cancel_requested = TRUE, !.lifecycle = "TERMINAL",
                  !.outcome = "CANCELLED", !.phase = "CANCELLED_BEFORE_START",
                  !.exit_proof = Checked], FALSE)
  /\ UNCHANGED <<revoked, fresh, service, view, fence, watch, units>>

Cancel(k) ==
  /\ Idle
  /\ Nonterminal(k) /\ ~ledger[k].cancel_requested
  /\ OwnerOf(k) \notin revoked
  /\ IF ledger[k].phase = "QUEUED"
     THEN Commit(k, [ledger[k] EXCEPT !.cancel_requested = TRUE, !.lifecycle = "TERMINAL",
                       !.outcome = "CANCELLED", !.phase = "CANCELLED_BEFORE_START",
                       !.exit_proof = Checked], TRUE)
     ELSE Commit(k, [ledger[k] EXCEPT !.cancel_requested = TRUE], FALSE)
  /\ UNCHANGED <<revoked, fresh, service, view, fence, watch, units>>

Reconcile(c) ==
  LET j == Parent[c] IN
  /\ Idle
  /\ ledger[c].lifecycle = "NONE"
  /\ OwnerOf(c) \notin revoked
  /\ ledger[j].lifecycle \in {"RECONCILE_REQUIRED", "TERMINAL"}
  /\ \A o \in Rounds(j) : ~Nonterminal(o)
  /\ Capacity /\ Acquirable(j)
  /\ ledger' = [ledger EXCEPT ![c] = NewRow]
  /\ lease' = Acquire(j)
  /\ fresh' = fresh \cup {c}
  /\ UNCHANGED <<revoked, service, view, fence, watch, units>>

\* Advances the generation, so that no row admitted before is fresh any more.
Revoke(p) ==
  /\ Idle /\ p \notin revoked
  /\ revoked' = revoked \cup {p}
  /\ fresh' = {}
  /\ ledger' = [k \in Rows |->
       IF Nonterminal(k) /\ OwnerOf(k) = p
       THEN [ledger[k] EXCEPT !.cancel_requested = TRUE] ELSE ledger[k]]
  /\ UNCHANGED <<lease, service, view, fence, watch, units>>

-----------------------------------------------------------------------------
(* The coordinator *)

NoView == [lifecycle |-> "NONE", phase |-> "QUEUED", outcome |-> "PENDING",
           cancel_requested |-> FALSE]
\* Of a row that is observed or to be reattached the snapshot is not used.
Attended == [NoView EXCEPT !.lifecycle = "RUNNING"]
Views == [lifecycle : Lifecycles, phase : AllPhases, outcome : Outcomes,
          cancel_requested : BOOLEAN]
NoFence == [op |-> "none", row |-> Free, phase |-> "QUEUED"]
NoWatch == [state |-> "none", phase |-> "QUEUED"]

\* What tick does with a row that it does not observe depends on the snapshot.
Resumable(v) == v.lifecycle = "ACCEPTED" \/ v.phase \in {"PREFLIGHT_COMPLETE", "AWAITING_SEAL"}
Startable(v) == /\ Resumable(v) /\ ~v.cancel_requested
                /\ v.outcome = "UNKNOWN" => v.phase = "AWAITING_SEAL"

\* Fault: a row is skipped as soon as its cancellation is recorded.
TickReadSkipsCancelled ==
  /\ up /\ fence.op # "start"
  /\ \A k \in Rows : view[k] = NoView
  /\ view' = [k \in Rows |->
       LET r == ledger[k] IN
       IF k \in active \cup recovering THEN Attended
       ELSE IF k \in Admitted /\ Startable(r)
       THEN [lifecycle |-> r.lifecycle, phase |-> r.phase, outcome |-> r.outcome,
             cancel_requested |-> r.cancel_requested]
       ELSE NoView]
  /\ UNCHANGED <<durable, service, fence, watch, units>>

\* One transaction reads all rows.  A row that would be skipped is not kept:
\* only the coordinator itself can make it one that is not.
TickRead ==
  /\ up /\ fence.op # "start"
  /\ \A k \in Rows : view[k] = NoView
  /\ view' = [k \in Rows |->
       LET r == ledger[k] IN
       IF k \in active \cup recovering THEN Attended
       ELSE IF k \in Admitted /\ Resumable(r) /\ (r.cancel_requested \/ Startable(r))
       THEN [lifecycle |-> r.lifecycle, phase |-> r.phase, outcome |-> r.outcome,
             cancel_requested |-> r.cancel_requested]
       ELSE NoView]
  /\ UNCHANGED <<durable, service, fence, watch, units>>

\* The coordinator has come to row k.  Rows come in the order of admission, so
\* a job comes before its rounds; the order of two jobs is left open.
At(k) == /\ up /\ fence.op # "start" /\ view[k] # NoView
         /\ k \in Reconciles => view[Parent[k]] = NoView
Handled(k) == view' = [view EXCEPT ![k] = NoView]

\* LedgerBusy ends the pass; the next one reads again.
TickAbort ==
  /\ up /\ fence.op # "start" /\ \E k \in Rows : view[k] # NoView
  /\ view' = [k \in Rows |-> NoView]
  /\ UNCHANGED <<durable, service, fence, watch, units>>

\* Faults: a late error reopens a TERMINAL row, or forgets the frozen result.
UnknownReopens(r) ==
  [r EXCEPT !.lifecycle = "RECONCILE_REQUIRED",
            !.outcome = IF r.business_outcome # "NONE" THEN @ ELSE "UNKNOWN"]
UnknownForgets(r) ==
  IF r.lifecycle = "TERMINAL" THEN r ELSE
  [r EXCEPT !.lifecycle = "RECONCILE_REQUIRED", !.outcome = "UNKNOWN"]

\* _unknown: a delayed control error cannot reopen a committed exit, and a
\* frozen business result is kept.
UnknownRow(r) ==
  IF r.lifecycle = "TERMINAL" THEN r ELSE
  [r EXCEPT !.lifecycle = "RECONCILE_REQUIRED",
            !.outcome = IF /\ r.phase \in {"AWAITING_SEAL", "EVIDENCE", "EXITED"}
                           /\ r.business_outcome # "NONE"
                        THEN r.business_outcome ELSE "UNKNOWN",
            !.evidence = IF r.phase = "EVIDENCE" THEN "DURABILITY_UNKNOWN" ELSE @]

\* _retry_recovery: reattached (the pass goes on with the same row), to be
\* retried, or refused for good.
TickReattach(k) ==
  /\ At(k) /\ k \in recovering \ active
  /\ active' = active \cup {k}
  /\ recovering' = recovering \ {k}
  /\ watch' = [watch EXCEPT ![k].state = "reattached"]
  /\ UNCHANGED <<durable, up, restarts, view, fence, units>>

TickReattachFails(k, retry) ==
  /\ At(k) /\ k \in recovering \ active
  /\ recovering' = IF retry THEN recovering ELSE recovering \ {k}
  /\ watch' = IF retry THEN watch ELSE [watch EXCEPT ![k] = NoWatch]
  /\ Commit(k, UnknownRow(ledger[k]), FALSE)
  /\ Handled(k)
  /\ UNCHANGED <<revoked, fresh, up, active, restarts, fence, units>>

(***************************************************************************)
(* What runner.inspect and runner.stop report of an execution.  A stop     *)
(* only hurries the unit's exit, which the unit's runtime limit brings     *)
(* about anyway, and keeps a queued observer from asking the guard, which  *)
(* would refuse a cancelled row anyway; so both are one operator.          *)
(***************************************************************************)
Exits == [exit_proof : SUBSET Flags, outcome : Outcomes,
          verified : BOOLEAN,    \* helper_result_verified
          snapshot : BOOLEAN,    \* the result carries an evidence snapshot
          published : BOOLEAN]   \* exit code and publication agree with it

\* No request was issued: a full proof without a result.
Prevented == [exit_proof |-> Flags, outcome |-> "FAILED", verified |-> FALSE,
              snapshot |-> FALSE, published |-> FALSE]
\* A unit found again after a restart: its pipes, and so its result, are lost.
Orphaned == [exit_proof |-> Flags \ {"collectors_stopped", "effects_checked"},
             outcome |-> "UNKNOWN", verified |-> FALSE, snapshot |-> FALSE,
             published |-> FALSE]
\* A unit observed from start to exit, with or without a readable result.
Observed(phase) ==
  [exit_proof : {Flags}, outcome : IF phase \in {"BUSINESS", "RECONCILE"} THEN Reported
                                   ELSE {"SUCCEEDED", "FAILED"},
   verified : {phase \in {"BUSINESS", "RECONCILE"}}, snapshot : BOOLEAN,
   published : BOOLEAN]
  \cup [exit_proof : {Flags \ {"effects_checked"}}, outcome : {"UNKNOWN"},
        verified : {FALSE}, snapshot : BOOLEAN, published : {FALSE}]

ExitReports(k) ==
  LET w == watch[k]
      u == unit[k][w.phase] IN
  CASE w.state = "prevented" -> {Prevented}
    [] w.state = "watching" /\ u = "gone" -> Observed(w.phase)
    [] w.state = "reattached" /\ u = "gone" -> {Orphaned}
    [] OTHER -> {}

\* A report of a live unit changes nothing.
TickRunning(k) ==
  /\ At(k) /\ k \in active
  /\ watch[k].state \in {"watching", "reattached"}
  /\ unit[k][watch[k].phase] = "live"
  /\ Handled(k)
  /\ UNCHANGED <<durable, service, fence, watch, units>>

\* An UNKNOWN report, a failed observation, or a preflight without stable facts.
TickUnknown(k) ==
  /\ At(k) /\ k \in active
  /\ Commit(k, UnknownRow(ledger[k]), FALSE)
  /\ Handled(k)
  /\ UNCHANGED <<revoked, fresh, service, fence, watch, units>>

-----------------------------------------------------------------------------
(* _complete: the row after an exit e of its current execution *)

\* Only a trusted result of the very execution overrides the exit code, and
\* a cancel that came before the exit was recorded decides the others.
Verdict(r, e) ==
  IF "effects_checked" \notin e.exit_proof THEN "UNKNOWN"
  ELSE IF r.cancel_requested /\ ~e.verified THEN "CANCELLED" ELSE e.outcome

PreflightPassed(r, e) ==
  /\ r.phase = "PREFLIGHT" /\ ~r.cancel_requested
  /\ e.outcome = "SUCCEEDED" /\ "effects_checked" \in e.exit_proof

\* PREFLIGHT_COMPLETE: a recovered row keeps its barrier.
PassedRow(r, e) ==
  [r EXCEPT !.phase = IF r.recovered THEN "EXITED" ELSE "PREFLIGHT_COMPLETE",
            !.lifecycle = IF r.recovered THEN "RECONCILE_REQUIRED" ELSE "RUNNING",
            !.outcome = IF r.recovered THEN "UNKNOWN" ELSE "PENDING",
            !.exit_proof = e.exit_proof]

WillSeal(r, e) == e.snapshot /\ ~r.cancel_requested

\* EXECUTION_EXIT, and SEAL_SNAPSHOT_FROZEN if the result is to be sealed.
ExitRow(r, e) ==
  LET verdict == Verdict(r, e) IN
  [r EXCEPT
     !.phase = IF WillSeal(r, e) THEN "AWAITING_SEAL" ELSE "EXITED",
     !.lifecycle = IF WillSeal(r, e) THEN "RUNNING"
                   ELSE IF "effects_checked" \in e.exit_proof THEN "TERMINAL"
                   ELSE "RECONCILE_REQUIRED",
     !.outcome = verdict, !.exit_proof = e.exit_proof,
     !.evidence = IF e.verified /\ ~e.published THEN "DURABILITY_UNKNOWN" ELSE @,
     !.business_outcome = IF WillSeal(r, e) THEN verdict ELSE @,
     !.business_exit_proof = IF WillSeal(r, e) THEN e.exit_proof ELSE @]

Published(e) == e.published /\ e.outcome = "SUCCEEDED"
                /\ {"collectors_stopped", "writers_stopped"} \subseteq e.exit_proof

\* EVIDENCE_HELPER_EXIT with _register_seal, or EVIDENCE_UNCERTAIN.
SealRow(r, e) ==
  [r EXCEPT
     !.phase = "EXITED",
     !.lifecycle = IF Published(e) /\ r.business_outcome # "UNKNOWN"
                   THEN "TERMINAL" ELSE "RECONCILE_REQUIRED",
     !.outcome = r.business_outcome, !.exit_proof = e.exit_proof,
     !.evidence = IF Published(e) THEN "SEALED" ELSE "DURABILITY_UNKNOWN"]

CompletedRow(r, e) ==
  CASE r.phase = "EVIDENCE" -> SealRow(r, e)
    [] PreflightPassed(r, e) -> PassedRow(r, e)
    [] OTHER -> ExitRow(r, e)

CompletionReleases(r, e) ==
  CASE r.phase = "EVIDENCE" -> Published(e) /\ "effects_checked" \in r.business_exit_proof
    [] PreflightPassed(r, e) -> FALSE
    [] OTHER -> ~WillSeal(r, e) /\ "effects_checked" \in e.exit_proof

TickComplete(k, e) ==
  /\ At(k) /\ k \in active
  /\ e \in ExitReports(k)
  /\ Commit(k, CompletedRow(ledger[k], e), CompletionReleases(ledger[k], e))
  /\ active' = active \ {k}
  /\ watch' = [watch EXCEPT ![k] = NoWatch]
  /\ Handled(k)
  /\ UNCHANGED <<revoked, fresh, up, recovering, restarts, fence, units>>

-----------------------------------------------------------------------------
(* Rows without an execution to observe *)

Unattended(k) == At(k) /\ k \notin active \cup recovering

\* EVIDENCE_START_BLOCKED or STARTUP_BLOCKED, decided by the snapshot.
TickCancelled(k) ==
  /\ Unattended(k) /\ view[k].cancel_requested
  /\ LET r == ledger[k]
         certain == view[k].phase = "AWAITING_SEAL"
                      => "effects_checked" \in r.business_exit_proof
     IN Commit(k, IF view[k].phase = "AWAITING_SEAL"
                  THEN [r EXCEPT !.phase = "EXITED", !.evidence = "STAGING",
                          !.lifecycle = IF certain THEN "TERMINAL" ELSE "RECONCILE_REQUIRED",
                          !.outcome = r.business_outcome]
                  ELSE [r EXCEPT !.lifecycle = "TERMINAL", !.outcome = "CANCELLED",
                          !.phase = "CANCELLED_BEFORE_BUSINESS"],
               certain)
  /\ Handled(k)
  /\ UNCHANGED <<revoked, fresh, service, fence, watch, units>>

\* The phase tick starts next.
NextPhase(k) ==
  IF view[k].phase = "AWAITING_SEAL" THEN "EVIDENCE"
  ELSE IF k \in Reconciles THEN "RECONCILE"
  ELSE IF view[k].phase = "PREFLIGHT_COMPLETE" THEN "BUSINESS" ELSE "PREFLIGHT"

\* Fault: only the executions in memory count against max_running.
ExecutionSlotsInMemory == active
\* A lost acknowledgement or attachment does not prove a process stopped: such
\* durable intents stay in the deployment-wide budget.
Issued(r) == r.phase \in r.handles /\ ~(Exited \subseteq r.exit_proof)
ExecutionSlots == active \cup {k \in Rows : Issued(ledger[k])}

\* The only execution a recovered row may start: the first seal of a result
\* that was frozen, with a full proof, before the restart.
FirstRecoveredEvidence(k, intent_committed) ==
  LET r == ledger[k]
      own == IF k \in Jobs THEN {"PREFLIGHT", "BUSINESS"} ELSE {"RECONCILE"}
  IN /\ r.recovered
     /\ r.phase = IF intent_committed THEN "EVIDENCE" ELSE "AWAITING_SEAL"
     /\ r.handles = IF intent_committed THEN own \cup {"EVIDENCE"} ELSE own
     /\ r.business_outcome \in Definite /\ r.outcome = r.business_outcome
     /\ r.business_exit_proof = Flags
     /\ "EVIDENCE" \notin r.barrier

\* _start returns without a word; the row stays as it is.
StartDeferred(k) ==
  \/ ledger[k].cancel_requested
  \/ Cardinality(ExecutionSlots) >= MaxRunning
  \/ /\ NextPhase(k) = "RECONCILE"
     /\ ledger[Parent[k]].lifecycle \in {"ACCEPTED", "RUNNING"}

\* Fault: a round starts without the parent's exit proof.
StartUnproved(k) ==
  /\ OwnerOf(k) \notin revoked
  /\ k \in fresh
  /\ Owned(ParentOf(k))
  /\ ~ledger[k].recovered
  /\ NextPhase(k) \notin ledger[k].handles

StartAllowed(k) ==
  /\ NextPhase(k) = "RECONCILE" => Exited \subseteq ledger[Parent[k]].exit_proof
  /\ OwnerOf(k) \notin revoked
  /\ k \in fresh
  /\ Owned(ParentOf(k))
  /\ ledger[k].recovered => NextPhase(k) = "EVIDENCE" /\ FirstRecoveredEvidence(k, FALSE)
  /\ NextPhase(k) \notin ledger[k].handles

\* _start takes the fence.
Starting(k) == Unattended(k) /\ fence.op = "none" /\ Startable(view[k])

TickDeferred(k) ==
  /\ Starting(k) /\ StartDeferred(k)
  /\ Handled(k)
  /\ UNCHANGED <<durable, service, fence, watch, units>>

\* Besides a failed check, a changed plan, an exhausted bootstrap slot or an
\* unusable budget record refuses the row, and goes on refusing it.
TickRefused(k) ==
  /\ Starting(k) /\ ~StartDeferred(k)
  /\ fresh' = IF StartAllowed(k) THEN fresh \ {k} ELSE fresh
  /\ Commit(k, UnknownRow(ledger[k]), FALSE)
  /\ Handled(k)
  /\ UNCHANGED <<revoked, service, fence, watch, units>>

\* EXECUTION_INTENT commits; the fence is kept until the runner has answered.
TickIntent(k) ==
  LET phase == NextPhase(k) IN
  /\ Starting(k) /\ ~StartDeferred(k) /\ StartAllowed(k)
  /\ Commit(k, [ledger[k] EXCEPT !.phase = phase, !.lifecycle = "RUNNING",
                  !.handles = @ \cup {phase}, !.exit_proof = {}], FALSE)
  /\ fence' = [op |-> "start", row |-> k, phase |-> phase]
  /\ Handled(k)
  /\ UNCHANGED <<revoked, fresh, service, watch, units>>

\* runner.start enqueued an observer, or proved that none could be started;
\* the LAUNCH_ENQUEUED commit may fail afterwards (acked is false).
StartEnqueued(k, state, acked) ==
  /\ up /\ fence.op = "start" /\ fence.row = k
  /\ active' = active \cup {k}
  /\ watch' = [watch EXCEPT ![k] = [state |-> state, phase |-> fence.phase]]
  /\ Commit(k, IF acked THEN ledger[k] ELSE UnknownRow(ledger[k]), FALSE)
  /\ fence' = NoFence
  /\ UNCHANGED <<revoked, fresh, up, recovering, restarts, view, units>>

\* runner.start raised: nobody observes the intent until the next restart.
StartFailed(k) ==
  /\ up /\ fence.op = "start" /\ fence.row = k
  /\ Commit(k, UnknownRow(ledger[k]), FALSE)
  /\ fence' = NoFence
  /\ UNCHANGED <<revoked, fresh, service, view, watch, units>>

\* _budget_blocked, after _start raised BudgetExhausted.  The fence was free
\* in between, so a cancel or a revocation may have come first.
TickBudgetBlocked(k) ==
  LET r == ledger[k]
      sealing == r.phase = "AWAITING_SEAL"
      unsent == r.phase = "QUEUED" /\ r.handles = {}
      proof == IF sealing THEN r.business_exit_proof
               ELSE IF unsent THEN Checked ELSE r.exit_proof
      outcome == IF sealing THEN r.business_outcome
                 ELSE IF "effects_checked" \in proof THEN "FAILED" ELSE "UNKNOWN"
      certain == outcome # "UNKNOWN" /\ Checked \subseteq proof
  IN /\ Starting(k) /\ Nonterminal(k)
     /\ sealing \/ unsent \/ r.phase = "PREFLIGHT_COMPLETE"
     /\ Commit(k, [r EXCEPT !.phase = "EXITED", !.outcome = outcome, !.exit_proof = proof,
                     !.lifecycle = IF certain THEN "TERMINAL" ELSE "RECONCILE_REQUIRED"],
               certain)
     /\ Handled(k)
     /\ UNCHANGED <<revoked, fresh, service, fence, watch, units>>

-----------------------------------------------------------------------------
(* The runner's observers and the manager's units *)

\* Fault: a cancellation between intent and delivery is not noticed.
GuardIgnoresCancel(k) ==
  LET r == ledger[k] IN
  /\ r.phase = watch[k].phase /\ r.phase \in r.handles
  /\ r.phase \notin r.delivery_intents
  /\ k \in fresh /\ OwnerOf(k) \notin revoked
  /\ Owned(ParentOf(k))

\* _guard_start: the checks under which the delivery intent is committed.
GuardPasses(k) ==
  LET r == ledger[k] IN
  /\ r.phase = watch[k].phase /\ r.phase \in r.handles
  /\ ~r.cancel_requested
  /\ r.recovered => r.phase = "EVIDENCE" /\ FirstRecoveredEvidence(k, TRUE)
  /\ r.phase \notin r.delivery_intents
  /\ k \in fresh /\ OwnerOf(k) \notin revoked
  /\ Owned(ParentOf(k))

GuardStart(k) ==
  /\ Idle /\ watch[k].state = "queued" /\ GuardPasses(k)
  /\ Commit(k, [ledger[k] EXCEPT !.delivery_intents = @ \cup {watch[k].phase}], FALSE)
  /\ fence' = [op |-> "deliver", row |-> k, phase |-> watch[k].phase]
  /\ UNCHANGED <<revoked, fresh, service, view, watch, units>>

\* Before a delivery was permitted the observer ends with a proof that nothing
\* was started (the guard or the manager refused, or a stop came first), or
\* with an error that proves nothing.
ObserverEnds(k, state) ==
  /\ up /\ watch[k].state = "queued" /\ ~(fence.op = "deliver" /\ fence.row = k)
  /\ watch' = [watch EXCEPT ![k].state = state]
  /\ UNCHANGED <<durable, service, view, fence, units>>

\* launch(), still under the fence: the manager's client is spawned.
Launch(k) ==
  /\ up /\ fence.op = "deliver" /\ fence.row = k
  /\ unit' = [unit EXCEPT ![k][fence.phase] = "requested"]
  /\ starts' = [starts EXCEPT ![k][fence.phase] = @ + 1]
  /\ watch' = [watch EXCEPT ![k].state = "watching"]
  /\ fence' = NoFence
  /\ UNCHANGED <<durable, service, view>>

\* The client could not be spawned (the request is still observed), no runtime
\* is left, or a stop was already requested.
LaunchFails(k, state) ==
  /\ up /\ fence.op = "deliver" /\ fence.row = k
  /\ watch' = [watch EXCEPT ![k].state = state]
  /\ fence' = NoFence
  /\ UNCHANGED <<durable, service, view, units>>

\* The manager starts a requested unit, or loses the request; a unit exits.
Unit(k, phase, from, to) ==
  /\ unit[k][phase] = from
  /\ unit' = [unit EXCEPT ![k][phase] = to]
  /\ UNCHANGED <<durable, service, view, fence, watch, starts>>

-----------------------------------------------------------------------------
(* Crash and recovery *)

\* The service dies between any two steps.  Units go on without it, unless
\* the host rebooted; nothing can be observed of a unit of an earlier boot.
Crash(reboot) ==
  /\ restarts < MaxRestarts
  /\ restarts' = restarts + 1
  /\ up' = FALSE /\ active' = {} /\ recovering' = {} /\ fence' = NoFence
  /\ view' = [k \in Rows |-> NoView]
  /\ watch' = [k \in Rows |-> NoWatch]
  /\ unit' = IF reboot
             THEN [k \in Rows |-> [p \in Phases |->
                     IF unit[k][p] = "none" THEN "none" ELSE "lost"]]
             ELSE unit
  /\ UNCHANGED <<durable, starts>>

\* Fault: an interrupted preflight is taken up again from the queue.
BarrierReissues(r) ==
  IF r.phase # "PREFLIGHT" THEN r ELSE
  [r EXCEPT !.phase = "QUEUED", !.lifecycle = "ACCEPTED", !.handles = {},
            !.delivery_intents = {}]

\* RECOVERY_BARRIER: uncertainty is recorded and no intent is issued again.
BarrierRow(r) ==
  IF r.lifecycle \in {"NONE", "TERMINAL"} \/ r.phase = "QUEUED" THEN r ELSE
  [UnknownRow(r) EXCEPT !.recovered = TRUE, !.barrier = r.handles,
     !.exit_proof = IF r.phase \in Phases THEN {} ELSE @]

Reconnect == {k \in Rows : Nonterminal(k) /\ ledger[k].phase \in ledger[k].handles}

\* start(): recover, with reattachment now, to be retried, or refused; the
\* configuration loaded may be of another generation.
Recover(attached, retried, same) ==
  /\ ~up
  /\ up' = TRUE
  /\ ledger' = [k \in Rows |-> BarrierRow(ledger[k])]
  /\ active' = attached
  /\ recovering' = retried
  /\ watch' = [k \in Rows |->
       IF k \in attached \cup retried
       THEN [state |-> IF k \in attached THEN "reattached" ELSE "pending",
             phase |-> ledger[k].phase]
       ELSE NoWatch]
  /\ fresh' = IF same THEN fresh ELSE {}
  /\ UNCHANGED <<lease, revoked, restarts, view, fence, units>>

\* complete_recovered_evidence: a trusted supervisor sealed, after a reboot, a
\* result whose evidence helper was lost with the previous boot.
CompleteRecoveredEvidence(j) ==
  LET r == ledger[j] IN
  /\ Idle
  /\ r.phase \in {"EVIDENCE", "EXITED"} /\ r.evidence # "SEALED"
  /\ r.business_outcome \in Definite /\ r.outcome = r.business_outcome
  /\ r.business_exit_proof = Flags
  /\ "EVIDENCE" \in r.handles /\ unit[j]["EVIDENCE"] = "lost"
  /\ Commit(j, [r EXCEPT !.phase = "EXITED", !.lifecycle = "TERMINAL",
                  !.exit_proof = Flags, !.evidence = "SEALED"], TRUE)
  /\ UNCHANGED <<revoked, fresh, service, view, fence, watch, units>>

-----------------------------------------------------------------------------
Init ==
  /\ ledger = [k \in Rows |-> NoRow]
  /\ lease = [r \in Resources |-> Free]
  /\ revoked = {} /\ fresh = {}
  /\ up = TRUE /\ active = {} /\ recovering = {} /\ restarts = 0
  /\ view = [k \in Rows |-> NoView]
  /\ fence = NoFence
  /\ watch = [k \in Rows |-> NoWatch]
  /\ unit = [k \in Rows |-> [p \in Phases |-> "none"]]
  /\ starts = [k \in Rows |-> [p \in Phases |-> 0]]

Call ==
  \/ \E j \in Jobs : Submit(j) \/ CompleteRecoveredEvidence(j)
  \/ \E k \in Rows : Cancel(k)
  \/ \E c \in Reconciles : Reconcile(c)
  \/ \E p \in Principals : Revoke(p)

TickRow(k) ==
  \/ TickReattach(k)
  \/ \E retry \in BOOLEAN : TickReattachFails(k, retry)
  \/ TickRunning(k)
  \/ TickUnknown(k)
  \/ \E e \in ExitReports(k) : TickComplete(k, e)
  \/ TickCancelled(k)
  \/ TickDeferred(k)
  \/ TickRefused(k)
  \/ TickIntent(k)
  \/ TickBudgetBlocked(k)

StartReturns(k) ==
  \/ \E state \in {"queued", "prevented"}, acked \in BOOLEAN : StartEnqueued(k, state, acked)
  \/ StartFailed(k)

Observer(k) ==
  \/ GuardStart(k)
  \/ \E state \in {"prevented", "lost"} : ObserverEnds(k, state)
  \/ Launch(k)
  \/ \E state \in {"prevented", "lost", "watching"} : LaunchFails(k, state)

Manager(k, phase) ==
  \/ Unit(k, phase, "requested", "live")
  \/ Unit(k, phase, "requested", "lost")
  \/ Unit(k, phase, "live", "gone")

Restart ==
  \E attached \in SUBSET Reconnect, same \in BOOLEAN :
     \E retried \in SUBSET (Reconnect \ attached) : Recover(attached, retried, same)

Next ==
  \/ Call
  \/ TickRead \/ TickAbort
  \/ \E k \in Rows : TickRow(k) \/ StartReturns(k) \/ Observer(k)
  \/ \E k \in Rows, phase \in Phases : Manager(k, phase)
  \/ \E reboot \in BOOLEAN : Crash(reboot)
  \/ Restart

Spec == Init /\ [][Next]_vars

(***************************************************************************)
(* What is bound to happen.  The coordinator thread loops for ever, a busy *)
(* ledger (TickAbort) goes away again, calls into the runner return, a     *)
(* unit does not outlive its RuntimeMaxSec, and a dead service is started  *)
(* again.  Nothing obliges a caller to call, or the service to crash.      *)
(***************************************************************************)
Fairness ==
  /\ WF_vars(TickRead) /\ WF_vars(Restart)
  /\ \A k \in Rows : /\ SF_vars(TickRow(k))
                      /\ WF_vars(StartReturns(k))
                      /\ WF_vars(Observer(k))
  /\ \A k \in Rows, phase \in Phases : WF_vars(Manager(k, phase))

FairSpec == Spec /\ Fairness

-----------------------------------------------------------------------------
(* Correctness *)

Watches == [state : {"none", "pending", "reattached", "queued", "prevented",
                     "lost", "watching"}, phase : AllPhases]
Fences == [op : {"none", "start", "deliver"}, row : Rows \cup {Free}, phase : AllPhases]

\* Ledger rows, leases, the coordinator's memory, the observers and the units
\* always have the shape that state.py and broker.py give them.
TypeOK ==
  /\ ledger \in [Rows -> Record]
  /\ lease \in [Resources -> Jobs \cup {Free}]
  /\ revoked \in SUBSET Principals /\ fresh \in SUBSET Rows
  /\ up \in BOOLEAN /\ restarts \in Nat
  /\ active \in SUBSET Rows /\ recovering \in SUBSET Rows
  /\ view \in [Rows -> Views]
  /\ fence \in Fences
  /\ watch \in [Rows -> Watches]
  /\ unit \in [Rows -> [Phases -> {"none", "requested", "live", "gone", "lost"}]]
  /\ starts \in [Rows -> [Phases -> Nat]]

\* Execution <<k, phase>> runs, or a thread or the manager may still start it.
Pending(k, phase) ==
  \/ fence.op # "none" /\ fence.row = k /\ fence.phase = phase
  \/ watch[k].state = "queued" /\ watch[k].phase = phase
  \/ unit[k][phase] \in {"requested", "live"}

Busy(k) == \E phase \in Phases : Pending(k, phase)

\* Whatever restarts, lost acknowledgements and retries happen, the manager is
\* asked at most once to start an execution (recover: "never reissues a
\* persisted intent").
AtMostOnce == \A k \in Rows, phase \in Phases : starts[k][phase] <= 1

\* As long as an execution runs or can still be started, its job holds all its
\* resources: no other job is admitted to them (resources.py release,
\* broker.py _release).
LeaseCoversWork == \A k \in Rows : Busy(k) => Owned(ParentOf(k))

\* A settled row is quiet: nothing of a TERMINAL or SEALED row runs or can
\* still start.
SettledIsQuiet ==
  \A k \in Rows : ledger[k].lifecycle = "TERMINAL" \/ ledger[k].evidence = "SEALED"
                    => ~Busy(k)

\* max_running bounds the units that run, also when the service lost track of
\* some of them (_execution_slots).
RunningBounded == Cardinality({k \in Rows : Busy(k)}) <= MaxRunning

\* An observation round never overlaps preparation or business of the job it
\* observes.
RoundsObserveQuietJobs ==
  \A c \in Reconciles : Busy(c) => \A phase \in {"PREFLIGHT", "BUSINESS"} : ~Pending(Parent[c], phase)

\* No resource stays locked by an operation that is over: when a job and all
\* its observation rounds are TERMINAL its leases are gone.
NoLeaseLeak ==
  \A r \in Resources, j \in Jobs :
     lease[r] = j => \E k \in {j} \cup Rounds(j) : Nonterminal(k)

\* A result frozen before sealing is the row's outcome from then on, through
\* failed seals, cancellation, budget exhaustion and recovery.
FrozenResultKept ==
  \A k \in Rows : ledger[k].business_outcome # "NONE"
                    => ledger[k].outcome = ledger[k].business_outcome

\* TERMINAL is final, against every stale snapshot and late report.
TerminalIsFinal ==
  [][\A k \in Rows : ledger[k].lifecycle = "TERMINAL" =>
       /\ ledger'[k].lifecycle = "TERMINAL"
       /\ ledger'[k].outcome = ledger[k].outcome]_vars

\* A start request leaves the service only while the row's cancellation and
\* its principal's revocation are not committed (_guard_start: "Serialize
\* final fixed manager delivery with durable cancel/revocation").
NoStartAfterCancel ==
  [][\A k \in Rows : starts'[k] # starts[k] =>
       ~ledger[k].cancel_requested /\ OwnerOf(k) \notin revoked /\ k \in fresh]_vars

\* The broker implements the abstract resource barrier.
Barrier == INSTANCE ResourceBarrier WITH
             holder <- lease, working <- {ParentOf(k) : k \in {r \in Rows : Busy(r)}}
\* Every step of calls, coordinator, observers, manager, crash and recovery is
\* a step of the abstract barrier: leases are taken whole, and never taken
\* from a job for which a process runs or can still start (resources.py).
ImplementsBarrier == Barrier!Spec

\* A cancelled or revoked row comes to rest: whatever it was doing, it ends
\* TERMINAL or RECONCILE_REQUIRED with nothing running and nothing that can
\* still start (cancel, revoke, tick).
CancelSettles ==
  \A k \in Rows :
     ledger[k].cancel_requested ~>
       ledger[k].lifecycle \in {"TERMINAL", "RECONCILE_REQUIRED"} /\ ~Busy(k)
=============================================================================
