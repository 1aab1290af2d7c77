---------------------------- MODULE TaskSession ----------------------------
(***************************************************************************)
(* One task between its API process and its administrator: the exchange    *)
(* over the bridge (task_session.py, quota_bridge.py, TaskService.run),    *)
(* the stages the broker delivers in each of the three phases, and how a   *)
(* cancelled or recovered task is completed (preflight_completion.py,      *)
(* stopped_completion.py, recovery_completion.py).  The client cancels at  *)
(* any time, the API process dies anywhere and is replaced by a session    *)
(* that only observes, and the exchange fails.                             *)
(***************************************************************************)
EXTENDS Naturals, Sequences, FiniteSets

CONSTANTS
  MaxCrashes,  \* bound: deaths of the API process
  MayFail,     \* whether an exchange may fail (deadline, ledger, transport)
  None         \* no record

SessionAssumption == MaxCrashes \in Nat /\ MayFail \in BOOLEAN

Phases == 1..3                      \* preflight, business, evidence
Business == 2
Helper == 2
Stages == 3                         \* bootstrap, helper, result reader

VARIABLES
  job,      \* the ledger row: lifecycle, place, cancel, recovered, outcome, effects
  prep,     \* phases with a recorded preparation
  bound,    \* phases with a bound observation grant
  count,    \* delivery intents recorded for each phase; None before its execution intent
  pend,     \* the recorded exit of each phase
  closed,   \* phases with a recorded closure
  unit,     \* the delivered stage: idle, intended or live
  ran,      \* the business helper was started
  result,   \* what the helper of each phase left: none, SUCCEEDED or FAILED
  ses,      \* the API process's session
  adm,      \* the administrator's loop
  toAdm, toSes,  \* packets under way, with the transport phase of their sender
  crashes

vars == <<job, prep, bound, count, pend, closed, unit, ran, result, ses, adm, toAdm, toSes, crashes>>
ledger == <<job, prep, bound, count, pend, closed>>
stage == <<unit, ran, result>>
wire == <<toAdm, toSes>>

Fresh == [up |-> TRUE, mode |-> "execute", handler |-> 0, started |-> FALSE, closures |-> 0, phase |-> 0, index |-> 1,
          pending |-> FALSE, told |-> FALSE, finished |-> FALSE, failed |-> "no", snap |-> None, acked |-> FALSE]

Terminal == job.life = "terminal"
Open == job.life \in {"open", "reconcile"}
Now == job.place.phase                      \* the phase the row is in, or has passed
Inside == job.place.at = "in"               \* executing it
Active == Inside /\ count[Now] # None /\ pend[Now] = None
NotLive == unit # "live"
Failed == ses.failed # "no"
Recovers == ses.mode = "recover"

End(j, outcome, effects) ==
  [j EXCEPT !.life = "terminal", !.place.at = "exited", !.outcome = outcome, !.effects = effects]

-----------------------------------------------------------------------------
(* The client *)

Submit ==
  /\ job.life = "none" /\ ses.up /\ ~Recovers /\ ~Failed
  /\ job' = [job EXCEPT !.life = "open"]
  /\ UNCHANGED <<prep, bound, count, pend, closed, stage, ses, adm, wire, crashes>>

\* A queued task ends at once; otherwise the broker's passes consume the request.
\* The fence keeps a delivery and its launch together.
Cancel ==
  /\ Open /\ ~job.cancel /\ ses.up /\ (unit = "intended" => Recovers)
  /\ job' = IF job.place.at = "queued" THEN [End(job, "CANCELLED", "NONE") EXCEPT !.cancel = TRUE]
                                       ELSE [job EXCEPT !.cancel = TRUE]
  /\ UNCHANGED <<prep, bound, count, pend, closed, stage, ses, adm, wire, crashes>>

-----------------------------------------------------------------------------
(* Stages, while the session lets the broker make a pass *)

Pass ==
  /\ ses.up
  /\ IF Failed \/ ses.finished THEN Active \/ (job.cancel /\ ~Terminal)
     ELSE IF Recovers THEN Active
     ELSE ses.snap = None /\ ~ses.pending /\ (job.cancel \/ ses.started)

\* Fault: a stage is delivered although the task is cancelled.
DeliverAnyway ==
  /\ ses.up /\ Active /\ unit = "idle" /\ count[Now] < Stages /\ ~Recovers
  /\ count' = [count EXCEPT ![Now] = @ + 1] /\ unit' = "intended"
  /\ UNCHANGED <<job, prep, bound, pend, closed, ran, result, ses, adm, wire, crashes>>

\* The broker's launch guard: the intent is recorded under the fence.
Deliver ==
  /\ ses.up /\ Active /\ unit = "idle" /\ count[Now] < Stages /\ ~Recovers /\ ~job.cancel
  /\ count' = [count EXCEPT ![Now] = @ + 1] /\ unit' = "intended"
  /\ UNCHANGED <<job, prep, bound, pend, closed, ran, result, ses, adm, wire, crashes>>

Launch ==
  /\ unit = "intended" /\ ses.up /\ ~Recovers /\ unit' = "live"
  /\ ran' = (ran \/ (Now = Business /\ count[Now] = Helper))
  /\ UNCHANGED <<ledger, result, ses, adm, wire, crashes>>

\* A unit ends by itself or is stopped; a helper may have left its result.
UnitEnds ==
  /\ unit = "live" /\ unit' = "idle"
  /\ IF count[Now] = Helper
       THEN \E r \in {"none", "SUCCEEDED", "FAILED"} : result' = [result EXCEPT ![Now] = r]
       ELSE UNCHANGED result
  /\ UNCHANGED <<ledger, ran, ses, adm, wire, crashes>>

\* The proof of a phase's exit: how far it got, and whether its result was read and verified.
Proof(p) ==
  LET absent == unit = "intended" IN
  [n |-> count[p], absent |-> absent, collected |-> ~Recovers,
   verified |-> count[p] = Stages /\ ~absent /\ result[p] # "none"]

-----------------------------------------------------------------------------
(* The completion of stopped work *)

\* The exit of the row's phase is recorded, and the phase closed exactly when the row left it.
Settled(j, q) ==
  j.life \in {"open", "reconcile"} /\ q # None /\ IF j.place.at = "in" THEN j.place.phase \notin closed ELSE j.place.at = "exited"

\* Before the business nothing can have had an effect.
StoppedPreflight(j) ==
  IF j.cancel THEN End(j, "CANCELLED", "NONE") ELSE IF j.recovered THEN End(j, "UNKNOWN", "NONE") ELSE j

\* The helper of the phase was delivered, and is not proved absent.
HelperRan(q) == q.n >= Helper /\ ~(q.absent /\ q.n = Helper)

\* What is known of a business phase that stopped.
StoppedBusiness(j, q) ==
  IF ~HelperRan(q) THEN End(j, IF j.cancel THEN "CANCELLED" ELSE "UNKNOWN", "NONE")
  ELSE IF ~q.verified THEN End(j, "UNKNOWN", "RETAINED")
  ELSE IF j.recovered THEN End(j, result[Business], "CHECKED") ELSE j

\* Evidence that stopped leaves the business result as it is.
StoppedEvidence(j, q) == IF q.verified /\ ~j.recovered THEN j ELSE End(j, j.business, "CHECKED")

\* complete_stopped_execution and complete_recovered_execution; the row itself when they do not apply.
Stopped(j, q, recovery) ==
  IF ~Settled(j, q) THEN j
  ELSE IF j.place.phase = 1 THEN StoppedPreflight(j)
  ELSE IF ~(j.cancel \/ recovery) \/ ~(q.collected \/ recovery) THEN j
  ELSE IF j.place.phase = Business THEN StoppedBusiness(j, q) ELSE StoppedEvidence(j, q)

\* The exit is recorded, and completes a stopped task in the same transaction.
RecordExit ==
  /\ Pass /\ Active /\ NotLive
  /\ count[Now] > 0 \/ job.cancel \/ Recovers
  /\ unit = "intended" => Recovers
  /\ LET q == Proof(Now) IN
       pend' = [pend EXCEPT ![Now] = q] /\ job' = Stopped(job, q, FALSE)
  /\ unit' = "idle"
  /\ UNCHANGED <<prep, bound, count, closed, ran, result, ses, adm, wire, crashes>>

\* What a closed phase leads to: the next one is awaited, the task ends, or it waits for a reconciliation.
Completed(j) ==
  LET p == j.place.phase  r == result[p]
      after == [j EXCEPT !.place.at = "after"]
      unsure == [j EXCEPT !.place.at = "exited", !.life = "reconcile"] IN
  IF ~pend[p].verified THEN unsure ELSE
  CASE p = 1 -> IF j.cancel THEN End(j, "CANCELLED", "NONE")
                ELSE IF r = "FAILED" THEN End(j, "FAILED", "NONE")
                ELSE IF j.recovered THEN unsure ELSE after
    [] p = Business -> IF j.cancel THEN End(j, r, "CHECKED") ELSE [after EXCEPT !.business = r]
    [] OTHER -> IF r = "SUCCEEDED" THEN End(j, j.business, "CHECKED") ELSE unsure

\* _resume_closed_completion, when the row is in a closed phase.
Resumed(j) == IF j.life \in {"open", "reconcile"} /\ j.place.at = "in" /\ j.place.phase \in closed THEN Completed(j) ELSE j

\* Between two phases there is nothing to stop.
Blocked == IF Now = 1 THEN End(job, "CANCELLED", "NONE") ELSE End(job, job.business, "CHECKED")

\* A pass over a row whose stages have stopped.
SettlePass ==
  /\ Pass /\ Open /\ ~Active
  /\ job' = IF Resumed(job) # job THEN Resumed(job)
            ELSE IF job.place.at = "after" THEN IF job.cancel THEN Blocked ELSE job
            ELSE IF job.cancel \/ job.recovered THEN Stopped(job, pend[Now], FALSE) ELSE job
  /\ job' # job
  /\ UNCHANGED <<prep, bound, count, pend, closed, stage, ses, adm, wire, crashes>>

-----------------------------------------------------------------------------
(* The session, in execute mode: a pass reads the row, then exchanges *)

Execute == ses.up /\ ~Recovers /\ ~Failed /\ ~ses.finished
Awaiting == ses.handler = 0 /\ ses.closures \in 1..2 /\ ses.phase = ses.closures

\* The pass reads the row; a cancellation may commit before it is used.
Observe ==
  /\ Execute /\ ses.snap = None /\ job.life # "none"
  /\ ses' = [ses EXCEPT !.snap = [stopped |-> Terminal /\ job.cancel]]
  /\ UNCHANGED <<ledger, stage, adm, wire, crashes>>

Snapshot == [kind |-> "reply", pending |-> pend[ses.handler] # None, full |-> pend[ses.handler] # None /\ pend[ses.handler].n = Stages, closed |-> ses.handler \in closed,
             stopped |-> Terminal /\ job.cancel, index |-> ses.index]
Event(kind, i) == [kind |-> kind, pending |-> FALSE, full |-> FALSE, closed |-> FALSE, stopped |-> FALSE, index |-> i]

\* The ledger refuses a step of the exchange: the task waits for a recovery.
Uncertain == IF Open THEN [job EXCEPT !.life = "reconcile"] ELSE job
Refuse(s) == ses' = [s EXCEPT !.failed = "refused"] /\ job' = Uncertain

\* _prepare, with the cancellation read again under the fence.
Prepare(s, p) ==
  IF job.cancel THEN ses' = s /\ UNCHANGED <<job, prep, toAdm>>
  ELSE IF ~(IF p = 1 THEN job.place.at = "queued" ELSE job.place = [at |-> "after", phase |-> p - 1])
    THEN Refuse(s) /\ UNCHANGED <<prep, toAdm>>
  ELSE /\ prep' = prep \cup {p} /\ UNCHANGED job
       /\ ses' = [s EXCEPT !.handler = p, !.phase = p, !.started = FALSE]
       /\ toAdm' = Append(toAdm, Event("prepared", s.index))

\* The stopped state is announced when no phase is open and no advance is under way.
TellStopped ==
  /\ Execute /\ ses.snap # None /\ ses.snap.stopped /\ ~ses.pending /\ ses.handler = 0 /\ ~ses.told /\ ~Awaiting
  /\ toAdm' = Append(toAdm, Event("terminal", ses.index))
  /\ ses' = [ses EXCEPT !.told = TRUE, !.snap = None]
  /\ UNCHANGED <<ledger, stage, adm, toSes, crashes>>

\* Nothing has arrived.
Quiet ==
  /\ Execute /\ ses.snap # None /\ toSes = <<>> /\ ~ses.pending
  /\ IF ses.snap.stopped THEN ses.handler # 0 \/ ses.told \/ Awaiting ELSE ~(ses.handler = 0 /\ ses.closures = 0)
  /\ ses' = [ses EXCEPT !.snap = None]
  /\ UNCHANGED <<ledger, stage, adm, wire, crashes>>

PrepareFirst ==
  /\ Execute /\ ses.snap # None /\ ~ses.snap.stopped /\ ses.handler = 0 /\ ses.closures = 0
  /\ Prepare([ses EXCEPT !.snap = None], 1)
  /\ UNCHANGED <<bound, count, pend, closed, stage, adm, toSes, crashes>>

Arrived == Execute /\ ses.snap # None /\ toSes # <<>> /\ ~ses.pending
InPhase == Head(toSes).index = ses.index
Read == [ses EXCEPT !.snap = None]

\* _advance: both ends pass to the next transport phase.
Advanced(s) == [s EXCEPT !.phase = s.closures + 1, !.index = @ + 1]

\* A packet that arrives when the row was seen stopped changes nothing.
ReceiveStopped ==
  /\ Arrived /\ ses.snap.stopped /\ toSes' = Tail(toSes)
  /\ LET c == Head(toSes).kind IN
     \/ /\ InPhase /\ c = "finish" /\ ses' = [Read EXCEPT !.finished = TRUE] /\ UNCHANGED toAdm
     \/ /\ InPhase /\ c = "advance" /\ Awaiting
        /\ ses' = [Advanced(Read) EXCEPT !.told = TRUE]
        /\ toAdm' = Append(toAdm, Event("terminal", Advanced(ses).index))
     \/ /\ InPhase /\ c \in {"bind", "start", "poll", "close"} /\ ses.handler # 0
        /\ toAdm' = Append(toAdm, Snapshot) /\ ses' = Read
     \/ /\ ~InPhase \/ (c = "advance" /\ ~Awaiting) \/ (c \in {"bind", "start", "poll", "close"} /\ ses.handler = 0)
        /\ ses' = [Read EXCEPT !.failed = "protocol"] /\ UNCHANGED toAdm
  /\ UNCHANGED <<ledger, stage, adm, crashes>>

\* Between two phases only the advance, or the end, is admitted.
ReceiveBetween ==
  /\ Arrived /\ ~ses.snap.stopped /\ ses.handler = 0 /\ ses.closures > 0 /\ toSes' = Tail(toSes)
  /\ LET c == Head(toSes).kind IN
     IF ses.closures = 3 /\ c = "finish" /\ InPhase
       THEN ses' = [Read EXCEPT !.finished = TRUE] /\ UNCHANGED <<job, prep, toAdm>>
     ELSE IF c = "advance" /\ InPhase /\ ses.closures < 3 THEN Prepare(Advanced(Read), ses.closures + 1)
     ELSE ses' = [Read EXCEPT !.failed = "protocol"] /\ job' = Uncertain /\ UNCHANGED <<prep, toAdm>>
  /\ UNCHANGED <<bound, count, pend, closed, stage, adm, crashes>>

\* bind and start of the open phase: a start of a cancelled task starts nothing, a bind of it is refused.
ReceiveCommand ==
  /\ Arrived /\ ~ses.snap.stopped /\ ses.handler # 0 /\ Head(toSes).kind # "close" /\ toSes' = Tail(toSes)
  /\ LET c == Head(toSes).kind  p == ses.handler IN
     IF ~(InPhase /\ c \in {"bind", "start", "poll"} /\ (c = "start" => ~ses.started))
       THEN ses' = [Read EXCEPT !.failed = "protocol"] /\ job' = Uncertain /\ UNCHANGED <<bound, count, toAdm>>
     ELSE IF (c = "bind" /\ (job.cancel \/ count[p] # None)) \/ (c = "start" /\ p \notin bound)
       THEN Refuse(Read) /\ UNCHANGED <<bound, count, toAdm>>
     ELSE /\ bound' = IF c = "bind" THEN bound \cup {p} ELSE bound
          /\ IF c = "start" /\ ~job.cancel
               THEN count' = [count EXCEPT ![p] = 0] /\ job' = [job EXCEPT !.place = [at |-> "in", phase |-> p]]
               ELSE UNCHANGED <<count, job>>
          /\ ses' = [Read EXCEPT !.started = (@ \/ c = "start")]
          /\ toAdm' = Append(toAdm, Snapshot)
  /\ UNCHANGED <<prep, pend, closed, stage, adm, crashes>>

\* A close is kept until the ledger has it.
ReceiveClose ==
  /\ Arrived /\ ~ses.snap.stopped /\ ses.handler # 0 /\ Head(toSes).kind = "close" /\ InPhase
  /\ toSes' = Tail(toSes) /\ ses' = [Read EXCEPT !.pending = TRUE]
  /\ UNCHANGED <<ledger, stage, adm, toAdm, crashes>>

\* close_observation wants the exit of all three stages.
RecordClose ==
  /\ Execute /\ ses.pending /\ ses.handler \notin closed
  /\ LET q == pend[ses.handler] IN
     IF q # None /\ q.n = Stages /\ Inside /\ Now = ses.handler
       THEN closed' = closed \cup {ses.handler} /\ UNCHANGED <<job, ses>>
       ELSE Refuse(ses) /\ UNCHANGED closed
  /\ UNCHANGED <<prep, bound, count, pend, stage, adm, wire, crashes>>

\* The completion, in a transaction of its own, and the reply.
HandleClose ==
  /\ Execute /\ ses.pending /\ ses.handler \in closed
  /\ job' = Resumed(job)
  /\ toAdm' = Append(toAdm, [Snapshot EXCEPT !.stopped = job'.life = "terminal" /\ job'.cancel])
  /\ ses' = [ses EXCEPT !.pending = FALSE, !.handler = 0, !.started = FALSE, !.closures = @ + 1, !.snap = None]
  /\ UNCHANGED <<prep, bound, count, pend, closed, stage, adm, toSes, crashes>>

\* The exchange fails: its deadline, the ledger, or the end of the peer. Nothing is sent again.
Fail ==
  /\ Execute /\ (MayFail \/ adm.at = "broken")
  /\ ses' = [ses EXCEPT !.failed = "exchange"] /\ job' = Uncertain
  /\ UNCHANGED <<prep, bound, count, pend, closed, stage, adm, wire, crashes>>

-----------------------------------------------------------------------------
(* The administrator *)

Ask(kind) == [kind |-> kind, index |-> adm.index]
Send(kind) ==
  /\ ~adm.sent /\ toSes' = Append(toSes, Ask(kind)) /\ adm' = [adm EXCEPT !.sent = TRUE]
  /\ UNCHANGED <<ledger, stage, ses, toAdm, crashes>>
Talk == adm.at \notin {"done", "stopped", "broken"} /\ ses.up

SendCommand == Talk /\ \E c \in {"bind", "start", "poll", "close"} : adm.at = c /\ Send(c)

\* The next event: the task stopped, or a phase is prepared.
ReceiveEvent ==
  /\ Talk /\ adm.at = "event" /\ toAdm # <<>> /\ toAdm' = Tail(toAdm)
  /\ IF Head(toAdm).index # adm.index THEN adm' = [adm EXCEPT !.at = "broken"] /\ UNCHANGED toSes
     ELSE IF Head(toAdm).kind = "terminal"
       THEN adm' = [adm EXCEPT !.at = "stopped"] /\ toSes' = Append(toSes, Ask("finish"))
     ELSE adm' = [adm EXCEPT !.at = "bind"] /\ UNCHANGED toSes
  /\ UNCHANGED <<ledger, stage, ses, crashes>>

\* The coordinator's order: bind, start, poll until the exit is pending, close; then the next phase.
ReceiveReply ==
  /\ Talk /\ adm.sent /\ toAdm # <<>> /\ toAdm' = Tail(toAdm)
  /\ LET m == Head(toAdm)
         to(at) == adm' = [adm EXCEPT !.at = at, !.sent = FALSE]
         last == adm.index = 3 IN
     IF m.index # adm.index \/ m.kind # "reply" THEN to("broken") /\ UNCHANGED toSes
     ELSE IF m.stopped THEN to("stopped") /\ toSes' = Append(toSes, Ask("finish"))
     ELSE CASE adm.at = "bind" -> to("start") /\ UNCHANGED toSes
            [] adm.at = "start" -> to("poll") /\ UNCHANGED toSes
            [] adm.at = "poll" -> to(IF ~m.pending THEN "poll" ELSE IF m.full THEN "close" ELSE "broken") /\ UNCHANGED toSes
            [] OTHER -> /\ toSes' = Append(toSes, Ask(IF last THEN "finish" ELSE "advance"))
                        /\ adm' = [adm EXCEPT !.at = IF last THEN "done" ELSE "event", !.sent = FALSE,
                                              !.index = IF last THEN @ ELSE @ + 1]
  /\ UNCHANGED <<ledger, stage, ses, crashes>>

-----------------------------------------------------------------------------
(* Death and recovery of the API process *)

Die ==
  /\ ses.up /\ (Failed \/ crashes < MaxCrashes)
  /\ ~(Recovers /\ ses.finished)
  /\ crashes' = IF Failed THEN crashes ELSE crashes + 1
  /\ ses' = [ses EXCEPT !.up = FALSE] /\ adm' = [adm EXCEPT !.at = IF @ \in {"done", "stopped"} THEN @ ELSE "broken"]
  /\ UNCHANGED <<ledger, stage, wire>>

\* Broker.recover: an interrupted completion is published, then the barrier of a task that is not settled.
Recover ==
  /\ ~ses.up /\ job.life # "none"
  /\ ses' = [Fresh EXCEPT !.mode = "recover"]
  /\ LET q == pend[Now]
         j == Stopped(Resumed(job), q, FALSE) IN
       job' = IF j.life = "terminal" \/ j.place.at = "queued" THEN j
              ELSE Stopped([j EXCEPT !.life = "reconcile", !.recovered = TRUE], q, FALSE)
  /\ UNCHANGED <<prep, bound, count, pend, closed, stage, adm, wire, crashes>>

Recovering == ses.up /\ Recovers /\ ~ses.finished

\* finish_recovery: the surviving manager finds its execution parent empty.
Acknowledge ==
  /\ Recovering /\ ~ses.acked /\ ~Active /\ NotLive
  /\ ses' = [ses EXCEPT !.acked = TRUE]
  /\ UNCHANGED <<ledger, stage, adm, wire, crashes>>

\* complete_between_phases: the phases before are closed, nothing of the next one was intended.
Between == IF Now = 1 THEN End(job, "UNKNOWN", "NONE") ELSE End(job, job.business, "CHECKED")

FinishRecovery ==
  /\ Recovering /\ ses.acked
  /\ ses' = [ses EXCEPT !.finished = TRUE]
  /\ job' = IF Terminal THEN job
            ELSE CASE job.place.at = "queued" -> End(job, "UNKNOWN", "NONE")
                   [] job.place.at = "after" -> Between
                   [] OTHER -> Stopped(job, pend[Now], TRUE)
  /\ UNCHANGED <<prep, bound, count, pend, closed, stage, adm, wire, crashes>>

-----------------------------------------------------------------------------
Init ==
  /\ job = [life |-> "none", place |-> [at |-> "queued", phase |-> 1], cancel |-> FALSE, recovered |-> FALSE,
            outcome |-> "PENDING", effects |-> "UNOBSERVED", business |-> "none"]
  /\ prep = {} /\ bound = {} /\ count = [p \in Phases |-> None] /\ pend = [p \in Phases |-> None] /\ closed = {}
  /\ unit = "idle" /\ ran = FALSE /\ result = [p \in Phases |-> "none"] /\ ses = Fresh
  /\ adm = [at |-> "event", index |-> 1, sent |-> FALSE] /\ toAdm = <<>> /\ toSes = <<>> /\ crashes = 0

Session ==
  \/ Observe \/ TellStopped \/ Quiet \/ PrepareFirst \/ ReceiveStopped \/ ReceiveBetween \/ ReceiveCommand
  \/ ReceiveClose \/ RecordClose \/ HandleClose
Broker == Deliver \/ Launch \/ UnitEnds \/ RecordExit \/ SettlePass
Administrator == SendCommand \/ ReceiveEvent \/ ReceiveReply
Recovery == Recover \/ Acknowledge \/ FinishRecovery

Next == Session \/ Broker \/ Administrator \/ Recovery \/ Submit \/ Cancel \/ Fail \/ Die

Spec == Init /\ [][Next]_vars

\* Every loop goes on. Each tick of the session makes the broker's pass before it reads the row, so a pass
\* that is possible again and again is made; a failed session ends with its process, at its deadline at the latest.
FairSpec ==
  /\ Spec /\ WF_vars(Session) /\ WF_vars(Administrator) /\ WF_vars(Recovery)
  /\ WF_vars(Deliver) /\ WF_vars(Launch) /\ WF_vars(UnitEnds) /\ SF_vars(RecordExit) /\ SF_vars(SettlePass)
  /\ WF_vars(Fail /\ adm.at = "broken") /\ WF_vars(Die /\ Failed)

-----------------------------------------------------------------------------
TypeOK ==
  /\ job.life \in {"none", "open", "reconcile", "terminal"} /\ job.place.at \in {"queued", "in", "after", "exited"}
  /\ unit \in {"idle", "intended", "live"} /\ prep \subseteq Phases /\ bound \subseteq prep /\ closed \subseteq Phases
  /\ \A p \in Phases : count[p] = None \/ count[p] \in 0..Stages
  /\ Len(toAdm) <= 2 /\ Len(toSes) <= 2 /\ ses.index \in Phases /\ adm.index \in Phases

(* The exchange never fails on its own: whenever a cancellation commits,    *)
(* both ends are in the same transport phase for every packet, every packet *)
(* is one that its receiver admits, and the administrator gives up only     *)
(* after the session did, or when a phase ended before its last stage.      *)
NoProtocolFailure ==
  /\ ses.failed # "protocol"
  /\ adm.at = "broken" => Failed \/ ~ses.up \/ Recovers \/ (pend[Now] # None /\ pend[Now].n < Stages)

(* No stage is delivered once the cancellation is durable, and no phase is  *)
(* entered twice, nor before the phases before it are closed.               *)
NothingAfterCancel ==
  \A p \in Phases : count'[p] # count[p] =>
    /\ ~job.cancel
    /\ IF count[p] = None THEN p \notin closed /\ (\A r \in Phases : r < p => r \in closed)
                          ELSE count'[p] = count[p] + 1

(* A finished task tells the truth: it has no effects only when its         *)
(* business helper was never started, it ends with a result only when the   *)
(* helper left that result, and nothing of it runs any more.                *)
HonestEnd ==
  Terminal =>
    /\ NotLive
    /\ job.effects = "NONE" => ~ran
    /\ job.outcome = "CANCELLED" => ~ran
    /\ job.outcome = "SUCCEEDED" => ran /\ result[Business] = "SUCCEEDED"

(* A cancellation does not break the exchange: a packet that was under way  *)
(* is answered with the stopped state.                                      *)

(* A submitted task ends, whatever the client cancels, wherever the API     *)
(* process dies and whatever exchange fails; only evidence whose            *)
(* publication is uncertain, all three phases closed, waits for an explicit *)
(* reconciliation.                                                          *)
Ends == job.life = "open" ~> Terminal \/ (job.life = "reconcile" /\ job.place.at = "exited" /\ closed = Phases)

=============================================================================
