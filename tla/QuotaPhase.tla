----------------------------- MODULE QuotaPhase -----------------------------
(***************************************************************************)
(* One quota phase across its processes: the administrator's Coordinator   *)
(* (q2_coordinator.py) with its Management of two units and their record   *)
(* (q2_management.py), the listener and the admission unit                 *)
(* (q2_listener.py), the query unit, and on the ordinary side the broker's *)
(* bridge (quota_bridge.py), the bootstrap that asks for the observation   *)
(* (quota_client.py, quota_bootstrap.py) and the observation of its exit   *)
(* (quota_lifecycle.py).  The journal cell is the one of QuotaJournal.     *)
(*                                                                         *)
(* Nothing is retried or resumed.  Units keep their exit until they are    *)
(* stopped (RemainAfterExit), and their clients see end of file only then. *)
(***************************************************************************)
EXTENDS Naturals, FiniteSets

CONSTANTS
  Faults,      \* whether steps fail, replies are lost and processes die
  MaxRuns      \* bound: coordinators constructed for this phase (not in the code)

FaultsAssumption == Faults \in BOOLEAN
RunsAssumption == MaxRuns \in Nat \ {0}

Roles == {"listener", "admission"}
Units == Roles \cup {"query", "ordinary"}
Exited == {"ok", "bad"}                    \* an exit systemd still remembers

VARIABLES
  pc,        \* the coordinator's step
  part,      \* Management.runs: per role bound, attempted, stopped, after
  saw,       \* what the coordinator's loop has: pending snapshot, closed management
  record,    \* management.jsonl
  unit,      \* per unit: none, running, ok, bad, stopped
  starts,    \* per unit: how often it was started
  lst, adm,  \* steps of the listener's and the admission's process
  boot,      \* step of the ordinary bootstrap
  eof,       \* units whose waiting client ended with end of file
  session,   \* the admission's one-time session file was written
  cell,      \* the grant's journal cell
  brk,       \* the broker's record of the phase
  runs       \* coordinators constructed

vars == <<pc, part, saw, record, unit, starts, lst, adm, boot, eof, session, cell, brk, runs>>
admin == <<pc, part, saw, record, runs>>
service == <<lst, adm, session, cell, eof>>

NoPart == [bound |-> FALSE, attempted |-> FALSE, stopped |-> FALSE, after |-> FALSE]
NoRecord == [intent |-> FALSE, delivered |-> {}, invoked |-> {}, finished |-> "no"]
NothingSeen == [pending |-> FALSE, closed |-> FALSE]
NoPhase == [bound |-> FALSE, started |-> FALSE, observed |-> FALSE,
            pending |-> FALSE, closed |-> FALSE, same |-> TRUE]
Empty(units) == \A u \in units : unit[u] \in {"none", "stopped"}
\* The tree's cgroup has no process (populated 0): a unit that ended may still be
\* there until it is stopped.
Unpopulated(units) == \A u \in units : unit[u] # "running"
Start(u) == /\ unit' = [unit EXCEPT ![u] = "running"]
            /\ starts' = [starts EXCEPT ![u] = @ + 1]
Goto(step) == pc' = step
Fail == Faults /\ pc' = "failed"

-----------------------------------------------------------------------------
(* Coordinator and Management                                                *)

\* Another Coordinator for the phase: RunRecord takes only an empty file.
Again ==
  /\ pc = "failed" /\ runs < MaxRuns /\ runs' = runs + 1
  /\ record = NoRecord
  /\ pc' = "snapshot" /\ part' = [r \in Roles |-> NoPart] /\ saw' = NothingSeen
  /\ UNCHANGED <<record, unit, starts, service, boot, brk>>

\* The first snapshot: nothing was started, and the grant is unused.
Snapshot ==
  /\ pc = "snapshot"
  /\ \/ /\ brk.same /\ ~brk.observed /\ ~brk.pending /\ ~brk.closed /\ cell = "READY"
        /\ Goto("begin")
     \/ Fail
  /\ UNCHANGED <<part, saw, record, runs, unit, starts, service, boot, brk>>

\* begin: both units unknown and their tree empty, then the durable intent and
\* the delivery of the listener before its start.
Begin ==
  /\ pc = "begin"
  /\ \/ /\ Empty(Roles) /\ ~record.intent
        /\ record' = [record EXCEPT !.intent = TRUE, !.delivered = {"listener"}]
        /\ \/ Start("listener") /\ lst' = "control" /\ Goto("control")
           \/ Fail /\ UNCHANGED <<unit, starts, lst>>
     \/ Fail /\ UNCHANGED <<record, unit, starts, lst>>
  /\ UNCHANGED <<part, saw, runs, adm, session, cell, boot, brk, eof>>

\* The control socket is published; launch("admission") records its delivery.
LaunchAdmission ==
  /\ pc = "control"
  /\ \/ /\ lst = "control" /\ unit["listener"] = "running"
        /\ record' = [record EXCEPT !.delivered = @ \cup {"admission"}]
        /\ \/ Start("admission") /\ adm' = "reserve" /\ Goto("endpoint")
           \/ Fail /\ UNCHANGED <<unit, starts, adm>>
     \/ Fail /\ UNCHANGED <<record, unit, starts, adm>>
  /\ UNCHANGED <<part, saw, runs, lst, session, cell, boot, brk, eof>>

\* The endpoint is published and one poll binds both invocations.
BindInvocations ==
  /\ pc = "endpoint"
  /\ \/ /\ lst = "accept" /\ \A r \in Roles : unit[r] = "running"
        /\ part' = [r \in Roles |-> [part[r] EXCEPT !.bound = TRUE]]
        /\ record' = [record EXCEPT !.invoked = Roles]
        /\ Goto("bind")
     \/ Fail /\ UNCHANGED <<part, record>>
  /\ UNCHANGED <<saw, runs, unit, starts, service, boot, brk>>

\* Client.call bind: the grant becomes the broker's selected one.  A lost answer
\* poisons the channel.
Bind ==
  /\ pc = "bind"
  /\ \/ /\ brk.same /\ brk' = [brk EXCEPT !.bound = TRUE]
        /\ (Goto("start") \/ Fail)
     \/ Fail /\ UNCHANGED brk
  /\ UNCHANGED <<part, saw, record, runs, unit, starts, service, boot>>

\* Client.call start: the broker starts the bound phase.
StartOrdinary ==
  /\ pc = "start"
  /\ \/ /\ brk.same /\ brk.bound /\ ~brk.started
        /\ brk' = [brk EXCEPT !.started = TRUE]
        /\ Start("ordinary") /\ boot' = "started"
        /\ (Goto("loop") \/ Fail)
     \/ Fail /\ UNCHANGED <<brk, unit, starts, boot>>
  /\ UNCHANGED <<part, saw, record, runs, service>>

\* poll: a terminal unit is stopped once; the next poll has its state after it.
\* A stop without an answer, or a failed client, ends the coordinator.
Poll(r) ==
  /\ pc = "loop" /\ ~saw.closed /\ ~part[r].after
  /\ \/ /\ unit[r] \in Exited /\ ~part[r].attempted
        /\ part' = [part EXCEPT ![r].attempted = TRUE, ![r].stopped = unit[r] = "ok"]
        /\ unit' = [unit EXCEPT ![r] = "stopped"]
        /\ IF unit[r] = "ok" THEN Goto("loop") ELSE Goto("failed")
     \/ /\ part[r].stopped /\ unit[r] = "stopped"
        /\ part' = [part EXCEPT ![r].after = TRUE] /\ UNCHANGED <<pc, unit>>
     \/ /\ Fail /\ unit[r] \in Exited
        /\ part' = [part EXCEPT ![r].attempted = TRUE] /\ UNCHANGED unit
  /\ UNCHANGED <<saw, record, runs, starts, service, boot, brk>>

\* finish (_closed): both stopped with success, end of file, an empty tree.
Finish ==
  /\ pc = "loop" /\ ~saw.closed
  /\ \A r \in Roles : part[r].stopped /\ part[r].after /\ r \in eof
  /\ Empty(Roles)
  /\ saw' = [saw EXCEPT !.closed = TRUE]
  /\ record' = [record EXCEPT !.finished = "closed"]
  /\ UNCHANGED <<pc, part, runs, unit, starts, service, boot, brk>>

SnapshotPending ==
  /\ pc = "loop" /\ ~saw.pending
  /\ \/ brk.same /\ brk.pending /\ saw' = [saw EXCEPT !.pending = TRUE] /\ UNCHANGED pc
     \/ Fail /\ UNCHANGED saw
  /\ UNCHANGED <<part, record, runs, unit, starts, service, boot, brk>>

\* The stored result is the broker's receipt, all three trees are empty, and the
\* six stages make one fence (assemble, quota_closure.decode).
Assemble ==
  /\ pc = "loop" /\ saw.pending /\ saw.closed
  /\ \/ /\ ~brk.closed /\ brk.observed /\ cell = "OBSERVED" /\ Empty(Units)
        /\ Goto("adminclose")
     \/ ~(brk.observed /\ cell = "OBSERVED" /\ Empty(Units)) /\ Goto("failed")
     \/ Fail
  /\ UNCHANGED <<part, saw, record, runs, unit, starts, service, boot, brk>>

\* service.close_phase, then Client.call close; a lost acknowledgement after
\* either leaves the phase incomplete.
AdminClose ==
  /\ pc = "adminclose"
  /\ \/ cell' = "CLOSED" /\ (Goto("brokerclose") \/ Fail)
     \/ Fail /\ UNCHANGED cell
  /\ UNCHANGED <<part, saw, record, runs, unit, starts, lst, adm, session, boot, brk, eof>>

BrokerClose ==
  /\ pc = "brokerclose"
  /\ \/ /\ brk.same /\ brk' = [brk EXCEPT !.closed = TRUE]
        /\ (Goto("closed") \/ Fail)
     \/ Fail /\ UNCHANGED brk
  /\ UNCHANGED <<part, saw, record, runs, unit, starts, service, boot>>

\* finish_stopped: after the ordinary stop was proved, each management unit
\* that was not stopped yet is stopped once by its recorded invocation.
StopManagement(r) ==
  /\ Faults /\ pc = "loop" /\ unit["ordinary"] = "stopped" /\ ~brk.observed
  /\ part[r].bound /\ ~part[r].attempted
  /\ part' = [part EXCEPT ![r].attempted = TRUE, ![r].stopped = TRUE, ![r].after = TRUE]
  /\ unit' = [unit EXCEPT ![r] = "stopped"]
  /\ UNCHANGED <<pc, saw, record, runs, starts, service, boot, brk>>

\* A query that was dispatched may go on; its end is awaited, not its stop.
FinishStopped ==
  /\ Faults /\ pc = "loop" /\ unit["ordinary"] = "stopped" /\ ~brk.observed /\ record.finished = "no"
  /\ \A r \in Roles : part[r].stopped /\ part[r].after /\ r \in eof
  /\ Unpopulated(Roles \cup {"query"})
  /\ record' = [record EXCEPT !.finished = "stopped"] /\ Goto("stopped")
  /\ UNCHANGED <<part, saw, runs, unit, starts, service, boot, brk>>

-----------------------------------------------------------------------------
(* The listener and the admission process; either may fail at any step and   *)
(* ends its unit with an error, which the other one meets as a broken socket. *)

Exit(u, how) == unit' = [unit EXCEPT ![u] = how]

\* listener: the admission's connection comes first, then the endpoint.
Accept ==
  /\ unit["listener"] = "running" /\ unit["admission"] = "running"
  /\ lst = "control" /\ adm = "connect"
  /\ lst' = "accept" /\ adm' = "wait"
  /\ UNCHANGED <<admin, unit, starts, boot, session, cell, brk, eof>>

\* admission: the session file is written once, before the connection.
ReserveSession ==
  /\ unit["admission"] = "running" /\ adm = "reserve"
  /\ ~session /\ session' = TRUE /\ adm' = "connect"
  /\ UNCHANGED <<admin, unit, starts, lst, boot, cell, brk, eof>>

\* The bootstrap's request is handed over once; then the listener is consumed.
Forward ==
  /\ unit["listener"] = "running" /\ lst = "accept" /\ boot = "asking"
  /\ adm = "wait" /\ unit["admission"] = "running"
  /\ lst' = "dispatched" /\ adm' = "intent"
  /\ UNCHANGED <<admin, unit, starts, boot, session, cell, brk, eof>>

\* Service.handle in one admission: intent, query, result (see QuotaJournal).
Intent ==
  /\ unit["admission"] = "running" /\ adm = "intent" /\ cell = "READY"
  /\ cell' = "INTENT" /\ adm' = "handling"
  /\ UNCHANGED <<admin, unit, starts, lst, boot, session, brk, eof>>

RunQuery ==
  /\ unit["admission"] = "running" /\ adm = "handling" /\ Empty({"query"})
  /\ Start("query") /\ adm' = "stopquery"
  /\ UNCHANGED <<admin, lst, boot, session, cell, brk, eof>>

StopQuery ==
  /\ unit["admission"] = "running" /\ adm = "stopquery"
  /\ \/ unit["query"] = "ok" /\ Exit("query", "stopped") /\ cell' = "OBSERVED"
     \/ Faults /\ cell' = "UNKNOWN" /\ UNCHANGED unit
  /\ adm' = "reply"
  /\ UNCHANGED <<admin, starts, lst, boot, session, brk, eof>>

\* The receipt, whatever its status, then the acknowledgement to the listener.
Reply ==
  /\ unit["admission"] = "running" /\ adm = "reply"
  /\ boot' = IF boot = "asking" /\ cell = "OBSERVED" THEN "observed"
             ELSE IF boot = "asking" THEN "refused" ELSE boot
  /\ adm' = "ack"
  /\ UNCHANGED <<admin, unit, starts, lst, session, cell, brk, eof>>

Ack ==
  /\ unit["admission"] = "running" /\ adm = "ack" /\ adm' = "done"
  /\ Exit("admission", "ok")
  /\ UNCHANGED <<admin, starts, lst, boot, session, cell, brk, eof>>

ListenerDone ==
  /\ unit["listener"] = "running" /\ lst = "dispatched" /\ adm = "done"
  /\ lst' = "done" /\ Exit("listener", "ok")
  /\ UNCHANGED <<admin, starts, adm, boot, session, cell, brk, eof>>

\* A failure, a deadline or a broken socket.
RoleFails(r) ==
  /\ Faults /\ unit[r] = "running" /\ Exit(r, "bad")
  /\ UNCHANGED <<admin, starts, service, boot, brk>>

\* systemd-run --pipe returns when its unit is stopped.
ClientEnds(u) ==
  /\ unit[u] = "stopped" /\ u \notin eof /\ eof' = eof \cup {u}
  /\ UNCHANGED <<admin, unit, starts, lst, adm, session, cell, boot, brk>>

QueryEnds ==
  /\ unit["query"] = "running" /\ Exit("query", "ok")
  /\ UNCHANGED <<admin, starts, service, boot, brk>>

-----------------------------------------------------------------------------
(* The ordinary side                                                         *)

\* quota_client.observe: one connection to the published endpoint, no retry.
Connect ==
  /\ unit["ordinary"] = "running" /\ boot = "started"
  /\ boot' = IF unit["listener"] = "running" /\ lst = "accept" THEN "asking" ELSE "refused"
  /\ UNCHANGED <<admin, unit, starts, service, brk>>

\* The bootstrap ends, with its receipt or (also when cancelled) without one.
BootstrapEnds ==
  /\ unit["ordinary"] = "running"
  /\ boot \in {"observed", "refused"} \/ Faults
  /\ Exit("ordinary", IF boot = "observed" THEN "ok" ELSE "bad")
  /\ boot' = IF boot = "observed" THEN "observed" ELSE "ended"
  /\ UNCHANGED <<admin, starts, service, brk>>

\* quota_lifecycle.observe: the terminal unit is stopped, then end of file, the
\* empty tree and a valid OBSERVED receipt become the pending exit.
ObserveExit ==
  /\ brk.same /\ ~brk.pending
  /\ \/ /\ unit["ordinary"] \in Exited /\ Exit("ordinary", "stopped") /\ UNCHANGED brk
     \/ /\ unit["ordinary"] = "stopped" /\ boot = "observed" /\ "ordinary" \in eof
        /\ brk' = [brk EXCEPT !.observed = TRUE, !.pending = TRUE] /\ UNCHANGED unit
  /\ UNCHANGED <<admin, starts, service, boot>>

\* A restarted broker has another session: every call on the phase is refused,
\* and observe_recovered only stops the unit.
BrokerRestart ==
  /\ Faults /\ brk.same /\ brk' = [brk EXCEPT !.same = FALSE]
  /\ UNCHANGED <<admin, unit, starts, service, boot>>

ObserveRecovered ==
  /\ ~brk.same /\ unit["ordinary"] \in {"running"} \cup Exited
  /\ Exit("ordinary", "stopped")
  /\ UNCHANGED <<admin, starts, service, boot, brk>>

-----------------------------------------------------------------------------
Init ==
  /\ pc = "snapshot" /\ part = [r \in Roles |-> NoPart] /\ saw = NothingSeen
  /\ record = NoRecord /\ unit = [u \in Units |-> "none"] /\ starts = [u \in Units |-> 0]
  /\ lst = "none" /\ adm = "none" /\ boot = "none" /\ session = FALSE /\ eof = {}
  /\ cell = "READY" /\ brk = NoPhase /\ runs = 1

Loop == (\E r \in Roles : Poll(r) \/ StopManagement(r)) \/ Finish \/ SnapshotPending
        \/ Assemble \/ FinishStopped
Coordinator == \/ Again \/ Snapshot \/ Begin \/ LaunchAdmission \/ BindInvocations
               \/ Bind \/ StartOrdinary \/ Loop \/ AdminClose \/ BrokerClose
Service == \/ Accept \/ ReserveSession \/ Forward \/ Intent \/ RunQuery \/ StopQuery
           \/ Reply \/ Ack \/ ListenerDone \/ QueryEnds \/ (\E r \in Roles : RoleFails(r))
           \/ (\E u \in Units \ {"query"} : ClientEnds(u))
Ordinary == Connect \/ BootstrapEnds \/ ObserveExit \/ BrokerRestart \/ ObserveRecovered
Next == Coordinator \/ Service \/ Ordinary

Spec == Init /\ [][Next]_vars

\* Every process is run by its supervisor until it ends; the coordinator's loop
\* polls; the query has a deadline.
FairSpec ==
  /\ Spec /\ WF_vars(Service) /\ WF_vars(Ordinary)
  /\ \A u \in Units \ {"query"} : WF_vars(ClientEnds(u))
  /\ WF_vars(Snapshot \/ Begin \/ LaunchAdmission \/ BindInvocations \/ Bind \/ StartOrdinary)
  /\ \A r \in Roles : WF_vars(Poll(r))
  /\ WF_vars(Finish) /\ WF_vars(SnapshotPending) /\ WF_vars(Assemble)
  /\ WF_vars(AdminClose) /\ WF_vars(BrokerClose)

-----------------------------------------------------------------------------
\* The form of the units, the record (RunRecord's order) and the broker's phase.
TypeOK ==
  /\ unit \in [Units -> {"none", "running", "stopped"} \cup Exited]
  /\ part \in [Roles -> [bound : BOOLEAN, attempted : BOOLEAN, stopped : BOOLEAN, after : BOOLEAN]]
  /\ record.invoked \subseteq record.delivered /\ record.delivered \subseteq Roles
  /\ record.finished # "no" => record.invoked = Roles
  /\ record.delivered # {} => record.intent
  /\ cell \in {"READY", "INTENT", "OBSERVED", "UNKNOWN", "CLOSED"} /\ runs \in 1..MaxRuns
  /\ \A r \in Roles : part[r].after => part[r].stopped /\ part[r].attempted

\* Every unit of the phase is started at most once, also when a second
\* coordinator is constructed after any failure.
StartedOnce == \A u \in Units : starts[u] <= 1

\* The broker's phase is closed only after the administrator's journal: a crash
\* between the two leaves a closed cell and an open phase, never the reverse.
AdminClosesFirst == brk.closed => cell = "CLOSED"

\* A closed cell means that listener, admission, query and bootstrap are gone.
ClosedIsQuiet == cell = "CLOSED" => Empty(Units)

\* A management recorded as stopped has no process left and gets none later: its
\* units are stopped, a dispatched query ended, and nobody can dispatch another.
StoppedIsQuiet ==
  record.finished = "stopped" => Empty(Roles) /\ Unpopulated({"query"})

\* When nothing fails the phase is closed on both sides: no process waits for
\* another one for ever (units remain after exit, clients wait for their stop).
PhaseCloses == <>(pc = "closed" /\ brk.closed /\ cell = "CLOSED")
=============================================================================
