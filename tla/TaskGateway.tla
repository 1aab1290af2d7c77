---------------------------- MODULE TaskGateway ----------------------------
(***************************************************************************)
(* The administrator's controller of one task                              *)
(* (local_hand_system_manager/task_service.py and server.py).  It spawns   *)
(* the ordinary account's API, authorizes the task's phases one by one,    *)
(* and a thread of it, the gateway, answers the API's requests to launch,  *)
(* observe, stop and seal the units of a phase.  When the API dies, the    *)
(* controller spawns another one that may only observe and stop, and       *)
(* finishes the interrupted management of the phase once that one has      *)
(* proved that every delivered unit is over.                               *)
(*                                                                         *)
(* The API belongs to the ordinary account: it may send any request at any *)
(* time, one at a time, and may die at any time.  systemd starts a         *)
(* delivered unit late, or never, and forgets a stopped one.               *)
(***************************************************************************)
EXTENDS Naturals, FiniteSets

CONSTANTS
  NP,             \* phases of a task: wire.PHASES
  NS,             \* stages of a phase: wire.STAGES, the first is the bootstrap
  CallLimit,      \* wire.CALL_LIMIT
  MaxRecoveries,  \* MAX_SERVICE_RECOVERIES
  MayExpire,      \* the controller's window may end in this run
  None

VARIABLES
  svc,      \* step of the controller: task_service.main
  mgmt,     \* management pair of the phase: none, open, kept (interrupted), closed
  auth,     \* phases authorized
  closed,   \* phases closed
  journal,  \* per phase: READY, RESULT or CLOSED
  api,      \* the API processes that are alive, by generation
  spawned,  \* generation of the last API
  expired,  \* the controller's deadline has passed
  gw,       \* the gateway's session
  call,     \* the outstanding request, or None
  parts,    \* per stage: what the gateway retains of it, or None
  intents,  \* stages with a durable intent
  unit,     \* per stage: what systemd has
  client,   \* per stage: the systemd-run process of the gateway
  starts    \* history: systemd-run started for the stage

task == <<svc, mgmt, auth, closed, journal>>
process == <<api, spawned, expired>>
system == <<unit, client, starts>>
vars == <<svc, mgmt, auth, closed, journal, api, spawned, expired, gw, call, parts, intents, unit, client, starts>>

Phases == 1..NP
Stages == 1..NS
Keys == Phases \X Stages
Ops == {"inventory", "observe", "stop", "launch", "client_stop", "seal", "recovery_finish"}
NewPart == [inv |-> FALSE, stop |-> FALSE, sealed |-> FALSE, term |-> "none", pipes |-> FALSE,
            held |-> FALSE, obs |-> FALSE, after |-> "none"]

\* What the gateway retains of a stage, and its outstanding request.
Parts == [inv : BOOLEAN, stop : BOOLEAN, sealed : BOOLEAN, term : {"none", "good", "bad"}, pipes : BOOLEAN,
          held : BOOLEAN, obs : BOOLEAN, after : {"none", "up", "down"}]
Reasons == {"none", "peer", "identity", "refused"}
Requests == [op : Ops, x : Keys, step : {"sent", "launching", "done", "refused"}, why : Reasons]

GatewayAssumption ==
  /\ {NP, NS} \subseteq Nat \ {0} /\ {CallLimit, MaxRecoveries} \subseteq Nat /\ MayExpire \in BOOLEAN
  /\ None \notin Parts \cup Requests

Delivered == {x \in Keys : parts[x] # None}
Loaded(u) == u \in {"loading", "active", "exited", "failed", "draining"}
Populated(u) == u \in {"active", "draining"}
Live(u) == u \in {"queued", "loading"} \/ Populated(u)
PeerLives == gw.peer \in api
Calls == gw.retired + gw.seq

\* life.parent(..., empty=True): the cgroup of all stages has no process.
ParentEmpty == \A x \in Keys : ~Populated(unit[x])

\* What a rebound session may ask for.
RecoveryOps == {"inventory", "observe", "stop", "recovery_finish"}

\* _show: an observation is accepted unless it contradicts the retained identity.
ShowFits(x) ==
  /\ unit[x] # "loading"
  /\ Loaded(unit[x]) \/ ~parts[x].inv \/ parts[x].stop

\* The part after an accepted observation.
Shown(x) ==
  LET u == unit[x]
      pt == parts[x]
      end == IF pt.term # "none" THEN pt.term
             ELSE CASE u = "exited" -> "good" [] u \in {"failed", "draining"} -> "bad" [] OTHER -> "none"
  IN [pt EXCEPT !.inv = @ \/ Loaded(u), !.term = end,
                !.after = IF u \in {"active", "exited"} THEN "up" ELSE "down"]

\* No part and no intent (O_EXCL) of the stage: it was never delivered.
Undelivered(x) == parts[x] = None /\ x \notin intents

\* _predecessor: the journal's state, and the stage before it sealed.
Predecessor(p, s) ==
  IF s = 1 THEN journal[p] = "READY"
  ELSE /\ parts[<<p, s - 1>>] # None /\ parts[<<p, s - 1>>].sealed
       /\ journal[p] = "RESULT" /\ parts[<<p, 1>>].term = "good"
       /\ parts[<<p, s - 1>>].term # "none"

MayLaunch(x) ==
  /\ x[1] <= auth /\ x[1] > closed /\ Undelivered(x)
  /\ Predecessor(x[1], x[2]) /\ ParentEmpty /\ ~Loaded(unit[x])

\* _seal: the exit of the stage is proved, in its cgroup and by its client.
Exited(x) ==
  /\ ~parts[x].sealed /\ parts[x].stop /\ parts[x].held
  /\ Shown(x).inv /\ Shown(x).after = "down" /\ ParentEmpty /\ client[x] = "exited"

\* recovery_finish: this delivered stage of an open phase is over.
Over(x) == parts[x].obs /\ ~parts[x].held /\ parts[x].stop /\ parts[x].inv /\ parts[x].after = "down"

-----------------------------------------------------------------------------
(* The API and its requests *)

\* SystemManager._request and Channel.request: one outstanding call.
Request(op, x) ==
  /\ PeerLives /\ gw.serving /\ call = None /\ gw.seq < CallLimit
  /\ op \in {"inventory", "recovery_finish"} => x = <<1, 1>>      \* they name no stage
  /\ op = "launch" => svc # "reading" \/ gw.only      \* the broker launches nothing for a terminal task
  /\ call' = [op |-> op, x |-> x, step |-> "sent", why |-> "none"]
  /\ UNCHANGED <<task, process, gw, parts, system, intents>>

\* The API dies, killed or by an error of its own.
Crash(g) ==
  /\ g \in api /\ api' = api \ {g}
  /\ UNCHANGED <<task, spawned, expired, gw, call, parts, system, intents>>

-----------------------------------------------------------------------------
(* The gateway's thread *)

\* Gateway._time: the session still holds when a request is dispatched.
Time == PeerLives /\ ~expired /\ Calls <= CallLimit

Handling(op) == gw.serving /\ call # None /\ call.step = "sent" /\ call.op = op
Admitted(op) == Handling(op) /\ Time /\ (gw.only => op \in RecoveryOps)
Answer == call' = [call EXCEPT !.step = "done"]
Reject(why) == call' = [call EXCEPT !.step = "refused", !.why = why]
Known == call.x \in Delivered

\* serve ends: the channel is closed and the failure recorded.
EndServe(why) ==
  /\ gw' = [gw EXCEPT !.serving = FALSE, !.failure = why]
  /\ call' = None

\* _launch up to the durable intent; the part is recorded before the delivery.
LaunchIntent ==
  /\ Admitted("launch") /\ MayLaunch(call.x)
  /\ intents' = intents \cup {call.x}
  /\ parts' = [parts EXCEPT ![call.x] = NewPart]
  /\ call' = [call EXCEPT !.step = "launching"]
  /\ UNCHANGED <<task, process, gw, system>>

\* _launch: systemd-run starts and the pipes are recorded.
LaunchDeliver ==
  /\ gw.serving /\ call # None /\ call.step = "launching" /\ Time
  /\ starts' = [starts EXCEPT ![call.x] = @ + 1]
  /\ unit' = [unit EXCEPT ![call.x] = IF Loaded(@) THEN @ ELSE "queued"]
  /\ client' = [client EXCEPT ![call.x] = "live"]
  /\ parts' = [parts EXCEPT ![call.x].pipes = TRUE, ![call.x].held = TRUE]
  /\ Answer
  /\ UNCHANGED <<task, process, gw, intents>>

\* _launch: the peer died or the time ended after the part was recorded.
LaunchLost ==
  /\ gw.serving /\ call # None /\ call.step = "launching" /\ ~Time
  /\ Reject(IF PeerLives THEN "refused" ELSE "peer")
  /\ UNCHANGED <<task, process, gw, parts, system, intents>>

Observe ==
  /\ Admitted("observe") /\ Known /\ ShowFits(call.x)
  /\ parts' = [parts EXCEPT ![call.x] = [Shown(call.x) EXCEPT !.obs = @ \/ gw.only]]
  /\ Answer
  /\ UNCHANGED <<task, process, gw, system, intents>>

\* A recovery session observes a stage that was never delivered.
ObserveUndelivered ==
  /\ Admitted("observe") /\ gw.only /\ call.x[1] <= auth /\ ~Known /\ ~Loaded(unit[call.x])
  /\ Answer
  /\ UNCHANGED <<task, process, gw, parts, system, intents>>

\* inventory: every known unit that systemd lists is observed.
Inventory ==
  /\ Admitted("inventory")
  /\ LET listed == {x \in Delivered : Loaded(unit[x])} IN
     /\ \A x \in listed : ShowFits(x)
     /\ parts' = [x \in Keys |-> IF x \in listed THEN Shown(x) ELSE parts[x]]
  /\ Answer
  /\ UNCHANGED <<task, process, gw, system, intents>>

\* stop: the observed unit is the retained one; systemctl stop may fail.
Stop ==
  /\ Admitted("stop") /\ Known /\ ShowFits(call.x) /\ Loaded(unit[call.x])
  /\ \E ok \in BOOLEAN, u \in {"gone", "failed"} \cup (IF Populated(unit[call.x]) THEN {"draining"} ELSE {}) :
       /\ parts' = [parts EXCEPT ![call.x] = [Shown(call.x) EXCEPT !.stop = ok]]
       /\ unit' = IF ok THEN [unit EXCEPT ![call.x] = u] ELSE unit
  /\ Answer
  /\ UNCHANGED <<task, process, gw, client, starts, intents>>

\* _command: systemctl does not end in two seconds and stays pending.
ControlPends ==
  /\ \E op \in {"observe", "stop", "seal", "inventory"} : Admitted(op)
  /\ gw.serving /\ Known
  /\ gw' = [gw EXCEPT !.pending = TRUE]
  /\ Reject("refused")
  /\ UNCHANGED <<task, process, parts, system, intents>>

ClientStop ==
  /\ Admitted("client_stop") /\ Known /\ parts[call.x].held
  /\ client' = [client EXCEPT ![call.x] = "exited"]
  /\ Answer
  /\ UNCHANGED <<task, process, gw, parts, unit, starts, intents>>

Seal ==
  /\ Admitted("seal") /\ Known /\ ShowFits(call.x) /\ Exited(call.x)
  /\ parts' = [parts EXCEPT ![call.x] = [Shown(call.x) EXCEPT !.sealed = TRUE]]
  /\ Answer
  /\ UNCHANGED <<task, process, gw, system, intents>>

RecoveryFinish ==
  /\ Admitted("recovery_finish") /\ gw.only /\ ~gw.finished /\ ~gw.pending
  /\ \A x \in Delivered : x[1] > closed => Over(x)
  /\ ParentEmpty
  /\ gw' = [gw EXCEPT !.finished = TRUE]
  /\ Answer
  /\ UNCHANGED <<task, process, parts, system, intents>>

\* An observation contradicts what is retained: the dispatch raises.
Contradicted ==
  /\ \E op \in {"observe", "stop", "seal"} : Admitted(op)
  /\ Known /\ ~ShowFits(call.x)
  /\ Reject("identity")
  /\ UNCHANGED <<task, process, gw, parts, system, intents>>

\* Every other condition of dispatch that does not hold.
Refused ==
  /\ gw.serving /\ call # None /\ call.step = "sent" /\ PeerLives
  /\ \/ ~Time
     \/ gw.only /\ call.op \notin RecoveryOps
     \/ ~gw.only /\ call.op = "recovery_finish"
     \/ call.op = "launch" /\ ~MayLaunch(call.x)
     \/ call.op \in {"stop", "seal", "client_stop"} /\ ~Known
     \/ call.op = "observe" /\ ~Known /\ ~(gw.only /\ call.x[1] <= auth)
     \/ call.op = "stop" /\ Known /\ ShowFits(call.x) /\ ~Loaded(unit[call.x])
     \/ call.op = "seal" /\ Known /\ ShowFits(call.x) /\ ~Exited(call.x)
     \/ call.op = "recovery_finish" /\ gw.only /\ ~(ParentEmpty /\ \A x \in Delivered : x[1] > closed => Over(x))
  /\ Reject("refused")
  /\ UNCHANGED <<task, process, gw, parts, system, intents>>

\* _respond: the answer is sent and the call counted.
Respond ==
  /\ gw.serving /\ call # None /\ call.step = "done" /\ Time
  /\ gw' = [gw EXCEPT !.seq = @ + 1, !.serving = ~gw.finished]
  /\ call' = None
  /\ UNCHANGED <<task, process, parts, system, intents>>

\* The error is answered, then raised; an answer that fails replaces the error.
RespondError ==
  /\ gw.serving /\ call # None /\ call.step = "refused"
  /\ gw' = [gw EXCEPT !.serving = FALSE, !.failure = IF PeerLives THEN call.why ELSE "peer",
                      !.seq = IF PeerLives /\ ~expired THEN @ + 1 ELSE @]
  /\ call' = None
  /\ UNCHANGED <<task, process, parts, system, intents>>

\* The loop or an answer finds the peer gone, or the deadline passed.
PeerGone ==
  /\ gw.serving /\ (call # None => call.step \in {"sent", "done"})
  /\ ~Time
  /\ closed < NP \/ gw.only
  /\ EndServe(IF PeerLives THEN "refused" ELSE "peer")
  /\ UNCHANGED <<task, process, parts, system, intents>>

\* _execution_channel_complete: all phases are closed, the thread ends.
ServeComplete ==
  /\ gw.serving /\ ~gw.only /\ closed = NP /\ call = None
  /\ gw' = [gw EXCEPT !.serving = FALSE]
  /\ UNCHANGED <<task, process, call, parts, system, intents>>

-----------------------------------------------------------------------------
(* The controller *)

\* authorize_phase: the phases in order, each after the one before is closed.
AuthorizePhase ==
  /\ svc = "run" /\ mgmt # "open" /\ Time /\ gw.failure = "none"
  /\ auth = closed /\ auth < NP /\ ParentEmpty
  /\ auth' = auth + 1 /\ mgmt' = "open"
  /\ UNCHANGED <<svc, closed, journal, process, gw, call, parts, system, intents>>

\* close_phase after the coordinator returned with the closed fence.
ClosePhase ==
  /\ svc = "run" /\ mgmt = "open" /\ journal[auth] = "CLOSED" /\ Time /\ gw.failure = "none"
  /\ ~gw.pending /\ \A s \in Stages : <<auth, s>> \in Delivered /\ parts[<<auth, s>>].sealed
  /\ ParentEmpty
  /\ closed' = closed + 1 /\ mgmt' = "closed"
  /\ UNCHANGED <<svc, auth, journal, process, gw, call, parts, system, intents>>

\* run returns: the chain is closed.
ChainClosed ==
  /\ svc = "run" /\ closed = NP /\ svc' = "reading"
  /\ UNCHANGED <<mgmt, auth, closed, journal, process, gw, call, parts, system, intents>>

\* run: the API reports the cancelled task terminal, which its broker does after its stages are over.
TaskStopped ==
  /\ svc = "run" /\ mgmt = "open" /\ spawned \in api /\ call = None
  /\ \A x \in Delivered : ~Live(unit[x])
  /\ svc' = "reading" /\ mgmt' = "closed"
  /\ UNCHANGED <<auth, closed, journal, process, gw, call, parts, system, intents>>

\* process.poll() of the API that was spawned last.
ApiDead == spawned \notin api

\* run or the read window ends with an error: the management pair is kept.
Interrupted ==
  /\ svc \in {"run", "reading"}
  /\ spawned \notin api \/ (svc = "run" /\ (gw.failure # "none" \/ expired))
  /\ svc' = IF ApiDead THEN "recover" ELSE "failed"
  /\ mgmt' = IF mgmt = "open" THEN "kept" ELSE mgmt
  /\ UNCHANGED <<auth, closed, journal, process, gw, call, parts, system, intents>>

\* rebind_service_recovery: calls of the ended sessions stay counted.
Retired == gw.retired + gw.seq

\* check_service_recovery, before another API is spawned.
MayRecover ==
  /\ ~gw.pending /\ gw.rebinds < MaxRecoveries /\ gw.failure \in {"none", "peer"}
  /\ Calls < CallLimit /\ (Delivered = {} => ParentEmpty) /\ ~expired

\* recover: spawn an API in mode "recover".
Recover ==
  /\ svc = "recover" /\ ApiDead /\ ~gw.serving /\ MayRecover
  /\ spawned' = spawned + 1 /\ api' = api \cup {spawned + 1}
  /\ svc' = "rebind"
  /\ UNCHANGED <<mgmt, auth, closed, journal, expired, gw, call, parts, system, intents>>

\* rebind_service_recovery: the new peer is bound, the old clients are given up.
Rebind ==
  /\ svc = "rebind" /\ ~ApiDead /\ ~expired
  /\ \A x \in Delivered : parts[x].pipes
  /\ parts' = [x \in Keys |-> IF x \in Delivered THEN [parts[x] EXCEPT !.held = FALSE] ELSE None]
  /\ gw' = [gw EXCEPT !.peer = spawned, !.serving = TRUE, !.failure = "none", !.only = TRUE, !.finished = FALSE,
                      !.rebinds = @ + 1, !.retired = Retired, !.seq = 0]
  /\ svc' = "recovering"
  /\ UNCHANGED <<mgmt, auth, closed, journal, process, call, system, intents>>

\* A recovery that cannot start, or whose peer is not bound, is not retried.
RecoverFails ==
  /\ \/ svc = "recover" /\ (gw.serving \/ ~MayRecover)
     \/ svc = "rebind" /\ (ApiDead \/ expired \/ \E x \in Delivered : ~parts[x].pipes)
     \/ svc = "recovering" /\ ~gw.finished /\ ~gw.serving /\ ~ApiDead
  /\ svc' = "failed"
  /\ UNCHANGED <<mgmt, auth, closed, journal, process, gw, call, parts, system, intents>>

\* recover_dead_service: the bound peer died itself; try again.
RecoverAgain ==
  /\ svc = "recovering" /\ ~gw.finished /\ ApiDead /\ svc' = "recover"
  /\ UNCHANGED <<mgmt, auth, closed, journal, process, gw, call, parts, system, intents>>

\* Fault: the management pair is finished as soon as a new peer is bound.
RecoveredEarly ==
  /\ svc = "recovering"
  /\ svc' = "reading" /\ mgmt' = IF mgmt = "kept" THEN "closed" ELSE mgmt
  /\ UNCHANGED <<auth, closed, journal, process, gw, call, parts, system, intents>>

\* finish_recovered_management: only after the recovery session has finished.
Recovered ==
  /\ svc = "recovering" /\ gw.finished
  /\ svc' = "reading" /\ mgmt' = IF mgmt = "kept" THEN "closed" ELSE mgmt
  /\ UNCHANGED <<auth, closed, journal, process, gw, call, parts, system, intents>>

\* stop_api at the end of the read window, or the API ends by itself with 0.
StopApi ==
  /\ svc = "reading" /\ spawned \in api
  /\ api' = api \ {spawned} /\ svc' = "done"
  /\ UNCHANGED <<mgmt, auth, closed, journal, spawned, expired, gw, call, parts, system, intents>>

-----------------------------------------------------------------------------
(* systemd, the quota observer and the clock *)

UnitMoves(x) ==
  /\ \/ unit[x] = "queued" /\ unit' = [unit EXCEPT ![x] = "loading"]
     \/ unit[x] = "queued" /\ unit' = [unit EXCEPT ![x] = "never"]
     \/ unit[x] = "loading" /\ unit' = [unit EXCEPT ![x] = "active"]
     \/ unit[x] = "active" /\ \E u \in {"exited", "failed"} : unit' = [unit EXCEPT ![x] = u]
     \/ unit[x] = "draining" /\ unit' = [unit EXCEPT ![x] = "failed"]
  /\ UNCHANGED <<task, process, gw, call, parts, client, starts, intents>>

ClientExits(x) ==
  /\ client[x] = "live" /\ unit[x] \notin {"queued", "loading", "active"}
  /\ client' = [client EXCEPT ![x] = "exited"]
  /\ UNCHANGED <<task, process, gw, call, parts, unit, starts, intents>>

\* The observer's answer to the bootstrap, and the coordinator's fence after all stages.
JournalMoves(p) ==
  /\ \/ journal[p] = "READY" /\ unit[<<p, 1>>] = "active" /\ journal' = [journal EXCEPT ![p] = "RESULT"]
     \/ /\ journal[p] = "RESULT" /\ \A s \in Stages : <<p, s>> \in Delivered /\ parts[<<p, s>>].sealed
        /\ svc = "run" /\ journal' = [journal EXCEPT ![p] = "CLOSED"]
  /\ UNCHANGED <<svc, mgmt, auth, closed, process, gw, call, parts, system, intents>>

Expire ==
  /\ MayExpire /\ ~expired /\ expired' = TRUE
  /\ UNCHANGED <<task, api, spawned, gw, call, parts, system, intents>>

Init ==
  /\ svc = "run" /\ mgmt = "none" /\ auth = 0 /\ closed = 0 /\ journal = [p \in Phases |-> "READY"]
  /\ api = {0} /\ spawned = 0 /\ expired = FALSE
  /\ gw = [peer |-> 0, serving |-> TRUE, failure |-> "none", only |-> FALSE, finished |-> FALSE, rebinds |-> 0,
           retired |-> 0, seq |-> 0, pending |-> FALSE]
  /\ call = None /\ parts = [x \in Keys |-> None] /\ intents = {}
  /\ unit = [x \in Keys |-> "absent"] /\ client = [x \in Keys |-> "none"] /\ starts = [x \in Keys |-> 0]

Gateway ==
  \/ LaunchIntent \/ LaunchDeliver \/ LaunchLost \/ Observe \/ ObserveUndelivered \/ Inventory \/ Stop
  \/ ControlPends \/ ClientStop \/ Seal \/ RecoveryFinish \/ Contradicted \/ Refused
  \/ Respond \/ RespondError \/ PeerGone \/ ServeComplete

Controller ==
  \/ AuthorizePhase \/ ClosePhase \/ ChainClosed \/ TaskStopped \/ Interrupted \/ Recover \/ Rebind
  \/ RecoverFails \/ RecoverAgain \/ Recovered \/ StopApi

Next ==
  \/ \E op \in Ops, x \in Keys : Request(op, x)
  \/ \E g \in api : Crash(g)
  \/ Gateway \/ Controller
  \/ \E x \in Keys : UnitMoves(x) \/ ClientExits(x)
  \/ \E p \in Phases : JournalMoves(p)
  \/ Expire

Spec == Init /\ [][Next]_vars

-----------------------------------------------------------------------------
TypeOK ==
  /\ svc \in {"run", "recover", "rebind", "recovering", "reading", "done", "failed"}
  /\ mgmt \in {"none", "open", "kept", "closed"}
  /\ auth \in 0..NP /\ closed \in 0..auth
  /\ journal \in [Phases -> {"READY", "RESULT", "CLOSED"}]
  /\ spawned \in 0..MaxRecoveries /\ api \subseteq 0..spawned /\ expired \in BOOLEAN
  /\ gw.failure \in Reasons /\ gw.peer \in 0..spawned
  /\ call \in Requests \cup {None} /\ parts \in [Keys -> Parts \cup {None}]
  /\ intents \subseteq Keys
  /\ unit \in [Keys -> {"absent", "queued", "never", "loading", "active", "exited", "failed", "draining", "gone"}]
  /\ client \in [Keys -> {"none", "live", "exited"}]

(* A stage's command is delivered to systemd at most once: not after a lost *)
(* answer, not after the API died, not by an API of a recovery.             *)
DeliveredOnce == \A x \in Keys : starts[x] <= 1

(* At most one stage of the task has processes, in whatever phase.          *)
OneStageRuns == Cardinality({x \in Keys : Populated(unit[x])}) <= 1

(* A sealed stage is over: no process is left in its cgroup and its client  *)
(* has exited, whatever is done later.                                      *)
SealedIsOver == \A x \in Delivered : parts[x].sealed => ~Live(unit[x]) /\ client[x] = "exited"

(* A recovery session that finished left no delivered stage that runs or    *)
(* that systemd may still start.                                            *)
FinishedIsQuiet == gw.finished => \A x \in Keys : ~Live(unit[x])

(* The management pair of a phase is finished only when nothing of the      *)
(* phase runs or may still start (task_service.py, run and                  *)
(* finish_recovered_management).                                            *)
ManagementOutlivesWriters == mgmt = "closed" => \A x \in Keys : ~Live(unit[x])

(* The safety of a task's gateway: each command once, one stage at a time,  *)
(* and what was sealed, finished or closed has nothing left that runs.      *)
GatewaySafety ==
  /\ TypeOK /\ DeliveredOnce /\ OneStageRuns
  /\ SealedIsOver /\ FinishedIsQuiet /\ ManagementOutlivesWriters

(* A rebound session starts nothing, seals nothing, and the phases stay as  *)
(* they were.                                                               *)
RecoveryOnlyObserves ==
  gw.only => /\ starts' = starts /\ auth' = auth /\ closed' = closed
             /\ \A x \in Delivered : parts'[x].sealed = parts[x].sealed

=============================================================================
