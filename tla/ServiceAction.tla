--------------------------- MODULE ServiceAction ---------------------------
(***************************************************************************)
(* One start or stop of a service by a deployment (services.py,            *)
(* supervision.py and systemd_bus.py of local_hand_deploy).  Every attempt *)
(* is a forked child that inherits the node lock, records its events one   *)
(* by one and sends one job request to systemd over the bus.  The          *)
(* coordinator may die while the child goes on; the child may be killed    *)
(* while its request is on the bus or its job in the queue; the host may   *)
(* reboot.  A further attempt needs the proof that the one before is over. *)
(***************************************************************************)
EXTENDS Naturals, FiniteSets

CONSTANTS
  MaxAttempts,  \* bound: attempts of the action
  MaxDeaths,    \* bound: deaths of the coordinator
  MaxBoots,     \* bound: boots of the host
  Faults        \* whether children and requests may fail

ServiceAssumption ==
  MaxAttempts \in Nat \ {0} /\ MaxDeaths \in Nat /\ MaxBoots \in Nat \ {0} /\ Faults \in BOOLEAN

Tries == 1..MaxAttempts
NewAttempt == [saved |-> FALSE, boot |-> 0, by |-> 0, nostart |-> FALSE, proc |-> FALSE, events |-> {}, result |-> "none"]

VARIABLES
  kind,      \* the action: start or stop
  n,         \* the latest attempt
  rec,       \* per attempt: the durable intent, receipts and events
  outcome,   \* what the coordinator recorded of the latest attempt
  coord,     \* the coordinator: its incarnation, alive, and the children it forked
  child,     \* per attempt: where the child is
  named,     \* attempts whose bus connection has its name
  msg,       \* per attempt: the request on the bus
  job,       \* the attempt whose job systemd has for the unit, 0 for none
  unit,      \* what the unit is, and whether its probe answers for the target
  boot, deaths

vars == <<kind, n, rec, outcome, coord, child, named, msg, job, unit, boot, deaths>>
manager == <<named, msg, job, unit>>
host == <<boot, deaths>>

Live(a) == child[a] \notin {"none", "dead"}
Has(a, e) == e \in rec[a].events

-----------------------------------------------------------------------------
(* SupervisedRunner *)

\* The lock's open description is shared with every child.
LockFree == \A a \in Tries : ~Live(a)

\* Fault: only a registered child can be seen to be gone.
ChildClosedSeen(a) == rec[a].nostart \/ (rec[a].proc /\ (rec[a].boot # boot \/ ~Live(a)))

\* observe of the attempt's supervision: the child is known to be gone.
ChildClosed(a) ==
  \/ rec[a].nostart
  \/ ~rec[a].proc /\ (rec[a].by # coord.id \/ (a \in coord.forked /\ ~Live(a)))
  \/ rec[a].proc /\ (rec[a].boot # boot \/ ~Live(a))

\* fence_sender: the sender's name is gone, and the reply comes after what it sent was handled.
FenceClosed(a) == a \notin named /\ msg[a] # "sent"

\* observe_action: fence, job list, and one of the proofs that the request is over.
Over(a) ==
  /\ ChildClosed(a)
  /\ (Has(a, "bus") /\ rec[a].boot = boot) => FenceClosed(a)
  /\ job = 0
  /\ \/ {"accepted", "removed"} \subseteq rec[a].events
     \/ rec[a].boot # boot
     \/ Has(a, "bus")
     \/ ~Has(a, "dispatching")

\* The unit is as the action wants it.
Wanted == IF kind = "stop" THEN unit.state = "inactive" /\ job = 0
          ELSE unit.state = "active" /\ unit.ready

\* observe_action: what is recorded of an attempt.
Outcome(a) ==
  IF ~Over(a) THEN "open" ELSE IF Wanted THEN "target"
  ELSE IF unit.state = "inactive" THEN IF kind = "start" THEN "original" ELSE "partial"
  ELSE IF kind = "stop" THEN "original" ELSE "conflict"

\* An observation is recorded.
Observe ==
  /\ coord.alive /\ n > 0 /\ rec[n].saved /\ outcome # "target"
  /\ Outcome(n) # outcome /\ outcome' = Outcome(n)
  /\ UNCHANGED <<kind, n, rec, coord, child, manager, host>>

\* execute: only an attempt that is over, and has not reached or contradicted the target, has a successor.
Retry == n > 0 /\ rec[n].saved /\ Over(n) /\ Outcome(n) \in {"original", "partial"}

\* run: a fresh directory with the binding, then the durable intent.
Begin ==
  /\ coord.alive /\ n < MaxAttempts /\ (n = 0 \/ Retry)
  /\ n' = n + 1 /\ outcome' = "open"
  /\ rec' = [rec EXCEPT ![n + 1] = [NewAttempt EXCEPT !.saved = TRUE, !.boot = boot, !.by = coord.id]]
  /\ UNCHANGED <<kind, coord, child, manager, host>>

MayFork ==
  coord.alive /\ n > 0 /\ rec[n].saved /\ rec[n].by = coord.id /\ n \notin coord.forked /\ ~rec[n].nostart

Fork ==
  /\ MayFork
  /\ child' = [child EXCEPT ![n] = "forked"] /\ coord' = [coord EXCEPT !.forked = @ \cup {n}]
  /\ UNCHANGED <<kind, n, rec, outcome, manager, host>>

\* _record_not_started: only the failure of the fork itself proves that there is no child.
ForkFails ==
  /\ MayFork /\ Faults
  /\ rec' = [rec EXCEPT ![n].nostart = TRUE]
  /\ UNCHANGED <<kind, n, outcome, coord, child, manager, host>>

-----------------------------------------------------------------------------
(* The child: _perform and run_job *)

Emit(a, e) == rec' = [rec EXCEPT ![a].events = @ \cup {e}]
Step(a, from, to) == child[a] = from /\ child' = [child EXCEPT ![a] = to]

Register(a) ==
  /\ Step(a, "forked", "up") /\ rec' = [rec EXCEPT ![a].proc = TRUE]
  /\ UNCHANGED <<kind, n, outcome, coord, manager, host>>

\* _snapshot: no job is pending; the connection's name is recorded before anything is sent.
Bind(a) ==
  /\ job = 0 /\ Step(a, "up", "bound") /\ Emit(a, "bus") /\ named' = named \cup {a}
  /\ UNCHANGED <<kind, n, outcome, coord, msg, job, unit, host>>

Dispatching(a) ==
  /\ Step(a, "bound", "ready") /\ Emit(a, "dispatching")
  /\ UNCHANGED <<kind, n, outcome, coord, manager, host>>

Send(a) ==
  /\ Step(a, "ready", "waiting") /\ msg' = [msg EXCEPT ![a] = "sent"]
  /\ UNCHANGED <<kind, n, rec, outcome, coord, named, job, unit, host>>

\* The reply of StartUnit or StopUnit names the job.
Accepted(a) ==
  /\ child[a] = "waiting" /\ msg[a] = "handled" /\ ~Has(a, "accepted") /\ Emit(a, "accepted")
  /\ UNCHANGED <<kind, n, outcome, coord, child, manager, host>>

\* JobRemoved for this job; then the result.
Removed(a) ==
  /\ child[a] = "waiting" /\ Has(a, "accepted") /\ job = 0
  /\ rec' = [rec EXCEPT ![a].events = @ \cup {"removed"}, ![a].result = "returned"]
  /\ child' = [child EXCEPT ![a] = "dead"]
  /\ UNCHANGED <<kind, n, outcome, coord, manager, host>>

\* A timer, an error or a kill ends the child, with or without a result.
ChildDies(a) ==
  /\ Live(a) /\ (Faults \/ (child[a] = "up" /\ job # 0) \/ msg[a] = "refused")
  /\ child' = [child EXCEPT ![a] = "dead"]
  /\ \E r \in {"none", "unknown"} : rec' = [rec EXCEPT ![a].result = r]
  /\ UNCHANGED <<kind, n, outcome, coord, manager, host>>

-----------------------------------------------------------------------------
(* The bus, systemd, and failures *)

\* The bus notices the end of a connection; what it has forwarded stays.
NameLost(a) ==
  /\ a \in named /\ ~Live(a) /\ named' = named \ {a}
  /\ \E m \in IF msg[a] = "sent" THEN {"sent", "discarded"} ELSE {msg[a]} : msg' = [msg EXCEPT ![a] = m]
  /\ UNCHANGED <<kind, n, rec, outcome, coord, child, job, unit, host>>

\* Job mode fail: a request beside another job is refused.
Handle(a) ==
  /\ msg[a] = "sent"
  /\ IF job = 0 THEN job' = a /\ msg' = [msg EXCEPT ![a] = "handled"]
                ELSE msg' = [msg EXCEPT ![a] = "refused"] /\ UNCHANGED job
  /\ UNCHANGED <<kind, n, rec, outcome, coord, child, named, unit, host>>

JobEnds ==
  /\ job # 0 /\ job' = 0
  /\ \E ok \in IF Faults THEN BOOLEAN ELSE {TRUE}, ready \in IF Faults THEN BOOLEAN ELSE {TRUE} :
       unit' = IF ~ok THEN unit ELSE IF kind = "start" THEN [state |-> "active", ready |-> ready]
                                     ELSE [state |-> "inactive", ready |-> FALSE]
  /\ UNCHANGED <<kind, n, rec, outcome, coord, child, named, msg, host>>

CoordinatorDies ==
  /\ coord.alive /\ deaths < MaxDeaths /\ deaths' = deaths + 1
  /\ coord' = [coord EXCEPT !.alive = FALSE, !.forked = {}]
  /\ UNCHANGED <<kind, n, rec, outcome, child, manager, boot>>

\* The next coordinator holds the node lock before it observes.
CoordinatorStarts ==
  /\ ~coord.alive /\ LockFree
  /\ coord' = [id |-> coord.id + 1, alive |-> TRUE, forked |-> {}]
  /\ UNCHANGED <<kind, n, rec, outcome, child, manager, host>>

\* An enabled unit is started again with the host.
Reboot ==
  /\ boot < MaxBoots /\ boot' = boot + 1
  /\ coord' = [coord EXCEPT !.alive = FALSE, !.forked = {}]
  /\ child' = [a \in Tries |-> IF child[a] = "none" THEN "none" ELSE "dead"]
  /\ named' = {} /\ msg' = [a \in Tries |-> IF msg[a] = "sent" THEN "discarded" ELSE msg[a]]
  /\ job' = 0
  /\ unit' \in {[state |-> "inactive", ready |-> FALSE]}
              \cup {[state |-> "active", ready |-> ready] : ready \in BOOLEAN}
  /\ UNCHANGED <<kind, n, rec, outcome, deaths>>

Init ==
  /\ kind \in {"start", "stop"} /\ n = 0 /\ outcome = "none"
  /\ rec = [a \in Tries |-> NewAttempt] /\ coord = [id |-> 1, alive |-> TRUE, forked |-> {}]
  /\ child = [a \in Tries |-> "none"] /\ named = {} /\ msg = [a \in Tries |-> "none"] /\ job = 0
  /\ unit = IF kind = "start" THEN [state |-> "inactive", ready |-> FALSE] ELSE [state |-> "active", ready |-> TRUE]
  /\ boot = 1 /\ deaths = 0

Child(a) == Register(a) \/ Bind(a) \/ Dispatching(a) \/ Send(a) \/ Accepted(a) \/ Removed(a)
Bus(a) == NameLost(a) \/ Handle(a)
Next ==
  \/ Observe \/ Begin \/ Fork \/ ForkFails \/ JobEnds \/ CoordinatorDies \/ CoordinatorStarts \/ Reboot
  \/ \E a \in Tries : Child(a) \/ ChildDies(a) \/ Bus(a)

Spec == Init /\ [][Next]_vars

\* Children are bounded by their timer and the parent's kill, the bus and systemd answer, and the administrator calls again.
FairSpec ==
  /\ Spec /\ WF_vars(Observe) /\ WF_vars(Fork \/ ForkFails) /\ WF_vars(JobEnds) /\ WF_vars(CoordinatorStarts)
  /\ \A a \in Tries : WF_vars(Child(a) \/ ChildDies(a)) /\ WF_vars(NameLost(a)) /\ WF_vars(Handle(a))

-----------------------------------------------------------------------------
TypeOK ==
  /\ kind \in {"start", "stop"} /\ n \in 0..MaxAttempts /\ job \in 0..MaxAttempts
  /\ outcome \in {"none", "open", "target", "original", "partial", "conflict"}
  /\ child \in [Tries -> {"none", "forked", "up", "bound", "ready", "waiting", "dead"}]
  /\ msg \in [Tries -> {"none", "sent", "handled", "refused", "discarded"}]
  /\ \A a \in Tries : rec[a].nostart => ~rec[a].proc /\ rec[a].events = {}

Pending(a) == Live(a) \/ msg[a] = "sent" \/ job = a

(* When an attempt begins, no child, request or job of an earlier one can   *)
(* still act on the unit.                                                   *)
OneInFlight == Cardinality({a \in Tries : Pending(a)}) <= 1

(* An attempt recorded as over never has another effect: while its record   *)
(* stands, systemd creates no job for it.                                   *)
RecordedIsOver == outcome \in {"target", "original", "partial", "conflict"} => ~Pending(n)

(* The unit changes only through the latest attempt: an earlier one that    *)
(* was given up never acts after its successor began.                       *)
OnlyLatestActs == \A a \in Tries : (job # a /\ job' = a) => a = n

(* Once begun, an attempt is decided: it is observed as over, whatever      *)
(* died on the way.                                                         *)
Decided == (n > 0) ~> (outcome # "open")

=============================================================================
