----------------------------- MODULE Retention -----------------------------
(***************************************************************************)
(* What a deployment does about the preparations it finds                  *)
(* (local_hand_deploy/preparations.py and the drain and retention steps of *)
(* runtime.py).  Before the switch it closes the gate and drains: the      *)
(* manager is asked to settle its own responsibilities, those of an        *)
(* earlier boot are closed after the original units and process trees were *)
(* observed, a superseded execution is closed from its own records.  The   *)
(* inventory of the retained records is then saved as the baseline, the    *)
(* records are compared with it before admission is released, and a READY  *)
(* preparation is declared compatible when its executor did not change.    *)
(*                                                                         *)
(* One task of the resident manager is prepared in several attempts while  *)
(* the manager dies and comes back and the host reboots.  Modules Resident *)
(* and Launcher have the details of its steps.                             *)
(***************************************************************************)
EXTENDS Naturals, FiniteSets

CONSTANTS Last,          \* the last attempt; attempts are 1..Last
          MaxBoot,       \* the last boot of the host (not in the code)
          MaxVersion,    \* the last version deployed (not in the code)
          MaxDeaths,     \* deaths of the manager (not in the code)
          DyingBoots,    \* boots on which it may die (not in the code)
          SameExecutor   \* the target keeps payload and configuration

RetentionAssumption ==
  /\ Last \in Nat \ {0} /\ MaxBoot \in Nat \ {0} /\ MaxVersion \in Nat \ {0}
  /\ MaxDeaths \in Nat
  /\ SameExecutor \in BOOLEAN /\ DyingBoots \subseteq Nat

Tries == 1..Last

VARIABLES att,     \* per attempt: its duties and its files
          live,    \* per attempt: the processes of its two units
          cur,     \* current.json: the attempt it names and its state
          mgr,     \* the manager: running, loaded version, what it works on
          host,    \* boot, selected version, deaths of the manager
          gate,    \* OPEN or CLOSED
          dep,     \* the deployment: its step and the saved baseline
          granted  \* attempts the gate holds a compatibility decision for

vars == <<att, live, cur, mgr, host, gate, dep, granted>>

Blank == [prep |-> "NONE", exec |-> "NONE", boot |-> 0, ver |-> 0, dir |-> FALSE,
          delivery |-> FALSE, exit |-> FALSE, nostart |-> FALSE, result |-> FALSE,
          intent |-> FALSE, finished |-> FALSE]
Still == [prep |-> FALSE, exec |-> FALSE]
Down == [up |-> FALSE, ver |-> 0, n |-> 0, at |-> "idle", pipes |-> {}]

Init ==
  /\ att = [n \in Tries |-> Blank] /\ live = [n \in Tries |-> Still]
  /\ cur = [n |-> 0, state |-> "NONE"]
  /\ mgr = [Down EXCEPT !.up = TRUE, !.ver = 1]
  /\ host = [boot |-> 1, ver |-> 1, deaths |-> 0]
  /\ gate = "OPEN" /\ dep = [at |-> "none", base |-> {}] /\ granted = {}

PrepOpen(n) == att[n].prep \in {"ACCEPTED", "DISPATCHING"}
ExecOpen(n) == att[n].exec = "OPEN"
Old(n) == att[n].boot # host.boot
Used == {n \in Tries : att[n].prep # "NONE"}

-----------------------------------------------------------------------------
(* The manager's preparation of attempt mgr.n.                              *)

At(pc) == mgr.up /\ mgr.at = pc
Go(pc) == mgr' = [mgr EXCEPT !.at = pc]
Rest == mgr' = [mgr EXCEPT !.n = 0, !.at = "idle"]
Env == UNCHANGED <<host, gate, dep, granted>>

Stale(n) == Old(n) \/ att[n].ver # host.ver
Replaceable ==
  \/ cur.n = 0
  \/ cur.state = "FAILED" /\ ~live[cur.n].prep
  \/ /\ cur.state = "READY" /\ Stale(cur.n)
     /\ IF att[cur.n].intent THEN att[cur.n].finished /\ ~live[cur.n].exec
                             ELSE ~ExecOpen(cur.n)

Admit(n) ==
  /\ At("idle") /\ mgr.ver = host.ver /\ gate = "OPEN"
  /\ n = Cardinality(Used) + 1 /\ Replaceable /\ \A k \in Tries : ~PrepOpen(k)
  /\ att' = [att EXCEPT ![n].prep = "ACCEPTED", ![n].boot = host.boot, ![n].ver = host.ver]
  /\ mgr' = [mgr EXCEPT !.n = n, !.at = "accepted"]
  /\ Env /\ UNCHANGED <<live, cur>>

MakeAttempt ==
  /\ At("accepted") /\ Go("made")
  /\ att' = [att EXCEPT ![mgr.n].dir = TRUE]
  /\ Env /\ UNCHANGED <<live, cur>>

\* Until the worker thread is started the caller closes the duty itself.
CallFails ==
  /\ At("accepted") \/ At("made")
  /\ att' = [att EXCEPT ![mgr.n].prep = "never_dispatched"]
  /\ Rest /\ Env /\ UNCHANGED <<live, cur>>

PublishCurrent ==
  /\ At("made") /\ Go("published")
  /\ cur' = [n |-> mgr.n, state |-> "PREPARING"]
  /\ Env /\ UNCHANGED <<att, live>>

PublishDelivery ==
  /\ At("published") /\ Go("delivered")
  /\ att' = [att EXCEPT ![mgr.n].delivery = TRUE]
  /\ Env /\ UNCHANGED <<live, cur>>

Dispatch ==
  /\ At("delivered") /\ att[mgr.n].prep = "ACCEPTED" /\ Go("dispatched")
  /\ att' = [att EXCEPT ![mgr.n].prep = "DISPATCHING"]
  /\ Env /\ UNCHANGED <<live, cur>>

Popen ==
  /\ At("dispatched") /\ Go("running")
  /\ live' = [live EXCEPT ![mgr.n].prep = TRUE]
  /\ Env /\ UNCHANGED <<att, cur>>

\* No child was created: the receipt says so.
NotStarted ==
  /\ At("published") \/ At("delivered") \/ At("dispatched")
  /\ att' = [att EXCEPT ![mgr.n].nostart = TRUE]
  /\ Go("unstarted") /\ Env /\ UNCHANGED <<live, cur>>

UnitEnds(n) ==
  /\ live[n].prep
  /\ live' = [live EXCEPT ![n].prep = FALSE]
  /\ \E r \in BOOLEAN : att' = [att EXCEPT ![n].result = r]
  /\ Env /\ UNCHANGED <<cur, mgr>>

\* The waiter may fail although its unit runs on.
WaiterExits ==
  /\ At("running")
  /\ att' = [att EXCEPT ![mgr.n].exit = TRUE]
  /\ Go(IF live[mgr.n].prep \/ ~att[mgr.n].result THEN "failed" ELSE "exited")
  /\ Env /\ UNCHANGED <<live, cur>>

Record ==
  /\ \/ At("exited") /\ cur' = [cur EXCEPT !.state = "READY"] /\ Go("close")
     \/ (At("exited") \/ At("failed")) /\ cur' = [cur EXCEPT !.state = "FAILED"] /\ Go("close")
     \/ At("unstarted") /\ cur' = [cur EXCEPT !.state = "FAILED"] /\ Go("retract")
  /\ Env /\ UNCHANGED <<att, live>>

UnitClosed(n) == ~live[n].prep

Finish ==
  /\ \/ At("retract") /\ att' = [att EXCEPT ![mgr.n].prep = "never_dispatched"]
     \/ /\ At("close")
        /\ att' = IF UnitClosed(mgr.n) THEN [att EXCEPT ![mgr.n].prep = "process_exited"] ELSE att
  /\ Rest /\ Env /\ UNCHANGED <<live, cur>>

\* A poll settles a preparation whose worker is gone.
Settle ==
  /\ At("idle") /\ cur.state = "PREPARING" /\ ~live[cur.n].prep
  /\ \E s \in {"FAILED"} \cup (IF att[cur.n].result THEN {"READY"} ELSE {}) :
        cur' = [cur EXCEPT !.state = s]
  /\ Env /\ UNCHANGED <<att, live, mgr>>

\* One duty of _reconcile_preparations, at start or when a drain asks.  The
\* closure and the repair of the record are two writes.
Reconcile(n) ==
  /\ At("idle") /\ Env /\ UNCHANGED <<live, mgr>>
  /\ \/ /\ att[n].prep = "never_dispatched" /\ cur = [n |-> n, state |-> "PREPARING"]
        /\ ~att[n].exit
        /\ cur' = [cur EXCEPT !.state = "FAILED"] /\ UNCHANGED att
     \/ /\ att[n].prep = "ACCEPTED" \/ (PrepOpen(n) /\ att[n].nostart)
        /\ ~att[n].exit
        /\ att' = [att EXCEPT ![n].prep = "never_dispatched"] /\ UNCHANGED cur
     \/ /\ att[n].prep = "DISPATCHING" /\ ~att[n].nostart
        /\ att[n].delivery /\ att[n].exit /\ UnitClosed(n)
        /\ att' = [att EXCEPT ![n].prep = "process_exited"] /\ UNCHANGED cur

-----------------------------------------------------------------------------
(* The execution of a READY attempt.                                        *)

ExecuteAdmit ==
  /\ At("idle") /\ mgr.ver = host.ver /\ gate = "OPEN" /\ cur.state = "READY"
  /\ LET n == cur.n IN
     /\ ~att[n].intent /\ att[n].exec = "NONE" /\ ~Old(n)
     /\ att[n].ver = host.ver \/ n \in granted
     /\ att' = [att EXCEPT ![n].exec = "OPEN"]
     /\ mgr' = [mgr EXCEPT !.n = n, !.at = "launching"]
  /\ Env /\ UNCHANGED <<live, cur>>

LaunchIntent ==
  /\ At("launching") /\ Go("intended")
  /\ att' = [att EXCEPT ![mgr.n].intent = TRUE]
  /\ Env /\ UNCHANGED <<live, cur>>

Launch ==
  /\ At("intended")
  /\ live' = [live EXCEPT ![mgr.n].exec = TRUE]
  /\ mgr' = [mgr EXCEPT !.n = 0, !.at = "idle", !.pipes = @ \cup {mgr.n}]
  /\ Env /\ UNCHANGED <<att, cur>>

ExecutionEnds(n) ==
  /\ live[n].exec
  /\ live' = [live EXCEPT ![n].exec = FALSE]
  /\ Env /\ UNCHANGED <<att, cur, mgr>>

\* End of the streams; the waiter may have failed before the unit stopped.
Capture(n) ==
  /\ mgr.up /\ n \in mgr.pipes /\ ~att[n].finished
  /\ att' = [att EXCEPT ![n].finished = TRUE]
  /\ Env /\ UNCHANGED <<live, cur, mgr>>

\* The launcher the manager keeps, or the one it makes for the current record.
CloseExecution(n) ==
  /\ At("idle") /\ ExecOpen(n) /\ n \in mgr.pipes \cup {cur.n} /\ ~live[n].exec
  /\ att[n].finished \/ ~att[n].intent
  /\ att' = [att EXCEPT ![n].exec = "CLOSED"]
  /\ Env /\ UNCHANGED <<live, cur, mgr>>

-----------------------------------------------------------------------------
(* Deaths.                                                                  *)

ManagerDies ==
  /\ mgr.up /\ host.deaths < MaxDeaths /\ host.boot \in DyingBoots
  /\ mgr' = Down /\ host' = [host EXCEPT !.deaths = @ + 1]
  /\ UNCHANGED <<att, live, cur, gate, dep, granted>>

ManagerStarts ==
  /\ ~mgr.up /\ dep.at # "stopped"
  /\ mgr' = [Down EXCEPT !.up = TRUE, !.ver = host.ver]
  /\ Env /\ UNCHANGED <<att, live, cur>>

Reboot ==
  /\ host.boot < MaxBoot
  /\ mgr' = Down /\ live' = [n \in Tries |-> Still]
  /\ host' = [host EXCEPT !.boot = @ + 1]
  /\ UNCHANGED <<att, cur, gate, dep, granted>>

-----------------------------------------------------------------------------
(* The original records as the deployment reads them.                       *)

NeverDispatched(n) == att[n].prep \in {"ACCEPTED", "never_dispatched"}

\* The task's record may be missing, and so may the delivery, only before
\* anything was dispatched.
OriginalPreparation(n) == NeverDispatched(n) \/ (cur.n # 0 /\ att[n].delivery)

\* The directory of the task exists and nothing was published in it.
Unpublished == cur.n = 0 /\ \E n \in Tries : att[n].dir
UnpublishedKnown ==
  \A n \in Used : /\ NeverDispatched(n) /\ OriginalPreparation(n)
                  /\ ~att[n].delivery /\ ~att[n].nostart /\ att[n].exec = "NONE"

Item(n, state, execution) == [n |-> n, state |-> state, execution |-> execution]
Execution(n) == CASE ~att[n].intent -> "UNSUBMITTED"
                  [] att[n].intent /\ att[n].finished -> "EXECUTION_RETAINED"
                  [] OTHER -> "UNRESOLVED"

Readable == Unpublished => UnpublishedKnown
Inventory ==
  IF Unpublished THEN {Item(n, "PREPARING", "NONE") : n \in Used}
  ELSE IF cur.n = 0 THEN {}
  ELSE {Item(cur.n, cur.state, IF cur.state = "READY" THEN Execution(cur.n) ELSE "NONE")}

\* The observation of original units, process trees and their proofs.
TreeClosed(n) == ~live[n].exec /\ (att[n].intent => Old(n) \/ att[n].finished)
DeliveryClosed(n) ==
  att[n].delivery => ~live[n].prep /\ (att[n].exit \/ att[n].nostart \/ Old(n))
Observed == cur.n # 0 => \A n \in Used : DeliveryClosed(n) /\ TreeClosed(n)

\* original_execution: the result of the attempt names its launch.
OriginalExecution(n) == att[n].result /\ cur.n # 0
Matches(n) == cur = [n |-> n, state |-> "READY"]

-----------------------------------------------------------------------------
(* The deployment.                                                          *)

Draining == gate = "CLOSED" /\ dep.at = "drain"
Active(n) == PrepOpen(n) \/ ExecOpen(n)
\* Duties of this boot are put to the manager first.
Asked == mgr.up \/ \A n \in Tries : Active(n) => Old(n)
IdentitiesKnown ==
  \A n \in Used : Old(n) \/ att[n].prep = "never_dispatched" => OriginalPreparation(n)
Deploys(at) == dep' = [dep EXCEPT !.at = at]
World == UNCHANGED <<att, live, cur, mgr>>

CloseGate ==
  /\ dep.at \in {"none", "released"} /\ gate = "OPEN" /\ host.ver < MaxVersion
  /\ gate' = "CLOSED" /\ Deploys("drain")
  /\ World /\ UNCHANGED <<host, granted>>

CloseAccepted(n) ==
  /\ Draining /\ Asked /\ IdentitiesKnown /\ Old(n) /\ att[n].prep = "ACCEPTED"
  /\ att' = [att EXCEPT ![n].prep = "never_dispatched"]
  /\ Env /\ UNCHANGED <<live, cur, mgr>>

\* Duties of an earlier boot, after the original units were observed.
CloseRebooted(n) ==
  /\ Draining /\ Asked /\ IdentitiesKnown /\ Old(n) /\ Readable /\ Observed
  /\ \/ /\ att[n].prep = "DISPATCHING"
        /\ att' = [att EXCEPT ![n].prep = "process_exited"]
     \/ /\ ExecOpen(n) /\ (Matches(n) \/ OriginalExecution(n))
        /\ att' = [att EXCEPT ![n].exec = "CLOSED"]
  /\ Env /\ UNCHANGED <<live, cur, mgr>>

\* An execution of this boot that the current record no longer names.
CloseSuperseded(n) ==
  /\ Draining /\ mgr.up /\ Readable /\ ExecOpen(n) /\ ~Old(n) /\ ~Matches(n)
  /\ OriginalExecution(n) /\ att[n].finished /\ TreeClosed(n)
  /\ att' = [att EXCEPT ![n].exec = "CLOSED"]
  /\ Env /\ UNCHANGED <<live, cur, mgr>>

\* retained_closure: what is not closed at the gate is observed, and then only
\* for an earlier boot.
Closed(i) ==
  \/ /\ att[i.n].prep \in {"never_dispatched", "process_exited"} /\ ~ExecOpen(i.n)
  \/ Old(i.n) /\ Observed
Undecided == {i \in Inventory : (i.state = "PREPARING" \/ i.execution = "UNRESOLVED") /\ ~Closed(i)}

Retain ==
  /\ Draining /\ \A n \in Tries : ~Active(n)
  /\ Readable /\ Undecided = {}
  /\ dep' = [at |-> "retained", base |-> Inventory]
  /\ World /\ UNCHANGED <<host, gate, granted>>

StopSource ==
  /\ dep.at = "retained"
  /\ mgr' = Down /\ Deploys("stopped")
  /\ UNCHANGED <<att, live, cur, host, gate, granted>>

Switch ==
  /\ dep.at = "stopped"
  /\ host' = [host EXCEPT !.ver = @ + 1] /\ Deploys("switched")
  /\ World /\ UNCHANGED <<gate, granted>>

CheckLocal ==
  /\ dep.at = "switched" /\ mgr.up /\ mgr.ver = host.ver
  /\ Readable /\ Inventory = dep.base
  /\ Deploys("checked") /\ World /\ UNCHANGED <<host, gate, granted>>

NewDecisions ==
  {i.n : i \in {j \in dep.base : j.execution = "UNSUBMITTED" /\ ~Old(j.n) /\ SameExecutor}}

\* The decisions are computed again, saved, published, and the gate is opened.
Release ==
  /\ dep.at = "checked" /\ Readable /\ Inventory = dep.base /\ Undecided = {}
  /\ granted' = NewDecisions /\ gate' = "OPEN" /\ Deploys("released")
  /\ World /\ UNCHANGED host

Deployment ==
  \/ CloseGate \/ Retain \/ StopSource \/ Switch \/ CheckLocal \/ Release
  \/ \E n \in Tries : CloseAccepted(n) \/ CloseRebooted(n) \/ CloseSuperseded(n)
Work ==
  \/ MakeAttempt \/ CallFails \/ PublishCurrent \/ PublishDelivery \/ Dispatch \/ Popen
  \/ NotStarted \/ WaiterExits \/ Record \/ Finish \/ LaunchIntent \/ Launch
Processes == \E n \in Tries : UnitEnds(n) \/ ExecutionEnds(n)
Settles == \E n \in Tries : Reconcile(n) \/ Capture(n) \/ CloseExecution(n)

Next ==
  \/ Deployment \/ Work \/ Processes \/ Settles \/ Settle \/ ExecuteAdmit
  \/ ManagerDies \/ ManagerStarts \/ Reboot
  \/ \E n \in Tries : Admit(n)

Spec == Init /\ [][Next]_vars

\* The manager's threads go on and systemd starts it again; units end; the
\* deployment repeats its drain; a host whose manager lost the only witness of
\* a process is rebooted in the end.
FairSpec ==
  /\ Spec /\ WF_vars(Deployment) /\ WF_vars(Work) /\ WF_vars(Processes)
  /\ WF_vars(Settles) /\ WF_vars(ManagerStarts) /\ WF_vars(Reboot)

-----------------------------------------------------------------------------
(* Properties.                                                              *)

\* The values the records can hold.
TypeOK ==
  /\ \A n \in Tries :
       /\ att[n].prep \in {"NONE", "ACCEPTED", "DISPATCHING", "never_dispatched", "process_exited"}
       /\ att[n].exec \in {"NONE", "OPEN", "CLOSED"}
       /\ att[n].boot \in 0..MaxBoot /\ att[n].ver \in 0..MaxVersion
       /\ att[n].exec # "NONE" => att[n].result
  /\ cur.n \in 0..Last /\ cur.state \in {"NONE", "PREPARING", "READY", "FAILED"}
  /\ host.boot \in 1..MaxBoot /\ host.ver \in 1..MaxVersion /\ mgr.n \in 0..Last
  /\ gate \in {"OPEN", "CLOSED"} /\ granted \subseteq Tries

\* Once the baseline is saved and until admission is released, no process of a
\* preparation or of an execution runs, and none of the manager's threads can
\* start one: what drain closed is really over.
SwitchQuiet ==
  dep.at \in {"retained", "stopped", "switched", "checked"} =>
    /\ \A n \in Tries : live[n] = Still
    /\ mgr.at = "idle"

\* A process of an execution starts only on the boot it was prepared for and
\* under the executor that prepared it: across a deployment, only when the
\* target keeps it, whatever happened between the decision and the start.
StartsAsPrepared ==
  \A n \in Tries : ~live[n].exec /\ live'[n].exec =>
    /\ att[n].boot = host.boot
    /\ att[n].ver = host.ver \/ SameExecutor

\* A closed gate is always followed by a decided baseline: no record that the
\* manager, its death or a reboot leaves behind blocks the deployment for ever.
Decided == (gate = "CLOSED") ~> (dep.at # "drain")

=============================================================================
