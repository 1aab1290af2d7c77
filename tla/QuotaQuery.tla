----------------------------- MODULE QuotaQuery -----------------------------
(***************************************************************************)
(* The first quota observer ("Q1"): one query of a quota slot, in a unit   *)
(* of its own, by a controller that is used once.                          *)
(*                                                                         *)
(*   launcher.py          writes the experiment file once and execs        *)
(*   experiment.py        admits the controller, opens the journal         *)
(*   journal.py           StartJournal: intent, invocation, unknown files  *)
(*   systemd_runtime.py   Q1Controller.run and recover_original            *)
(*   worker.py            the process of the query's unit                  *)
(*                                                                         *)
(* A controller dies at any step; its systemd-run client may still start   *)
(* the unit after it.  Another controller (of the same ticket, or of a     *)
(* ticket for the same slot) may run at the same time.  All journal        *)
(* accesses hold its file lock; a busy lock is one of the failures.        *)
(***************************************************************************)
EXTENDS Naturals, FiniteSets

CONSTANTS
  Controllers,        \* processes started by the administrator
  Requests,           \* tickets
  TicketOf,           \* [Controllers -> Requests]
  Recovers,           \* the controllers whose operation is recover_original
  SlotOf,             \* the resources of a ticket (slot, root, project)
  OutputOf            \* the path of a controller's experiment file

ConstantsAssumption ==
  /\ TicketOf \in [Controllers -> Requests] /\ Recovers \subseteq Controllers
  /\ DOMAIN SlotOf = Requests /\ DOMAIN OutputOf = Controllers

VARIABLES
  pc,        \* the step of each controller
  mine,      \* Q1Controller: invocation, terminal, delivered, stop attempted
  outputs,   \* experiment files that exist
  journal,   \* per ticket: intent, invocation, unknown
  torn,      \* a file of the journal is incomplete: no scan succeeds
  unit,      \* per ticket: none, running, exited, stopped
  good,      \* per ticket: the unit's result is success
  ready,     \* per ticket: the invocation the worker reported, 0 for none
  client,    \* per ticket: the systemd-run process: none, pending, done
  starts,    \* per ticket: how often its unit was started
  late,      \* tickets whose deadline has passed
  rebooted,  \* the host runs another boot than the tickets'
  evidence   \* per controller: the status it reports

vars == <<pc, mine, outputs, journal, torn, unit, good, ready, client, starts, late, rebooted, evidence>>
host == <<unit, good, ready, client, starts, late, rebooted>>

NoFiles == [intent |-> FALSE, invocation |-> 0, unknown |-> FALSE]
Fresh == [invocation |-> 0, terminal |-> FALSE, delivered |-> FALSE, stop |-> FALSE, status |-> "UNKNOWN"]
T(c) == TicketOf[c]
Goto(c, step) == pc' = [pc EXCEPT ![c] = step]
TreeEmpty == \A r \in Requests : unit[r] # "running"

\* journal._create: the file is complete and durable, or torn.
Write(r, files) ==
  \/ journal' = [journal EXCEPT ![r] = files] /\ UNCHANGED torn
  \/ torn' = TRUE /\ UNCHANGED journal

-----------------------------------------------------------------------------
\* launch_experiment: the output is created exclusively; then the entry is
\* executed in the same process.
Launch(c) ==
  /\ pc[c] = "launch" /\ ~rebooted
  /\ c \in Recovers \/ T(c) \notin late
  /\ OutputOf[c] \notin outputs /\ outputs' = outputs \cup {OutputOf[c]}
  /\ Goto(c, "enter")
  /\ UNCHANGED <<mine, journal, torn, host, evidence>>

\* execute_experiment: the guard, then StartJournal validates every record.
Enter(c) ==
  /\ pc[c] = "enter" /\ ~rebooted /\ ~torn
  /\ Goto(c, IF c \in Recovers THEN "recover" ELSE "prior")
  /\ UNCHANGED <<mine, outputs, journal, torn, host, evidence>>

\* run: a retained intent of this ticket ends the call.
ReadPrior(c) ==
  /\ pc[c] = "prior"
  /\ Goto(c, IF torn \/ journal[T(c)].intent THEN "finish" ELSE "admit")
  /\ UNCHANGED <<mine, outputs, journal, torn, host, evidence>>

\* _admit_host: the boot of the ticket, and nothing alive in the query tree.
AdmitHost(c) ==
  /\ pc[c] = "admit"
  /\ Goto(c, IF ~rebooted /\ TreeEmpty THEN "intent" ELSE "finish")
  /\ UNCHANGED <<mine, outputs, journal, torn, host, evidence>>

\* deliver_once under the lock: no intent of this ticket and none that holds one
\* of its resources, in time; then the intent file.
Reserve(c) ==
  /\ pc[c] = "intent"
  /\ \/ /\ ~torn /\ ~rebooted /\ T(c) \notin late
        /\ \A r \in Requests : journal[r].intent => SlotOf[r] # SlotOf[T(c)] /\ r # T(c)
        /\ Write(T(c), [NoFiles EXCEPT !.intent = TRUE])
        /\ Goto(c, IF torn' THEN "finish" ELSE "deliver")
     \/ Goto(c, "finish") /\ UNCHANGED <<journal, torn>>
  /\ UNCHANGED <<mine, outputs, host, evidence>>

\* The callback, outside the lock: boot and deadline again, the unit not found,
\* then systemd-run; an exception marks the ticket unknown if it can.
Deliver(c) ==
  /\ pc[c] = "deliver"
  /\ \/ /\ ~rebooted /\ T(c) \notin late /\ unit[T(c)] = "none"
        /\ client' = [client EXCEPT ![T(c)] = "pending"]
        /\ mine' = [mine EXCEPT ![c].delivered = TRUE]
        /\ Goto(c, IF torn THEN "finish" ELSE "poll") /\ UNCHANGED <<journal, torn>>
     \/ /\ Goto(c, "finish") /\ UNCHANGED <<client, mine>>
        /\ IF torn THEN UNCHANGED <<journal, torn>>
           ELSE Write(T(c), [journal[T(c)] EXCEPT !.unknown = TRUE])
  /\ UNCHANGED <<outputs, unit, good, ready, starts, late, rebooted, evidence>>

\* The first shown identity is kept in memory, then recorded create-once; a
\* recorded other one, or a failing write, is an error.
Remember(c, id) ==
  LET files == journal[T(c)] IN
  /\ mine' = [mine EXCEPT ![c].invocation = id]
  /\ IF torn \/ files.invocation \notin {0, id} THEN UNCHANGED <<journal, torn>>
     ELSE Write(T(c), [files EXCEPT !.invocation = id])
  /\ Goto(c, IF journal'[T(c)].invocation = id THEN "poll" ELSE "stop")

\* One of at most 25 polls: bind the identity, take terminal facts when the tree
\* is empty, give up at the deadline, when the polls are used, when a manager
\* call fails or when the client ended first.
Poll(c) ==
  LET r == T(c)   known == mine[c].invocation IN
  /\ pc[c] = "poll"
  /\ \/ /\ known = 0 /\ unit[r] \in {"running", "exited"} /\ Remember(c, starts[r])
     \/ /\ known # 0 /\ unit[r] = "exited" /\ r \notin late /\ TreeEmpty
        /\ mine' = [mine EXCEPT ![c].terminal = TRUE]
        /\ Goto(c, "stop") /\ UNCHANGED <<journal, torn>>
     \/ /\ Goto(c, IF known # 0 THEN "stop" ELSE "finish")
        /\ UNCHANGED <<mine, journal, torn>>
  /\ UNCHANGED <<outputs, host, evidence>>

\* recover_original: only an intent with a recorded invocation that the loaded
\* unit still has is stopped.
Recover(c) ==
  LET id == journal[T(c)].invocation IN
  /\ pc[c] = "recover"
  /\ IF ~torn /\ ~rebooted /\ id # 0 /\ unit[T(c)] \in {"running", "exited"}
       THEN mine' = [mine EXCEPT ![c].invocation = id] /\ Goto(c, "stop")
       ELSE UNCHANGED mine /\ Goto(c, "finish")
  /\ UNCHANGED <<outputs, journal, torn, host, evidence>>

\* _stop_original, first half: at most one stop, of the identified unit.
Stop(c) ==
  /\ pc[c] = "stop" /\ ~mine[c].stop
  /\ mine' = [mine EXCEPT ![c].stop = TRUE]
  /\ \/ /\ unit[T(c)] \in {"running", "exited"} /\ ~rebooted
        /\ unit' = [unit EXCEPT ![T(c)] = "stopped"] /\ Goto(c, "verify")
     \/ unit[T(c)] = "stopped" /\ ~rebooted /\ UNCHANGED unit /\ Goto(c, "verify")
     \/ UNCHANGED unit /\ Goto(c, "finish")
  /\ UNCHANGED <<outputs, journal, torn, good, ready, client, starts, late, rebooted, evidence>>

\* Second half: the client and every control process ended, the tree is empty,
\* the unit inactive or gone.
Verified(c) ==
  /\ ~rebooted /\ TreeEmpty /\ unit[T(c)] = "stopped"
  /\ c \in Recovers \/ client[T(c)] = "done"

Verify(c) ==
  /\ pc[c] = "verify"
  /\ Goto(c, IF Verified(c) /\ c \notin Recovers THEN "decide" ELSE "finish")
  /\ UNCHANGED <<mine, outputs, journal, torn, host, evidence>>

\* The terminal facts, the worker's ready line and the monitor's inspection of
\* the report (QueryMonitor), before the deadline.
Decide(c) ==
  LET r == T(c) IN
  /\ pc[c] = "decide" /\ Goto(c, "finish")
  /\ \/ /\ mine[c].terminal /\ good[r] /\ ready[r] = mine[c].invocation /\ r \notin late
        /\ mine' = [mine EXCEPT ![c].status = "OBSERVED"]
     \/ UNCHANGED mine
  /\ UNCHANGED <<outputs, journal, torn, host, evidence>>

\* _finish and encode_outcome: an unknown end is recorded create-once when the
\* ticket has an intent; a failing capture or journal turns the status unknown.
Finish(c) ==
  /\ pc[c] = "finish" /\ Goto(c, "done")
  /\ \E status \in {mine[c].status, "UNKNOWN"} :
       /\ evidence' = [evidence EXCEPT ![c] = status]
       /\ IF status = "UNKNOWN" /\ ~torn /\ journal[T(c)].intent /\ ~journal[T(c)].unknown
            THEN \/ Write(T(c), [journal[T(c)] EXCEPT !.unknown = TRUE])
                 \/ mine[c].status = "OBSERVED" /\ UNCHANGED <<journal, torn>>
            ELSE UNCHANGED <<journal, torn>>
  /\ UNCHANGED <<mine, outputs, host>>

\* The controller's process dies; a journal write it was in may be torn.
Die(c) ==
  /\ pc[c] \notin {"done", "dead"} /\ Goto(c, "dead")
  /\ torn' \in (IF pc[c] \in {"intent", "poll", "finish"} THEN {torn, TRUE} ELSE {torn})
  /\ UNCHANGED <<mine, outputs, journal, host, evidence>>

-----------------------------------------------------------------------------
(* The host                                                                  *)

\* systemd-run creates the unit, or fails.
UnitStarts(r) ==
  /\ client[r] = "pending" /\ unit[r] = "none"
  /\ \/ /\ unit' = [unit EXCEPT ![r] = "running"] /\ starts' = [starts EXCEPT ![r] = @ + 1]
        /\ UNCHANGED client
     \/ client' = [client EXCEPT ![r] = "done"] /\ UNCHANGED <<unit, starts>>
  /\ UNCHANGED <<pc, mine, outputs, journal, torn, good, ready, late, rebooted, evidence>>

\* systemd-run --pipe waits until the unit, which remains after its exit, stops.
ClientEnds(r) ==
  /\ client[r] = "pending" /\ unit[r] = "stopped"
  /\ client' = [client EXCEPT ![r] = "done"]
  /\ UNCHANGED <<pc, mine, outputs, journal, torn, unit, good, ready, starts, late, rebooted, evidence>>

\* worker.run: process, installation and slot are verified, twice for the
\* process; the ready line comes before the native query, in time.
WorkerReady(r) ==
  /\ unit[r] = "running" /\ ready[r] = 0 /\ r \notin late
  /\ ready' = [ready EXCEPT ![r] = starts[r]]
  /\ UNCHANGED <<pc, mine, outputs, journal, torn, unit, good, client, starts, late, rebooted, evidence>>

\* The unit ends: well only after the ready line; RuntimeMaxSec ends it badly.
UnitExits(r) ==
  /\ unit[r] = "running" /\ unit' = [unit EXCEPT ![r] = "exited"]
  /\ good' \in {[good EXCEPT ![r] = b] : b \in IF ready[r] # 0 THEN BOOLEAN ELSE {FALSE}}
  /\ UNCHANGED <<pc, mine, outputs, journal, torn, ready, client, starts, late, rebooted, evidence>>

Deadline(r) ==
  /\ r \notin late /\ late' = late \cup {r}
  /\ UNCHANGED <<pc, mine, outputs, journal, torn, unit, good, ready, client, starts, rebooted, evidence>>

\* Units, clients and controllers are gone; the files are not.
Reboot ==
  /\ ~rebooted /\ rebooted' = TRUE
  /\ pc' = [c \in Controllers |-> IF pc[c] \in {"launch", "done"} THEN pc[c] ELSE "dead"]
  /\ unit' = [r \in Requests |-> IF unit[r] = "none" THEN "none" ELSE "stopped"]
  /\ client' = [r \in Requests |-> IF client[r] = "none" THEN "none" ELSE "done"]
  /\ UNCHANGED <<mine, outputs, journal, torn, good, ready, starts, late, evidence>>

-----------------------------------------------------------------------------
Init ==
  /\ pc = [c \in Controllers |-> "launch"] /\ mine = [c \in Controllers |-> Fresh]
  /\ outputs = {} /\ journal = [r \in Requests |-> NoFiles] /\ torn = FALSE
  /\ unit = [r \in Requests |-> "none"] /\ good = [r \in Requests |-> FALSE]
  /\ ready = [r \in Requests |-> 0] /\ client = [r \in Requests |-> "none"]
  /\ starts = [r \in Requests |-> 0] /\ late = {} /\ rebooted = FALSE
  /\ evidence = [c \in Controllers |-> "none"]

Run(c) == ReadPrior(c) \/ AdmitHost(c) \/ Reserve(c) \/ Deliver(c) \/ Poll(c) \/ Decide(c)
Step(c) == Launch(c) \/ Enter(c) \/ Run(c) \/ Recover(c) \/ Stop(c) \/ Verify(c) \/ Finish(c)
Host(r) == UnitStarts(r) \/ ClientEnds(r) \/ WorkerReady(r) \/ UnitExits(r) \/ Deadline(r)
Next == (\E c \in Controllers : Step(c) \/ Die(c)) \/ (\E r \in Requests : Host(r)) \/ Reboot

Spec == Init /\ [][Next]_vars

-----------------------------------------------------------------------------
\* The form of the controllers' memory and of the journal: a recorded invocation
\* or unknown belongs to an intent (_scan's ORPHAN_RECORD).
TypeOK ==
  /\ \A c \in Controllers : mine[c].invocation \in Nat /\ mine[c].status \in {"UNKNOWN", "OBSERVED"}
  /\ \A r \in Requests : journal[r].invocation # 0 \/ journal[r].unknown => journal[r].intent
  /\ unit \in [Requests -> {"none", "running", "exited", "stopped"}]
  /\ client \in [Requests -> {"none", "pending", "done"}]
  /\ evidence \in [Controllers -> {"none", "UNKNOWN", "OBSERVED"}] /\ late \subseteq Requests

\* A ticket's unit starts at most once, and of the tickets that share a resource
\* at most one is ever started, over crashes, recoveries and a reboot
\* (deliver_once: the intent is never a lease).
StartedOnce ==
  /\ \A r \in Requests : starts[r] <= 1
  /\ \A r, q \in Requests : starts[r] > 0 /\ starts[q] > 0 /\ SlotOf[r] = SlotOf[q] => r = q

\* A reported observation is of the original invocation, recorded and reported by
\* its worker; the unit succeeded and is stopped, its client ended, and only the
\* controller that delivered it reports it.
ObservedIsOriginal ==
  \A c \in Controllers : evidence[c] = "OBSERVED" =>
    LET r == T(c) IN
    /\ mine[c].delivered /\ c \notin Recovers /\ unit[r] = "stopped" /\ client[r] = "done"
    /\ mine[c].invocation = journal[r].invocation /\ ready[r] = journal[r].invocation /\ good[r]
    /\ \A d \in Controllers : T(d) = r /\ evidence[d] = "OBSERVED" => d = c

\* What the journal records is final: no controller takes back an intent, an
\* invocation or an unknown (create-once files).
RecordsAreFinal ==
  \A r \in Requests :
    /\ journal[r].intent => journal'[r].intent
    /\ journal[r].invocation # 0 => journal'[r].invocation = journal[r].invocation
    /\ journal[r].unknown => journal'[r].unknown

=============================================================================
