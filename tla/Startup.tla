------------------------------ MODULE Startup ------------------------------
(***************************************************************************)
(* The startup selection of one node: the descriptor that says which       *)
(* configuration a starting service may load, its publication by the       *)
(* deployment coordinator, and the admission of the listeners.             *)
(*                                                                         *)
(* The manager admits itself (startup.authorize); MCP server and gateway   *)
(* are admitted by the manager over a socket: request, offered selection,  *)
(* bind, proof, acknowledgement.  The manager holds the admission lock     *)
(* from the offer to the acknowledgement, but either side may give up at   *)
(* any time and the other one learns it later.  The gateway repeats such a *)
(* handshake every second for its public port.                             *)
(*                                                                         *)
(* Services may start at any time (systemd Restart, boot, container        *)
(* restart policy), not only when the coordinator starts them.  Digests    *)
(* are the deployments they are of; a component has one configuration      *)
(* file, and these files are the members of the selection.                 *)
(***************************************************************************)
EXTENDS Naturals, FiniteSets, Sequences

CONSTANTS
  Remote,        \* components admitted by the manager: MCP server, gateway
  Order,         \* the start steps of a plan, the manager first
  MaxInstances,  \* bound: instances of one component
  MaxAttempts,   \* bound: start attempts of the operation
  MaxBoots       \* bound: boots

Components == {"manager"} \cup Remote
Versions == {"source", "target"}
NoOne == "none"

StartupAssumption ==
  /\ Remote \subseteq {"mcp", "gateway"}
  /\ Order \in Seq(Components)
  /\ {MaxInstances, MaxAttempts} \subseteq Nat /\ MaxBoots \in Nat \ {0}

VARIABLES
  gate,       \* the admission state: open, deployment and decision
  lock,       \* the component whose admission holds the admission lock
  selection,  \* the published descriptor
  files,      \* the configuration file of each component
  boot,
  proc,       \* the newest process of each component
  conn,       \* its connection to the manager, as the two sides left it
  offer,      \* the deployment of the selection the manager offered on it
  relay,      \* the public listener of the gateway
  coord,      \* the operation: where it is and what it publishes
  bound,      \* history: was the last bind of a listener in order?
  admitted    \* history: the instances admitted by the present permit

vars == <<gate, lock, selection, files, boot, proc, conn, offer, relay, coord, bound, admitted>>
services == <<proc, conn, offer, relay, bound, admitted>>

Blocked(s) == [s EXCEPT !.mode = "blocked", !.decision = NoOne, !.attempt = 0,
                        !.boot = 0, !.claims = [c \in Components |-> 0]]

Stable(d, decision) ==
  [mode |-> "stable", deployment |-> d, decision |-> decision,
   attempt |-> 0, boot |-> 0, claims |-> [c \in Components |-> 0]]

Nothing == Stable("source", "base")

Down(c) == [proc EXCEPT ![c].at = "down"]
Hang(c) == [conn EXCEPT ![c].stage = "none"]
Shut == [relay EXCEPT !.listener = FALSE, !.allowed = FALSE, !.step = "idle"]

\* A process ends.  With the manager its lock and its connections go; the
\* manager learns of the end of a peer only when it reads or expires.
Ends(c) ==
  /\ proc' = Down(c)
  /\ IF c = "manager"
     THEN /\ lock' = NoOne
          /\ conn' = [b \in Components |->
               IF conn[b].stage = "none" THEN conn[b] ELSE [conn[b] EXCEPT !.stage = "closed"]]
     ELSE conn' = Hang(c) /\ UNCHANGED lock
  /\ relay' = IF c = "gateway" THEN Shut ELSE relay

----------------------------------------------------------------------------
(* Publication of the selection                                            *)

\* verify_members: the complete configuration set is the selected one.
VerifyMembers(s) == \A c \in Components : files[c] = s.deployment

\* publish: who may write which descriptor in the present admission state.
\* The operation is the only one, so a closed gate is its own.
MayPublish(s) == ~ gate.open

\* The coordinator computes a descriptor from one reading of the file ...
Intend(s, from) ==
  /\ coord.pc = from
  /\ coord' = [coord EXCEPT !.pc = "intended", !.desired = s]
  /\ UNCHANGED <<gate, lock, selection, files, boot, services>>

BlockStartup == Intend(Blocked(selection), "closed")

\* ... which for a candidate takes over the claims of the other components.
\* A step whose service already runs is observed, not attempted again.
CandidateStartup(c) ==
  /\ coord.attempt < MaxAttempts
  /\ proc[c].at # "serving"
  /\ LET kept == selection.mode = "candidate" /\ selection.boot = boot IN
     Intend([mode |-> "candidate", deployment |-> coord.want, decision |-> NoOne,
             attempt |-> coord.attempt + 1, boot |-> boot,
             claims |-> [b \in Components |-> IF kept /\ b # c THEN selection.claims[b] ELSE 0]],
            "start")

PublishStable == Intend(Stable(coord.want, "new"), "decided")

\* ... reads the file a second time for the digest it expects ...
PublishRead ==
  /\ coord.pc = "intended"
  /\ coord' = [coord EXCEPT !.pc = "publish", !.expected = selection]
  /\ UNCHANGED <<gate, lock, selection, files, boot, services>>

Before == [blocked |-> "closed", candidate |-> "start", stable |-> "decided"]
After == [blocked |-> "stopping", candidate |-> "starting", stable |-> "published"]

\* Each candidate, published or not, has used up an attempt identity.
Settled(where) ==
  [coord EXCEPT !.pc = where[coord.desired.mode], !.desired = Nothing, !.expected = Nothing,
                !.attempt = IF coord.desired.mode = "candidate" THEN @ + 1 ELSE @]

\* ... and exchanges it under the admission lock if it is still that one.  A
\* descriptor that is already in place is only confirmed.
Publish ==
  LET d == coord.desired
      ok == /\ MayPublish(d)
            /\ \/ selection = d
               \/ /\ selection = coord.expected
                  /\ d.mode # "blocked" => VerifyMembers(d) IN
  /\ coord.pc = "publish" /\ lock = NoOne
  /\ selection' = IF ok THEN d ELSE selection
  /\ admitted' = IF ok THEN [c \in Components |-> {}] ELSE admitted
  /\ coord' = Settled(IF ok THEN After ELSE Before)
  /\ UNCHANGED <<gate, lock, files, boot, proc, conn, offer, relay, bound>>

\* The command dies before it published; the next one starts over.
CommandDies ==
  /\ coord.pc \in {"intended", "publish"}
  /\ coord' = Settled(Before)
  /\ UNCHANGED <<gate, lock, selection, files, boot, services>>

----------------------------------------------------------------------------
(* The operation around it                                                 *)

Close ==
  /\ coord.pc = "idle" /\ lock = NoOne
  /\ gate' = [gate EXCEPT !.open = FALSE]
  /\ coord' = [coord EXCEPT !.pc = "closed"]
  /\ UNCHANGED <<lock, selection, files, boot, services>>

\* A supervised stop: the unit is seen inactive once.
StopService(c) ==
  /\ coord.pc = "stopping" /\ c \notin coord.stopped
  /\ coord' = [coord EXCEPT !.stopped = @ \cup {c},
                            !.pc = IF coord.stopped \cup {c} = Components THEN "files" ELSE @]
  /\ Ends(c)
  /\ UNCHANGED <<gate, selection, files, boot, offer, bound, admitted>>

ReplaceFile(c) ==
  /\ coord.pc = "files" /\ files[c] # coord.want
  /\ files' = [files EXCEPT ![c] = coord.want]
  /\ UNCHANGED <<gate, lock, selection, boot, coord, services>>

FilesDone ==
  /\ coord.pc = "files" /\ \A c \in Components : files[c] = coord.want
  /\ coord' = [coord EXCEPT !.pc = "start", !.next = 1]
  /\ UNCHANGED <<gate, lock, selection, files, boot, services>>

CandidateStep ==
  /\ coord.next <= Len(Order)
  /\ CandidateStartup(Order[coord.next])

\* A start step is verified when the service answers with the target loaded.
StepVerified ==
  /\ coord.pc \in {"start", "starting"} /\ coord.next <= Len(Order)
  /\ LET p == proc[Order[coord.next]] IN p.at = "serving" /\ p.loaded = coord.want
  /\ coord' = [coord EXCEPT !.pc = "start", !.next = @ + 1]
  /\ UNCHANGED <<gate, lock, selection, files, boot, services>>

\* The attempt is closed without the service running; another one may follow.
StepClosed ==
  /\ coord.pc = "starting" /\ proc[Order[coord.next]].at = "down"
  /\ coord' = [coord EXCEPT !.pc = "start"]
  /\ UNCHANGED <<gate, lock, selection, files, boot, services>>

\* check_local: every component serves the target and is the claimed instance.
CheckLocal ==
  /\ coord.pc = "start" /\ coord.next > Len(Order)
  /\ \A c \in Components :
       /\ proc[c].at = "serving" /\ proc[c].loaded = coord.want
       /\ selection.mode = "candidate" => selection.claims[c] = proc[c].instance
  /\ coord' = [coord EXCEPT !.pc = "decided"]
  /\ UNCHANGED <<gate, lock, selection, files, boot, services>>

\* Fault: a rollback goes on with the candidate selection in force.
UnblockedRollback ==
  /\ coord.want = "target" /\ coord.pc \in {"start", "starting"}
  /\ coord' = [coord EXCEPT !.want = "source", !.pc = "stopping", !.stopped = {}, !.next = 1]
  /\ UNCHANGED <<gate, lock, selection, files, boot, services>>

\* A rollback blocks the selection again before it restores anything.
Rollback ==
  /\ coord.want = "target" /\ coord.pc \in {"stopping", "files", "start", "starting"}
  /\ coord' = [coord EXCEPT !.want = "source", !.pc = "closed", !.stopped = {}, !.next = 1]
  /\ UNCHANGED <<gate, lock, selection, files, boot, services>>

Release ==
  /\ coord.pc = "published" /\ lock = NoOne
  /\ gate' = [open |-> TRUE, deployment |-> coord.want, decision |-> "new"]
  /\ coord' = [coord EXCEPT !.pc = "released"]
  /\ UNCHANGED <<lock, selection, files, boot, services>>

----------------------------------------------------------------------------
(* Admission                                                               *)

\* A process is started by anybody and reads its configuration.
Start(c) ==
  /\ proc[c].at = "down" /\ proc[c].instance < MaxInstances
  /\ c \in Remote => conn[c].stage = "none"
  /\ proc' = [proc EXCEPT ![c] = [at |-> "loaded", instance |-> @.instance + 1, loaded |-> files[c]]]
  /\ UNCHANGED <<gate, lock, selection, files, boot, conn, offer, relay, coord, bound, admitted>>

\* _admit_selection: may this instance start now?
AdmitSelection(c) ==
  /\ VerifyMembers(selection) /\ selection.mode # "blocked"
  /\ selection.mode = "candidate" =>
       /\ ~ gate.open /\ selection.boot = boot
       /\ selection.claims[c] \in {0, proc[c].instance}
  /\ (selection.mode = "stable" /\ gate.open) => gate.deployment = selection.deployment

Claimed(c) ==
  IF selection.mode = "candidate" THEN [selection EXCEPT !.claims[c] = proc[c].instance]
                                  ELSE selection

\* A bind in order: under the lock held for it, over a complete selected
\* configuration set that is what the process loaded.
InOrder(c) ==
  /\ lock = c /\ VerifyMembers(selection)
  /\ selection.mode # "blocked" /\ selection.deployment = proc[c].loaded

Released == selection.mode = "stable" /\ gate.decision = selection.decision

\* authorize: the manager admits itself.  The claim is written before the
\* loaded configuration is compared, so a stale process uses up the permit.
Authorize ==
  LET stale == proc["manager"].loaded # selection.deployment IN
  /\ proc["manager"].at = "loaded" /\ lock = NoOne
  /\ AdmitSelection("manager")
  /\ selection' = Claimed("manager")
  /\ proc' = IF stale THEN Down("manager") ELSE [proc EXCEPT !["manager"].at = "admitted"]
  /\ lock' = IF stale THEN NoOne ELSE "manager"
  /\ admitted' = IF selection.mode = "candidate" /\ ~ stale
                 THEN [admitted EXCEPT !["manager"] = @ \cup {proc["manager"].instance}]
                 ELSE admitted
  /\ UNCHANGED <<gate, files, boot, conn, offer, relay, coord, bound>>

\* The claim was renamed into place but the directory sync failed.
AuthorizeSyncFails ==
  /\ proc["manager"].at = "loaded" /\ lock = NoOne
  /\ AdmitSelection("manager") /\ selection.mode = "candidate"
  /\ selection' = Claimed("manager")
  /\ proc' = Down("manager")
  /\ UNCHANGED <<gate, lock, files, boot, conn, offer, relay, coord, bound, admitted>>

AuthorizeRefused ==
  /\ proc["manager"].at = "loaded" /\ lock = NoOne
  /\ ~ AdmitSelection("manager")
  /\ proc' = Down("manager")
  /\ UNCHANGED <<gate, lock, selection, files, boot, conn, offer, relay, coord, bound, admitted>>

ManagerBind ==
  /\ proc["manager"].at = "admitted"
  /\ bound' = [bound EXCEPT !["manager"] = InOrder("manager")]
  /\ proc' = [proc EXCEPT !["manager"].at = "serving"]
  /\ lock' = NoOne
  /\ UNCHANGED <<gate, selection, files, boot, conn, offer, relay, coord, admitted>>

\* A remote component asks: to start (mode candidate), or for its public port.
Ask(c, mode) ==
  /\ conn[c].stage = "none" /\ proc["manager"].at = "serving"
  /\ proc[c].at = (IF mode = "public" THEN "serving" ELSE "loaded")
  /\ mode = "public" => c = "gateway" /\ relay.step = "idle"
  /\ conn' = [conn EXCEPT ![c] = [stage |-> "asked", mode |-> mode]]
  /\ relay' = IF mode = "public" THEN [relay EXCEPT !.step = "asking"] ELSE relay
  /\ UNCHANGED <<gate, lock, selection, files, boot, proc, offer, coord, bound, admitted>>

\* Nobody listens on the manager's socket.
NoManager(c) ==
  /\ conn[c].stage = "none" /\ proc["manager"].at # "serving"
  /\ \/ proc[c].at = "loaded" /\ proc' = Down(c) /\ UNCHANGED relay
     \/ /\ c = "gateway" /\ proc[c].at = "serving" /\ relay.listener
        /\ relay' = Shut /\ UNCHANGED proc
  /\ UNCHANGED <<gate, lock, selection, files, boot, conn, offer, coord, bound, admitted>>

\* serve_gateway_authorization, public mode: the stable selection is released.
PublicAllowed ==
  /\ selection.mode = "stable"
  /\ gate.deployment = selection.deployment
  /\ gate.decision = selection.decision

\* The manager admits the peer, takes the lock and offers the selection ...
Serve(c) ==
  /\ conn[c].stage = "asked" /\ proc["manager"].at = "serving" /\ lock = NoOne
  /\ AdmitSelection(c)
  /\ conn[c].mode = "public" => PublicAllowed
  /\ selection' = Claimed(c)
  /\ offer' = [offer EXCEPT ![c] = selection.deployment]
  /\ conn' = [conn EXCEPT ![c].stage = "admitted"]
  /\ lock' = c
  /\ admitted' = IF selection.mode = "candidate"
                 THEN [admitted EXCEPT ![c] = @ \cup {proc[c].instance}] ELSE admitted
  /\ UNCHANGED <<gate, files, boot, proc, relay, coord, bound>>

\* ... or answers with an error.
ServeRefused(c) ==
  /\ conn[c].stage = "asked" /\ proc["manager"].at = "serving" /\ lock = NoOne
  /\ ~ (AdmitSelection(c) /\ (conn[c].mode = "public" => PublicAllowed))
  /\ conn' = [conn EXCEPT ![c].stage = "closed"]
  /\ UNCHANGED <<gate, lock, selection, files, boot, proc, offer, relay, coord, bound, admitted>>

\* The peer compares the offer with what it loaded and what is on disk.
Verified(c) == proc[c].loaded = offer[c] /\ files[c] = proc[c].loaded

Receive(c) ==
  /\ conn[c].stage = "admitted" /\ Verified(c)
  /\ \/ /\ conn[c].mode = "candidate" /\ proc[c].at = "loaded"
        /\ proc' = [proc EXCEPT ![c].at = "admitted"]
        /\ UNCHANGED relay
     \/ /\ conn[c].mode = "public" /\ relay.step = "asking"
        /\ relay' = [relay EXCEPT !.step = "admitted"]
        /\ UNCHANGED proc
  /\ UNCHANGED <<gate, lock, selection, files, boot, conn, offer, coord, bound, admitted>>

\* Bind and listen, then send the proof.  A starting service looks at its files
\* once more before.  The peer does not know whether the manager still holds the
\* lock.
Bind(c) ==
  /\ \/ /\ proc[c].at = "admitted" /\ files[c] = proc[c].loaded
        /\ proc' = [proc EXCEPT ![c].at = "bound"]
        /\ bound' = [bound EXCEPT ![c] = InOrder(c)]
        /\ UNCHANGED relay
     \/ /\ c = "gateway" /\ relay.step = "admitted"
        /\ relay' = [relay EXCEPT !.step = "bound", !.listener = TRUE, !.fresh = InOrder(c) /\ Released]
        /\ UNCHANGED <<proc, bound>>
  /\ conn' = [conn EXCEPT ![c].stage = IF @ = "admitted" THEN "bound" ELSE @]
  /\ UNCHANGED <<gate, lock, selection, files, boot, offer, coord, admitted>>

\* The manager checks the proof, acknowledges and releases the lock.
Acknowledge(c) ==
  /\ lock = c /\ conn[c].stage = "bound" /\ proc["manager"].at = "serving"
  /\ proc[c].loaded = offer[c]
  /\ conn' = [conn EXCEPT ![c].stage = "acked"]
  /\ lock' = NoOne
  /\ UNCHANGED <<gate, selection, files, boot, proc, offer, relay, coord, bound, admitted>>

\* The manager's deadline, or the end of the connection.
ServeExpires(c) ==
  /\ lock = c /\ c \in Remote
  /\ lock' = NoOne
  /\ conn' = [conn EXCEPT ![c].stage = IF @ \in {"admitted", "bound"} THEN "closed" ELSE @]
  /\ UNCHANGED <<gate, selection, files, boot, proc, offer, relay, coord, bound, admitted>>

\* The acknowledgement arrives: the listener serves, the public lease is renewed.
Acknowledged(c) ==
  /\ conn[c].stage = "acked"
  /\ conn' = Hang(c)
  /\ \/ /\ conn[c].mode = "candidate" /\ proc[c].at = "bound"
        /\ proc' = [proc EXCEPT ![c].at = "serving"]
        /\ UNCHANGED relay
     \/ /\ conn[c].mode = "public"
        /\ relay' = [relay EXCEPT !.step = "idle", !.allowed = TRUE, !.released = relay.fresh]
        /\ UNCHANGED proc
  /\ UNCHANGED <<gate, lock, selection, files, boot, offer, coord, bound, admitted>>

\* The peer's deadline, an error or a closed connection: the process closes
\* its listener and ends, the gateway closes the public port and goes on.
GiveUp(c) ==
  /\ conn[c].stage # "none"
  /\ conn' = Hang(c)
  /\ IF conn[c].mode = "public"
     THEN relay' = Shut /\ UNCHANGED proc
     ELSE proc' = Down(c) /\ UNCHANGED relay
  /\ UNCHANGED <<gate, lock, selection, files, boot, offer, coord, bound, admitted>>

\* Three seconds without renewal.
LeaseEnds ==
  /\ relay.allowed
  /\ relay' = [relay EXCEPT !.allowed = FALSE]
  /\ UNCHANGED <<gate, lock, selection, files, boot, proc, conn, offer, coord, bound, admitted>>

----------------------------------------------------------------------------
(* Failures                                                                *)

Crash(c) ==
  /\ proc[c].at # "down"
  /\ Ends(c)
  /\ UNCHANGED <<gate, selection, files, boot, offer, coord, bound, admitted>>

Reboot ==
  /\ boot < MaxBoots
  /\ boot' = boot + 1
  /\ lock' = NoOne
  /\ proc' = [c \in Components |-> [proc[c] EXCEPT !.at = "down"]]
  /\ conn' = [c \in Components |-> [conn[c] EXCEPT !.stage = "none"]]
  /\ relay' = Shut
  /\ coord' = IF coord.pc \in {"intended", "publish"} THEN Settled(Before) ELSE coord
  /\ UNCHANGED <<gate, selection, files, offer, bound, admitted>>

----------------------------------------------------------------------------

Init ==
  /\ gate = [open |-> TRUE, deployment |-> "source", decision |-> "base"]
  /\ lock = NoOne
  /\ selection = Stable("source", "base")
  /\ files = [c \in Components |-> "source"]
  /\ boot = 1
  /\ proc = [c \in Components |-> [at |-> "down", instance |-> 0, loaded |-> "source"]]
  /\ conn = [c \in Components |-> [stage |-> "none", mode |-> "candidate"]]
  /\ offer = [c \in Components |-> "source"]
  /\ bound = [c \in Components |-> FALSE]
  /\ relay = [listener |-> FALSE, allowed |-> FALSE, step |-> "idle",
              fresh |-> FALSE, released |-> FALSE]
  /\ coord = [pc |-> "idle", want |-> "target", next |-> 1, stopped |-> {}, attempt |-> 0,
              desired |-> Nothing, expected |-> Nothing]
  /\ admitted = [c \in Components |-> {}]

Coordinator ==
  \/ Close \/ BlockStartup \/ CandidateStep \/ PublishStable \/ PublishRead \/ Publish
  \/ CommandDies \/ FilesDone \/ StepVerified \/ StepClosed \/ CheckLocal \/ Rollback \/ Release
  \/ \E c \in Components : StopService(c) \/ ReplaceFile(c)

Manager ==
  \/ Authorize \/ AuthorizeSyncFails \/ AuthorizeRefused \/ ManagerBind
  \/ \E c \in Remote : Serve(c) \/ ServeRefused(c) \/ Acknowledge(c) \/ ServeExpires(c)

Peer(c) ==
  \/ \E mode \in {"candidate", "public"} : Ask(c, mode)
  \/ NoManager(c) \/ Receive(c) \/ Bind(c) \/ Acknowledged(c) \/ GiveUp(c)

Next ==
  \/ Coordinator \/ Manager \/ LeaseEnds \/ Reboot
  \/ \E c \in Remote : Peer(c)
  \/ \E c \in Components : Start(c) \/ Crash(c)

Spec == Init /\ [][Next]_vars

\* The gateway's loop asks every second and gives up after one more; the
\* manager's side of a handshake has a deadline, and its own loop goes on.
FairSpec ==
  /\ Spec
  /\ \A c \in Remote :
       /\ WF_vars(ServeExpires(c)) /\ WF_vars(Acknowledge(c))
       /\ WF_vars(Ask(c, "public")) /\ WF_vars(NoManager(c))
       /\ WF_vars(Serve(c) \/ ServeRefused(c))
       /\ WF_vars(Receive(c) \/ Bind(c) \/ Acknowledged(c) \/ GiveUp(c))
  /\ WF_vars(Authorize \/ AuthorizeRefused) /\ WF_vars(ManagerBind)

----------------------------------------------------------------------------
(* Properties                                                              *)

Selections ==
  [mode : {"stable", "blocked", "candidate"}, deployment : Versions,
   decision : {NoOne, "base", "new"}, attempt : 0..MaxAttempts, boot : 0..MaxBoots,
   claims : [Components -> 0..MaxInstances]]

Stages == {"none", "asked", "admitted", "bound", "acked", "closed"}
Processes ==
  [Components -> [at : {"down", "loaded", "admitted", "bound", "serving"},
                  instance : 0..MaxInstances, loaded : Versions]]
Connections == [Components -> [stage : Stages, mode : {"candidate", "public"}]]
Relays ==
  [listener : BOOLEAN, allowed : BOOLEAN, fresh : BOOLEAN, released : BOOLEAN,
   step : {"idle", "asking", "admitted", "bound"}]
OperationStates ==
  [pc : {"idle", "closed", "intended", "publish", "stopping", "files", "start", "starting",
         "decided", "published", "released"},
   want : Versions, next : Nat, stopped : SUBSET Components, attempt : 0..MaxAttempts,
   desired : Selections, expected : Selections]

\* The variables keep their types.
TypeOK ==
  /\ gate \in [open : BOOLEAN, deployment : Versions, decision : {"base", "new"}]
  /\ lock \in Components \cup {NoOne}
  /\ selection \in Selections
  /\ files \in [Components -> Versions]
  /\ boot \in 1..MaxBoots
  /\ proc \in Processes
  /\ conn \in Connections
  /\ offer \in [Components -> Versions]
  /\ relay \in Relays
  /\ coord \in OperationStates
  /\ bound \in [Components -> BOOLEAN]
  /\ admitted \in [Components -> SUBSET (1..MaxInstances)]

\* A service that serves bound its listener while the admission lock was held
\* for it, over a complete configuration set that a selection in force named
\* and that is what the service loaded (startup.authorize, the handshake of
\* serve_authorization with startup_guard.guard).
ServedWasSelected ==
  \A c \in Components : proc[c].at = "serving" => bound[c]

\* Services that serve at the same time loaded the same deployment, however
\* they were started (the selection is blocked before any member changes).
OneDeployment ==
  \A b, c \in Components :
    (proc[b].at = "serving" /\ proc[c].at = "serving") => proc[b].loaded = proc[c].loaded

\* The permit of one start attempt admits one process of each component.
PermitOneInstance ==
  \A c \in Components : Cardinality(admitted[c]) <= 1

\* The gateway relays public connections only on a listener that it bound
\* under a stable selection whose decision had been released at the gate.
PublicWasReleased ==
  relay.allowed => relay.released

\* The safety of the admission (startup.py): what serves was selected and is of
\* one deployment, a permit admits one process, and the public port waits for
\* the release.
StartupSafety ==
  TypeOK /\ ServedWasSelected /\ OneDeployment /\ PermitOneInstance /\ PublicWasReleased

\* When the stable selection is withdrawn for good, the public port closes.
PublicCloses ==
  <>[](selection.mode # "stable") => <>[](~ relay.listener)

============================================================================
