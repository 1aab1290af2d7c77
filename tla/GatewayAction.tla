--------------------------- MODULE GatewayAction ---------------------------
(***************************************************************************)
(* The replacement of the gateway container by a deployment and its        *)
(* restoration (local_hand_deploy/gateway.py, with the history kept by     *)
(* runtime.py).  A plan stops and removes the container that has the       *)
(* gateway's name, creates one of the wanted configuration and starts it.  *)
(* Each action is a sequence of attempts; an attempt records its dispatch, *)
(* sends one Engine request and records what it learns: that nothing was   *)
(* sent, the reply, or nothing, when the connection is lost.  A request    *)
(* whose connection was lost may still be executed later.  Administrators  *)
(* rename, stop and remove containers at any time.                         *)
(***************************************************************************)
EXTENDS Naturals, Sequences, FiniteSets

CONSTANTS
  MaxIds,       \* bound: containers
  MaxAttempts,  \* bound: attempts
  MaxAdmin,     \* bound: interventions
  Losses        \* whether connections may be lost

GatewayAssumption ==
  MaxIds \in Nat \ {0} /\ MaxAttempts \in Nat \ {0} /\ MaxAdmin \in Nat /\ Losses \in BOOLEAN

Ids == 1..MaxIds
Original == 1                \* the container of the deployment before
Gone == [exists |-> FALSE, named |-> FALSE, conf |-> "none", run |-> FALSE, by |-> 0]
NoAttempt == [no |-> 0, id |-> 0, live |-> FALSE, dispatch |-> FALSE, notsent |-> FALSE, answer |-> FALSE, made |-> 0]

VARIABLES
  box,      \* the Engine's containers
  req,      \* requests the Engine has not handled: kind, container, attempt
  goal,     \* the configuration the plan wants: new, or old when it restores
  plan,     \* the actions left
  seen,     \* the container the plan was made for, then the one it created
  att,      \* the latest attempt of the first action left
  made,     \* containers of effective actions: the original one, and those created
  phase,    \* forward, restore, done, restored, refused
  count,    \* attempts so far
  ids,      \* containers so far
  admin     \* interventions so far

vars == <<box, req, goal, plan, seen, att, made, phase, count, ids, admin>>
engine == <<box, req, ids, admin>>

Present == {i \in Ids : box[i].exists}
Current == IF \E i \in Present : box[i].named THEN CHOOSE i \in Present : box[i].named ELSE 0
Kind == Head(plan)

-----------------------------------------------------------------------------
(* plan and plan_restore *)

\* The actions from the present container to a running one of the wanted configuration.
PlanFor(cur, conf) ==
  LET changed == cur # 0 /\ box[cur].conf # conf IN
    (IF cur # 0 /\ box[cur].run /\ changed THEN <<"stop">> ELSE <<>>)
    \o (IF changed THEN <<"remove">> ELSE <<>>)
    \o (IF cur = 0 \/ changed THEN <<"create">> ELSE <<>>)
    \o (IF cur = 0 \/ changed \/ ~box[cur].run THEN <<"start">> ELSE <<>>)

\* verify_history: no retained container may be left anywhere but at the name.
HistoryClear(kept, owned) ==
  /\ \A i \in kept : i # Current => i \notin Present
  /\ owned => Current \in kept \cup {0}

-----------------------------------------------------------------------------
(* What an attempt is known to have done *)

\* _start_identity: the container the plan created, else the one it found.
StartId == seen

\* A dispatch was not recorded, nothing was sent, or the reply is recorded.
Completed == ~att.live /\ (~att.dispatch \/ att.notsent \/ att.answer \/ att.made # 0)

Removed == seen \notin Present

\* The container at the name carries this attempt's label, and the identity the reply gave.
Created ==
  /\ Current # 0 /\ box[Current].conf = goal /\ att.dispatch /\ ~att.notsent
  /\ box[Current].by = att.no /\ att.made \in {0, Current}

Target ==
  CASE Kind = "stop" -> Current = seen /\ seen # 0 /\ ~box[seen].run
    [] Kind = "remove" -> Removed /\ Current = 0
    [] Kind = "create" -> Created
    [] OTHER -> Current = StartId /\ Current # 0 /\ box[Current].run /\ box[Current].conf = goal

\* _creation_candidates: containers of any name with the attempt's label.
Candidates == IF Kind = "create" /\ ~Created /\ att.made = 0 /\ att.dispatch /\ ~att.notsent
              THEN {i \in Present : box[i].by = att.no} ELSE {}

\* observe_action
Outcome ==
  LET closed == Completed \/ (~att.live /\ (Target \/ (Kind = "remove" /\ Removed))) IN
  IF att.live THEN "running"
  ELSE IF Candidates # {} THEN "unknown"
  ELSE IF Kind = "create" /\ att.made # 0 /\ Current = 0 /\ att.made \in Present /\ closed THEN "conflict"
  ELSE IF Target /\ closed THEN "target"
  ELSE IF ~closed THEN "unknown"
  ELSE IF (Kind = "create" /\ Current = 0) \/ (Kind # "create" /\ Current = seen /\ seen # 0) THEN "original"
  ELSE IF Kind = "remove" /\ ((Current # 0 /\ Current # seen) \/ (Current = 0 /\ ~Removed)) THEN "conflict"
  ELSE IF Kind = "create" \/ (Kind = "start" /\ Current # StartId) THEN "conflict"
  ELSE IF Current # 0 /\ ~box[Current].run THEN "partial" ELSE "conflict"

-----------------------------------------------------------------------------
(* execute and _perform *)

\* The checks of the attempt before it dispatches anything; one that fails them has
\* changed nothing and may be repeated.
Applicable ==
  CASE Kind = "create" -> Current = 0
    [] Kind = "stop" -> Current = seen /\ seen # 0
    [] Kind = "remove" -> Current = seen /\ seen # 0 /\ ~box[seen].run
    [] OTHER -> Current = StartId /\ Current # 0

Attempt ==
  /\ phase \in {"forward", "restore"} /\ plan # <<>> /\ count < MaxAttempts
  /\ Outcome \in {"original", "partial"} /\ Applicable
  /\ count' = count + 1
  /\ att' = [NoAttempt EXCEPT !.no = count + 1, !.live = TRUE, !.dispatch = TRUE, !.id = Current]
  /\ req' = req \cup {[kind |-> Kind, id |-> Current, no |-> count + 1, conf |-> goal]}
  /\ UNCHANGED <<box, goal, plan, seen, made, phase, ids, admin>>

\* The request could not be encoded, or the Engine not reached.
NotSent ==
  /\ att.live /\ Losses /\ \E r \in req : r.no = att.no /\ req' = req \ {r}
  /\ att' = [att EXCEPT !.live = FALSE, !.notsent = TRUE]
  /\ UNCHANGED <<box, goal, plan, seen, made, phase, count, ids, admin>>

\* The reply arrives and is recorded; an error may follow an executed creation, and names no container.
Reply ==
  /\ att.live /\ \A r \in req : r.no # att.no
  /\ LET new == {i \in Ids : box[i].by = att.no /\ Kind = "create"} IN
       \E i \in IF new = {} THEN {0} ELSE new \cup (IF Losses THEN {0} ELSE {}) :
         att' = [att EXCEPT !.live = FALSE, !.answer = TRUE, !.made = i]
  /\ UNCHANGED <<goal, plan, seen, made, phase, count, engine>>

\* The connection or the child is lost: nothing is learned.
Lose ==
  /\ att.live /\ Losses /\ att' = [att EXCEPT !.live = FALSE]
  /\ UNCHANGED <<goal, plan, seen, made, phase, count, engine>>

Dispatched == att.dispatch /\ ~att.notsent

\* What the history holds once the latest attempt is observed.
Retained ==
  made \cup (IF plan = <<>> THEN {}
            ELSE IF Kind = "create" THEN {i \in Ids : i = att.made \/ (Created /\ i = Current)}
            ELSE IF Dispatched THEN {seen} ELSE {})

\* The target was observed: the identity of a creation is retained, and the next action is due.
Advance ==
  /\ phase \in {"forward", "restore"} /\ plan # <<>> /\ Outcome = "target"
  /\ made' = Retained
  /\ seen' = IF Kind = "create" THEN Current ELSE seen
  /\ plan' = Tail(plan) /\ att' = NoAttempt
  /\ UNCHANGED <<goal, phase, count, engine>>

\* prepare_compensation: the history is clear; then a plan for the old configuration.
Restore ==
  /\ phase \in {"forward", "refused"} /\ goal = "new" /\ (plan # <<>> => Outcome \notin {"unknown", "running"})
  /\ Retained # {} /\ HistoryClear(Retained, TRUE)
  /\ made' = Retained /\ goal' = "old" /\ seen' = Current /\ plan' = PlanFor(Current, "old")
  /\ att' = NoAttempt /\ phase' = "restore"
  /\ UNCHANGED <<count, engine>>

\* The final verification observes the gateway and the history again.
Verified == Current # 0 /\ box[Current].conf = goal /\ box[Current].run /\ HistoryClear(made, FALSE)

Finish ==
  /\ phase \in {"forward", "restore"} /\ plan = <<>> /\ Verified
  /\ phase' = IF phase = "forward" THEN "done" ELSE "restored"
  /\ UNCHANGED <<goal, plan, seen, att, made, count, engine>>

Refuse ==
  /\ phase \in {"forward", "restore"}
  /\ IF plan = <<>> THEN ~Verified ELSE Outcome = "conflict"
  /\ phase' = IF phase = "forward" THEN "refused" ELSE "stuck"
  /\ UNCHANGED <<goal, plan, seen, att, made, count, engine>>

-----------------------------------------------------------------------------
(* The Engine and the administrators *)

Handle(r) ==
  /\ r \in req /\ req' = req \ {r}
  /\ \/ /\ r.kind = "create" /\ Current = 0 /\ ids < MaxIds
        /\ ids' = ids + 1
        /\ box' = [box EXCEPT ![ids + 1] = [exists |-> TRUE, named |-> TRUE, conf |-> r.conf, run |-> FALSE, by |-> r.no]]
     \/ /\ r.kind # "create" /\ r.id \in Present
        /\ box' = [box EXCEPT ![r.id] = CASE r.kind = "stop" -> [@ EXCEPT !.run = FALSE]
                                          [] r.kind = "start" -> [@ EXCEPT !.run = TRUE]
                                          [] OTHER -> IF @.run THEN @ ELSE [Gone EXCEPT !.by = box[r.id].by]]
        /\ UNCHANGED ids
     \/ /\ (r.kind = "create" /\ Current # 0) \/ (r.kind # "create" /\ r.id \notin Present) \/ Losses
        /\ UNCHANGED <<box, ids>>
  /\ UNCHANGED <<goal, plan, seen, att, made, phase, count, admin>>

Intervene ==
  /\ admin < MaxAdmin /\ admin' = admin + 1 /\ phase \notin {"done", "restored"}
  /\ \E i \in Present :
       \/ box[i].named /\ box' = [box EXCEPT ![i].named = FALSE]
       \/ box[i].run /\ box' = [box EXCEPT ![i].run = FALSE]
       \/ ~box[i].run /\ box' = [box EXCEPT ![i] = [Gone EXCEPT !.by = box[i].by]]
  /\ UNCHANGED <<req, goal, plan, seen, att, made, phase, count, ids>>

Init ==
  /\ box = [i \in Ids |-> IF i = Original THEN [exists |-> TRUE, named |-> TRUE, conf |-> "old", run |-> TRUE, by |-> 0]
                                          ELSE Gone]
  /\ req = {} /\ goal = "new" /\ seen = Original /\ plan = PlanFor(Original, "new")
  /\ att = NoAttempt /\ made = {} /\ phase = "forward" /\ count = 0 /\ ids = 1 /\ admin = 0

Next ==
  \/ Attempt \/ NotSent \/ Reply \/ Lose \/ Advance \/ Restore \/ Finish \/ Refuse \/ Intervene
  \/ \E r \in req : Handle(r)

Spec == Init /\ [][Next]_vars

\* The coordinator goes on while it may, and the Engine answers.
FairSpec ==
  /\ Spec /\ WF_vars(Attempt) /\ WF_vars(Reply) /\ WF_vars(Advance) /\ WF_vars(Finish) /\ WF_vars(Refuse)
  /\ WF_vars(\E r \in req : Handle(r))

-----------------------------------------------------------------------------
TypeOK ==
  /\ phase \in {"forward", "restore", "done", "restored", "refused", "stuck"} /\ goal \in {"old", "new"}
  /\ made \subseteq Ids /\ seen \in 0..MaxIds /\ count \in 0..MaxAttempts
  /\ Cardinality({i \in Present : box[i].named}) <= 1 /\ plan \in Seq({"stop", "remove", "create", "start"})

Own(conf) == {i \in Present : box[i].by > 0 /\ box[i].conf = conf}

(* Of each configuration the deployment has at most one container, whatever *)
(* replies were lost and whatever was renamed: no creation is repeated      *)
(* while its first request may still produce or has produced a container.   *)
CreatedOnce == \A conf \in {"old", "new"} : Cardinality(Own(conf)) + Cardinality({r \in req : r.kind = "create" /\ r.conf = conf}) <= 1

(* The restored state has the gateway of the old configuration and no other *)
(* container of the deployment, under whatever name, even when one was       *)
(* renamed while a reply was lost; and it runs, unless a lost stop request   *)
(* was taken for executed because an administrator stopped the container.    *)
RestoredClean ==
  phase = "restored" =>
    /\ Current # 0 /\ box[Current].conf = "old" /\ Present = {Current}
    /\ admin = 0 => box[Current].run

(* A finished plan leaves no request behind that the Engine may still       *)
(* execute, unless an administrator acted.                                  *)
NothingInFlight == (phase \in {"done", "restored"} /\ admin = 0) => req = {}

(* Without lost replies every plan ends: it is done or restored, or refuses *)
(* because an administrator changed what it acts on; none waits forever on  *)
(* an outcome that it can neither adopt nor repeat.                         *)
Settles == <>(phase \in {"done", "restored", "refused", "stuck"})

=============================================================================
