----------------------- MODULE TaskGatewayProofs -----------------------
(***************************************************************************)
(* The safety of the controller of one task and its gateway                *)
(* (local_hand_system_manager/task_service.py and server.py), for any      *)
(* number of phases, stages, calls and recoveries.  The argument: a stage  *)
(* is launched only after the one before it was sealed, so of the          *)
(* delivered stages at most one, of the phase that is open, is not sealed; *)
(* a sealed one is over, and only a delivery starts anything.  An API of a *)
(* recovery is the only one alive, and no request of it delivers.          *)
(***************************************************************************)
EXTENDS TaskGateway, FiniteSetTheorems, TLAPS

\* The sessions of the gateway, one after each rebind.
Sessions == [peer : Nat, serving : BOOLEAN, failure : Reasons, only : BOOLEAN, finished : BOOLEAN,
             rebinds : Nat, retired : Nat, seq : Nat, pending : BOOLEAN]
\* What systemd may have of a stage.
Units == {"absent", "queued", "never", "loading", "active", "exited", "failed", "draining", "gone"}

\* The types of the controller's state, its processes and its session.
ControlTypes ==
  /\ svc \in {"run", "recover", "rebind", "recovering", "reading", "done", "failed"}
  /\ mgmt \in {"none", "open", "kept", "closed"}
  /\ auth \in Nat /\ closed \in Nat /\ auth <= NP
  /\ journal \in [Phases -> {"READY", "RESULT", "CLOSED"}]
  /\ spawned \in Nat /\ spawned <= MaxRecoveries /\ expired \in BOOLEAN
  /\ gw \in Sessions /\ call \in Requests \cup {None}

\* The types of what is retained of the stages, and of the stages.
StageTypes ==
  /\ parts \in [Keys -> Parts \cup {None}]
  /\ intents \subseteq Keys
  /\ unit \in [Keys -> Units]
  /\ client \in [Keys -> {"none", "live", "exited"}]
  /\ starts \in [Keys -> Nat]

\* The session is bound to the API of its rebind; only one that was spawned and
\* not yet bound is younger, and no older one is alive.
Peers ==
  /\ gw.peer = gw.rebinds /\ api \subseteq {spawned}
  /\ spawned = gw.rebinds \/ spawned = gw.rebinds + 1
  /\ svc \in {"run", "recover", "recovering", "reading"} => spawned = gw.rebinds
  /\ svc = "rebind" => spawned = gw.rebinds + 1 /\ ~gw.serving
  /\ svc = "recovering" => gw.only
  /\ gw.only => svc # "run"
  /\ gw.finished => gw.only

\* A session that is not served has no request; a request that is launching
\* has its part and no delivery yet, and is not one of a recovery.
Calling ==
  /\ ~gw.serving => call = None
  /\ call # None /\ call.step = "launching" =>
       /\ call.op = "launch" /\ call.x \in Delivered /\ starts[call.x] = 0 /\ ~gw.only

\* Nothing can be launched: no phase is open, the API may only observe, it is
\* dead, or it reports a terminal task.
NoLaunch ==
  \/ closed = auth
  \/ gw.only
  \/ ~PeerLives
  \/ svc = "reading" /\ (call # None => call.op # "launch")

\* At most one phase is authorized and not closed, the one of an open pair; a
\* finished pair has nothing that could be launched.
Managed ==
  /\ auth = closed \/ auth = closed + 1
  /\ mgmt = "open" => auth = closed + 1
  /\ mgmt = "closed" => NoLaunch

\* What is retained of a stage is so: without a part it was never started, a
\* stopped one is not run again, a sealed one is over, and a stage of a closed
\* phase is sealed.
StageOK(x) ==
  /\ starts[x] = 0 \/ (starts[x] = 1 /\ parts[x] # None)
  /\ starts[x] = 0 => unit[x] = "absent"
  /\ parts[x] # None =>
       /\ x[1] <= auth
       /\ parts[x].stop => unit[x] \in {"gone", "failed", "draining"}
       /\ parts[x].sealed => unit[x] \in {"gone", "failed"} /\ client[x] = "exited"
       /\ x[1] <= closed => parts[x].sealed

\* A stage of a phase is delivered when all stages before it are sealed.
InOrder ==
  \A p \in Phases : \A s, t \in Stages :
    t < s /\ parts[<<p, s>>] # None => parts[<<p, t>>] # None /\ parts[<<p, t>>].sealed

\* The controller and its session.
Control == ControlTypes /\ Peers /\ Calling /\ Managed
\* The stages.
Work == StageTypes /\ (\A x \in Keys : StageOK(x)) /\ InOrder
\* The inductive invariant.
Inv == Control /\ Work /\ FinishedIsQuiet /\ ManagementOutlivesWriters

-----------------------------------------------------------------------------
(* What the parts of a step keep *)

\* A step that starts nothing, finishes no session and no pair keeps both quiet.
LEMMA QuietKept ==
  ASSUME Inv, \A x \in Keys : Live(unit'[x]) => Live(unit[x]),
         gw'.finished => gw.finished, mgmt' = "closed" => mgmt = "closed"
  PROVE  FinishedIsQuiet' /\ ManagementOutlivesWriters'
BY DEF Inv, FinishedIsQuiet, ManagementOutlivesWriters, Live, Populated

\* A step that leaves the stages alone keeps what is known of them.
LEMMA WorkKept ==
  ASSUME Inv, UNCHANGED <<parts, intents, unit, client, starts, auth, closed>>
  PROVE  Work' /\ \A x \in Keys : Live(unit'[x]) => Live(unit[x])
BY DEF Inv, Work, StageTypes, StageOK, InOrder, Live, Populated

\* A step of the gateway under its session: the controller waits, the identity
\* of the session stays, and a request ends or goes on without a delivery.
LEMMA SessionKept ==
  ASSUME Inv, UNCHANGED <<task, process>>, gw' \in Sessions,
         gw'.peer = gw.peer, gw'.rebinds = gw.rebinds, gw'.only = gw.only,
         gw'.serving => gw.serving, gw'.finished => gw.only,
         call' = None \/ (call # None /\ gw'.serving /\ call' \in Requests /\ call'.op = call.op
                          /\ call'.step # "launching")
  PROVE  Control'
<1>1. UNCHANGED <<svc, mgmt, auth, closed, journal, api, spawned, expired>>
  BY DEF task, process
<1>2. ControlTypes'
  BY <1>1 DEF Inv, Control, ControlTypes
<1>3. Peers'
  BY <1>1 DEF Inv, Control, Peers
<1>4. Calling'
  BY DEF Calling
<1>5. Managed'
  BY <1>1 DEF Inv, Control, Managed, NoLaunch, PeerLives
<1> QED BY <1>2, <1>3, <1>4, <1>5 DEF Control

\* An answered or refused request is the same request, one step on.
LEMMA AnswerKept ==
  ASSUME call \in Requests, Answer \/ (\E why \in Reasons : Reject(why))
  PROVE  /\ call' \in Requests /\ call'.op = call.op /\ call'.x = call.x
         /\ call'.step \in {"done", "refused"} /\ call'.step # "launching"
<1>1. CASE Answer
  BY <1>1 DEF Answer, Requests
<1>2. ASSUME NEW why \in Reasons, Reject(why)
      PROVE  /\ call' \in Requests /\ call'.op = call.op /\ call'.x = call.x
             /\ call'.step \in {"done", "refused"} /\ call'.step # "launching"
  BY <1>2 DEF Reject, Requests
<1> QED BY <1>1, <1>2

\* Only one delivered stage is not sealed: the last of the phase that is open.
LEMMA OneUnsealed ==
  ASSUME GatewayAssumption, Inv, NEW x \in Keys, NEW y \in Keys,
         parts[x] # None, parts[y] # None, ~parts[x].sealed, ~parts[y].sealed
  PROVE  x = y
<1>1. /\ x[1] \in Phases /\ y[1] \in Phases /\ x[2] \in Stages /\ y[2] \in Stages
      /\ x = <<x[1], x[2]>> /\ y = <<y[1], y[2]>>
  BY DEF Keys
<1>2. x[1] > closed /\ x[1] <= auth /\ y[1] > closed /\ y[1] <= auth
  BY <1>1 DEF Inv, Work, StageOK, Control, ControlTypes, Phases, GatewayAssumption
<1>3. x[1] = y[1]
  BY <1>1, <1>2 DEF Inv, Control, Managed, ControlTypes, Phases, GatewayAssumption
<1>4. ~(x[2] < y[2]) /\ ~(y[2] < x[2])
  BY <1>1, <1>3 DEF Inv, Work, InOrder
<1>5. x[2] = y[2]
  BY <1>1, <1>4 DEF Stages, GatewayAssumption
<1> QED BY <1>1, <1>3, <1>5

\* A stage that runs, or may still, was delivered and is not sealed.
LEMMA LiveUnsealed ==
  ASSUME Inv, NEW x \in Keys, Live(unit[x])
  PROVE  parts[x] # None /\ ~parts[x].sealed
BY DEF Inv, Work, StageOK, StageTypes, Live, Populated

-----------------------------------------------------------------------------
(* Requests, and what the gateway answers without a change of a stage *)

\* Request: an API of a recovery may ask for a launch too, but not for one of a
\* terminal task.
LEMMA RequestInv ==
  ASSUME Inv, NEW op \in Ops, NEW x \in Keys, Request(op, x)
  PROVE  Inv'
<1>1. /\ gw.serving /\ call = None /\ (op = "launch" => svc # "reading" \/ gw.only)
      /\ call' = [op |-> op, x |-> x, step |-> "sent", why |-> "none"]
      /\ UNCHANGED <<svc, mgmt, auth, closed, journal, api, spawned, expired, gw, parts, intents,
                    unit, client, starts>>
  BY DEF Request, task, process, system
<1>2. call' \in Requests /\ call'.op = op /\ call'.step = "sent"
  BY <1>1 DEF Requests, Reasons
<1>3. Work' /\ FinishedIsQuiet' /\ ManagementOutlivesWriters'
  BY <1>1, WorkKept, QuietKept
<1>4. ControlTypes' /\ Peers'
  BY <1>1, <1>2 DEF Inv, Control, ControlTypes, Peers
<1>5. Calling'
  BY <1>1, <1>2 DEF Inv, Control, Calling
<1>6. Managed'
  BY <1>1, <1>2 DEF Inv, Control, Managed, NoLaunch, PeerLives
<1> QED BY <1>3, <1>4, <1>5, <1>6 DEF Inv, Control

\* Crash: an API that died never lives again.
LEMMA CrashInv ==
  ASSUME Inv, NEW g \in api, Crash(g)
  PROVE  Inv'
<1>1. /\ api' = api \ {g}
      /\ UNCHANGED <<svc, mgmt, auth, closed, journal, spawned, expired, gw, call, parts, intents,
                    unit, client, starts>>
  BY DEF Crash, task, system
<1>2. Work' /\ FinishedIsQuiet' /\ ManagementOutlivesWriters'
  BY <1>1, WorkKept, QuietKept
<1>3. ControlTypes' /\ Peers'
  BY <1>1 DEF Inv, Control, ControlTypes, Peers
<1>4. Calling' /\ Managed'
  BY <1>1 DEF Inv, Control, Calling, Managed, NoLaunch, PeerLives, Delivered
<1> QED BY <1>2, <1>3, <1>4 DEF Inv, Control

\* A request that is being handled has a type.
LEMMA HandledType ==
  ASSUME Inv, call # None
  PROVE  call \in Requests /\ gw \in Sessions
BY DEF Inv, Control, ControlTypes

\* LaunchLost, ObserveUndelivered, Contradicted and Refused only answer.
LEMMA AnsweredInv ==
  ASSUME Inv, LaunchLost \/ ObserveUndelivered \/ Contradicted \/ Refused
  PROVE  Inv'
<1>1. /\ call # None /\ gw.serving
      /\ Answer \/ (\E why \in Reasons : Reject(why))
      /\ UNCHANGED <<task, process, gw, parts, intents, unit, client, starts>>
  BY DEF LaunchLost, ObserveUndelivered, Contradicted, Refused, Admitted, Handling, system, Reasons
<1>2. UNCHANGED <<auth, closed, mgmt>>
  BY <1>1 DEF task
<1>3. Work' /\ FinishedIsQuiet' /\ ManagementOutlivesWriters'
  BY <1>1, <1>2, WorkKept, QuietKept
<1>4. Control'
  BY <1>1, HandledType, AnswerKept, SessionKept DEF Inv, Control, Peers
<1> QED BY <1>3, <1>4 DEF Inv

\* ControlPends: a pending systemctl is only remembered.
LEMMA ControlPendsInv ==
  ASSUME Inv, ControlPends
  PROVE  Inv'
<1>1. /\ call # None /\ gw.serving /\ Reject("refused") /\ "refused" \in Reasons
      /\ gw' = [gw EXCEPT !.pending = TRUE]
      /\ UNCHANGED <<task, process, parts, intents, unit, client, starts>>
  BY DEF ControlPends, Admitted, Handling, system, Reasons
<1>2. UNCHANGED <<auth, closed, mgmt>>
  BY <1>1 DEF task
<1>3. /\ gw' \in Sessions /\ gw'.peer = gw.peer /\ gw'.rebinds = gw.rebinds /\ gw'.only = gw.only
      /\ gw'.serving = gw.serving /\ gw'.finished = gw.finished
  BY <1>1, HandledType DEF Sessions
<1>4. Work' /\ FinishedIsQuiet' /\ ManagementOutlivesWriters'
  BY <1>1, <1>2, <1>3, WorkKept, QuietKept
<1>5. gw'.finished => gw.only
  BY <1>3 DEF Inv, Control, Peers
<1>6. Control'
  BY <1>1, <1>3, <1>5, HandledType, AnswerKept, SessionKept
<1> QED BY <1>4, <1>6 DEF Inv

\* Respond, RespondError, PeerGone and ServeComplete end the request, and most
\* of them the session.
LEMMA EndedInv ==
  ASSUME Inv, Respond \/ RespondError \/ PeerGone \/ ServeComplete
  PROVE  Inv'
<1>1. /\ call' = None
      /\ UNCHANGED <<task, process, parts, intents, unit, client, starts>>
  BY DEF Respond, RespondError, PeerGone, ServeComplete, EndServe, system
<1>2. UNCHANGED <<auth, closed, mgmt>>
  BY <1>1 DEF task
<1>3. /\ gw' \in Sessions /\ gw'.peer = gw.peer /\ gw'.rebinds = gw.rebinds /\ gw'.only = gw.only
      /\ (gw'.serving => gw.serving) /\ gw'.finished = gw.finished
  <2>1. gw \in Sessions /\ call \in Requests \cup {None}
    BY DEF Inv, Control, ControlTypes
  <2>2. CASE Respond
    <3>1. PICK b \in BOOLEAN : gw' = [gw EXCEPT !.seq = gw.seq + 1, !.serving = b]
      BY <2>1, <2>2 DEF Respond, Sessions
    <3>2. gw.serving /\ gw.seq + 1 \in Nat
      BY <2>1, <2>2 DEF Respond, Sessions
    <3> QED BY <2>1, <3>1, <3>2 DEF Sessions
  <2>3. CASE RespondError
    <3>1. call.why \in Reasons /\ "peer" \in Reasons
      BY <2>1, <2>3 DEF RespondError, Requests, Reasons
    <3> DEFINE why == IF PeerLives THEN call.why ELSE "peer"
               n == IF PeerLives /\ ~expired THEN gw.seq + 1 ELSE gw.seq
    <3>2. why \in Reasons /\ n \in Nat
      BY <2>1, <3>1 DEF Sessions
    <3>3. gw' = [gw EXCEPT !.serving = FALSE, !.failure = why, !.seq = n]
      BY <2>3 DEF RespondError
    <3> HIDE DEF why, n
    <3> QED BY <2>1, <3>2, <3>3 DEF Sessions
  <2>4. CASE PeerGone
    BY <2>1, <2>4 DEF PeerGone, EndServe, Sessions, Reasons
  <2>5. CASE ServeComplete
    BY <2>1, <2>5 DEF ServeComplete, Sessions
  <2> QED BY <2>2, <2>3, <2>4, <2>5
<1>4. Work' /\ FinishedIsQuiet' /\ ManagementOutlivesWriters'
  BY <1>1, <1>2, <1>3, WorkKept, QuietKept
<1>5. gw'.finished => gw.only
  BY <1>3 DEF Inv, Control, Peers
<1>6. Control'
  BY <1>1, <1>3, <1>5, SessionKept
<1> QED BY <1>4, <1>6 DEF Inv

\* RecoveryFinish: every delivered stage of an open phase is over, and one of a
\* closed phase was sealed.
LEMMA RecoveryFinishInv ==
  ASSUME Inv, RecoveryFinish
  PROVE  Inv'
<1>1. /\ call # None /\ gw.serving /\ gw.only /\ Answer /\ ParentEmpty
      /\ \A x \in Delivered : x[1] > closed => Over(x)
      /\ gw' = [gw EXCEPT !.finished = TRUE]
      /\ UNCHANGED <<task, process, parts, intents, unit, client, starts>>
  BY DEF RecoveryFinish, Admitted, Handling, system
<1>2. UNCHANGED <<auth, closed, mgmt>>
  BY <1>1 DEF task
<1>3. /\ gw' \in Sessions /\ gw'.peer = gw.peer /\ gw'.rebinds = gw.rebinds /\ gw'.only = gw.only
      /\ gw'.serving = gw.serving
  BY <1>1, HandledType DEF Sessions
<1>4. Control'
  BY <1>1, <1>3, HandledType, AnswerKept, SessionKept
<1>5. ASSUME NEW x \in Keys
      PROVE  ~Live(unit[x])
  <2>1. CASE parts[x] # None /\ x[1] > closed
    <3>1. parts[x].stop
      BY <1>1, <2>1 DEF Delivered, Over
    <3>2. unit[x] \in {"gone", "failed", "draining"} /\ ~Populated(unit[x])
      BY <1>1, <2>1, <3>1 DEF Inv, Work, StageOK, ParentEmpty
    <3> QED BY <3>2 DEF Live, Populated
  <2>2. CASE ~(parts[x] # None /\ x[1] > closed)
    <3>1. x[1] \in Nat /\ closed \in Nat
      BY DEF Keys, Phases, Inv, Control, ControlTypes
    <3>2. CASE parts[x] # None
      BY <2>2, <3>1, <3>2, LiveUnsealed DEF Inv, Work, StageOK
    <3> QED BY <3>2, LiveUnsealed
  <2> QED BY <2>1, <2>2
<1>6. Work' /\ \A x \in Keys : Live(unit'[x]) => Live(unit[x])
  BY <1>1, <1>2, WorkKept
<1>7. FinishedIsQuiet' /\ ManagementOutlivesWriters'
  BY <1>1, <1>5 DEF FinishedIsQuiet, ManagementOutlivesWriters, Live, Populated
<1> QED BY <1>4, <1>6, <1>7 DEF Inv

-----------------------------------------------------------------------------
(* What the gateway does to a stage *)

\* A step that records something of the stages, and neither delivers, stops
\* nor seals one.
LEMMA PartsKept ==
  ASSUME Inv, parts' \in [Keys -> Parts \cup {None}],
         \A x \in Keys : /\ parts'[x] # None <=> parts[x] # None
                         /\ parts[x] # None => /\ parts'[x].sealed = parts[x].sealed
                                               /\ parts'[x].stop = parts[x].stop,
         UNCHANGED <<intents, unit, client, starts, auth, closed>>
  PROVE  Work' /\ \A x \in Keys : Live(unit'[x]) => Live(unit[x])
<1>1. StageTypes'
  BY DEF Inv, Work, StageTypes
<1>2. \A x \in Keys : StageOK(x)'
  BY DEF Inv, Work, StageOK
<1>3. InOrder'
  BY DEF Inv, Work, InOrder, Keys
<1> QED BY <1>1, <1>2, <1>3 DEF Work

\* What an observation leaves of a part.
LEMMA ShownType ==
  ASSUME GatewayAssumption, Inv, NEW x \in Keys, parts[x] # None
  PROVE  /\ Shown(x) \in Parts /\ Shown(x).sealed = parts[x].sealed
         /\ Shown(x).stop = parts[x].stop /\ Shown(x).held = parts[x].held
<1>1. parts[x] \in Parts /\ unit[x] \in Units
  BY DEF Inv, Work, StageTypes
<1> DEFINE end == IF parts[x].term # "none" THEN parts[x].term
                  ELSE CASE unit[x] = "exited" -> "good"
                         [] unit[x] \in {"failed", "draining"} -> "bad" [] OTHER -> "none"
           seen == parts[x].inv \/ Loaded(unit[x])
           after == IF unit[x] \in {"active", "exited"} THEN "up" ELSE "down"
<1>2. end \in {"none", "good", "bad"} /\ after \in {"none", "up", "down"}
  BY <1>1 DEF Parts
<1>3. seen \in BOOLEAN
  BY <1>1 DEF Parts, Loaded
<1>4. Shown(x) = [parts[x] EXCEPT !.inv = seen, !.term = end, !.after = after]
  BY DEF Shown
<1> HIDE DEF end, seen, after
<1> QED BY <1>1, <1>2, <1>3, <1>4 DEF Parts

\* Observe and Inventory record what systemd shows.
LEMMA ObservedParts ==
  ASSUME GatewayAssumption, Inv, Observe \/ Inventory
  PROVE  /\ parts' \in [Keys -> Parts \cup {None}]
         /\ \A x \in Keys : /\ parts'[x] # None <=> parts[x] # None
                            /\ parts[x] # None => /\ parts'[x].sealed = parts[x].sealed
                                                  /\ parts'[x].stop = parts[x].stop
<1>1. call # None /\ gw.serving
  BY DEF Observe, Inventory, Admitted, Handling
<1>2. parts \in [Keys -> Parts \cup {None}] /\ None \notin Parts /\ call \in Requests
      /\ \A x \in Keys : parts[x] # None => parts[x] \in Parts
  BY <1>1, HandledType DEF Inv, Work, StageTypes, GatewayAssumption
<1>3. CASE Observe
  <2>1. call.x \in Keys /\ parts[call.x] # None
    BY <1>3 DEF Observe, Known, Delivered
  <2> DEFINE new == [Shown(call.x) EXCEPT !.obs = @ \/ gw.only]
  <2>2. gw.only \in BOOLEAN
    BY <1>1, HandledType DEF Sessions
  <2>3. new \in Parts /\ new.sealed = parts[call.x].sealed /\ new.stop = parts[call.x].stop
    <3>1. /\ Shown(call.x) \in Parts /\ Shown(call.x).sealed = parts[call.x].sealed
          /\ Shown(call.x).stop = parts[call.x].stop
      BY <2>1, ShownType
    <3>2. (Shown(call.x).obs \/ gw.only) \in BOOLEAN
      OBVIOUS
    <3> HIDE DEF Shown
    <3> QED BY <3>1, <3>2 DEF Parts
  <2>4. parts' = [parts EXCEPT ![call.x] = new]
    BY <1>3 DEF Observe
  <2> HIDE DEF new
  <2> QED BY <1>2, <2>1, <2>3, <2>4
<1>4. CASE Inventory
  <2>1. PICK listed \in SUBSET Delivered :
          parts' = [x \in Keys |-> IF x \in listed THEN Shown(x) ELSE parts[x]]
    BY <1>4 DEF Inventory
  <2>2. \A x \in listed : x \in Keys /\ parts[x] # None
    BY DEF Delivered
  <2> QED BY <1>2, <2>1, <2>2, ShownType
<1> QED BY <1>3, <1>4

\* An observation changes nothing else.
LEMMA ObservedInv ==
  ASSUME GatewayAssumption, Inv, Observe \/ Inventory
  PROVE  Inv'
<1>1. /\ call # None /\ gw.serving /\ Answer
      /\ UNCHANGED <<task, process, gw, intents, unit, client, starts>>
  BY DEF Observe, Inventory, Admitted, Handling, system
<1>2. UNCHANGED <<auth, closed, mgmt>>
  BY <1>1 DEF task
<1>3. Work' /\ FinishedIsQuiet' /\ ManagementOutlivesWriters'
  BY <1>1, <1>2, ObservedParts, PartsKept, QuietKept
<1>4. Control'
  BY <1>1, HandledType, AnswerKept, SessionKept DEF Inv, Control, Peers
<1> QED BY <1>3, <1>4 DEF Inv

\* LaunchIntent: the stages before the launched one are sealed, and it was
\* never started.
LEMMA LaunchIntentInv ==
  ASSUME GatewayAssumption, Inv, LaunchIntent
  PROVE  Inv'
<1> DEFINE x == call.x
<1>1. /\ call # None /\ gw.serving /\ call.op = "launch" /\ MayLaunch(x)
      /\ (gw.only => call.op \in RecoveryOps)
      /\ intents' = intents \cup {x} /\ parts' = [parts EXCEPT ![x] = NewPart]
      /\ call' = [call EXCEPT !.step = "launching"]
      /\ UNCHANGED <<svc, mgmt, auth, closed, journal, api, spawned, expired, gw, unit, client, starts>>
  BY DEF LaunchIntent, Admitted, Handling, task, process, system
<1>2. call \in Requests /\ x \in Keys
  BY <1>1, HandledType DEF Requests
<1>3. ~gw.only
  BY <1>1 DEF RecoveryOps
<1>4. /\ x[1] <= auth /\ x[1] > closed /\ parts[x] = None /\ Predecessor(x[1], x[2])
  BY <1>1 DEF MayLaunch, Undelivered
<1>5. /\ call' \in Requests /\ call'.op = "launch" /\ call'.x = x /\ call'.step = "launching"
  BY <1>1, <1>2 DEF Requests
<1>6. /\ NewPart \in Parts /\ NewPart # None /\ ~NewPart.stop /\ ~NewPart.sealed
  <2>1. NewPart \in Parts /\ ~NewPart.stop /\ ~NewPart.sealed
    BY DEF NewPart, Parts
  <2> QED BY <2>1 DEF GatewayAssumption
<1>7. parts \in [Keys -> Parts \cup {None}] /\ starts \in [Keys -> Nat]
  BY DEF Inv, Work, StageTypes
<1>8. /\ parts' \in [Keys -> Parts \cup {None}] /\ parts'[x] = NewPart
      /\ \A y \in Keys : y # x => parts'[y] = parts[y]
  BY <1>1, <1>2, <1>6, <1>7
<1>9. starts[x] = 0
  BY <1>2, <1>4 DEF Inv, Work, StageOK
<1> HIDE DEF x
<1>10. Control'
  <2>1. ControlTypes' /\ Peers'
    BY <1>1, <1>5 DEF Inv, Control, ControlTypes, Peers
  <2>2. Calling'
    BY <1>1, <1>2, <1>3, <1>5, <1>6, <1>8, <1>9 DEF Calling, Delivered
  <2>3. Managed'
    BY <1>1, <1>5 DEF Inv, Control, Managed, NoLaunch, PeerLives
  <2> QED BY <2>1, <2>2, <2>3 DEF Control
<1>11. Work'
  <2>1. StageTypes'
    BY <1>1, <1>2, <1>8 DEF Inv, Work, StageTypes
  <2>2. ASSUME NEW y \in Keys
        PROVE  StageOK(y)'
    <3>1. CASE y = x
      <4>1. unit[x] = "absent"
        BY <1>2, <1>9 DEF Inv, Work, StageOK
      <4>2. x[1] \in Nat /\ closed \in Nat
        BY <1>2 DEF Keys, Phases, Inv, Control, ControlTypes
      <4> QED BY <1>1, <1>4, <1>6, <1>8, <1>9, <3>1, <4>1, <4>2 DEF StageOK
    <3>2. CASE y # x
      BY <1>1, <1>8, <3>2 DEF Inv, Work, StageOK
    <3> QED BY <3>1, <3>2
  <2>3. InOrder'
    <3> SUFFICES ASSUME NEW p \in Phases, NEW s \in Stages, NEW t \in Stages, t < s,
                        parts'[<<p, s>>] # None
                 PROVE  parts'[<<p, t>>] # None /\ parts'[<<p, t>>].sealed
      BY DEF InOrder
    <3>1. <<p, s>> \in Keys /\ <<p, t>> \in Keys
      BY DEF Keys
    <3>2. parts[<<p, t>>] # None /\ parts[<<p, t>>].sealed
      <4>1. CASE <<p, s>> # x
        BY <1>8, <3>1, <4>1 DEF Inv, Work, InOrder
      <4>2. CASE <<p, s>> = x
        <5>1. x[1] = p /\ x[2] = s
          BY <4>2
        <5>2. /\ s - 1 \in Stages /\ s # 1 /\ (t < s - 1 \/ t = s - 1)
          BY DEF Stages, GatewayAssumption
        <5>3. parts[<<p, s - 1>>] # None /\ parts[<<p, s - 1>>].sealed
          BY <1>4, <5>1, <5>2 DEF Predecessor
        <5> QED BY <5>2, <5>3 DEF Inv, Work, InOrder
      <4> QED BY <4>1, <4>2
    <3>3. <<p, t>> # x
      BY <1>4, <3>2
    <3> QED BY <1>8, <3>1, <3>2, <3>3
  <2> QED BY <2>1, <2>2, <2>3 DEF Work
<1>12. FinishedIsQuiet' /\ ManagementOutlivesWriters'
  BY <1>1, QuietKept
<1> QED BY <1>10, <1>11, <1>12 DEF Inv

\* LaunchDeliver: the only delivery of the stage, under a pair that is not
\* finished and a session that is none of a recovery.
LEMMA LaunchDeliverInv ==
  ASSUME GatewayAssumption, Inv, LaunchDeliver
  PROVE  Inv'
<1> DEFINE x == call.x
           new == [parts[x] EXCEPT !.pipes = TRUE, !.held = TRUE]
<1>1. /\ call # None /\ gw.serving /\ call.step = "launching" /\ PeerLives /\ Answer
      /\ starts' = [starts EXCEPT ![x] = @ + 1]
      /\ unit' = [unit EXCEPT ![x] = IF Loaded(@) THEN @ ELSE "queued"]
      /\ client' = [client EXCEPT ![x] = "live"]
      /\ parts' = [parts EXCEPT ![x].pipes = TRUE, ![x].held = TRUE]
      /\ UNCHANGED <<task, process, gw, intents>>
  BY DEF LaunchDeliver, Time
<1>2. UNCHANGED <<svc, mgmt, auth, closed>>
  BY <1>1 DEF task
<1>3. /\ call \in Requests /\ x \in Keys /\ call.op = "launch" /\ parts[x] # None
      /\ starts[x] = 0 /\ ~gw.only /\ unit[x] = "absent"
  <2>1. call \in Requests /\ x \in Keys
    BY <1>1, HandledType DEF Requests
  <2>2. call.op = "launch" /\ parts[x] # None /\ starts[x] = 0 /\ ~gw.only
    BY <1>1 DEF Inv, Control, Calling, Delivered
  <2> QED BY <2>1, <2>2 DEF Inv, Work, StageOK
<1>4. StageTypes /\ parts[x] \in Parts
  BY <1>3 DEF Inv, Work, StageTypes
<1>5. new \in Parts /\ new.sealed = parts[x].sealed /\ new.stop = parts[x].stop
  BY <1>4 DEF Parts
<1>6. new # None
  BY <1>5 DEF GatewayAssumption
<1>7. ~parts[x].stop /\ ~parts[x].sealed
  BY <1>3, <1>4 DEF Inv, Work, StageOK, Parts
<1>8. /\ parts' = [parts EXCEPT ![x] = new] /\ starts' = [starts EXCEPT ![x] = 1]
      /\ unit' = [unit EXCEPT ![x] = "queued"]
  <2>1. parts' = [parts EXCEPT ![x] = new]
    BY <1>1, <1>4
  <2>2. starts' = [starts EXCEPT ![x] = 1]
    BY <1>1, <1>3
  <2>3. unit' = [unit EXCEPT ![x] = "queued"]
    <3>1. ~Loaded(unit[x])
      BY <1>3 DEF Loaded
    <3> QED BY <1>1, <3>1
  <2> QED BY <2>1, <2>2, <2>3
<1>9. Control'
  BY <1>1, <1>3, HandledType, AnswerKept, SessionKept DEF Inv, Control, Peers
<1> HIDE DEF x, new
<1>10. Work'
  <2>1. StageTypes'
    <3>1. parts' \in [Keys -> Parts \cup {None}] /\ starts' \in [Keys -> Nat]
      BY <1>3, <1>4, <1>5, <1>8 DEF StageTypes
    <3>2. unit' \in [Keys -> Units]
      BY <1>3, <1>4, <1>8 DEF StageTypes, Units
    <3>3. client' \in [Keys -> {"none", "live", "exited"}] /\ intents' \subseteq Keys
      BY <1>1, <1>3, <1>4 DEF StageTypes
    <3> QED BY <3>1, <3>2, <3>3 DEF StageTypes
  <2>2. ASSUME NEW y \in Keys
        PROVE  StageOK(y)'
    <3>1. CASE y = x
      BY <1>2, <1>3, <1>4, <1>5, <1>6, <1>7, <1>8, <3>1 DEF Inv, Work, StageTypes, StageOK
    <3>2. CASE y # x
      BY <1>1, <1>2, <1>4, <1>8, <3>2 DEF Inv, Work, StageTypes, StageOK
    <3> QED BY <3>1, <3>2
  <2>3. \A y \in Keys : /\ parts'[y] # None <=> parts[y] # None
                        /\ parts[y] # None => parts'[y].sealed = parts[y].sealed
    BY <1>3, <1>4, <1>5, <1>6, <1>8 DEF StageTypes
  <2>4. InOrder'
    BY <2>3 DEF Inv, Work, InOrder, Keys
  <2> QED BY <2>1, <2>2, <2>4 DEF Work
<1>11. FinishedIsQuiet'
  BY <1>1, <1>3 DEF Inv, Control, Peers, FinishedIsQuiet
<1>12. mgmt # "closed"
  <2>1. x[1] > closed /\ x[1] <= auth
    BY <1>3, <1>7 DEF Inv, Work, StageOK, Control, ControlTypes, Keys, Phases
  <2>2. closed # auth
    BY <1>3, <2>1 DEF Inv, Control, ControlTypes, Keys, Phases
  <2> QED BY <1>1, <1>3, <2>2 DEF Inv, Control, Managed, NoLaunch
<1>13. ManagementOutlivesWriters'
  BY <1>2, <1>12 DEF ManagementOutlivesWriters
<1> QED BY <1>9, <1>10, <1>11, <1>13 DEF Inv

\* Stop: the stage stays stopped, and its processes may only drain.
LEMMA StopInv ==
  ASSUME GatewayAssumption, Inv, Stop
  PROVE  Inv'
<1> DEFINE x == call.x
<1>1. /\ call # None /\ gw.serving /\ Answer /\ Loaded(unit[x])
      /\ UNCHANGED <<task, process, gw, client, starts, intents>>
  BY DEF Stop, Admitted, Handling
<1>2. UNCHANGED <<auth, closed, mgmt>>
  BY <1>1 DEF task
<1>3. /\ x \in Keys /\ parts[x] # None /\ parts[x] \in Parts /\ StageTypes /\ unit[x] \in Units
  <2>1. x \in Keys /\ parts[x] # None
    BY DEF Stop, Known, Delivered
  <2> QED BY <2>1 DEF Inv, Work, StageTypes
<1>4. PICK ok \in BOOLEAN, u \in {"gone", "failed", "draining"} :
        /\ u = "draining" => Populated(unit[x])
        /\ parts' = [parts EXCEPT ![x] = [Shown(x) EXCEPT !.stop = ok]]
        /\ unit' = IF ok THEN [unit EXCEPT ![x] = u] ELSE unit
  BY DEF Stop
<1> DEFINE new == [Shown(x) EXCEPT !.stop = ok]
<1>5. new \in Parts /\ new.sealed = parts[x].sealed /\ new.stop = ok
  <2>1. Shown(x) \in Parts /\ Shown(x).sealed = parts[x].sealed
    BY <1>3, ShownType
  <2> HIDE DEF Shown
  <2> QED BY <2>1 DEF Parts
<1>6. new # None /\ parts' = [parts EXCEPT ![x] = new]
  BY <1>4, <1>5 DEF GatewayAssumption
<1>7. Control'
  BY <1>1, HandledType, AnswerKept, SessionKept DEF Inv, Control, Peers
<1> HIDE DEF x, new
<1>8. /\ unit' \in [Keys -> Units] /\ unit'[x] = (IF ok THEN u ELSE unit[x])
      /\ \A y \in Keys : y # x => unit'[y] = unit[y]
  BY <1>3, <1>4 DEF StageTypes, Units
<1>9. /\ parts' \in [Keys -> Parts \cup {None}] /\ parts'[x] = new
      /\ \A y \in Keys : y # x => parts'[y] = parts[y]
  BY <1>3, <1>5, <1>6 DEF StageTypes
<1>10. Work'
  <2>1. StageTypes'
    BY <1>1, <1>3, <1>8, <1>9 DEF StageTypes
  <2>2. ASSUME NEW y \in Keys
        PROVE  StageOK(y)'
    <3>1. CASE y = x
      <4>1. StageOK(x) /\ starts[x] = 1
        BY <1>1, <1>3 DEF Inv, Work, StageOK, Loaded
      <4>2. parts[x].sealed => u # "draining"
        BY <1>3, <1>4, <4>1 DEF StageOK, Populated
      <4> QED BY <1>1, <1>2, <1>3, <1>5, <1>6, <1>8, <1>9, <3>1, <4>1, <4>2 DEF StageOK
    <3>2. CASE y # x
      BY <1>1, <1>2, <1>8, <1>9, <3>2 DEF Inv, Work, StageOK
    <3> QED BY <3>1, <3>2
  <2>3. \A y \in Keys : /\ parts'[y] # None <=> parts[y] # None
                        /\ parts[y] # None => parts'[y].sealed = parts[y].sealed
    BY <1>3, <1>5, <1>6, <1>9
  <2>4. InOrder'
    BY <2>3 DEF Inv, Work, InOrder, Keys
  <2> QED BY <2>1, <2>2, <2>4 DEF Work
<1>11. \A y \in Keys : Live(unit'[y]) => Live(unit[y])
  BY <1>4, <1>8 DEF Live, Populated
<1>12. FinishedIsQuiet' /\ ManagementOutlivesWriters'
  BY <1>1, <1>2, <1>11, QuietKept
<1> QED BY <1>7, <1>10, <1>12 DEF Inv

\* Seal: a stage that was stopped, with no process left and its client gone.
LEMMA SealInv ==
  ASSUME GatewayAssumption, Inv, Seal
  PROVE  Inv'
<1> DEFINE x == call.x
           new == [Shown(x) EXCEPT !.sealed = TRUE]
<1>1. /\ call # None /\ gw.serving /\ Answer /\ Exited(x)
      /\ parts' = [parts EXCEPT ![x] = new]
      /\ UNCHANGED <<task, process, gw, unit, client, starts, intents>>
  BY DEF Seal, Admitted, Handling, system
<1>2. UNCHANGED <<auth, closed, mgmt>>
  BY <1>1 DEF task
<1>3. /\ x \in Keys /\ parts[x] # None /\ parts[x] \in Parts /\ StageTypes
  <2>1. x \in Keys /\ parts[x] # None
    BY DEF Seal, Known, Delivered
  <2> QED BY <2>1 DEF Inv, Work, StageTypes
<1>4. new \in Parts /\ new.sealed /\ new.stop = parts[x].stop
  <2>1. Shown(x) \in Parts /\ Shown(x).stop = parts[x].stop
    BY <1>3, ShownType
  <2> HIDE DEF Shown
  <2> QED BY <2>1 DEF Parts
<1>5. new # None
  BY <1>4 DEF GatewayAssumption
<1>6. parts[x].stop /\ ~Populated(unit[x]) /\ client[x] = "exited"
  BY <1>1, <1>3 DEF Exited, ParentEmpty
<1>7. Control'
  BY <1>1, HandledType, AnswerKept, SessionKept DEF Inv, Control, Peers
<1> HIDE DEF x, new
<1>8. /\ parts' \in [Keys -> Parts \cup {None}] /\ parts'[x] = new
      /\ \A y \in Keys : y # x => parts'[y] = parts[y]
  BY <1>1, <1>3, <1>4, <1>5 DEF StageTypes
<1>9. Work'
  <2>1. StageTypes'
    BY <1>1, <1>3, <1>8 DEF StageTypes
  <2>2. ASSUME NEW y \in Keys
        PROVE  StageOK(y)'
    <3>1. CASE y = x
      <4>1. StageOK(x) /\ unit[x] \in {"gone", "failed"}
        BY <1>3, <1>6 DEF Inv, Work, StageOK, Populated
      <4> QED BY <1>1, <1>2, <1>3, <1>4, <1>5, <1>6, <1>8, <3>1, <4>1 DEF StageOK
    <3>2. CASE y # x
      BY <1>1, <1>2, <1>8, <3>2 DEF Inv, Work, StageOK
    <3> QED BY <3>1, <3>2
  <2>3. \A y \in Keys : /\ parts'[y] # None <=> parts[y] # None
                        /\ parts[y] # None /\ parts[y].sealed => parts'[y].sealed
    BY <1>3, <1>4, <1>5, <1>8
  <2>4. InOrder'
    BY <2>3 DEF Inv, Work, InOrder, Keys
  <2> QED BY <2>1, <2>2, <2>4 DEF Work
<1>10. FinishedIsQuiet' /\ ManagementOutlivesWriters'
  BY <1>1, <1>2, QuietKept
<1> QED BY <1>7, <1>9, <1>10 DEF Inv

\* A step of a unit or a client that starts nothing and changes no sealed or
\* stopped unit keeps what is known of the stages.
LEMMA SystemKept ==
  ASSUME Inv, UNCHANGED <<parts, intents, starts, auth, closed>>,
         unit' \in [Keys -> Units], client' \in [Keys -> {"none", "live", "exited"}],
         \A x \in Keys : /\ Live(unit'[x]) => Live(unit[x])
                         /\ unit[x] \in {"absent", "gone", "failed"} => unit'[x] = unit[x]
                         /\ unit[x] = "draining" => unit'[x] \in {"draining", "failed"}
                         /\ client[x] = "exited" => client'[x] = "exited"
  PROVE  Work'
<1>1. StageTypes'
  BY DEF Inv, Work, StageTypes
<1>2. \A x \in Keys : StageOK(x)'
  BY DEF Inv, Work, StageOK
<1>3. InOrder'
  BY DEF Inv, Work, InOrder
<1> QED BY <1>1, <1>2, <1>3 DEF Work

\* ClientStop: the systemd-run process of a stage is ended.
LEMMA ClientStopInv ==
  ASSUME Inv, ClientStop
  PROVE  Inv'
<1>1. /\ call # None /\ gw.serving /\ Answer /\ client' = [client EXCEPT ![call.x] = "exited"]
      /\ UNCHANGED <<task, process, gw, parts, unit, starts, intents>>
  BY DEF ClientStop, Admitted, Handling
<1>2. UNCHANGED <<auth, closed, mgmt>>
  BY <1>1 DEF task
<1>3. /\ client' \in [Keys -> {"none", "live", "exited"}]
      /\ \A x \in Keys : client[x] = "exited" => client'[x] = "exited"
  BY <1>1 DEF Inv, Work, StageTypes
<1>4. Control'
  BY <1>1, HandledType, AnswerKept, SessionKept DEF Inv, Control, Peers
<1>5. unit \in [Keys -> Units]
  BY DEF Inv, Work, StageTypes
<1>6. Work'
  <2>1. \A x \in Keys : /\ Live(unit'[x]) => Live(unit[x])
                        /\ unit[x] \in {"absent", "gone", "failed"} => unit'[x] = unit[x]
                        /\ unit[x] = "draining" => unit'[x] \in {"draining", "failed"}
    BY <1>1
  <2> QED BY <1>1, <1>2, <1>3, <1>5, <2>1, SystemKept
<1>7. FinishedIsQuiet' /\ ManagementOutlivesWriters'
  BY <1>1, <1>2, QuietKept
<1> QED BY <1>4, <1>6, <1>7 DEF Inv

\* The controller and its session do not see what systemd does.
LEMMA ControlKept ==
  ASSUME Inv, UNCHANGED <<task, process, gw, call, parts, starts>>
  PROVE  Control'
BY DEF Inv, Control, ControlTypes, Peers, Calling, Managed, NoLaunch, PeerLives, Delivered, task,
   process

\* UnitMoves: a queued unit starts late or never, an active one ends.
LEMMA UnitMovesInv ==
  ASSUME Inv, NEW x \in Keys, UnitMoves(x)
  PROVE  Inv'
<1>1. /\ UNCHANGED <<task, process, gw, call, parts, client, starts, intents>>
      /\ unit \in [Keys -> Units]
  BY DEF UnitMoves, Inv, Work, StageTypes
<1>2. UNCHANGED <<auth, closed, mgmt>>
  BY <1>1 DEF task
<1>3. PICK u \in Units : /\ unit' = [unit EXCEPT ![x] = u]
                         /\ Live(unit[x]) /\ (unit[x] = "draining" => u = "failed")
  BY DEF UnitMoves, Units, Live, Populated
<1>4. \A y \in Keys : /\ Live(unit'[y]) => Live(unit[y])
                      /\ unit[y] \in {"absent", "gone", "failed"} => unit'[y] = unit[y]
                      /\ unit[y] = "draining" => unit'[y] \in {"draining", "failed"}
  BY <1>1, <1>3 DEF Live, Populated
<1>5. unit' \in [Keys -> Units] /\ client' \in [Keys -> {"none", "live", "exited"}]
  BY <1>1, <1>3 DEF Inv, Work, StageTypes
<1>6. Control' /\ Work'
  BY <1>1, <1>2, <1>4, <1>5, SystemKept, ControlKept
<1>7. FinishedIsQuiet' /\ ManagementOutlivesWriters'
  BY <1>1, <1>2, <1>4, QuietKept
<1> QED BY <1>6, <1>7 DEF Inv

\* ClientExits: the client ends after its unit.
LEMMA ClientExitsInv ==
  ASSUME Inv, NEW x \in Keys, ClientExits(x)
  PROVE  Inv'
<1>1. /\ client' = [client EXCEPT ![x] = "exited"]
      /\ UNCHANGED <<task, process, gw, call, parts, unit, starts, intents>>
  BY DEF ClientExits
<1>2. UNCHANGED <<auth, closed, mgmt>>
  BY <1>1 DEF task
<1>3. /\ client' \in [Keys -> {"none", "live", "exited"}]
      /\ \A y \in Keys : client[y] = "exited" => client'[y] = "exited"
  BY <1>1 DEF Inv, Work, StageTypes
<1>4. unit' \in [Keys -> Units]
  BY <1>1 DEF Inv, Work, StageTypes
<1>5. \A y \in Keys : /\ Live(unit'[y]) => Live(unit[y])
                      /\ unit[y] \in {"absent", "gone", "failed"} => unit'[y] = unit[y]
                      /\ unit[y] = "draining" => unit'[y] \in {"draining", "failed"}
  BY <1>1
<1>6. Control' /\ Work'
  BY <1>1, <1>2, <1>3, <1>4, <1>5, SystemKept, ControlKept
<1>7. FinishedIsQuiet' /\ ManagementOutlivesWriters'
  BY <1>1, <1>2, <1>5, QuietKept
<1> QED BY <1>6, <1>7 DEF Inv

-----------------------------------------------------------------------------
(* The controller *)

\* AuthorizePhase: the next phase opens, and with it the management pair.
LEMMA AuthorizePhaseInv ==
  ASSUME GatewayAssumption, Inv, AuthorizePhase
  PROVE  Inv'
<1>1. /\ auth = closed /\ auth < NP /\ auth' = auth + 1 /\ mgmt' = "open" /\ svc = "run"
      /\ UNCHANGED <<svc, closed, journal, api, spawned, expired, gw, call, parts, intents, unit,
                    client, starts>>
  BY DEF AuthorizePhase, process, system
<1>2. auth \in Nat /\ closed \in Nat /\ NP \in Nat
  BY DEF Inv, Control, ControlTypes, GatewayAssumption
<1>3. Control'
  <2>1. ControlTypes'
    BY <1>1, <1>2 DEF Inv, Control, ControlTypes
  <2>2. Peers' /\ Calling'
    BY <1>1 DEF Inv, Control, Peers, Calling, Delivered
  <2>3. Managed'
    BY <1>1, <1>2 DEF Managed
  <2> QED BY <2>1, <2>2, <2>3 DEF Control
<1>4. Work'
  <2>1. StageTypes' /\ InOrder'
    BY <1>1 DEF Inv, Work, StageTypes, InOrder
  <2>2. \A x \in Keys : x[1] \in Nat
    BY DEF Keys, Phases
  <2>3. \A x \in Keys : StageOK(x)'
    BY <1>1, <1>2, <2>2 DEF Inv, Work, StageOK
  <2> QED BY <2>1, <2>3 DEF Work
<1>5. FinishedIsQuiet' /\ ManagementOutlivesWriters'
  <2>1. \A x \in Keys : Live(unit'[x]) => Live(unit[x])
    BY <1>1
  <2> QED BY <1>1, <2>1, QuietKept
<1> QED BY <1>3, <1>4, <1>5 DEF Inv

\* ClosePhase: every stage of the phase was sealed, so nothing of the task runs.
LEMMA ClosePhaseInv ==
  ASSUME GatewayAssumption, Inv, ClosePhase
  PROVE  Inv'
<1>1. /\ mgmt = "open" /\ closed' = closed + 1 /\ mgmt' = "closed"
      /\ \A s \in Stages : parts[<<auth, s>>] # None /\ parts[<<auth, s>>].sealed
      /\ UNCHANGED <<svc, auth, journal, api, spawned, expired, gw, call, parts, intents, unit,
                    client, starts>>
  BY DEF ClosePhase, process, system, Delivered
<1>2. auth \in Nat /\ closed \in Nat /\ auth = closed + 1
  BY <1>1 DEF Inv, Control, ControlTypes, Managed
<1>3. Control'
  <2>1. ControlTypes'
    BY <1>1, <1>2 DEF Inv, Control, ControlTypes
  <2>2. Peers' /\ Calling'
    BY <1>1 DEF Inv, Control, Peers, Calling, Delivered
  <2>3. Managed'
    BY <1>1, <1>2 DEF Managed, NoLaunch
  <2> QED BY <2>1, <2>2, <2>3 DEF Control
<1>4. \A x \in Keys : parts[x] # None => parts[x].sealed
  <2> SUFFICES ASSUME NEW x \in Keys, parts[x] # None
               PROVE  parts[x].sealed
    OBVIOUS
  <2>1. x[1] \in Nat /\ x[2] \in Stages /\ x = <<x[1], x[2]>>
    BY DEF Keys, Phases
  <2>2. x[1] <= auth /\ (x[1] <= closed => parts[x].sealed)
    BY DEF Inv, Work, StageOK
  <2>3. x[1] = auth => parts[x].sealed
    BY <1>1, <2>1
  <2> QED BY <1>2, <2>1, <2>2, <2>3
<1>5. Work'
  <2>1. StageTypes' /\ InOrder'
    BY <1>1 DEF Inv, Work, StageTypes, InOrder
  <2>2. \A x \in Keys : StageOK(x)'
    BY <1>1, <1>4 DEF Inv, Work, StageOK
  <2> QED BY <2>1, <2>2 DEF Work
<1>6. \A x \in Keys : ~Live(unit[x])
  BY <1>4, LiveUnsealed
<1>7. FinishedIsQuiet' /\ ManagementOutlivesWriters'
  BY <1>1, <1>6 DEF FinishedIsQuiet, ManagementOutlivesWriters, Live, Populated
<1> QED BY <1>3, <1>5, <1>7 DEF Inv

\* TaskStopped: the API of a cancelled task reports it terminal, with nothing of
\* it left and no request under way.
LEMMA TaskStoppedInv ==
  ASSUME Inv, TaskStopped
  PROVE  Inv'
<1>1. /\ svc = "run" /\ call = None /\ svc' = "reading" /\ mgmt' = "closed"
      /\ \A x \in Delivered : ~Live(unit[x])
      /\ UNCHANGED <<auth, closed, journal, api, spawned, expired, gw, call, parts, intents, unit,
                    client, starts>>
  BY DEF TaskStopped, process, system
<1>2. Control'
  <2>1. ControlTypes'
    BY <1>1 DEF Inv, Control, ControlTypes
  <2>2. Peers' /\ Calling'
    BY <1>1 DEF Inv, Control, Peers, Calling
  <2>3. Managed'
    BY <1>1 DEF Inv, Control, Managed, NoLaunch
  <2> QED BY <2>1, <2>2, <2>3 DEF Control
<1>3. Work'
  BY <1>1, WorkKept
<1>4. \A x \in Keys : ~Live(unit[x])
  BY <1>1, LiveUnsealed DEF Delivered
<1>5. FinishedIsQuiet' /\ ManagementOutlivesWriters'
  BY <1>1, <1>4 DEF FinishedIsQuiet, ManagementOutlivesWriters, Live, Populated
<1> QED BY <1>2, <1>3, <1>5 DEF Inv

\* ChainClosed, Interrupted, RecoverFails, RecoverAgain and StopApi only move
\* the controller; an API that reported a terminal task and may launch nothing
\* is dead when the controller goes on.
LEMMA ControllerMoves ==
  ASSUME Inv, ChainClosed \/ Interrupted \/ RecoverFails \/ RecoverAgain \/ StopApi
  PROVE  Inv'
<1>1. UNCHANGED <<auth, closed, journal, spawned, expired, gw, call, parts, intents, unit, client,
                  starts>>
  BY DEF ChainClosed, Interrupted, RecoverFails, RecoverAgain, StopApi, process, system
<1>2. /\ mgmt' \in {mgmt, "kept"} /\ api' \subseteq api
      /\ svc' \in {"run", "recover", "rebind", "recovering", "reading", "done", "failed"}
      /\ svc' \notin {"run", "rebind", "recovering"}
      /\ svc' = "reading" => svc = "run" /\ closed = NP
      /\ svc' = "recover" => svc \in {"run", "reading", "recovering"}
      /\ svc = "reading" => spawned \notin api'
  BY DEF ChainClosed, Interrupted, RecoverFails, RecoverAgain, StopApi, process, ApiDead
<1>3. ControlTypes' /\ Peers' /\ Calling'
  BY <1>1, <1>2 DEF Inv, Control, ControlTypes, Peers, Calling, Delivered
<1>4. Managed'
  <2>1. svc = "reading" => ~PeerLives'
    BY <1>1, <1>2 DEF Inv, Control, Peers, PeerLives
  <2>2. NoLaunch => NoLaunch'
    BY <1>1, <1>2, <2>1 DEF NoLaunch, PeerLives
  <2> QED BY <1>1, <1>2, <2>2 DEF Inv, Control, Managed
<1>5. Work' /\ \A x \in Keys : Live(unit'[x]) => Live(unit[x])
  BY <1>1, WorkKept
<1>6. FinishedIsQuiet' /\ ManagementOutlivesWriters'
  BY <1>1, <1>2, <1>5, QuietKept
<1> QED BY <1>3, <1>4, <1>5, <1>6 DEF Inv, Control

\* Recover: another API is spawned, the old session is over.
LEMMA RecoverInv ==
  ASSUME GatewayAssumption, Inv, Recover
  PROVE  Inv'
<1>1. /\ svc = "recover" /\ spawned \notin api /\ ~gw.serving /\ gw.rebinds < MaxRecoveries
      /\ spawned' = spawned + 1 /\ api' = api \cup {spawned + 1} /\ svc' = "rebind"
      /\ UNCHANGED <<mgmt, auth, closed, journal, expired, gw, call, parts, intents, unit, client,
                    starts>>
  BY DEF Recover, ApiDead, MayRecover, system
<1>2. spawned = gw.rebinds /\ api = {} /\ spawned \in Nat /\ gw.peer = spawned
  BY <1>1 DEF Inv, Control, ControlTypes, Peers
<1>3. ControlTypes'
  <2>1. gw.rebinds \in Nat /\ MaxRecoveries \in Nat
    BY <1>2 DEF GatewayAssumption
  <2> QED BY <1>1, <1>2, <2>1 DEF Inv, Control, ControlTypes
<1>4. Peers' /\ Calling'
  BY <1>1, <1>2 DEF Inv, Control, Peers, Calling, Delivered
<1>5. Managed'
  BY <1>1, <1>2 DEF Inv, Control, Managed, NoLaunch, PeerLives
<1>6. Work' /\ \A x \in Keys : Live(unit'[x]) => Live(unit[x])
  BY <1>1, WorkKept
<1>7. FinishedIsQuiet' /\ ManagementOutlivesWriters'
  BY <1>1, <1>6, QuietKept
<1> QED BY <1>3, <1>4, <1>5, <1>6, <1>7 DEF Inv, Control

\* Rebind gives up the clients of the old session, and nothing else.
LEMMA RebindParts ==
  ASSUME GatewayAssumption, Inv, Rebind
  PROVE  /\ parts' \in [Keys -> Parts \cup {None}]
         /\ \A x \in Keys : /\ parts'[x] # None <=> parts[x] # None
                            /\ parts[x] # None => /\ parts'[x].sealed = parts[x].sealed
                                                  /\ parts'[x].stop = parts[x].stop
<1>1. parts' = [x \in Keys |-> IF x \in Delivered THEN [parts[x] EXCEPT !.held = FALSE] ELSE None]
  BY DEF Rebind
<1>2. ASSUME NEW x \in Keys, parts[x] # None
      PROVE  /\ parts'[x] \in Parts /\ parts'[x].sealed = parts[x].sealed
             /\ parts'[x].stop = parts[x].stop
  <2>1. parts[x] \in Parts
    BY <1>2 DEF Inv, Work, StageTypes
  <2> QED BY <1>1, <1>2, <2>1 DEF Delivered, Parts
<1>3. ASSUME NEW x \in Keys, parts[x] = None
      PROVE  parts'[x] = None
  BY <1>1, <1>3 DEF Delivered
<1>4. parts' = [x \in Keys |-> parts'[x]]
  BY <1>1
<1> HIDE DEF Parts
<1> QED BY <1>2, <1>3, <1>4 DEF GatewayAssumption

\* Rebind: the new API may only observe and stop.
LEMMA RebindInv ==
  ASSUME GatewayAssumption, Inv, Rebind
  PROVE  Inv'
<1> DEFINE next == [gw EXCEPT !.peer = spawned, !.serving = TRUE, !.failure = "none", !.only = TRUE,
                              !.finished = FALSE, !.rebinds = @ + 1, !.retired = Retired, !.seq = 0]
<1>1. /\ svc = "rebind" /\ svc' = "recovering" /\ gw' = next
      /\ parts' = [x \in Keys |-> IF x \in Delivered THEN [parts[x] EXCEPT !.held = FALSE] ELSE None]
      /\ UNCHANGED <<mgmt, auth, closed, journal, api, spawned, expired, call, intents, unit, client,
                    starts>>
  BY DEF Rebind, process, system
<1>2. /\ gw \in Sessions /\ spawned \in Nat /\ spawned = gw.rebinds + 1 /\ call = None
  BY <1>1 DEF Inv, Control, ControlTypes, Peers, Calling
<1>3. /\ gw' \in Sessions /\ gw'.peer = spawned /\ gw'.serving /\ gw'.only /\ ~gw'.finished
      /\ gw'.rebinds = spawned
  <2>1. Retired \in Nat /\ "none" \in Reasons
    BY <1>2 DEF Retired, Sessions, Reasons
  <2> HIDE DEF Retired
  <2> QED BY <1>1, <1>2, <2>1 DEF Sessions
<1> HIDE DEF next
<1>4. Control'
  <2>1. ControlTypes'
    BY <1>1, <1>3 DEF Inv, Control, ControlTypes
  <2>2. Peers'
    BY <1>1, <1>3 DEF Inv, Control, Peers
  <2>3. Calling'
    BY <1>1, <1>2 DEF Calling
  <2>4. Managed'
    BY <1>1, <1>3 DEF Inv, Control, Managed, NoLaunch
  <2> QED BY <2>1, <2>2, <2>3, <2>4 DEF Control
<1>5. Work' /\ \A x \in Keys : Live(unit'[x]) => Live(unit[x])
  BY <1>1, RebindParts, PartsKept
<1>6. FinishedIsQuiet' /\ ManagementOutlivesWriters'
  BY <1>1, <1>3, <1>5, QuietKept
<1> QED BY <1>4, <1>5, <1>6 DEF Inv

\* Recovered: the interrupted pair is finished by a session that found
\* everything over.
LEMMA RecoveredInv ==
  ASSUME Inv, Recovered
  PROVE  Inv'
<1>1. /\ svc = "recovering" /\ gw.finished /\ svc' = "reading"
      /\ mgmt' = (IF mgmt = "kept" THEN "closed" ELSE mgmt)
      /\ UNCHANGED <<auth, closed, journal, api, spawned, expired, gw, call, parts, intents, unit,
                    client, starts>>
  BY DEF Recovered, process, system
<1>2. gw.only /\ \A x \in Keys : ~Live(unit[x])
  BY <1>1 DEF Inv, Control, Peers, FinishedIsQuiet
<1>3. ControlTypes' /\ Peers' /\ Calling'
  BY <1>1, <1>2 DEF Inv, Control, ControlTypes, Peers, Calling, Delivered
<1>4. Managed'
  BY <1>1, <1>2 DEF Inv, Control, Managed, NoLaunch
<1>5. Work'
  BY <1>1, WorkKept
<1>6. FinishedIsQuiet' /\ ManagementOutlivesWriters'
  BY <1>1, <1>2 DEF FinishedIsQuiet, ManagementOutlivesWriters, Live, Populated
<1> QED BY <1>3, <1>4, <1>5, <1>6 DEF Inv, Control

\* JournalMoves and Expire: the observer, the coordinator and the clock.
LEMMA OutsideInv ==
  ASSUME Inv, Expire \/ \E p \in Phases : JournalMoves(p)
  PROVE  Inv'
<1>1. UNCHANGED <<svc, mgmt, auth, closed, api, spawned, gw, call, parts, intents, unit, client,
                  starts>>
  BY DEF Expire, JournalMoves, task, process, system
<1>2. /\ expired' \in BOOLEAN
      /\ journal' \in [Phases -> {"READY", "RESULT", "CLOSED"}]
  BY DEF Expire, JournalMoves, task, process, Inv, Control, ControlTypes
<1>3. Control'
  BY <1>1, <1>2 DEF Inv, Control, ControlTypes, Peers, Calling, Managed, NoLaunch, PeerLives, Delivered
<1>4. Work' /\ \A x \in Keys : Live(unit'[x]) => Live(unit[x])
  BY <1>1, WorkKept
<1>5. FinishedIsQuiet' /\ ManagementOutlivesWriters'
  BY <1>1, <1>4, QuietKept
<1> QED BY <1>3, <1>4, <1>5 DEF Inv

-----------------------------------------------------------------------------
(* The invariant and what follows from it *)

\* A task begins with a living API, no phase and no stage.
LEMMA InitInv ==
  ASSUME GatewayAssumption, Init
  PROVE  Inv
<1>1. ControlTypes
  <2>1. gw \in Sessions /\ gw.rebinds = 0
    BY DEF Init, Sessions, Reasons
  <2>2. /\ journal \in [Phases -> {"READY", "RESULT", "CLOSED"}] /\ auth = 0 /\ closed = 0
        /\ spawned = 0 /\ expired \in BOOLEAN /\ call = None /\ svc = "run" /\ mgmt = "none"
    BY DEF Init
  <2> QED BY <2>1, <2>2 DEF ControlTypes, GatewayAssumption
<1>2. Peers /\ Calling /\ Managed
  BY DEF Init, Peers, Calling, Managed
<1>3. StageTypes
  BY DEF Init, StageTypes, Units
<1>4. (\A x \in Keys : StageOK(x)) /\ InOrder
  <2>1. \A x \in Keys : parts[x] = None /\ starts[x] = 0 /\ unit[x] = "absent"
    BY DEF Init
  <2>2. \A p \in Phases : \A s \in Stages : parts[<<p, s>>] = None
    BY <2>1 DEF Keys
  <2> QED BY <2>1, <2>2 DEF StageOK, InOrder
<1>5. FinishedIsQuiet /\ ManagementOutlivesWriters
  BY DEF Init, FinishedIsQuiet, ManagementOutlivesWriters
<1> QED BY <1>1, <1>2, <1>3, <1>4, <1>5 DEF Inv, Control, Work

\* Every step of the API, the gateway, the controller and systemd keeps it.
LEMMA StepInv ==
  ASSUME GatewayAssumption, Inv, [Next]_vars
  PROVE  Inv'
<1>1. CASE Gateway
  BY <1>1, LaunchIntentInv, LaunchDeliverInv, AnsweredInv, ObservedInv, StopInv, ControlPendsInv,
     ClientStopInv, SealInv, RecoveryFinishInv, EndedInv DEF Gateway
<1>2. CASE Controller
  BY <1>2, AuthorizePhaseInv, ClosePhaseInv, TaskStoppedInv, ControllerMoves, RecoverInv,
     RebindInv, RecoveredInv DEF Controller
<1>3. CASE \E op \in Ops, x \in Keys : Request(op, x)
  BY <1>3, RequestInv
<1>4. CASE \E g \in api : Crash(g)
  BY <1>4, CrashInv
<1>5. CASE \E x \in Keys : UnitMoves(x) \/ ClientExits(x)
  BY <1>5, UnitMovesInv, ClientExitsInv
<1>6. CASE Expire \/ \E p \in Phases : JournalMoves(p)
  BY <1>6, OutsideInv
<1>7. CASE UNCHANGED vars
  <2>1. UNCHANGED <<task, process, gw, call, parts, intents, unit, client, starts, auth, closed, mgmt>>
    BY <1>7 DEF vars, task, process
  <2>2. Control' /\ Work'
    BY <2>1, ControlKept, WorkKept
  <2>3. \A x \in Keys : Live(unit'[x]) => Live(unit[x])
    BY <2>1
  <2> QED BY <2>1, <2>2, <2>3, QuietKept DEF Inv
<1> QED BY <1>1, <1>2, <1>3, <1>4, <1>5, <1>6, <1>7 DEF Next

\* The invariant holds in every state of a task, over every death of its API.
THEOREM Invariance ==
  ASSUME GatewayAssumption
  PROVE  Spec => []Inv
<1>1. Init => Inv
  BY InitInv
<1>2. Inv /\ [Next]_vars => Inv'
  BY StepInv
<1> QED BY <1>1, <1>2, PTL DEF Spec

\* The phases, the parts, the session and its request keep their types; in
\* particular at most one phase more is authorized than is closed.
THEOREM TypeCorrect ==
  ASSUME GatewayAssumption
  PROVE  Spec => []TypeOK
<1>1. Inv => TypeOK
  <2> SUFFICES ASSUME Inv
               PROVE  TypeOK
    OBVIOUS
  <2>1. auth \in 0..NP /\ closed \in 0..auth
    BY DEF Inv, Control, ControlTypes, Managed, GatewayAssumption
  <2>2. spawned \in 0..MaxRecoveries /\ api \subseteq 0..spawned
    BY DEF Inv, Control, ControlTypes, Peers, GatewayAssumption
  <2>3. gw.failure \in Reasons /\ gw.peer \in 0..spawned
    BY DEF Inv, Control, ControlTypes, Peers, Sessions
  <2> QED BY <2>1, <2>2, <2>3 DEF TypeOK, Inv, Control, ControlTypes, Work, StageTypes, Units
<1> QED BY <1>1, Invariance, PTL

\* A stage's command is delivered to systemd at most once: not after a lost
\* answer, not after the API died, not by an API of a recovery (server.py,
\* _launch: the part is recorded before the delivery).
THEOREM DeliveredOnceHolds ==
  ASSUME GatewayAssumption
  PROVE  Spec => []DeliveredOnce
<1>1. Inv => DeliveredOnce
  BY DEF Inv, Work, StageOK, DeliveredOnce
<1> QED BY <1>1, Invariance, PTL

\* At most one stage of the task has processes, in whatever phase (server.py,
\* _predecessor): what runs is not sealed, and only one delivered stage is not.
THEOREM OneStageRunsHolds ==
  ASSUME GatewayAssumption
  PROVE  Spec => []OneStageRuns
<1>1. ASSUME Inv
      PROVE  OneStageRuns
  <2> DEFINE running == {x \in Keys : Populated(unit[x])}
  <2>1. \A x, y \in running : x = y
    BY <1>1, LiveUnsealed, OneUnsealed DEF Live
  <2>2. CASE running = {}
    BY <2>2, FS_EmptySet DEF OneStageRuns
  <2>3. CASE running # {}
    <3>1. PICK x \in running : running = {x}
      BY <2>1, <2>3
    <3>2. Cardinality(running) = 1
      BY <3>1, FS_Singleton
    <3> QED BY <3>2 DEF OneStageRuns
  <2> QED BY <2>2, <2>3
<1> QED BY <1>1, Invariance, PTL

\* A sealed stage is over, whatever is done later (server.py, _seal).
THEOREM SealedIsOverHolds ==
  ASSUME GatewayAssumption
  PROVE  Spec => []SealedIsOver
<1>1. Inv => SealedIsOver
  BY DEF Inv, Work, StageOK, SealedIsOver, Delivered, Live, Populated
<1> QED BY <1>1, Invariance, PTL

\* A recovery session that finished left no stage that runs or may still start
\* (server.py, recovery_finish).
THEOREM FinishedIsQuietHolds ==
  ASSUME GatewayAssumption
  PROVE  Spec => []FinishedIsQuiet
<1>1. Inv => FinishedIsQuiet
  BY DEF Inv
<1> QED BY <1>1, Invariance, PTL

\* The management pair of a phase is finished only when nothing of the task
\* runs or may still start, and nothing is launched afterwards
\* (task_service.py, run and finish_recovered_management).
THEOREM ManagementOutlivesWritersHolds ==
  ASSUME GatewayAssumption
  PROVE  Spec => []ManagementOutlivesWriters
<1>1. Inv => ManagementOutlivesWriters
  BY DEF Inv
<1> QED BY <1>1, Invariance, PTL

\* What the session of a recovery may do: no request of it launches or seals,
\* and the controller that serves it opens and closes no phase.
LEMMA StepObserves ==
  ASSUME GatewayAssumption, Inv, [Next]_vars
  PROVE  RecoveryOnlyObserves
<1> SUFFICES ASSUME gw.only
             PROVE  /\ starts' = starts /\ auth' = auth /\ closed' = closed
                    /\ \A x \in Delivered : parts'[x].sealed = parts[x].sealed
  BY DEF RecoveryOnlyObserves
<1>1. svc # "run" /\ mgmt \in {"none", "open", "kept", "closed"}
  BY DEF Inv, Control, ControlTypes, Peers
<1>2. ~LaunchDeliver /\ ~LaunchIntent /\ ~Seal /\ ~AuthorizePhase /\ ~ClosePhase
  <2>1. ~LaunchDeliver
    BY DEF LaunchDeliver, Inv, Control, Calling
  <2>2. ~LaunchIntent /\ ~Seal
    BY DEF LaunchIntent, Seal, Admitted, RecoveryOps
  <2> QED BY <1>1, <2>1, <2>2 DEF AuthorizePhase, ClosePhase
<1>3. starts' = starts /\ auth' = auth /\ closed' = closed
  BY <1>2 DEF Next, vars, Gateway, Controller, Request, Crash, LaunchLost, Observe,
     ObserveUndelivered, Inventory, Stop, ControlPends, ClientStop, RecoveryFinish, Contradicted,
     Refused, Respond, RespondError, PeerGone, ServeComplete, ChainClosed, TaskStopped,
     Interrupted, Recover, Rebind, RecoverFails, RecoverAgain, Recovered, StopApi, UnitMoves,
     ClientExits, JournalMoves, Expire, task, system
<1>4. CASE Observe \/ Inventory
  BY <1>3, <1>4, ObservedParts DEF Delivered
<1>5. CASE Rebind
  BY <1>3, <1>5, RebindParts DEF Delivered
<1>6. CASE Stop
  <2>1. call.x \in Keys /\ parts[call.x] # None /\ parts \in [Keys -> Parts \cup {None}]
    BY <1>6 DEF Stop, Known, Delivered, Inv, Work, StageTypes
  <2>2. PICK ok \in BOOLEAN : parts' = [parts EXCEPT ![call.x] = [Shown(call.x) EXCEPT !.stop = ok]]
    BY <1>6 DEF Stop
  <2>3. Shown(call.x) \in Parts /\ Shown(call.x).sealed = parts[call.x].sealed
    BY <2>1, ShownType
  <2>4. [Shown(call.x) EXCEPT !.stop = ok].sealed = parts[call.x].sealed
    <3> HIDE DEF Shown
    <3> QED BY <2>3 DEF Parts
  <2> QED BY <1>3, <2>1, <2>2, <2>4 DEF Delivered
<1>7. CASE ~(Observe \/ Inventory \/ Rebind \/ Stop)
  <2>1. UNCHANGED parts
    BY <1>2, <1>7 DEF Next, vars, Gateway, Controller, Request, Crash, LaunchLost,
     ObserveUndelivered, ControlPends, ClientStop, RecoveryFinish, Contradicted,
     Refused, Respond, RespondError, PeerGone, ServeComplete, ChainClosed, TaskStopped,
     Interrupted, Recover, RecoverFails, RecoverAgain, Recovered, StopApi, UnitMoves,
     ClientExits, JournalMoves, Expire
  <2> QED BY <1>3, <2>1
<1> QED BY <1>4, <1>5, <1>6, <1>7

\* A rebound session starts nothing, seals nothing, and the phases stay as they
\* were (server.py, dispatch: the operations of a recovery_only session).
THEOREM RecoveryOnlyObservesHolds ==
  ASSUME GatewayAssumption
  PROVE  Spec => [][RecoveryOnlyObserves]_vars
<1>1. Inv /\ [Next]_vars => [RecoveryOnlyObserves]_vars
  BY StepObserves
<1> QED BY <1>1, Invariance, PTL DEF Spec

\* Over lost answers, deaths of the API and recoveries, server.py delivers each
\* command once, runs one stage at a time, and seals, finishes and closes only
\* what is over.
THEOREM GatewaySafetyHolds ==
  ASSUME GatewayAssumption
  PROVE  Spec => []GatewaySafety
<1>1. TypeOK /\ DeliveredOnce /\ OneStageRuns /\ SealedIsOver /\ FinishedIsQuiet
        /\ ManagementOutlivesWriters => GatewaySafety
  BY DEF GatewaySafety
<1> QED BY <1>1, TypeCorrect, DeliveredOnceHolds, OneStageRunsHolds,
           SealedIsOverHolds, FinishedIsQuietHolds, ManagementOutlivesWritersHolds, PTL
=============================================================================
