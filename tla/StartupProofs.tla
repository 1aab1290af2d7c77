---------------------------- MODULE StartupProofs ----------------------------
(***************************************************************************)
(* The admission of started services is safe for every set of components,  *)
(* every order of the start steps and all bounds.                          *)
(*                                                                         *)
(* The argument.  While a handshake can still succeed the manager holds    *)
(* the admission lock for that peer, so the selection it offered is the    *)
(* one in force; a peer whose handshake was given up may still bind, but   *)
(* nothing acknowledges it.  So whatever serves is of the deployment that  *)
(* the selection names.  The operation may change that deployment only     *)
(* from a blocked selection over components that were all stopped since,   *)
(* and a blocked selection lets none of them come back.                    *)
(***************************************************************************)
EXTENDS Startup, FiniteSetTheorems, TLAPS

\* The manager holds the admission lock for peer c.
Held(c) == conn[c].stage \in {"admitted", "bound"}

\* Component c cannot come to serve without a new admission.
Quiet(c) == proc[c].at \in {"down", "loaded"} /\ conn[c].stage \in {"none", "asked", "closed"}

\* While the lock is held a complete selection is in force, and the manager
\* holds it for itself exactly from its admission to its bind.
LockInv ==
  /\ lock # NoOne => VerifyMembers(selection) /\ selection.mode # "blocked"
  /\ proc["manager"].at = "admitted" <=> lock = "manager"
  /\ lock = "manager" => selection.deployment = proc["manager"].loaded

\* The two ends of an admission: how far the peer can be at each stage of its
\* connection, and what it may rely on there.
PeerInv ==
  \A c \in Remote :
    LET at == proc[c].at
        stage == conn[c].stage
        mode == conn[c].mode IN
    /\ Held(c) => lock = c /\ offer[c] = selection.deployment
    /\ at = "down" => stage = "none"
    /\ at = "loaded" => stage \in {"none", "asked", "admitted", "closed"}
    /\ at = "admitted" => stage \in {"admitted", "closed"} /\ proc[c].loaded = offer[c]
    /\ at = "bound" => stage \in {"bound", "acked", "closed"}
    /\ stage # "none" => (mode = "public" <=> at = "serving")
    /\ at = "bound" /\ stage \in {"bound", "acked"} => bound[c]
    /\ at = "bound" /\ stage = "acked" => proc[c].loaded = selection.deployment

\* The same for the public port of the gateway: while the manager holds the
\* lock for it, the selection is stable and released.
RelayInv ==
  /\ \A c \in Remote : LET stage == conn[c].stage IN
       /\ conn[c].mode = "public" /\ stage # "none" => c = "gateway" /\ relay.step # "idle"
       /\ conn[c].mode = "public" /\ Held(c) => Released
       /\ c = "gateway" =>
            /\ relay.step # "idle" => conn[c].mode = "public"
            /\ relay.step = "asking" => stage \in {"asked", "admitted", "closed"}
            /\ relay.step = "admitted" => stage \in {"admitted", "closed"} /\ proc[c].loaded = offer[c]
            /\ relay.step = "bound" => stage \in {"bound", "acked", "closed"}
            /\ relay.step = "bound" /\ stage \in {"bound", "acked"} => relay.fresh
  /\ relay.allowed => relay.released

\* What serves was bound in order and is of the deployment the selection names,
\* which a blocked selection still does.
ServeInv ==
  \A c \in Components :
    proc[c].at = "serving" => bound[c] /\ proc[c].loaded = selection.deployment

\* The operation is about to publish something.
Publishing == coord.pc \in {"intended", "publish"}

\* The operation blocks before it stops, stops everything before it replaces
\* a file, and starts only what it wants.
CoordInv ==
  /\ coord.pc \in {"idle", "closed"} \/ (Publishing /\ coord.desired.mode = "blocked")
       => coord.stopped = {}
  /\ Publishing =>
       /\ coord.desired.mode = "blocked" => coord.desired.deployment = selection.deployment
       /\ coord.desired.mode # "blocked" => coord.desired.deployment = coord.want
       /\ coord.desired.mode = "candidate" => coord.attempt < MaxAttempts
  /\ coord.pc \in {"stopping", "files"} => selection.mode = "blocked"
  /\ coord.pc = "stopping" => \A c \in coord.stopped : Quiet(c)
  /\ coord.pc = "files" => \A c \in Components : Quiet(c)
  /\ coord.pc \in {"start", "starting", "decided", "published"}
       \/ (Publishing /\ coord.desired.mode # "blocked") =>
         IF selection.mode = "blocked" THEN \A c \in Components : Quiet(c)
                                       ELSE selection.deployment = coord.want

\* A permit admits the instance that claims it.
PermitInv ==
  \A c \in Components :
    /\ admitted[c] \subseteq {selection.claims[c]} \ {0}
    /\ proc[c].at # "down" => proc[c].instance # 0

IInv == TypeOK /\ LockInv /\ PeerInv /\ RelayInv /\ ServeInv /\ CoordInv /\ PermitInv

-----------------------------------------------------------------------------
(* Facts the steps share *)

LEMMA Parts ==
  ASSUME StartupAssumption
  PROVE  /\ "manager" \in Components /\ Remote \subseteq Components
         /\ \A c \in Remote : c \in {"mcp", "gateway"}
         /\ \A c \in Components : c \in {"manager", "mcp", "gateway"} /\ c # NoOne
BY DEF StartupAssumption, Components, NoOne

LEMMA DescriptorTypes ==
  ASSUME StartupAssumption, TypeOK
  PROVE  /\ Nothing \in Selections
         /\ \A s \in Selections : Blocked(s) \in Selections
         /\ \A d \in Versions, e \in {"base", "new"} : Stable(d, e) \in Selections
         /\ \A c \in Components : Claimed(c) \in Selections
<1>1. 0 \in 0..MaxInstances /\ 0 \in 0..MaxAttempts /\ 0 \in 0..MaxBoots
  BY DEF StartupAssumption
<1>2. \A s \in Selections : Blocked(s) \in Selections
  BY <1>1 DEF Blocked, Selections
<1>3. \A d \in Versions, e \in {"base", "new"} : Stable(d, e) \in Selections
  BY <1>1 DEF Stable, Selections
<1>4. Nothing \in Selections
  BY <1>3 DEF Nothing, Versions
<1>5. \A c \in Components : Claimed(c) \in Selections
  BY DEF TypeOK, Processes, Claimed, Selections
<1> QED  BY <1>2, <1>3, <1>4, <1>5

\* A claim changes nothing of a descriptor but the claims.
LEMMA ClaimKeeps ==
  ASSUME TypeOK, NEW c \in Components
  PROVE  /\ Claimed(c).mode = selection.mode /\ Claimed(c).deployment = selection.deployment
         /\ Claimed(c).decision = selection.decision
         /\ selection.mode # "candidate" => Claimed(c) = selection
         /\ selection.mode = "candidate" => Claimed(c).claims[c] = proc[c].instance
         /\ \A b \in Components \ {c} : Claimed(c).claims[b] = selection.claims[b]
BY DEF TypeOK, Claimed, Selections

\* A step of the operation alone leaves every other part as it is.
LEMMA OperationAlone ==
  ASSUME IInv, UNCHANGED <<gate, lock, selection, files, boot, services>>,
         coord' \in OperationStates, CoordInv'
  PROVE  IInv'
<1>1. TypeOK'  BY DEF IInv, TypeOK, services
<1>2. LockInv'  BY DEF IInv, LockInv, VerifyMembers, services
<1>3. PeerInv'  BY DEF IInv, PeerInv, Held, services
<1>4. RelayInv'  BY DEF IInv, RelayInv, Held, Released, services
<1>5. ServeInv'  BY DEF IInv, ServeInv, services
<1>6. PermitInv'  BY DEF IInv, PermitInv, services
<1> QED  BY <1>1, <1>2, <1>3, <1>4, <1>5, <1>6 DEF IInv

\* A step that is not the operation's keeps the deployment in force and, while
\* the selection is blocked, what is quiet.
LEMMA OperationWaits ==
  ASSUME CoordInv, coord' = coord, selection'.mode = selection.mode,
         selection'.deployment = selection.deployment,
         selection.mode = "blocked" => \A c \in Components : Quiet(c) => Quiet(c)',
         coord.stopped \subseteq Components
  PROVE  CoordInv'
BY DEF CoordInv, Publishing

LEMMA ShutType ==
  ASSUME TypeOK
  PROVE  /\ Shut \in Relays
         /\ Shut.step = "idle" /\ ~ Shut.allowed
BY DEF TypeOK, Relays, Shut

\* A process moves to another state, a connection to another stage.
LEMMA MovesTo ==
  ASSUME TypeOK, NEW c \in Components,
         NEW to \in {"down", "loaded", "admitted", "bound", "serving"},
         proc' = [proc EXCEPT ![c].at = to]
  PROVE  /\ proc' \in Processes
         /\ proc'[c].at = to /\ proc'[c].loaded = proc[c].loaded
         /\ proc'[c].instance = proc[c].instance
         /\ \A b \in Components \ {c} : proc'[b] = proc[b]
<1>1. proc \in Processes  BY DEF TypeOK
<1> QED  BY <1>1 DEF Processes

LEMMA StageBecomes ==
  ASSUME TypeOK, NEW c \in Components, NEW to \in Stages, conn' = [conn EXCEPT ![c].stage = to]
  PROVE  /\ conn' \in Connections
         /\ conn'[c].stage = to /\ conn'[c].mode = conn[c].mode
         /\ \A b \in Components \ {c} : conn'[b] = conn[b]
<1>1. conn \in Connections  BY DEF TypeOK
<1> QED  BY <1>1 DEF Connections

LEMMA InitInv == ASSUME StartupAssumption, Init PROVE IInv
<1>1. TypeOK
  <2>1. 0 \in 0..MaxInstances /\ 0 \in 0..MaxAttempts /\ 1 \in 1..MaxBoots
    BY DEF StartupAssumption
  <2>2. Stable("source", "base") \in Selections
    BY DEF StartupAssumption, Stable, Selections, Versions
  <2> QED
    BY <2>1, <2>2, Parts
      DEF Init, TypeOK, Processes, Connections, Relays, Versions, OperationStates, Nothing, Stages
<1>2. LockInv  BY Parts DEF Init, LockInv
<1>3. PeerInv  BY Parts DEF Init, PeerInv, Held
<1>4. RelayInv  BY Parts DEF Init, RelayInv, Held
<1>5. ServeInv  BY DEF Init, ServeInv
<1>6. CoordInv  BY DEF Init, CoordInv, Publishing
<1>7. PermitInv  BY DEF Init, PermitInv
<1> QED  BY <1>1, <1>2, <1>3, <1>4, <1>5, <1>6, <1>7 DEF IInv

-----------------------------------------------------------------------------
(* The operation *)

LEMMA IntendStep ==
  ASSUME StartupAssumption, IInv, NEW s \in Selections, NEW from, Intend(s, from),
         \/ from = "closed" /\ s.mode = "blocked" /\ s.deployment = selection.deployment
         \/ /\ from \in {"start", "decided"} /\ s.mode # "blocked" /\ s.deployment = coord.want
            /\ s.mode = "candidate" => coord.attempt < MaxAttempts
  PROVE  IInv'
<1>1. coord' \in OperationStates  BY DEF IInv, Intend, TypeOK, OperationStates
<1>2. CoordInv'
  BY DEF IInv, Intend, TypeOK, OperationStates, CoordInv, Publishing, Quiet, services
<1> QED  BY <1>1, <1>2, OperationAlone DEF Intend

LEMMA BlockStep == ASSUME StartupAssumption, IInv, BlockStartup PROVE IInv'
<1>1. selection \in Selections /\ TypeOK  BY DEF IInv, TypeOK
<1>2. Blocked(selection).mode = "blocked" /\ Blocked(selection).deployment = selection.deployment
  BY <1>1 DEF Blocked, Selections
<1> QED  BY <1>1, <1>2, DescriptorTypes, IntendStep DEF BlockStartup

LEMMA CandidateStepKeeps == ASSUME StartupAssumption, IInv, CandidateStep PROVE IInv'
<1> DEFINE c == Order[coord.next]
           kept == selection.mode = "candidate" /\ selection.boot = boot
           s == [mode |-> "candidate", deployment |-> coord.want, decision |-> NoOne,
                 attempt |-> coord.attempt + 1, boot |-> boot,
                 claims |-> [b \in Components |-> IF kept /\ b # c THEN selection.claims[b] ELSE 0]]
<1>1. coord.attempt < MaxAttempts /\ Intend(s, "start")
  BY DEF CandidateStep, CandidateStartup
<1>2. s \in Selections
  <2>1. 0 \in 0..MaxInstances  BY DEF StartupAssumption
  <2>2. coord.attempt + 1 \in 0..MaxAttempts /\ boot \in 0..MaxBoots
    BY <1>1 DEF StartupAssumption, IInv, TypeOK, OperationStates
  <2> QED  BY <2>1, <2>2 DEF IInv, TypeOK, OperationStates, Selections
<1> HIDE DEF s
<1>3. s.mode = "candidate" /\ s.deployment = coord.want  BY DEF s
<1> QED  BY <1>1, <1>2, <1>3, IntendStep

LEMMA StableStep == ASSUME StartupAssumption, IInv, PublishStable PROVE IInv'
<1>1. TypeOK /\ coord.want \in Versions  BY DEF IInv, TypeOK, OperationStates
<1>2. Stable(coord.want, "new").mode = "stable" /\ Stable(coord.want, "new").deployment = coord.want
  BY DEF Stable
<1> QED  BY <1>1, <1>2, DescriptorTypes, IntendStep DEF PublishStable

LEMMA PublishReadStep == ASSUME StartupAssumption, IInv, PublishRead PROVE IInv'
<1>1. coord' \in OperationStates  BY DEF IInv, PublishRead, TypeOK, OperationStates
<1>2. CoordInv'
  BY DEF IInv, PublishRead, TypeOK, OperationStates, CoordInv, Publishing, Quiet, services
<1> QED  BY <1>1, <1>2, OperationAlone DEF PublishRead

\* A descriptor that was not published leaves the operation where it was.
LEMMA SettledBefore ==
  ASSUME StartupAssumption, IInv, Publishing, coord' = Settled(Before), UNCHANGED selection,
         \A c \in Components : Quiet(c) => Quiet(c)'
  PROVE  coord' \in OperationStates /\ CoordInv'
<1>1. coord.desired.mode \in {"blocked", "candidate", "stable"}
  BY DEF IInv, TypeOK, OperationStates, Selections
<1>2. Nothing \in Selections /\ Nothing.mode = "stable"
  BY DescriptorTypes DEF IInv, Nothing, Stable
<1>3. coord.desired.mode = "candidate" => coord.attempt + 1 \in 0..MaxAttempts
  BY DEF StartupAssumption, IInv, CoordInv, TypeOK, OperationStates
<1>4. coord' \in OperationStates
  <2>1. coord \in OperationStates /\ Before[coord.desired.mode] \in {"closed", "start", "decided"}
    BY <1>1 DEF IInv, TypeOK, Before
  <2>2. coord' = [coord EXCEPT !.pc = Before[coord.desired.mode], !.desired = Nothing,
                    !.expected = Nothing, !.attempt =
                      IF coord.desired.mode = "candidate" THEN coord.attempt + 1 ELSE coord.attempt]
    BY DEF Settled
  <2> QED  BY <1>2, <1>3, <2>1, <2>2 DEF OperationStates
<1>5. CoordInv'
  BY <1>1, <1>2 DEF IInv, TypeOK, OperationStates, CoordInv, Publishing, Settled, Before
<1> QED  BY <1>4, <1>5

LEMMA CommandDiesStep == ASSUME StartupAssumption, IInv, CommandDies PROVE IInv'
<1>1. \A c \in Components : Quiet(c) => Quiet(c)'  BY DEF CommandDies, Quiet, services
<1> QED  BY <1>1, SettledBefore, OperationAlone DEF CommandDies, Publishing

LEMMA FilesDoneStep == ASSUME StartupAssumption, IInv, FilesDone PROVE IInv'
<1>1. coord' \in OperationStates  BY DEF IInv, FilesDone, TypeOK, OperationStates
<1>2. CoordInv'
  BY DEF IInv, FilesDone, TypeOK, OperationStates, CoordInv, Publishing, Quiet, services
<1> QED  BY <1>1, <1>2, OperationAlone DEF FilesDone

LEMMA StepVerifiedStep == ASSUME StartupAssumption, IInv, StepVerified PROVE IInv'
<1>1. coord' \in OperationStates
  <2>1. coord.next + 1 \in Nat  BY DEF IInv, TypeOK, OperationStates
  <2> QED  BY <2>1 DEF IInv, StepVerified, TypeOK, OperationStates
<1>2. CoordInv'
  BY DEF IInv, StepVerified, TypeOK, OperationStates, CoordInv, Publishing, Quiet, services
<1> QED  BY <1>1, <1>2, OperationAlone DEF StepVerified

LEMMA StepClosedStep == ASSUME StartupAssumption, IInv, StepClosed PROVE IInv'
<1>1. coord' \in OperationStates  BY DEF IInv, StepClosed, TypeOK, OperationStates
<1>2. CoordInv'
  BY DEF IInv, StepClosed, TypeOK, OperationStates, CoordInv, Publishing, Quiet, services
<1> QED  BY <1>1, <1>2, OperationAlone DEF StepClosed

LEMMA CheckLocalStep == ASSUME StartupAssumption, IInv, CheckLocal PROVE IInv'
<1>1. coord' \in OperationStates  BY DEF IInv, CheckLocal, TypeOK, OperationStates
<1>2. CoordInv'
  BY DEF IInv, CheckLocal, TypeOK, OperationStates, CoordInv, Publishing, Quiet, services
<1> QED  BY <1>1, <1>2, OperationAlone DEF CheckLocal

LEMMA RollbackStep == ASSUME StartupAssumption, IInv, Rollback PROVE IInv'
<1>1. coord' \in OperationStates  BY DEF IInv, Rollback, TypeOK, OperationStates, Versions
<1>2. CoordInv'
  BY DEF IInv, Rollback, TypeOK, OperationStates, CoordInv, Publishing, Quiet, services
<1> QED  BY <1>1, <1>2, OperationAlone DEF Rollback

LEMMA PublishStep == ASSUME StartupAssumption, IInv, Publish PROVE IInv'
<1> DEFINE d == coord.desired
           ok == /\ MayPublish(d)
                 /\ \/ selection = d
                    \/ selection = coord.expected /\ (d.mode # "blocked" => VerifyMembers(d))
<1>1. CASE ~ ok
  <2>1. UNCHANGED <<gate, lock, selection, files, boot, services>> /\ coord' = Settled(Before)
    BY <1>1 DEF Publish, services
  <2>2. \A c \in Components : Quiet(c) => Quiet(c)'  BY <2>1 DEF Quiet, services
  <2> QED  BY <2>1, <2>2, SettledBefore, OperationAlone DEF Publish, Publishing
<1>2. CASE ok
  <2>1. /\ lock = NoOne /\ coord.pc = "publish" /\ selection' = d /\ coord' = Settled(After)
        /\ admitted' = [c \in Components |-> {}]
        /\ UNCHANGED <<gate, lock, files, boot, proc, conn, offer, relay, bound>>
    BY <1>2 DEF Publish
  <2>2. d \in Selections /\ d.mode \in {"blocked", "candidate", "stable"}
    BY DEF IInv, TypeOK, OperationStates, Selections
  <2>3. \A c \in Components : ~ Quiet(c) => d.deployment = selection.deployment
    BY <2>1, <2>2 DEF IInv, CoordInv, Publishing
  <2>4. coord' \in OperationStates
    <3>1. coord \in OperationStates /\ After[d.mode] \in {"stopping", "starting", "published"}
      BY <2>2 DEF IInv, TypeOK, After
    <3>2. d.mode = "candidate" => coord.attempt + 1 \in 0..MaxAttempts
      BY <2>1 DEF StartupAssumption, IInv, CoordInv, Publishing, TypeOK, OperationStates
    <3>3. Nothing \in Selections  BY DescriptorTypes DEF IInv
    <3>4. coord' = [coord EXCEPT !.pc = After[d.mode], !.desired = Nothing,
                      !.expected = Nothing, !.attempt =
                        IF d.mode = "candidate" THEN coord.attempt + 1 ELSE coord.attempt]
      BY <2>1 DEF Settled
    <3> QED  BY <3>1, <3>2, <3>3, <3>4 DEF OperationStates
  <2>5. TypeOK'  BY <2>1, <2>2, <2>4 DEF IInv, TypeOK
  <2>6. LockInv'  BY <2>1, Parts DEF IInv, LockInv
  <2>7. PeerInv'  BY <2>1, <2>3, Parts DEF IInv, PeerInv, Held, Quiet
  <2>8. RelayInv'  BY <2>1, Parts DEF IInv, PeerInv, RelayInv, Held
  <2>9. ServeInv'  BY <2>1, <2>3 DEF IInv, ServeInv, Quiet
  <2>10. CoordInv'
    BY <2>1, <2>2 DEF IInv, TypeOK, OperationStates, CoordInv, Publishing, Settled, After
  <2>11. PermitInv'  BY <2>1 DEF IInv, PermitInv
  <2> QED  BY <2>5, <2>6, <2>7, <2>8, <2>9, <2>10, <2>11 DEF IInv
<1> QED  BY <1>1, <1>2

LEMMA CloseStep == ASSUME StartupAssumption, IInv, Close PROVE IInv'
<1> USE DEF Close, services
<1>1. TypeOK'  BY DEF IInv, TypeOK, OperationStates
<1>2. LockInv'  BY DEF IInv, LockInv, VerifyMembers
<1>3. PeerInv'  BY DEF IInv, PeerInv, Held
<1>4. RelayInv'  BY Parts DEF IInv, PeerInv, RelayInv, Held
<1>5. ServeInv'  BY DEF IInv, ServeInv
<1>6. CoordInv'  BY DEF IInv, TypeOK, OperationStates, CoordInv, Publishing, Quiet
<1>7. PermitInv'  BY DEF IInv, PermitInv
<1> QED  BY <1>1, <1>2, <1>3, <1>4, <1>5, <1>6, <1>7 DEF IInv

LEMMA ReleaseStep == ASSUME StartupAssumption, IInv, Release PROVE IInv'
<1> USE DEF Release, services
<1>1. TypeOK'  BY DEF IInv, TypeOK, OperationStates
<1>2. LockInv'  BY DEF IInv, LockInv, VerifyMembers
<1>3. PeerInv'  BY DEF IInv, PeerInv, Held
<1>4. RelayInv'  BY Parts DEF IInv, PeerInv, RelayInv, Held
<1>5. ServeInv'  BY DEF IInv, ServeInv
<1>6. CoordInv'  BY DEF IInv, TypeOK, OperationStates, CoordInv, Publishing, Quiet
<1>7. PermitInv'  BY DEF IInv, PermitInv
<1> QED  BY <1>1, <1>2, <1>3, <1>4, <1>5, <1>6, <1>7 DEF IInv

LEMMA ReplaceFileStep ==
  ASSUME StartupAssumption, IInv, NEW c \in Components, ReplaceFile(c)
  PROVE  IInv'
<1> USE DEF ReplaceFile, services
<1>1. TypeOK'  BY DEF IInv, TypeOK, OperationStates
<1>2. LockInv'  BY DEF IInv, LockInv, CoordInv
<1>3. PeerInv'  BY DEF IInv, PeerInv, Held
<1>4. RelayInv'  BY DEF IInv, RelayInv, Held, Released
<1>5. ServeInv'  BY DEF IInv, ServeInv
<1>6. CoordInv'  BY DEF IInv, CoordInv, Publishing, Quiet
<1>7. PermitInv'  BY DEF IInv, PermitInv
<1> QED  BY <1>1, <1>2, <1>3, <1>4, <1>5, <1>6, <1>7 DEF IInv

\* The end of a process, whatever ends it.
LEMMA EndsKeeps ==
  ASSUME StartupAssumption, IInv, NEW c \in Components, Ends(c),
         UNCHANGED <<gate, selection, files, boot, offer, bound, admitted>>
  PROVE  /\ LockInv' /\ PeerInv' /\ RelayInv' /\ ServeInv' /\ PermitInv'
         /\ coord' \in OperationStates => TypeOK'
         /\ Quiet(c)' /\ \A b \in Components : Quiet(b) => Quiet(b)'
<1>1. /\ proc' = [proc EXCEPT ![c].at = "down"]
      /\ relay' = IF c = "gateway" THEN Shut ELSE relay
      /\ c # "manager" => lock' = lock /\ conn' = [conn EXCEPT ![c].stage = "none"]
      /\ c = "manager" =>
           /\ lock' = NoOne
           /\ conn' = [b \in Components |->
                IF conn[b].stage = "none" THEN conn[b] ELSE [conn[b] EXCEPT !.stage = "closed"]]
  BY DEF Ends, Down, Hang
<1>2. TypeOK  BY DEF IInv
<1>3. coord' \in OperationStates => TypeOK'
  <2>1. lock' \in Components \cup {NoOne}  BY <1>1, <1>2 DEF Ends, TypeOK
  <2>2. proc' \in Processes  BY <1>1, <1>2, MovesTo
  <2>3. conn' \in Connections
    <3>1. CASE c = "manager"  BY <3>1, <1>1, <1>2 DEF TypeOK, Connections, Stages
    <3>2. CASE c # "manager"
      <4>1. conn' = [conn EXCEPT ![c].stage = "none"] /\ "none" \in Stages
        BY <3>2, <1>1 DEF Stages
      <4> QED  BY <4>1, <1>2, StageBecomes
    <3> QED  BY <3>1, <3>2
  <2> QED  BY <2>1, <2>2, <2>3, <1>1, <1>2, ShutType DEF TypeOK
<1>4. LockInv'  BY <1>1, <1>2, Parts DEF IInv, TypeOK, Processes, LockInv, VerifyMembers
<1>5. PeerInv'
  BY <1>1, <1>2, Parts DEF IInv, TypeOK, Processes, Connections, PeerInv, Held, Stages
<1>6. RelayInv'
  BY <1>1, <1>2, Parts, ShutType
    DEF IInv, TypeOK, Processes, Connections, PeerInv, RelayInv, Held, Released, Stages
<1>7. ServeInv'  BY <1>1, <1>2 DEF IInv, TypeOK, Relays, ServeInv
<1>8. PermitInv'  BY <1>1, <1>2 DEF IInv, TypeOK, Relays, PermitInv
<1>9. Quiet(c)' /\ \A b \in Components : Quiet(b) => Quiet(b)'
  BY <1>1, <1>2, Parts DEF TypeOK, Processes, Connections, Quiet, Stages
<1> QED  BY <1>3, <1>4, <1>5, <1>6, <1>7, <1>8, <1>9

LEMMA StopServiceStep ==
  ASSUME StartupAssumption, IInv, NEW c \in Components, StopService(c)
  PROVE  IInv'
<1>1. Ends(c) /\ UNCHANGED <<gate, selection, files, boot, offer, bound, admitted>>
  BY DEF StopService
<1>2. coord' \in OperationStates  BY DEF IInv, StopService, TypeOK, OperationStates
<1>3. Quiet(c)' /\ \A b \in Components : Quiet(b) => Quiet(b)'
  BY <1>1, EndsKeeps
<1>4. CoordInv'
  <2>1. /\ coord.pc = "stopping" /\ coord' \in OperationStates
        /\ coord'.stopped = coord.stopped \cup {c} /\ coord'.want = coord.want
        /\ coord'.pc = IF coord.stopped \cup {c} = Components THEN "files" ELSE "stopping"
    BY <1>2 DEF StopService, IInv, TypeOK, OperationStates
  <2>2. selection' = selection /\ selection.mode = "blocked"
    BY <1>1, <2>1 DEF IInv, CoordInv
  <2>3. \A b \in coord'.stopped : Quiet(b)'
    BY <1>3, <2>1 DEF IInv, CoordInv, OperationStates
  <2> QED  BY <2>1, <2>2, <2>3 DEF CoordInv, Publishing
<1> QED  BY <1>1, <1>2, <1>4, EndsKeeps DEF IInv

LEMMA CrashStep == ASSUME StartupAssumption, IInv, NEW c \in Components, Crash(c) PROVE IInv'
<1>1. Ends(c) /\ UNCHANGED <<gate, selection, files, boot, offer, coord, bound, admitted>>
  BY DEF Crash
<1>2. coord' \in OperationStates /\ coord.stopped \subseteq Components
  BY <1>1 DEF IInv, TypeOK, OperationStates
<1>3. CoordInv'  BY <1>1, <1>2, EndsKeeps, OperationWaits DEF IInv
<1> QED  BY <1>1, <1>2, <1>3, EndsKeeps DEF IInv

LEMMA RebootStep == ASSUME StartupAssumption, IInv, Reboot PROVE IInv'
<1>1. /\ boot' = boot + 1 /\ boot < MaxBoots /\ lock' = NoOne /\ relay' = Shut
      /\ proc' = [c \in Components |-> [proc[c] EXCEPT !.at = "down"]]
      /\ conn' = [c \in Components |-> [conn[c] EXCEPT !.stage = "none"]]
      /\ UNCHANGED <<gate, selection, files, offer, bound, admitted>>
  BY DEF Reboot
<1>2. TypeOK  BY DEF IInv
<1>3. \A c \in Components : Quiet(c)'  BY <1>1, <1>2 DEF TypeOK, Processes, Connections, Quiet
<1>4. coord' \in OperationStates /\ CoordInv'
  <2>1. CASE Publishing
    BY <2>1, <1>1, <1>3, SettledBefore DEF Reboot, Publishing
  <2>2. CASE ~ Publishing
    <3>1. coord' = coord /\ coord.stopped \subseteq Components
      BY <2>2, <1>2 DEF Reboot, Publishing, TypeOK, OperationStates
    <3> QED  BY <3>1, <1>1, <1>2, <1>3, OperationWaits DEF IInv, TypeOK
  <2> QED  BY <2>1, <2>2
<1>5. TypeOK'
  <2>1. boot + 1 \in 1..MaxBoots
    BY <1>1, <1>2 DEF StartupAssumption, TypeOK
  <2>2. proc' \in Processes
    <3>1. proc \in Processes  BY <1>2 DEF TypeOK
    <3> QED  BY <3>1, <1>1 DEF Processes
  <2>3. conn' \in Connections
    <3>1. conn \in Connections  BY <1>2 DEF TypeOK
    <3> QED  BY <3>1, <1>1 DEF Connections, Stages
  <2> QED  BY <2>1, <2>2, <2>3, <1>1, <1>2, <1>4, ShutType DEF TypeOK
<1>6. LockInv'  BY <1>1, <1>2, Parts DEF TypeOK, Processes, LockInv
<1>7. PeerInv'  BY <1>1, <1>2, Parts DEF TypeOK, Processes, PeerInv, Held
<1>8. RelayInv'  BY <1>1, <1>2, Parts, ShutType DEF TypeOK, Processes, RelayInv, Held
<1>9. ServeInv'  BY <1>1, <1>2 DEF TypeOK, Processes, ServeInv
<1>10. PermitInv'  BY <1>1, <1>2 DEF IInv, TypeOK, Processes, PermitInv
<1> QED  BY <1>4, <1>5, <1>6, <1>7, <1>8, <1>9, <1>10 DEF IInv

-----------------------------------------------------------------------------
(* Admission *)

LEMMA StartStep == ASSUME StartupAssumption, IInv, NEW c \in Components, Start(c) PROVE IInv'
<1>1. /\ proc[c].at = "down" /\ proc[c].instance < MaxInstances
      /\ proc' = [proc EXCEPT ![c] =
                    [at |-> "loaded", instance |-> proc[c].instance + 1, loaded |-> files[c]]]
      /\ c \in Remote => conn[c].stage = "none"
      /\ UNCHANGED <<gate, lock, selection, files, boot, conn, offer, relay, coord, bound, admitted>>
  BY DEF Start
<1>2. TypeOK  BY DEF IInv
<1>3. TypeOK'
  <2>1. proc[c].instance + 1 \in 0..MaxInstances
    BY <1>1, <1>2 DEF StartupAssumption, TypeOK, Processes
  <2> QED  BY <2>1, <1>1, <1>2 DEF TypeOK, Processes
<1>4. LockInv'  BY <1>1, <1>2, Parts DEF IInv, TypeOK, Processes, LockInv, VerifyMembers
<1>5. PeerInv'  BY <1>1, <1>2, Parts DEF IInv, TypeOK, Processes, PeerInv, Held
<1>6. RelayInv'  BY <1>1, <1>2, Parts DEF IInv, TypeOK, RelayInv, Held, Released
<1>7. ServeInv'  BY <1>1, <1>2 DEF IInv, TypeOK, ServeInv
<1>8. CoordInv'
  <2>1. coord.stopped \subseteq Components  BY <1>2 DEF TypeOK, OperationStates
  <2>2. \A b \in Components : Quiet(b) => Quiet(b)'  BY <1>1, <1>2 DEF TypeOK, Quiet
  <2> QED  BY <2>1, <2>2, <1>1, OperationWaits DEF IInv
<1>9. PermitInv'
  <2>1. proc[c].instance + 1 # 0  BY <1>2 DEF TypeOK, Processes
  <2> QED  BY <2>1, <1>1, <1>2 DEF IInv, TypeOK, Processes, PermitInv
<1> QED  BY <1>3, <1>4, <1>5, <1>6, <1>7, <1>8, <1>9 DEF IInv

\* The end of a process that never served: the manager refused itself, or a
\* peer found nobody to ask.
LEMMA GoneKeeps ==
  ASSUME StartupAssumption, IInv, NEW c \in Components, proc[c].at = "loaded", proc' = Down(c),
         c \in Remote => conn[c].stage = "none",
         UNCHANGED <<gate, lock, selection, files, boot, conn, offer, relay, coord, bound, admitted>>
  PROVE  IInv'
<1>1. TypeOK /\ proc' = [proc EXCEPT ![c].at = "down"]  BY DEF IInv, Down
<1>2. TypeOK'
  <2>1. proc' \in Processes  BY <1>1, MovesTo
  <2> QED  BY <2>1, <1>1 DEF TypeOK
<1>3. LockInv'  BY <1>1, Parts DEF IInv, TypeOK, LockInv, VerifyMembers
<1>4. PeerInv'  BY <1>1, Parts DEF IInv, TypeOK, PeerInv, Held
<1>5. RelayInv'  BY <1>1, Parts DEF IInv, TypeOK, RelayInv, Held, Released
<1>6. ServeInv'  BY <1>1 DEF IInv, TypeOK, ServeInv
<1>7. CoordInv'
  <2>1. coord.stopped \subseteq Components  BY <1>1 DEF TypeOK, OperationStates
  <2>2. \A b \in Components : Quiet(b) => Quiet(b)'  BY <1>1 DEF TypeOK, Quiet
  <2> QED  BY <2>1, <2>2, OperationWaits DEF IInv
<1>8. PermitInv'  BY <1>1 DEF IInv, TypeOK, PermitInv
<1> QED  BY <1>2, <1>3, <1>4, <1>5, <1>6, <1>7, <1>8 DEF IInv

LEMMA AuthorizeRefusedStep == ASSUME StartupAssumption, IInv, AuthorizeRefused PROVE IInv'
BY GoneKeeps, Parts DEF AuthorizeRefused

\* The claim of the manager, however its process comes out of it.
LEMMA ClaimManager ==
  ASSUME StartupAssumption, IInv, proc["manager"].at = "loaded", lock = NoOne,
         AdmitSelection("manager"),
         selection' = Claimed("manager"),
         UNCHANGED <<gate, files, boot, conn, offer, relay, coord, bound>>,
         \/ proc' = Down("manager") /\ lock' = NoOne /\ UNCHANGED admitted
         \/ /\ proc["manager"].loaded = selection.deployment
            /\ proc' = [proc EXCEPT !["manager"].at = "admitted"]
            /\ lock' = "manager"
            /\ admitted' = IF selection.mode = "candidate"
                           THEN [admitted EXCEPT !["manager"] = @ \cup {proc["manager"].instance}]
                           ELSE admitted
  PROVE  IInv'
<1> DEFINE m == "manager"
<1>1. TypeOK /\ m \in Components /\ m # NoOne  BY Parts DEF IInv
<1>2. /\ selection' \in Selections /\ selection'.mode = selection.mode
      /\ selection'.deployment = selection.deployment /\ selection'.decision = selection.decision
      /\ selection.mode # "candidate" => selection' = selection
      /\ selection.mode = "candidate" => selection'.claims[m] = proc[m].instance
      /\ \A b \in Components \ {m} : selection'.claims[b] = selection.claims[b]
  BY <1>1, ClaimKeeps, DescriptorTypes
<1>3. /\ VerifyMembers(selection)' /\ VerifyMembers(selection) /\ selection.mode # "blocked"
      /\ selection.mode = "candidate" => selection.claims[m] \in {0, proc[m].instance}
  BY <1>2 DEF AdmitSelection, VerifyMembers
<1>4. /\ \A b \in Components \ {m} : proc'[b] = proc[b]
      /\ proc'[m].instance = proc[m].instance /\ proc'[m].loaded = proc[m].loaded
      /\ proc'[m].at = IF lock' = NoOne THEN "down" ELSE "admitted"
      /\ proc' \in Processes
  BY <1>1 DEF TypeOK, Processes, Connections, Down
<1>5. proc[m].instance \in 1..MaxInstances
  BY <1>1 DEF StartupAssumption, IInv, PermitInv, TypeOK, Processes, Connections
<1>6. TypeOK'
  <2>1. admitted' \in [Components -> SUBSET (1..MaxInstances)]  BY <1>1, <1>5 DEF TypeOK
  <2>2. lock' \in Components \cup {NoOne}  BY <1>1
  <2> QED  BY <2>1, <2>2, <1>1, <1>2, <1>4 DEF TypeOK
<1>7. LockInv'  BY <1>1, <1>2, <1>3, <1>4 DEF LockInv
<1>8. PeerInv'  BY <1>1, <1>2, <1>4, Parts DEF IInv, PeerInv, Held
<1>9. RelayInv'  BY <1>1, <1>2, <1>4, Parts DEF IInv, RelayInv, Held, Released
<1>10. ServeInv'  BY <1>2, <1>4 DEF IInv, ServeInv
<1>11. CoordInv'
  <2>1. coord.stopped \subseteq Components  BY <1>1 DEF TypeOK, OperationStates
  <2> QED  BY <2>1, <1>2, <1>3, OperationWaits DEF IInv
<1>12. PermitInv'
  <2>1. admitted'[m] \subseteq {selection'.claims[m]} \ {0}
    BY <1>1, <1>2, <1>3, <1>5 DEF IInv, TypeOK, PermitInv
  <2>2. \A b \in Components \ {m} : admitted'[b] = admitted[b]
    BY <1>1 DEF TypeOK
  <2> QED  BY <2>1, <2>2, <1>2, <1>4, <1>5 DEF IInv, PermitInv
<1> QED  BY <1>6, <1>7, <1>8, <1>9, <1>10, <1>11, <1>12 DEF IInv

LEMMA AuthorizeStep == ASSUME StartupAssumption, IInv, Authorize PROVE IInv'
BY ClaimManager DEF Authorize

LEMMA AuthorizeSyncFailsStep == ASSUME StartupAssumption, IInv, AuthorizeSyncFails PROVE IInv'
BY ClaimManager DEF AuthorizeSyncFails

LEMMA ManagerBindStep == ASSUME StartupAssumption, IInv, ManagerBind PROVE IInv'
<1> DEFINE m == "manager"
<1>1. TypeOK /\ m \in Components /\ m # NoOne  BY Parts DEF IInv
<1>2. /\ lock = m /\ InOrder(m) /\ selection.mode # "blocked"
      /\ proc[m].loaded = selection.deployment
  BY <1>1 DEF ManagerBind, IInv, LockInv, InOrder
<1>3. /\ proc[m].at = "admitted" /\ proc' = [proc EXCEPT ![m].at = "serving"]
      /\ bound' = [bound EXCEPT ![m] = TRUE] /\ lock' = NoOne
      /\ UNCHANGED <<gate, selection, files, boot, conn, offer, relay, coord, admitted>>
  BY <1>2 DEF ManagerBind
<1>4. TypeOK'  BY <1>1, <1>3 DEF TypeOK, Processes
<1>5. LockInv'  BY <1>1, <1>3 DEF TypeOK, Processes, LockInv
<1>6. PeerInv'  BY <1>1, <1>2, <1>3, Parts DEF IInv, TypeOK, Processes, PeerInv, Held
<1>7. RelayInv'  BY <1>1, <1>3, Parts DEF IInv, TypeOK, Processes, RelayInv, Held, Released
<1>8. ServeInv'  BY <1>1, <1>2, <1>3 DEF IInv, TypeOK, ServeInv
<1>9. CoordInv'
  <2>1. coord.stopped \subseteq Components  BY <1>1 DEF TypeOK, OperationStates
  <2> QED  BY <2>1, <1>2, <1>3, OperationWaits DEF IInv
<1>10. PermitInv'  BY <1>1, <1>3 DEF IInv, TypeOK, PermitInv
<1> QED  BY <1>4, <1>5, <1>6, <1>7, <1>8, <1>9, <1>10 DEF IInv

\* A step of one connection of peer c that changes neither the selection nor
\* who is quiet.
LEMMA ConnectionStep ==
  ASSUME IInv, NEW c \in Remote,
         UNCHANGED <<gate, selection, files, boot, offer, coord, admitted>>,
         TypeOK', LockInv', PeerInv', RelayInv', ServeInv',
         \A b \in Components : proc'[b].at = proc[b].at \/ proc'[b].at = "down" \/ proc[b].at # "down",
         \A b \in Components : proc'[b].instance = proc[b].instance,
         selection.mode = "blocked" => \A b \in Components : Quiet(b) => Quiet(b)'
  PROVE  IInv'
<1>1. CoordInv'
  <2>1. coord.stopped \subseteq Components  BY DEF IInv, TypeOK, OperationStates
  <2> QED  BY <2>1, OperationWaits DEF IInv
<1>2. PermitInv'  BY DEF IInv, PermitInv
<1> QED  BY <1>1, <1>2 DEF IInv

LEMMA AskStep ==
  ASSUME StartupAssumption, IInv, NEW c \in Remote, NEW mode \in {"candidate", "public"}, Ask(c, mode)
  PROVE  IInv'
<1>1. TypeOK /\ c \in Components  BY Parts DEF IInv
<1>2. /\ conn[c].stage = "none" /\ proc[c].at = (IF mode = "public" THEN "serving" ELSE "loaded")
      /\ conn' = [conn EXCEPT ![c] = [stage |-> "asked", mode |-> mode]]
      /\ mode = "public" =>
           c = "gateway" /\ relay.step = "idle" /\ relay' = [relay EXCEPT !.step = "asking"]
      /\ mode # "public" => relay' = relay
      /\ UNCHANGED <<gate, lock, selection, files, boot, proc, offer, coord, bound, admitted>>
  BY DEF Ask
<1>3. /\ conn' \in Connections /\ conn'[c] = [stage |-> "asked", mode |-> mode]
      /\ \A b \in Components \ {c} : conn'[b] = conn[b]
      /\ relay' \in Relays /\ relay'.allowed = relay.allowed /\ relay'.released = relay.released
      /\ relay'.step = (IF mode = "public" THEN "asking" ELSE relay.step)
      /\ relay'.fresh = relay.fresh
  BY <1>1, <1>2 DEF TypeOK, Connections, Relays, Stages
<1>4. TypeOK'  BY <1>1, <1>2, <1>3 DEF TypeOK
<1>5. LockInv'  BY <1>2 DEF IInv, LockInv, VerifyMembers
<1>6. PeerInv'  BY <1>1, <1>2, <1>3, Parts DEF IInv, PeerInv, Held
<1>7. RelayInv'
  <2>1. ASSUME NEW b \in Remote \ {c} PROVE conn'[b] = conn[b] /\ (b = "gateway" => relay' = relay)
    BY <1>2, <1>3, Parts
  <2>2. Released' = Released  BY <1>2 DEF Released
  <2>3. c = "gateway" => relay.step = "idle"
    BY <1>1, <1>2 DEF IInv, RelayInv, TypeOK, Relays
  <2> QED  BY <2>1, <2>2, <2>3, <1>2, <1>3 DEF IInv, RelayInv, Held
<1>8. ServeInv'  BY <1>2 DEF IInv, ServeInv
<1>9. \A b \in Components : Quiet(b) => Quiet(b)'  BY <1>1, <1>2, <1>3 DEF Quiet
<1> QED  BY <1>2, <1>4, <1>5, <1>6, <1>7, <1>8, <1>9, ConnectionStep

LEMMA NoManagerStep == ASSUME StartupAssumption, IInv, NEW c \in Remote, NoManager(c) PROVE IInv'
<1>1. CASE proc[c].at = "loaded" /\ proc' = Down(c) /\ UNCHANGED relay
  BY <1>1, GoneKeeps, Parts DEF NoManager
<1>2. CASE c = "gateway" /\ relay' = Shut /\ UNCHANGED proc
  <2>1. /\ conn[c].stage = "none"
        /\ UNCHANGED <<gate, lock, selection, files, boot, proc, conn, offer, coord, bound, admitted>>
    BY <1>2 DEF NoManager
  <2>2. TypeOK'  BY <1>2, <2>1, ShutType DEF IInv, TypeOK
  <2>3. LockInv'  BY <2>1 DEF IInv, LockInv, VerifyMembers
  <2>4. PeerInv'  BY <2>1 DEF IInv, PeerInv, Held
  <2>5. RelayInv'  BY <1>2, <2>1, ShutType DEF IInv, RelayInv, Held, Released
  <2>6. ServeInv'  BY <2>1 DEF IInv, ServeInv
  <2>7. \A b \in Components : Quiet(b) => Quiet(b)'  BY <2>1 DEF Quiet
  <2> QED  BY <2>1, <2>2, <2>3, <2>4, <2>5, <2>6, <2>7, ConnectionStep
<1> QED  BY <1>1, <1>2 DEF NoManager

LEMMA ServeStep == ASSUME StartupAssumption, IInv, NEW c \in Remote, Serve(c) PROVE IInv'
<1>1. TypeOK /\ c \in Components /\ c # NoOne /\ c # "manager"  BY Parts DEF IInv, NoOne
<1>2. /\ conn[c].stage = "asked" /\ lock = NoOne /\ AdmitSelection(c) /\ lock' = c
      /\ conn[c].mode = "public" => PublicAllowed
      /\ selection' = Claimed(c) /\ offer' = [offer EXCEPT ![c] = selection.deployment]
      /\ conn' = [conn EXCEPT ![c].stage = "admitted"]
      /\ admitted' = IF selection.mode = "candidate"
                     THEN [admitted EXCEPT ![c] = @ \cup {proc[c].instance}] ELSE admitted
      /\ UNCHANGED <<gate, files, boot, proc, relay, coord, bound>>
  BY DEF Serve
<1>3. /\ selection' \in Selections /\ selection'.mode = selection.mode
      /\ selection'.deployment = selection.deployment /\ selection'.decision = selection.decision
      /\ selection.mode # "candidate" => selection' = selection
      /\ selection.mode = "candidate" => selection'.claims[c] = proc[c].instance
      /\ \A b \in Components \ {c} : selection'.claims[b] = selection.claims[b]
  BY <1>1, <1>2, ClaimKeeps, DescriptorTypes
<1>4. /\ VerifyMembers(selection)' /\ selection.mode # "blocked"
      /\ selection.mode = "candidate" => selection.claims[c] \in {0, proc[c].instance}
  BY <1>2, <1>3 DEF AdmitSelection, VerifyMembers
<1>5. proc[c].instance \in 1..MaxInstances /\ proc[c].at \in {"loaded", "serving"}
  <2>1. proc[c].at \in {"loaded", "serving"}
    BY <1>1, <1>2 DEF IInv, PeerInv, TypeOK, Processes
  <2>2. proc[c].instance \in 0..MaxInstances /\ proc[c].instance # 0
    BY <2>1, <1>1 DEF IInv, PermitInv, TypeOK, Processes
  <2> QED  BY <2>1, <2>2 DEF StartupAssumption
<1>6. TypeOK'
  <2>1. selection.deployment \in Versions  BY <1>1 DEF TypeOK, Selections
  <2>2. admitted' \in [Components -> SUBSET (1..MaxInstances)]
    BY <1>1, <1>2, <1>5 DEF TypeOK
  <2>3. conn' \in Connections
    BY <1>1, <1>2 DEF TypeOK, Connections, Stages
  <2>4. offer' \in [Components -> Versions]  BY <1>1, <1>2, <2>1 DEF TypeOK, Connections
  <2>5. UNCHANGED <<gate, files, boot, proc, relay, coord, bound>> /\ lock' \in Components
    BY <1>1, <1>2
  <2>6. selection' \in Selections  BY <1>3
  <2> QED  BY <2>2, <2>3, <2>4, <2>5, <2>6, <1>1 DEF TypeOK
<1>7. LockInv'  BY <1>1, <1>2, <1>3, <1>4, Parts DEF IInv, LockInv, VerifyMembers
<1>8. PeerInv'
  <2>1. offer'[c] = selection'.deployment /\ conn'[c] = [conn[c] EXCEPT !.stage = "admitted"]
    BY <1>1, <1>2, <1>3 DEF TypeOK, Connections
  <2>2. \A b \in Remote \ {c} : conn'[b] = conn[b] /\ offer'[b] = offer[b] /\ ~ Held(b)
    BY <1>1, <1>2, Parts DEF IInv, TypeOK, Connections, PeerInv
  <2> QED  BY <2>1, <2>2, <1>1, <1>2, <1>3, <1>5 DEF IInv, TypeOK, PeerInv, Held
<1>9. RelayInv'
  <2>1. conn[c].mode = "public" => Released'
    BY <1>2, <1>3 DEF PublicAllowed, Released
  <2>2. /\ conn'[c] = [conn[c] EXCEPT !.stage = "admitted"]
        /\ conn[c] \in [stage : Stages, mode : {"candidate", "public"}]
    BY <1>1, <1>2 DEF TypeOK, Connections
  <2>3. \A b \in Remote \ {c} : conn'[b] = conn[b] /\ offer'[b] = offer[b] /\ ~ Held(b)
    BY <1>1, <1>2, Parts DEF IInv, TypeOK, Connections, PeerInv
  <2> QED  BY <2>1, <2>2, <2>3, <1>1, <1>2, <1>3 DEF IInv, RelayInv, Held
<1>10. ServeInv'  BY <1>2, <1>3 DEF IInv, ServeInv
<1>11. CoordInv'
  <2>1. coord.stopped \subseteq Components  BY <1>1 DEF TypeOK, OperationStates
  <2> QED  BY <2>1, <1>2, <1>3, <1>4, OperationWaits DEF IInv
<1>12. PermitInv'
  <2>1. admitted'[c] \subseteq {selection'.claims[c]} \ {0}
    BY <1>1, <1>2, <1>3, <1>4, <1>5 DEF IInv, TypeOK, PermitInv
  <2>2. \A b \in Components \ {c} : admitted'[b] = admitted[b]
    BY <1>1, <1>2 DEF TypeOK
  <2> QED  BY <2>1, <2>2, <1>2, <1>3 DEF IInv, PermitInv
<1> QED  BY <1>6, <1>7, <1>8, <1>9, <1>10, <1>11, <1>12 DEF IInv

LEMMA ServeRefusedStep == ASSUME StartupAssumption, IInv, NEW c \in Remote, ServeRefused(c) PROVE IInv'
<1>1. TypeOK /\ c \in Components  BY Parts DEF IInv
<1>2. /\ conn[c].stage = "asked" /\ conn' = [conn EXCEPT ![c].stage = "closed"]
      /\ UNCHANGED <<gate, lock, selection, files, boot, proc, offer, relay, coord, bound, admitted>>
  BY DEF ServeRefused
<1>3. TypeOK'  BY <1>1, <1>2 DEF TypeOK, Connections, Stages
<1>4. LockInv'  BY <1>2 DEF IInv, LockInv, VerifyMembers
<1>5. PeerInv'  BY <1>1, <1>2, Parts DEF IInv, TypeOK, Connections, PeerInv, Held
<1>6. RelayInv'  BY <1>1, <1>2, Parts DEF IInv, TypeOK, RelayInv, Held, Released
<1>7. ServeInv'  BY <1>2 DEF IInv, ServeInv
<1>8. \A b \in Components : Quiet(b) => Quiet(b)'  BY <1>1, <1>2 DEF TypeOK, Quiet
<1> QED  BY <1>2, <1>3, <1>4, <1>5, <1>6, <1>7, <1>8, ConnectionStep

LEMMA ReceiveStep == ASSUME StartupAssumption, IInv, NEW c \in Remote, Receive(c) PROVE IInv'
<1>1. TypeOK /\ c \in Components /\ c # "manager"  BY Parts DEF IInv
<1>2. /\ conn[c].stage = "admitted" /\ proc[c].loaded = offer[c]
      /\ UNCHANGED <<gate, lock, selection, files, boot, conn, offer, coord, bound, admitted>>
  BY DEF Receive, Verified
<1>3. selection.mode # "blocked"  BY <1>1, <1>2, Parts DEF IInv, PeerInv, LockInv, Held
<1>4. CASE conn[c].mode = "candidate" /\ proc[c].at = "loaded"
           /\ proc' = [proc EXCEPT ![c].at = "admitted"] /\ relay' = relay
  <2>1. TypeOK'  BY <1>1, <1>2, <1>4 DEF TypeOK, Processes
  <2>2. LockInv'  BY <1>1, <1>2, <1>4, Parts DEF IInv, TypeOK, Processes, LockInv, VerifyMembers
  <2>3. PeerInv'  BY <1>1, <1>2, <1>4, Parts DEF IInv, TypeOK, Processes, PeerInv, Held
  <2>4. RelayInv'  BY <1>1, <1>2, <1>4, Parts DEF IInv, TypeOK, RelayInv, Held, Released
  <2>5. ServeInv'  BY <1>1, <1>2, <1>4 DEF IInv, TypeOK, ServeInv
  <2>6. \A b \in Components : /\ proc'[b].at = proc[b].at \/ proc[b].at # "down"
                              /\ proc'[b].instance = proc[b].instance
    BY <1>1, <1>4 DEF TypeOK
  <2> QED  BY <2>1, <2>2, <2>3, <2>4, <2>5, <2>6, <1>2, <1>3, ConnectionStep
<1>5. CASE conn[c].mode = "public" /\ relay.step = "asking"
           /\ relay' = [relay EXCEPT !.step = "admitted"] /\ proc' = proc
  <2>1. TypeOK'  BY <1>1, <1>2, <1>5 DEF TypeOK, Relays
  <2>2. LockInv'  BY <1>2, <1>5 DEF IInv, LockInv, VerifyMembers
  <2>3. PeerInv'  BY <1>2, <1>5 DEF IInv, PeerInv, Held
  <2>4. RelayInv'  BY <1>1, <1>2, <1>5, Parts DEF IInv, TypeOK, RelayInv, Held, Released
  <2>5. ServeInv'  BY <1>2, <1>5 DEF IInv, ServeInv
  <2> QED  BY <2>1, <2>2, <2>3, <2>4, <2>5, <1>2, <1>3, <1>5, ConnectionStep
<1> QED  BY <1>4, <1>5 DEF Receive

LEMMA BindStep == ASSUME StartupAssumption, IInv, NEW c \in Remote, Bind(c) PROVE IInv'
<1>1. TypeOK /\ c \in Components /\ c # "manager" /\ c # NoOne  BY Parts DEF IInv, NoOne
<1>2. UNCHANGED <<gate, lock, selection, files, boot, offer, coord, admitted>>
  BY DEF Bind
<1>3. /\ conn' \in Connections
      /\ conn'[c].mode = conn[c].mode
      /\ conn'[c].stage = IF conn[c].stage = "admitted" THEN "bound" ELSE conn[c].stage
      /\ \A b \in Components \ {c} : conn'[b] = conn[b]
  BY <1>1 DEF Bind, TypeOK, Connections, Stages
\* While the manager holds the lock for the peer its bind is in order.
<1>4. conn[c].stage = "admitted" /\ proc[c].loaded = offer[c] => InOrder(c)
  BY <1>1 DEF IInv, PeerInv, LockInv, InOrder, Held
<1>5. CASE /\ proc[c].at = "admitted" /\ proc' = [proc EXCEPT ![c].at = "bound"]
           /\ bound' = [bound EXCEPT ![c] = InOrder(c)] /\ relay' = relay
  <2>1. InOrder(c) \in BOOLEAN  BY DEF InOrder, VerifyMembers
  <2>2. /\ \A b \in Components \ {c} : proc'[b] = proc[b] /\ bound'[b] = bound[b]
        /\ proc'[c].at = "bound" /\ proc'[c].loaded = proc[c].loaded
        /\ proc'[c].instance = proc[c].instance /\ bound'[c] = InOrder(c)
    BY <1>1, <1>5 DEF TypeOK, Processes
  <2>3. conn[c].mode = "candidate" /\ conn[c].stage \in {"admitted", "closed"}
        /\ proc[c].loaded = offer[c]
    BY <1>1, <1>5 DEF IInv, PeerInv, TypeOK, Connections
  <2>4. TypeOK'
    <3>1. proc' \in Processes  BY <1>1, <1>5 DEF TypeOK, Processes
    <3>2. bound' \in [Components -> BOOLEAN]  BY <1>1, <1>5, <2>1 DEF TypeOK
    <3> QED  BY <3>1, <3>2, <1>1, <1>2, <1>3, <1>5 DEF TypeOK
  <2>5. LockInv'  BY <1>1, <1>2, <2>2, Parts DEF IInv, LockInv, VerifyMembers
  <2>6. PeerInv'  BY <1>1, <1>2, <1>3, <1>4, <2>2, <2>3, Parts DEF IInv, PeerInv, Held
  <2>7. RelayInv'
    BY <1>1, <1>2, <1>3, <1>5, <2>2, <2>3, Parts DEF IInv, RelayInv, Held, Released
  <2>8. ServeInv'  BY <1>1, <1>2, <2>2 DEF IInv, ServeInv
  <2>9. \A b \in Components : Quiet(b) => Quiet(b)'
    BY <1>3, <1>5, <2>2 DEF Quiet
  <2> QED  BY <2>2, <2>4, <2>5, <2>6, <2>7, <2>8, <2>9, <1>2, <1>5, ConnectionStep
<1>6. CASE /\ c = "gateway" /\ relay.step = "admitted" /\ UNCHANGED <<proc, bound>>
           /\ relay' = [relay EXCEPT !.step = "bound", !.listener = TRUE,
                                     !.fresh = InOrder(c) /\ Released]
  <2>1. (InOrder(c) /\ Released) \in BOOLEAN  BY DEF InOrder, Released
  <2>2. /\ relay' \in Relays
        /\ relay'.step = "bound" /\ relay'.fresh = (InOrder(c) /\ Released)
        /\ relay'.allowed = relay.allowed /\ relay'.released = relay.released
    BY <1>1, <1>6, <2>1 DEF TypeOK, Relays
  <2>3. conn[c].mode = "public" /\ conn[c].stage \in {"admitted", "closed"}
        /\ proc[c].loaded = offer[c] /\ proc[c].at = "serving"
    BY <1>6 DEF IInv, RelayInv, PeerInv
  <2>4. TypeOK'  BY <1>1, <1>2, <1>3, <1>6, <2>2 DEF TypeOK
  <2>5. LockInv'  BY <1>2, <1>6 DEF IInv, LockInv, VerifyMembers
  <2>6. PeerInv'  BY <1>1, <1>2, <1>3, <1>6, <2>3, Parts DEF IInv, PeerInv, Held
  <2>7. RelayInv'
    <3>1. conn[c].stage = "admitted" => InOrder(c) /\ Released
      BY <1>4, <2>3 DEF IInv, RelayInv, Held
    <3>2. Released' = Released  BY <1>2 DEF Released
    <3>3. \A b \in Remote \ {c} : conn'[b] = conn[b] /\ b # "gateway"  BY <1>3, <1>6, Parts
    <3>4. \A b \in Remote \ {c} : ~ (conn[b].mode = "public" /\ conn[b].stage # "none")
      BY <3>3 DEF IInv, RelayInv
    <3>5. /\ conn'[c].stage \in {"bound", "closed"}
          /\ conn'[c].stage = "bound" => relay'.fresh /\ Released'
      BY <3>1, <3>2, <1>3, <2>2, <2>3
    <3>6. relay'.allowed => relay'.released  BY <2>2 DEF IInv, RelayInv
    <3> QED  BY <3>3, <3>4, <3>5, <3>6, <1>3, <1>6, <2>2, <2>3 DEF RelayInv, Held
  <2>8. ServeInv'  BY <1>2, <1>6 DEF IInv, ServeInv
  <2>9. \A b \in Components : Quiet(b) => Quiet(b)'
    BY <1>3, <1>6, <2>3 DEF Quiet
  <2> QED  BY <2>4, <2>5, <2>6, <2>7, <2>8, <2>9, <1>2, <1>6, ConnectionStep
<1> QED  BY <1>5, <1>6 DEF Bind

LEMMA AcknowledgeStep == ASSUME StartupAssumption, IInv, NEW c \in Remote, Acknowledge(c) PROVE IInv'
<1>1. TypeOK /\ c \in Components /\ c # "manager" /\ c # NoOne  BY Parts DEF IInv, NoOne
<1>2. /\ lock = c /\ conn[c].stage = "bound" /\ proc[c].loaded = offer[c] /\ lock' = NoOne
      /\ conn' = [conn EXCEPT ![c].stage = "acked"]
      /\ UNCHANGED <<gate, selection, files, boot, proc, offer, relay, coord, bound, admitted>>
  BY DEF Acknowledge
<1>3. TypeOK'  BY <1>1, <1>2 DEF TypeOK, Connections, Stages
<1>4. LockInv'  BY <1>1, <1>2, Parts DEF IInv, LockInv, VerifyMembers, NoOne
<1>5. PeerInv'  BY <1>1, <1>2, Parts DEF IInv, TypeOK, Connections, PeerInv, Held
<1>6. RelayInv'  BY <1>1, <1>2, Parts DEF IInv, TypeOK, Connections, RelayInv, Held, Released
<1>7. ServeInv'  BY <1>2 DEF IInv, ServeInv
<1>8. \A b \in Components : Quiet(b) => Quiet(b)'  BY <1>1, <1>2 DEF TypeOK, Quiet
<1> QED  BY <1>2, <1>3, <1>4, <1>5, <1>6, <1>7, <1>8, ConnectionStep

LEMMA ServeExpiresStep == ASSUME StartupAssumption, IInv, NEW c \in Remote, ServeExpires(c) PROVE IInv'
<1>1. TypeOK /\ c \in Components /\ c # "manager" /\ c # NoOne  BY Parts DEF IInv, NoOne
<1>2. /\ lock = c /\ lock' = NoOne
      /\ conn'[c].mode = conn[c].mode
      /\ conn'[c].stage = IF conn[c].stage \in {"admitted", "bound"} THEN "closed" ELSE conn[c].stage
      /\ \A b \in Components \ {c} : conn'[b] = conn[b]
      /\ UNCHANGED <<gate, selection, files, boot, proc, offer, relay, coord, bound, admitted>>
  BY <1>1 DEF ServeExpires, TypeOK, Connections
<1>3. TypeOK'  BY <1>1 DEF ServeExpires, TypeOK, Connections, Stages
<1>4. LockInv'  BY <1>1, <1>2, Parts DEF IInv, LockInv, VerifyMembers, NoOne
<1>5. PeerInv'  BY <1>1, <1>2, Parts DEF IInv, PeerInv, Held
<1>6. RelayInv'  BY <1>1, <1>2, Parts DEF IInv, RelayInv, Held, Released
<1>7. ServeInv'  BY <1>2 DEF IInv, ServeInv
<1>8. \A b \in Components : Quiet(b) => Quiet(b)'  BY <1>1, <1>2 DEF Quiet
<1> QED  BY <1>2, <1>3, <1>4, <1>5, <1>6, <1>7, <1>8, ConnectionStep

\* The connection of c is over at the peer's end.
LEMMA HangFacts ==
  ASSUME TypeOK, NEW c \in Components, conn' = Hang(c)
  PROVE  /\ conn' \in Connections
         /\ conn'[c].stage = "none" /\ conn'[c].mode = conn[c].mode
         /\ \A b \in Components \ {c} : conn'[b] = conn[b]
<1>1. conn' = [conn EXCEPT ![c].stage = "none"] /\ "none" \in Stages  BY DEF Hang, Stages
<1> QED  BY <1>1, StageBecomes

LEMMA AcknowledgedStep == ASSUME StartupAssumption, IInv, NEW c \in Remote, Acknowledged(c) PROVE IInv'
<1>1. TypeOK /\ c \in Components /\ c # "manager" /\ c # NoOne  BY Parts DEF IInv, NoOne
<1>2. /\ conn[c].stage = "acked" /\ conn' = Hang(c)
      /\ UNCHANGED <<gate, lock, selection, files, boot, offer, coord, bound, admitted>>
  BY DEF Acknowledged
<1>3. /\ conn' \in Connections
      /\ conn'[c].stage = "none" /\ conn'[c].mode = conn[c].mode
      /\ \A b \in Components \ {c} : conn'[b] = conn[b]
  BY <1>1, <1>2, HangFacts
<1>4. CASE /\ conn[c].mode = "candidate" /\ proc[c].at = "bound" /\ relay' = relay
           /\ proc' = [proc EXCEPT ![c].at = "serving"]
  <2>1. /\ \A b \in Components \ {c} : proc'[b] = proc[b]
        /\ proc'[c].at = "serving" /\ proc'[c].loaded = proc[c].loaded
        /\ proc'[c].instance = proc[c].instance
    BY <1>1, <1>4 DEF TypeOK, Processes
  <2>2. bound[c] /\ proc[c].loaded = selection.deployment  BY <1>2, <1>4 DEF IInv, PeerInv
  <2>3. TypeOK'
    <3>1. proc' \in Processes  BY <1>1, <1>4 DEF TypeOK, Processes
    <3> QED  BY <3>1, <1>1, <1>2, <1>3, <1>4 DEF TypeOK
  <2>4. LockInv'  BY <1>1, <1>2, <2>1, Parts DEF IInv, LockInv, VerifyMembers
  <2>5. PeerInv'  BY <1>1, <1>2, <1>3, <2>1, Parts DEF IInv, PeerInv, Held
  <2>6. RelayInv'  BY <1>1, <1>2, <1>3, <1>4, <2>1, Parts DEF IInv, RelayInv, Held, Released
  <2>7. ServeInv'  BY <1>2, <2>1, <2>2 DEF IInv, ServeInv
  <2>8. \A b \in Components : Quiet(b) => Quiet(b)'  BY <1>3, <1>4, <2>1 DEF Quiet
  <2> QED  BY <2>1, <2>3, <2>4, <2>5, <2>6, <2>7, <2>8, <1>2, <1>4, ConnectionStep
<1>5. CASE /\ conn[c].mode = "public" /\ proc' = proc
           /\ relay' = [relay EXCEPT !.step = "idle", !.allowed = TRUE, !.released = relay.fresh]
  <2>1. c = "gateway" /\ relay.fresh
    BY <1>1, <1>2, <1>5 DEF IInv, RelayInv, TypeOK, Relays
  <2>2. TypeOK'  BY <1>1, <1>2, <1>3, <1>5 DEF TypeOK, Relays
  <2>3. relay'.step = "idle" /\ relay'.released  BY <1>1, <1>5, <2>1 DEF TypeOK, Relays
  <2>4. LockInv'  BY <1>2, <1>5 DEF IInv, LockInv, VerifyMembers
  <2>5. PeerInv'  BY <1>1, <1>2, <1>3, <1>5, Parts DEF IInv, PeerInv, Held
  <2>6. RelayInv'  BY <1>1, <1>2, <1>3, <1>5, <2>1, <2>3, Parts DEF IInv, RelayInv, Held, Released
  <2>7. ServeInv'  BY <1>2, <1>5 DEF IInv, ServeInv
  <2>8. \A b \in Components : Quiet(b) => Quiet(b)'  BY <1>3, <1>5 DEF Quiet
  <2> QED  BY <2>2, <2>4, <2>5, <2>6, <2>7, <2>8, <1>2, <1>5, ConnectionStep
<1> QED  BY <1>4, <1>5 DEF Acknowledged

LEMMA GiveUpStep == ASSUME StartupAssumption, IInv, NEW c \in Remote, GiveUp(c) PROVE IInv'
<1>1. TypeOK /\ c \in Components /\ c # "manager" /\ c # NoOne  BY Parts DEF IInv, NoOne
<1>2. /\ conn[c].stage # "none" /\ conn' = Hang(c)
      /\ UNCHANGED <<gate, lock, selection, files, boot, offer, coord, bound, admitted>>
  BY DEF GiveUp
<1>3. /\ conn' \in Connections
      /\ conn'[c].stage = "none" /\ conn'[c].mode = conn[c].mode
      /\ \A b \in Components \ {c} : conn'[b] = conn[b]
  BY <1>1, <1>2, HangFacts
<1>4. CASE conn[c].mode # "public" /\ proc' = Down(c) /\ relay' = relay
  <2>1. /\ \A b \in Components \ {c} : proc'[b] = proc[b]
        /\ proc'[c].at = "down" /\ proc'[c].loaded = proc[c].loaded
        /\ proc'[c].instance = proc[c].instance
        /\ proc' \in Processes
    <3>1. proc' = [proc EXCEPT ![c].at = "down"]  BY <1>4 DEF Down
    <3> QED  BY <3>1, <1>1, MovesTo
  <2>2. TypeOK'  BY <1>1, <1>2, <1>3, <1>4, <2>1 DEF TypeOK
  <2>3. LockInv'  BY <1>1, <1>2, <2>1, Parts DEF IInv, LockInv, VerifyMembers
  <2>4. PeerInv'  BY <1>1, <1>2, <1>3, <2>1, Parts DEF IInv, PeerInv, Held
  <2>5. RelayInv'  BY <1>1, <1>2, <1>3, <1>4, <2>1, Parts DEF IInv, RelayInv, Held, Released
  <2>6. ServeInv'  BY <1>2, <2>1 DEF IInv, ServeInv
  <2>7. \A b \in Components : Quiet(b) => Quiet(b)'  BY <1>3, <2>1 DEF Quiet
  <2>8. \A b \in Components : proc'[b].at = proc[b].at \/ proc'[b].at = "down"
    BY <2>1
  <2> QED  BY <2>1, <2>2, <2>3, <2>4, <2>5, <2>6, <2>7, <2>8, <1>2, ConnectionStep
<1>5. CASE conn[c].mode = "public" /\ proc' = proc /\ relay' = Shut
  <2>1. c = "gateway" /\ proc[c].at = "serving"
    BY <1>2, <1>5 DEF IInv, RelayInv, PeerInv
  <2>2. TypeOK'  BY <1>1, <1>2, <1>3, <1>5, ShutType DEF TypeOK
  <2>3. LockInv'  BY <1>2, <1>5 DEF IInv, LockInv, VerifyMembers
  <2>4. PeerInv'  BY <1>1, <1>2, <1>3, <1>5, <2>1, Parts DEF IInv, PeerInv, Held
  <2>5. RelayInv'
    BY <1>1, <1>2, <1>3, <1>5, <2>1, ShutType, Parts DEF IInv, RelayInv, Held, Released
  <2>6. ServeInv'  BY <1>2, <1>5 DEF IInv, ServeInv
  <2>7. \A b \in Components : Quiet(b) => Quiet(b)'  BY <1>3, <1>5 DEF Quiet
  <2> QED  BY <2>2, <2>3, <2>4, <2>5, <2>6, <2>7, <1>2, <1>5, ConnectionStep
<1> QED  BY <1>4, <1>5 DEF GiveUp

LEMMA LeaseEndsStep == ASSUME StartupAssumption, IInv, LeaseEnds PROVE IInv'
<1>1. /\ relay' = [relay EXCEPT !.allowed = FALSE]
      /\ UNCHANGED <<gate, lock, selection, files, boot, proc, conn, offer, coord, bound, admitted>>
  BY DEF LeaseEnds
<1>2. TypeOK'  BY <1>1 DEF IInv, TypeOK, Relays
<1>3. LockInv'  BY <1>1 DEF IInv, LockInv, VerifyMembers
<1>4. PeerInv'  BY <1>1 DEF IInv, PeerInv, Held
<1>5. RelayInv'  BY <1>1 DEF IInv, TypeOK, RelayInv, Held, Released
<1>6. ServeInv'  BY <1>1 DEF IInv, ServeInv
<1>7. CoordInv'
  <2>1. \A b \in Components : Quiet(b) => Quiet(b)'  BY <1>1 DEF Quiet
  <2>2. coord.stopped \subseteq Components  BY DEF IInv, TypeOK, OperationStates
  <2> QED  BY <2>1, <2>2, <1>1, OperationWaits DEF IInv
<1>8. PermitInv'  BY <1>1 DEF IInv, PermitInv
<1> QED  BY <1>2, <1>3, <1>4, <1>5, <1>6, <1>7, <1>8 DEF IInv

-----------------------------------------------------------------------------
(* Every step, and what follows *)

LEMMA NextInv == ASSUME StartupAssumption, IInv, [Next]_vars PROVE IInv'
<1>1. CASE UNCHANGED vars
  <2>1. coord' \in OperationStates /\ CoordInv'
    BY <1>1 DEF IInv, TypeOK, CoordInv, Publishing, Quiet, vars
  <2> QED  BY <2>1, <1>1, OperationAlone DEF vars, services
<1>2. CASE Coordinator
  BY <1>2, CloseStep, BlockStep, CandidateStepKeeps, StableStep, PublishReadStep, PublishStep,
     CommandDiesStep, FilesDoneStep, StepVerifiedStep, StepClosedStep, CheckLocalStep,
     RollbackStep, ReleaseStep, StopServiceStep, ReplaceFileStep DEF Coordinator
<1>3. CASE Manager
  BY <1>3, AuthorizeStep, AuthorizeSyncFailsStep, AuthorizeRefusedStep, ManagerBindStep,
     ServeStep, ServeRefusedStep, AcknowledgeStep, ServeExpiresStep DEF Manager
<1>4. ASSUME NEW c \in Remote, Peer(c) PROVE IInv'
  BY <1>4, AskStep, NoManagerStep, ReceiveStep, BindStep, AcknowledgedStep, GiveUpStep DEF Peer
<1> QED
  BY <1>1, <1>2, <1>3, <1>4, LeaseEndsStep, RebootStep, StartStep, CrashStep DEF Next

\* In every state the invariant implies what the admission promises.
LEMMA InvIsSafe == IInv => StartupSafety
<1> SUFFICES ASSUME IInv PROVE StartupSafety
  OBVIOUS
<1>1. TypeOK  BY DEF IInv
<1>2. ServedWasSelected  BY DEF IInv, ServeInv, ServedWasSelected
<1>3. OneDeployment  BY DEF IInv, ServeInv, OneDeployment
<1>4. PermitOneInstance
  <2> SUFFICES ASSUME NEW c \in Components PROVE Cardinality(admitted[c]) <= 1
    BY DEF PermitOneInstance
  <2>1. admitted[c] \subseteq {selection.claims[c]}  BY DEF IInv, PermitInv
  <2>2. IsFiniteSet({selection.claims[c]}) /\ Cardinality({selection.claims[c]}) = 1
    BY FS_Singleton
  <2> QED  BY <2>1, <2>2, FS_Subset
<1>5. PublicWasReleased  BY DEF IInv, RelayInv, PublicWasReleased
<1> QED  BY <1>1, <1>2, <1>3, <1>4, <1>5 DEF StartupSafety

\* The handshake invariant holds for all components, orders of the start steps
\* and bounds: at each stage of an admission the two ends agree on what they may
\* rely on, although each has its own deadline (startup.py, serve_authorization,
\* and startup_guard.py).
THEOREM Invariance ==
  ASSUME StartupAssumption
  PROVE  Spec => []IInv
<1>1. Init => IInv
  BY InitInv
<1>2. IInv /\ [Next]_vars => IInv'
  BY NextInv
<1> QED BY <1>1, <1>2, PTL DEF Spec

\* The services that serve at the same time are of one deployment, each was
\* selected when it bound its listener, a permit admits one process, and the
\* public port opens only after the release, whatever deadlines pass and
\* whatever is started, stopped or rebooted (startup.py, publish and
\* serve_authorization; gateway_guard.py).
THEOREM StartupSafetyHolds ==
  ASSUME StartupAssumption
  PROVE  Spec => []StartupSafety
<1> QED BY Invariance, InvIsSafe, PTL

=============================================================================
