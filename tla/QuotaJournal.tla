---------------------------- MODULE QuotaJournal ----------------------------
(***************************************************************************)
(* The durable core of the quota observer: q2_journal.py (one append-only  *)
(* cell per grant), q2_service.py (admission, dispatch and closure), the   *)
(* query dispatcher of q2_runtime.py and the installation of a chain of    *)
(* phases by q2_chain.py.                                                  *)
(*                                                                         *)
(* A grant permits one privileged quota query.  Its cell goes READY,       *)
(* INTENT, INVOCATION, RESULT, CLOSED; an append may be lost, torn or      *)
(* written without its acknowledgement, and processes crash anywhere.      *)
(* Every call works under the journal's lock from its scan to its end.     *)
(***************************************************************************)
EXTENDS Naturals, Sequences, FiniteSets, FiniteSetsExt, SequencesExt

CONSTANTS
  Grants,         \* the grants of one journal
  Procs,          \* processes that open the journal
  Chain,          \* whether the phases are registered one by one (v3)
  Declarations,   \* the grants' declarations to choose from
  Capacity,       \* the permanent management capacity
  MaxFails        \* bound: failed writes and crashes (not in the code)

GrantsAssumption == IsFiniteSet(Grants) /\ Grants # {}
ChainAssumption == Chain \in BOOLEAN
BoundsAssumption == Capacity \in Nat /\ MaxFails \in Nat

VARIABLES
  decl,      \* per grant: op, phase, slot, need, preds
  policy,    \* grants registered in the policy file; "TORN" when it is damaged
  cell,      \* per grant: the lines of its cell, <<>> when it has no file
  pins,      \* the pins that installed configurations name
  reserved,  \* grants whose output directory holds reservation.json
  time,      \* per grant: 0 in time, 1 past the query's deadline, 2 past its own
  unit,      \* per grant: the query unit
  launches,  \* per grant: how often its query unit was started
  proc,      \* per process: its journal instance and running call
  replies,   \* the answers given: <<grant, status>>
  fails

vars == <<decl, policy, cell, pins, reserved, time, unit, launches, proc, replies, fails>>
files == <<policy, cell, pins, reserved>>
world == <<time, unit, launches>>

Phases == <<"preflight", "business", "evidence">>
Kinds == {"READY", "INTENT", "INVOCATION", "RESULT_OBSERVED", "RESULT_UNKNOWN", "CLOSED", "TORN"}
Steps == {"idle", "intent", "dispatch", "launched", "recorded", "stopped", "observed",
          "answer", "cell", "register"}
Idle == [step |-> "idle", grant |-> CHOOSE g \in Grants : TRUE]
Instance == [pin : SUBSET Grants, poisoned : BOOLEAN, call : [step : Steps, grant : Grants]]

-----------------------------------------------------------------------------
(* Declarations                                                              *)

Files == {g \in Grants : cell[g] # <<>>}
Status(g) == Last(cell[g])
Charged == {g \in Files : Status(g) # "READY"}

\* check_capacity: every grant with an intent is charged, finished or not.
CheckCapacity(d, charged) ==
  MapThenSumSet(LAMBDA g : d[g].need, charged) <= Capacity

\* decode_grant, decode (the chain's declaration) and _totals: one operation,
\* one grant per phase, business on the preflight's allocation, evidence on
\* another one, and capacity for all phases before the first starts.
Decodes(d) ==
  /\ \A g \in Grants : /\ g \notin d[g].preds
                       /\ d[g].phase # "preflight" => d[g].preds # {}
                       /\ CheckCapacity(d, {g})
  /\ Chain => /\ \A g, h \in Grants :
                   /\ d[g].op = d[h].op
                   /\ g # h => d[g].phase # d[h].phase
                   /\ d[g].phase = "preflight" /\ d[h].phase = "business"
                        => d[g].slot = d[h].slot
                   /\ d[g].phase = "preflight" /\ d[h].phase = "evidence"
                        => d[g].slot # d[h].slot
              /\ CheckCapacity(d, Grants)

\* The order in which _chain_policy registers grants.
Before(g) == {h \in Grants : \E i, j \in 1..3 :
                /\ i < j /\ Phases[i] = decl[h].phase /\ Phases[j] = decl[g].phase}

-----------------------------------------------------------------------------
(* The journal                                                               *)

Free == \A p \in Procs : proc[p].call.step = "idle"

\* _admit_new: every used grant is CLOSED, slots stay with their operation, the
\* predecessors are exactly the operation's used grants, business follows one
\* preflight of its allocation, and there is capacity.
AdmitNew(g, states) ==
  LET prior == {h \in states : decl[h].op = decl[g].op}
  IN /\ \A h \in states : /\ Status(h) = "CLOSED"
                          /\ decl[h].slot = decl[g].slot => decl[h].op = decl[g].op
     /\ prior = decl[g].preds
     /\ decl[g].phase = "business" =>
          \E h \in prior : /\ prior = {h} /\ decl[h].phase = "preflight"
                           /\ decl[h].slot = decl[g].slot
     /\ CheckCapacity(decl, states \cup {g})

\* locked and scan: a usable instance whose pin is exactly the files, the
\* policy, whole cells, the capacity and (in a chain) the order of its phases.
Scan(p) ==
  /\ Free /\ ~proc[p].poisoned
  /\ proc[p].pin = Files /\ policy = Files /\ Files # {}
  /\ \A g \in Files : Status(g) # "TORN"
  /\ CheckCapacity(decl, Charged)
  /\ Chain => \A g \in Files : Before(g) \cap Files # {} => AdmitNew(g, Before(g) \cap Files)

Call(p, step, g) == proc' = [proc EXCEPT ![p].call = [step |-> step, grant |-> g]]
Done(p) == proc' = [proc EXCEPT ![p].call = Idle]

\* append: whole and acknowledged, or a failure that poisons the instance and
\* ends the call with the line absent, torn or whole.
AppendLine(p, g, kind, step) ==
  \/ /\ cell' = [cell EXCEPT ![g] = Append(@, kind)]
     /\ proc' = [proc EXCEPT ![p].call = IF step = "idle" THEN Idle ELSE [step |-> step, grant |-> g]]
     /\ UNCHANGED fails
  \/ /\ fails < MaxFails /\ fails' = fails + 1
     /\ \E line \in {<<>>, <<kind>>, <<"TORN">>} : cell' = [cell EXCEPT ![g] = @ \o line]
     /\ proc' = [proc EXCEPT ![p].call = Idle, ![p].poisoned = TRUE]

-----------------------------------------------------------------------------
(* Service.handle and Dispatcher                                             *)

\* Fault: a call that finds an intent without a result takes it up again.
HandleResumes(p, g) ==
  /\ Scan(p) /\ g \in proc[p].pin /\ time[g] < 2
  /\ \/ Status(g) = "READY" /\ AdmitNew(g, Charged) /\ AppendLine(p, g, "INTENT", "intent")
     \/ Status(g) = "INTENT" /\ Call(p, "intent", g) /\ UNCHANGED <<cell, fails>>
  /\ UNCHANGED <<decl, policy, pins, reserved, world, replies>>

\* handle: a used grant is answered from its cell without a dispatch; a READY
\* one is admitted and its intent appended.
Handle(p, g) ==
  /\ Scan(p) /\ g \in proc[p].pin /\ time[g] < 2
  /\ \/ /\ Status(g) = "READY" /\ AdmitNew(g, Charged)
        /\ AppendLine(p, g, "INTENT", "intent") /\ UNCHANGED replies
     \/ /\ Status(g) # "READY"
        /\ replies' = replies \cup
             {<<g, IF Contains(cell[g], "RESULT_OBSERVED") THEN "OBSERVED" ELSE "UNKNOWN">>}
        /\ UNCHANGED <<cell, proc, fails>>
  /\ UNCHANGED <<decl, policy, pins, reserved, world>>

\* The deadlines are read again after the intent; a late one stays consumed.
DispatchIntent(p) ==
  LET g == proc[p].call.grant
  IN /\ proc[p].call.step = "intent"
     /\ \/ time[g] = 0 /\ Call(p, "dispatch", g)
        \/ time[g] > 0 /\ Done(p)
     /\ UNCHANGED <<decl, files, world, replies, fails>>

\* Dispatcher: the query tree must be empty and the unit unknown to systemd (which
\* may have unloaded one that ended).  A launch that is refused, or whose unit
\* never shows up, leaves a receipt without a query.
Launch(p) ==
  LET g == proc[p].call.grant
      empty == \A h \in Grants : unit[h] # "running"
  IN /\ proc[p].call.step = "dispatch"
     /\ \/ /\ empty /\ time[g] = 0
           /\ unit' = [unit EXCEPT ![g] = "running"]
           /\ launches' = [launches EXCEPT ![g] = @ + 1]
           /\ \/ Call(p, "launched", g)
              \/ Call(p, "answer", g)
        \/ Call(p, "answer", g) /\ UNCHANGED <<unit, launches>>
     /\ UNCHANGED <<decl, files, time, replies, fails>>

\* remember: the unit's identity becomes the INVOCATION line; without it the
\* receipt is refused (QUERY_BINDING) and the call ends without a result.
Remember(p) ==
  LET g == proc[p].call.grant
  IN /\ proc[p].call.step = "launched"
     /\ \/ time[g] < 2 /\ AppendLine(p, g, "INVOCATION", "recorded")
        \/ time[g] = 2 /\ Done(p) /\ UNCHANGED <<cell, fails>>
     /\ UNCHANGED <<decl, policy, pins, reserved, world, replies>>

\* _stop_original of the identified unit, asked for once.
StopOriginal(p) ==
  LET g == proc[p].call.grant
  IN /\ proc[p].call.step = "recorded"
     /\ \/ unit' = [unit EXCEPT ![g] = "ended"] /\ Call(p, "stopped", g)
        \/ Call(p, "answer", g) /\ UNCHANGED unit
     /\ UNCHANGED <<decl, files, time, launches, replies, fails>>

\* reports: the native reports match the pinned facts before the deadline, or
\* the receipt is UNKNOWN.
Reports(p) ==
  LET g == proc[p].call.grant
  IN /\ proc[p].call.step = "stopped"
     /\ \/ time[g] = 0 /\ Call(p, "observed", g)
        \/ Call(p, "answer", g)
     /\ UNCHANGED <<decl, files, world, replies, fails>>

\* The receipt is appended before it is returned, also when the query's deadline
\* (which its finished_ns kept) has passed meanwhile; past the grant's own (or
\* when its evidence file cannot be written) the call ends without it.
Result(p) ==
  LET g == proc[p].call.grant
      status == IF proc[p].call.step = "observed" THEN "OBSERVED" ELSE "UNKNOWN"
      kind == IF status = "OBSERVED" THEN "RESULT_OBSERVED" ELSE "RESULT_UNKNOWN"
  IN /\ proc[p].call.step \in {"observed", "answer"}
     /\ \/ /\ time[g] < 2
           /\ AppendLine(p, g, kind, "idle")
           /\ replies' = IF proc'[p].poisoned THEN replies ELSE replies \cup {<<g, status>>}
        \/ Done(p) /\ UNCHANGED <<cell, replies, fails>>
     /\ UNCHANGED <<decl, policy, pins, reserved, world>>

\* close_phase: only an OBSERVED result is closed, and only once.
ClosePhase(p, g) ==
  /\ Scan(p) /\ g \in proc[p].pin /\ Status(g) = "RESULT_OBSERVED"
  /\ AppendLine(p, g, "CLOSED", "idle")
  /\ UNCHANGED <<decl, policy, pins, reserved, world, replies>>

-----------------------------------------------------------------------------
(* q2_chain.install                                                          *)

\* No phase comes before it: the journal is provisioned with it.
First(g) == Before(g) = {}

\* install: the phase's empty output directory is reserved once.  The first
\* phase provisions an empty journal, a later one extends it after _admit_new.
Install(p, g) ==
  /\ Chain /\ g \notin reserved
  /\ \/ First(g) /\ Files = {} /\ policy = {} /\ Free
     \/ ~First(g) /\ Before(g) = Files /\ Scan(p) /\ time[g] < 2 /\ AdmitNew(g, Charged)
  /\ reserved' = reserved \cup {g}
  /\ Call(p, IF First(g) THEN "register" ELSE "cell", g)
  /\ UNCHANGED <<decl, policy, cell, pins, world, replies, fails>>

\* The last of the two files hands out the pin of the journal.
HandOut(last, registered) == pins' = IF last THEN pins \cup {registered} ELSE pins

\* extend writes the new cell before its registration, _provision the policy
\* before the cell.  A failure between them leaves a directory no pin opens.
InstallCell(p) ==
  LET g == proc[p].call.grant
  IN /\ proc[p].call.step = "cell"
     /\ AppendLine(p, g, "READY", IF First(g) THEN "idle" ELSE "register")
     /\ HandOut(First(g) /\ fails' = fails, policy)
     /\ UNCHANGED <<decl, policy, reserved, world, replies>>

Register(p) ==
  LET g == proc[p].call.grant
  IN /\ proc[p].call.step = "register"
     /\ \/ /\ First(g) \/ time[g] < 2
           /\ policy' = policy \cup {g} /\ HandOut(~First(g), policy')
           /\ IF First(g) THEN Call(p, "cell", g) ELSE Done(p)
           /\ UNCHANGED fails
        \/ /\ fails < MaxFails /\ fails' = fails + 1
           /\ policy' \in {policy, policy \cup {g}, policy \cup {"TORN"}}
           /\ Done(p) /\ UNCHANGED pins
     /\ UNCHANGED <<decl, cell, reserved, world, replies>>

-----------------------------------------------------------------------------
\* A process opens the journal with the pin of an installed configuration.
Open(p, pin) ==
  /\ proc[p].call = Idle /\ pin \in pins
  /\ proc' = [proc EXCEPT ![p] = [pin |-> pin, poisoned |-> FALSE, call |-> Idle]]
  /\ UNCHANGED <<decl, files, world, replies, fails>>

Crash(p) ==
  /\ proc[p].call # Idle /\ fails < MaxFails /\ fails' = fails + 1
  /\ proc' = [proc EXCEPT ![p].call = Idle, ![p].poisoned = TRUE]
  /\ UNCHANGED <<decl, files, world, replies>>

\* systemd ends the query unit, at the latest at its RuntimeMaxSec.
UnitEnds(g) ==
  /\ unit[g] = "running" /\ unit' = [unit EXCEPT ![g] = "ended"]
  /\ UNCHANGED <<decl, files, time, launches, proc, replies, fails>>

Tick(g) ==
  /\ time[g] < 2 /\ time' = [time EXCEPT ![g] = @ + 1]
  /\ UNCHANGED <<decl, files, unit, launches, proc, replies, fails>>

Init ==
  /\ decl \in {d \in Declarations : Decodes(d)}
  /\ policy = IF Chain THEN {} ELSE Grants
  /\ cell = [g \in Grants |-> IF Chain THEN <<>> ELSE <<"READY">>]
  /\ pins = IF Chain THEN {} ELSE {Grants}
  /\ reserved = {} /\ replies = {} /\ fails = 0
  /\ time = [g \in Grants |-> 0] /\ unit = [g \in Grants |-> "none"]
  /\ launches = [g \in Grants |-> 0]
  /\ proc = [p \in Procs |-> [pin |-> {}, poisoned |-> FALSE, call |-> Idle]]

Dispatcher(p) == \/ DispatchIntent(p) \/ Launch(p) \/ Remember(p) \/ StopOriginal(p)
                 \/ Reports(p) \/ Result(p)
Next ==
  \/ \E p \in Procs, g \in Grants : Handle(p, g) \/ ClosePhase(p, g) \/ Install(p, g)
  \/ \E p \in Procs : Dispatcher(p) \/ InstallCell(p) \/ Register(p) \/ Crash(p)
  \/ \E p \in Procs : \E pin \in pins : Open(p, pin)
  \/ \E g \in Grants : UnitEnds(g) \/ Tick(g)

Spec == Init /\ [][Next]_vars

-----------------------------------------------------------------------------
\* The lines of a cell in scan's order (JOURNAL_ORDER); a torn one is the last.
Rank == [READY |-> 1, INTENT |-> 2, INVOCATION |-> 3, RESULT_OBSERVED |-> 4,
         RESULT_UNKNOWN |-> 4, CLOSED |-> 5, TORN |-> 6]
Ordered(lines) == /\ lines \in Seq(Kinds)
                  /\ \A i, j \in DOMAIN lines : i < j => Rank[lines[i]] < Rank[lines[j]]

\* The form of the cells, the instances and the query units.
TypeOK ==
  /\ policy \subseteq Grants \cup {"TORN"} /\ pins \subseteq SUBSET Grants
  /\ \A g \in Grants : Ordered(cell[g])
  /\ reserved \subseteq Grants /\ time \in [Grants -> 0..2]
  /\ unit \in [Grants -> {"none", "running", "ended"}]
  /\ launches \in [Grants -> Nat] /\ proc \in [Procs -> Instance]
  /\ replies \subseteq Grants \X {"OBSERVED", "UNKNOWN"} /\ fails \in 0..MaxFails

\* A grant's privileged query is started at most once, whatever write is lost
\* and whichever process comes back ("Repeats cannot call dispatch").
QueriedOnce == \A g \in Grants : launches[g] <= 1

\* All answers a grant ever gets agree, those given after a crash included.
OneAnswer == \A r, s \in replies : r[1] = s[1] => r = s

\* An OBSERVED answer and a CLOSED cell mean that the query unit ended for good.
ObservedIsQuiet ==
  \A g \in Grants : <<g, "OBSERVED">> \in replies \/ Contains(cell[g], "CLOSED")
                      => unit[g] = "ended" /\ Contains(cell[g], "INVOCATION")

\* At most one grant is between its intent and its closure, so at most one
\* query can be running ("PRIOR_EXIT_UNPROVEN").
OneOpenPhase == Cardinality({g \in Charged : ~Contains(cell[g], "CLOSED")}) <= 1

\* Used grants keep their slot for their operation, for ever.
SlotsStay ==
  \A g, h \in Charged : decl[g].slot = decl[h].slot => decl[g].op = decl[h].op

\* A phase is used only after the phases before it in its operation were closed.
PhasesInOrder ==
  \A g \in Charged : \A h \in decl[g].preds : h \in Files /\ Contains(cell[h], "CLOSED")

\* A pin is handed out only for a journal whose cells and policy agree with it.
PinIsComplete ==
  \A pin \in pins : pin \subseteq policy /\ \A g \in pin : cell[g] # <<>> /\ cell[g][1] = "READY"
=============================================================================
