---------------------------- MODULE Reservation ----------------------------
(***************************************************************************)
(* What an operation may consume: the shares of its budget (budget.py) and *)
(* the precreated root directories (bootstrap_roots.py).  A phase is       *)
(* prepared, intended and delivered in three stages by different           *)
(* transactions, while the clock runs, the host reboots, and the           *)
(* administrator declares another pool of slots.  Nothing is ever given    *)
(* back, and nothing is granted twice.                                     *)
(***************************************************************************)
EXTENDS Integers, Sequences, FiniteSets, FiniteSetsExt, SequencesExt

CONSTANTS
  Records,      \* the records of the ledger, jobs and observation rounds
  Namespace,    \* the namespace of each record: job or reconcile
  Budgets,      \* the admitted budgets: [wall, cpu, log, grace]
  Pools,        \* the pools of slots the administrator may declare
  Source,       \* the roots a plan is written for
  Writable,     \* the paths a plan writes to
  Store,        \* the root of the evidence store
  MaxClock,     \* bound: the boot clock
  MaxBoots      \* bound: reboots of the host

Shared == {"wall", "cpu", "log"}
PhasesOf(r) == IF Namespace[r] = "job" THEN <<"preflight", "business", "evidence">> ELSE <<"reconcile", "evidence">>
PhaseSet(r) == Range(PhasesOf(r))
StageNames == <<"bootstrap", "helper", "result_reader">>

Positive == Nat \ {0}
Paths == Seq(STRING)
Slots == [id : Nat, roots : Seq([path : Paths, inode : Nat])]

\* A slot has a root for every root a plan is written for.
BudgetAssumption ==
  /\ Budgets \subseteq [wall : Positive, cpu : Positive, log : Positive, grace : Positive]
  /\ \A slots \in Pools : slots \in Seq(Slots) /\ \A i \in DOMAIN slots : Len(slots[i].roots) = Len(Source)
  /\ Source \in Seq(Paths) /\ Writable \subseteq Paths
  /\ MaxClock \in Nat /\ MaxBoots \in Nat

VARIABLES
  now,      \* the boot clock: [boot, at]
  pool,     \* the declared slots
  plan,     \* the admitted budget of each record
  row,      \* the ledger row of each record: its phase, and what is reserved for it
  leases    \* the consumed resources: [res, owner]

vars == <<now, pool, plan, row, leases>>

-----------------------------------------------------------------------------
(* Shares *)

\* substage_limits: bootstrap and reader get a floor, the helper the rest.
Substage(limits, stage) ==
  LET p == limits.cpu \div Len(StageNames) IN [limits EXCEPT !.cpu = IF stage = "helper" THEN @ - p * (Len(StageNames) - 1) ELSE p]
Fundable(limits) == limits.cpu \div Len(StageNames) >= 1

\* allocated_limits: an equal floor of what is shared, for every phase of the record.
Allocated(r) ==
  LET n == Len(PhasesOf(r)) IN [k \in DOMAIN plan[r] |-> IF k \in Shared THEN plan[r][k] \div n ELSE plan[r][k]]
Bounded(limits) == (\A k \in Shared : limits[k] >= 1) /\ limits.wall > limits.grace

\* validate_grant
ValidGrant(r, g) ==
  /\ g.started <= g.reserved /\ g.reserved < g.deadline
  /\ g.limits = Allocated(r) /\ g.deadline = g.started + plan[r].wall

\* The sum over the reserved phases, of which there are the four of _PHASES.
Part(grants, k, p) == IF p \in DOMAIN grants THEN grants[p].limits[k] ELSE 0
Total(grants, k) ==
  Part(grants, k, "preflight") + Part(grants, k, "business") + Part(grants, k, "reconcile") + Part(grants, k, "evidence")

\* _validate_state: the reservations of a record, against its intents and preparations.
ValidState(r) ==
  LET s == row[r].budget IN
  /\ s.started <= s.last /\ s.last < s.deadline /\ s.deadline = s.started + plan[r].wall
  /\ DOMAIN s.grants = row[r].handles \cup row[r].prepared
  /\ \A p \in DOMAIN s.grants :
       /\ ValidGrant(r, s.grants[p]) /\ s.grants[p].boot = s.boot /\ s.grants[p].started = s.started
       /\ s.grants[p].reserved <= s.last
  /\ \A k \in Shared : Total(s.grants, k) <= plan[r][k]

SameClock(s) == s.boot = now.boot /\ now.at >= s.last
PhaseDeadline(g) == Min({g.deadline, g.reserved + g.limits.wall})
Remaining(g) == IF g.boot = now.boot /\ now.at >= g.reserved THEN PhaseDeadline(g) - now.at ELSE 0

-----------------------------------------------------------------------------
(* Roots *)

Prefix(p, q) == Len(p) <= Len(q) /\ SubSeq(q, 1, Len(p)) = p
Overlap(p, q) == Prefix(p, q) \/ Prefix(q, p)
SlotRoots(s) == Range(s.roots)

\* validate_slots: neither identities nor trees are shared within a pool.
ValidSlots(slots) ==
  \A i, j \in DOMAIN slots : \A n \in DOMAIN slots[i].roots : \A m \in DOMAIN slots[j].roots :
    (i # j => slots[i].id # slots[j].id)
    /\ (<<i, n>> # <<j, m>> => slots[i].roots[n].inode # slots[j].roots[m].inode
                               /\ ~Overlap(slots[i].roots[n].path, slots[j].roots[m].path))

PathsLeased == {l.res.path : l \in {k \in leases : k.res.kind = "path"}}
InodesLeased == {l.res.inode : l \in {k \in leases : k.res.kind = "inode"}}

\* Fault: a root below a consumed one, or above it, is free.
AvailableExact(slot) == \A x \in SlotRoots(slot) : x.path \notin PathsLeased

\* _available: itself, its ancestors and its descendants, and its inode.
Available(slot) ==
  \A x \in SlotRoots(slot) : x.inode \notin InodesLeased /\ \A p \in PathsLeased : ~Overlap(p, x.path)

Resources(slot) ==
  {[kind |-> "path", path |-> x.path, inode |-> 0] : x \in SlotRoots(slot)}
    \cup {[kind |-> "inode", path |-> <<>>, inode |-> x.inode] : x \in SlotRoots(slot)}
Owner(r, slot) == [rec |-> r, slot |-> slot]
Reserved(r, slot) == \A x \in Resources(slot) : [res |-> x, owner |-> Owner(r, slot)] \in leases

\* The slot a phase inherits: its own, or for the business that of the preflight.
Inherited(r, p) ==
  IF p \in DOMAIN row[r].roots THEN {row[r].roots[p]}
  ELSE IF p = "business" /\ "preflight" \in DOMAIN row[r].roots THEN {row[r].roots["preflight"]} ELSE {}

\* reserve: an inherited slot must still be declared, the same, and owned; otherwise the first that is free.
SlotChoices(r, p) ==
  IF Inherited(r, p) # {} THEN {s \in Inherited(r, p) : s \in Range(pool) /\ Reserved(r, s)}
  ELSE IF p = "business" THEN {}
  ELSE LET free == {k \in DOMAIN pool : Available(pool[k])} IN IF free = {} THEN {} ELSE {pool[Min(free)]}

\* The evidence store is written too, and must stay apart from the roots.
StoreApart(p, slot) == p = "evidence" => \A x \in SlotRoots(slot) : ~Overlap(x.path, Store.path) /\ x.inode # Store.inode

\* bind_execution: a path of the plan, in the granted roots.
Mapped(v, slot) ==
  LET in == {n \in DOMAIN Source : Prefix(Source[n], v)} IN
  IF in = {} THEN v ELSE LET n == Min(in) IN slot.roots[n].path \o SubSeq(v, Len(Source[n]) + 1, Len(v))

-----------------------------------------------------------------------------
(* The transactions of Broker._start and of the launch guard *)

Expected(r, p) ==
  CASE p = "business" -> "PREFLIGHT_COMPLETE" [] p = "evidence" -> "AWAITING_SEAL" [] OTHER -> "QUEUED"
NewBudget(r) == [boot |-> now.boot, started |-> now.at, last |-> now.at, deadline |-> now.at + plan[r].wall, grants |-> <<>>]

Extend(f, p, v) == [q \in DOMAIN f \cup {p} |-> IF q = p THEN v ELSE f[q]]

Kept(s, p, g) == [s EXCEPT !.grants = Extend(@, p, g), !.last = now.at]

Unreserved(s, p) == p \notin DOMAIN s.grants

\* The share and the roots of a phase, in one transaction; every refusal leaves the ledger as it was.
Prepare(r, p) ==
  LET fresh == ~row[r].begun
      s == IF fresh THEN NewBudget(r) ELSE row[r].budget
      limits == Allocated(r)
      g == [boot |-> s.boot, started |-> s.started, deadline |-> s.deadline, reserved |-> now.at, limits |-> limits] IN
  /\ row[r].phase = Expected(r, p) /\ p \in PhaseSet(r) /\ Unreserved(s, p)
  /\ IF fresh THEN p = PhasesOf(r)[1] ELSE ValidState(r)
  /\ Bounded(limits) /\ Fundable(limits) /\ SameClock(s) /\ s.deadline - now.at > limits.grace
  /\ p = "business" => "preflight" \in DOMAIN s.grants
  /\ \E slot \in SlotChoices(r, p) :
       /\ StoreApart(p, slot)
       /\ row' = [row EXCEPT ![r].begun = TRUE, ![r].budget = Kept(s, p, g), ![r].prepared = @ \cup {p},
                             ![r].roots = Extend(@, p, slot)]
       /\ leases' = IF Inherited(r, p) # {} THEN leases
                    ELSE leases \cup {[res |-> x, owner |-> Owner(r, slot)] : x \in Resources(slot)}
  /\ UNCHANGED <<now, pool, plan>>

\* The execution intent of a prepared phase: the same share, the same roots.
Start(r, p) ==
  LET g == row[r].budget.grants[p] IN
  /\ row[r].phase = Expected(r, p) /\ p \in row[r].prepared /\ p \notin row[r].handles
  /\ ValidState(r) /\ Remaining(g) > g.limits.grace /\ SlotChoices(r, p) = {row[r].roots[p]}
  /\ row' = [row EXCEPT ![r].handles = @ \cup {p}, ![r].phase = p]
  /\ UNCHANGED <<now, pool, plan, leases>>

\* _guard_start: the next stage of the phase, while its share and its roots hold.
Deliver(r) ==
  LET p == row[r].phase  g == row[r].budget.grants[p]  n == Len(row[r].stages) IN
  /\ p \in row[r].handles /\ n < Len(StageNames)
  /\ ValidState(r) /\ Reserved(r, row[r].roots[p]) /\ Remaining(g) > g.limits.grace
  /\ row' = [row EXCEPT ![r].stages = Append(@, StageNames[n + 1]),
                        ![r].spent = @ + Substage(g.limits, StageNames[n + 1]).cpu]
  /\ UNCHANGED <<now, pool, plan, leases>>

\* The phase ends, with its result or without.
Complete(r) ==
  LET p == row[r].phase IN
  /\ p \in row[r].handles
  /\ \E next \in IF p = "evidence" \/ Len(row[r].stages) < Len(StageNames) THEN {"EXITED"}
                 ELSE IF p = "preflight" THEN {"PREFLIGHT_COMPLETE", "EXITED"} ELSE {"AWAITING_SEAL", "EXITED"} :
       row' = [row EXCEPT ![r].phase = next, ![r].stages = <<>>]
  /\ UNCHANGED <<now, pool, plan, leases>>

-----------------------------------------------------------------------------
(* The host and the administrator *)

Tick == now.at < MaxClock /\ now' = [now EXCEPT !.at = @ + 1] /\ UNCHANGED <<pool, plan, row, leases>>
Reboot == now.boot < MaxBoots /\ now' = [boot |-> now.boot + 1, at |-> 0] /\ UNCHANGED <<pool, plan, row, leases>>
Redeclare == \E new \in Pools \ {pool} : ValidSlots(new) /\ pool' = new /\ UNCHANGED <<now, plan, row, leases>>

Init ==
  /\ now = [boot |-> 0, at |-> 0] /\ pool \in {p \in Pools : ValidSlots(p)} /\ plan \in [Records -> Budgets] /\ leases = {}
  /\ row = [r \in Records |-> [phase |-> "QUEUED", begun |-> FALSE, prepared |-> {}, handles |-> {}, roots |-> <<>>,
                               stages |-> <<>>, spent |-> 0,
                               budget |-> [boot |-> 0, started |-> 0, last |-> 0, deadline |-> 0, grants |-> <<>>]]]

Next ==
  \/ \E r \in Records : (\E p \in PhaseSet(r) : Prepare(r, p) \/ Start(r, p)) \/ Deliver(r) \/ Complete(r)
  \/ Tick \/ Reboot \/ Redeclare

Spec == Init /\ [][Next]_vars

-----------------------------------------------------------------------------
TypeOK ==
  /\ now.at \in 0..MaxClock /\ now.boot \in 0..MaxBoots /\ pool \in Pools /\ ValidSlots(pool)
  /\ \A r \in Records : row[r].handles \subseteq row[r].prepared /\ row[r].prepared \subseteq PhaseSet(r)
                        /\ DOMAIN row[r].roots = row[r].prepared

(* The shares fit: whatever phases and stages a record was granted, their   *)
(* sum never exceeds what was admitted, and a started phase can fund every  *)
(* one of its stages.                                                       *)
SharesFit ==
  \A r \in Records :
    /\ row[r].spent <= plan[r].cpu
    /\ \A k \in Shared : Total(row[r].budget.grants, k) <= plan[r][k]
    /\ \A p \in DOMAIN row[r].budget.grants : \A i \in DOMAIN StageNames : Substage(row[r].budget.grants[p].limits, StageNames[i]).cpu >= 1

(* What a reservation wrote is what every later transaction accepts: no     *)
(* later phase, clock or pool makes a record's own budget state invalid.    *)
StateAccepted == \A r \in Records : row[r].begun => ValidState(r)

(* A root directory has one use: two grants share a path, an ancestor or an *)
(* inode only when they are the preflight and the business of one job,      *)
(* which have the same roots; so it stays through every new pool.           *)
OneUse ==
  \A r, t \in Records : \A p \in DOMAIN row[r].roots : \A q \in DOMAIN row[t].roots :
    \/ <<r, p>> = <<t, q>>
    \/ r = t /\ {p, q} = {"preflight", "business"} /\ row[r].roots[p] = row[t].roots[q]
    \/ \A x \in SlotRoots(row[r].roots[p]) : \A y \in SlotRoots(row[t].roots[q]) : ~Overlap(x.path, y.path) /\ x.inode # y.inode

(* Nothing is given back or renewed: shares, deadlines, roots and the       *)
(* consumed resources only grow.                                            *)
NeverRefunded ==
  /\ leases \subseteq leases'
  /\ \A r \in Records : row[r].begun =>
       /\ row'[r].budget.boot = row[r].budget.boot /\ row'[r].budget.deadline = row[r].budget.deadline
       /\ row'[r].spent >= row[r].spent
       /\ \A p \in DOMAIN row[r].roots : row'[r].roots[p] = row[r].roots[p] /\ row'[r].budget.grants[p] = row[r].budget.grants[p]

(* Every path a plan writes below its source roots is below a root granted  *)
(* to the record, and every other path is left alone.                       *)
WritesInside ==
  \A r \in Records : \A p \in DOMAIN row[r].roots : \A v \in Writable :
    IF \E n \in DOMAIN Source : Prefix(Source[n], v)
      THEN \E n \in DOMAIN Source : Prefix(Source[n], v) /\ Prefix(row[r].roots[p].roots[n].path, Mapped(v, row[r].roots[p]))
      ELSE Mapped(v, row[r].roots[p]) = v

(* The safety of the reservations: shares that fit, states that stay        *)
(* acceptable, roots used once and written inside.                          *)
BudgetSafety == TypeOK /\ SharesFit /\ StateAccepted /\ OneUse /\ WritesInside

=============================================================================
