----------------------- MODULE ReservationProofs -----------------------
(***************************************************************************)
(* What an operation may consume (local_hand_jobs/budget.py and            *)
(* bootstrap_roots.py), for all budgets, pools and records, any clock and  *)
(* any number of reboots.  The argument for the shares: every grant is the *)
(* same floor, a record has at most as many as it has phases, and three    *)
(* stages spend no more than the share of their phase.  The argument for   *)
(* the roots: what was granted is leased, a lease is never given up, and   *)
(* a root is granted only apart from everything that is leased.            *)
(***************************************************************************)
EXTENDS Reservation, FiniteSetTheorems, TLAPS

\* The phases of _PHASES.
Names == {"preflight", "business", "reconcile", "evidence"}
\* What is kept per reserved phase.
Partial(S) == UNION {[P -> S] : P \in SUBSET Names}
\* The limits of a budget or a share, a grant, the state of a budget, the slots.
Limits == [wall : Nat, cpu : Nat, log : Nat, grace : Nat]
Grants == [boot : Nat, started : Nat, deadline : Nat, reserved : Nat, limits : Limits]
States == [boot : Nat, started : Nat, last : Nat, deadline : Nat, grants : Partial(Grants)]
AllSlots == UNION {Range(slots) : slots \in Pools}
\* The rows of the ledger.
Phases == Names \cup {"QUEUED", "PREFLIGHT_COMPLETE", "AWAITING_SEAL", "EXITED"}
Stages == {"bootstrap", "helper", "result_reader"}
Rows == [phase : Phases, begun : BOOLEAN, prepared : SUBSET Names, handles : SUBSET Names,
         roots : Partial(AllSlots), stages : Seq(Stages), spent : Nat, budget : States]

\* The types of the host's clock, the pool, the plans and the rows.
Types ==
  /\ now \in [boot : 0..MaxBoots, at : 0..MaxClock]
  /\ pool \in Pools
  /\ plan \in [Records -> Budgets]
  /\ row \in [Records -> Rows]

\* A record reserves for phases of its own, each with roots and a grant.
Fits(r) ==
  /\ row[r].prepared \subseteq PhaseSet(r)
  /\ row[r].handles \subseteq row[r].prepared
  /\ DOMAIN row[r].roots = row[r].prepared
  /\ DOMAIN row[r].budget.grants = row[r].prepared
  /\ ~row[r].begun => row[r].prepared = {}

\* The equal floor of the processor time of every phase.
Share(r) == Allocated(r).cpu
\* What the delivered phases before the present one may have spent.
Charged(r, p) == IF p \in row[r].handles /\ p # row[r].phase THEN Share(r) ELSE 0
\* What the delivered stages of the present one may have spent.
Under(r) ==
  LET n == Len(row[r].stages)
      floor == Share(r) \div 3 IN
  IF n = 0 THEN 0 ELSE IF n = 1 THEN floor ELSE IF n = 2 THEN Share(r) - floor ELSE Share(r)

\* The stages of a delivered phase spend its share, and no more.
SpentOK(r) ==
  /\ row[r].phase \notin row[r].handles => row[r].stages = <<>>
  /\ Len(row[r].stages) <= 3
  /\ row[r].spent <= Charged(r, "preflight") + Charged(r, "business") + Charged(r, "reconcile")
                     + Charged(r, "evidence") + Under(r)

\* A grant is valid and pays for each of its stages.
GrantsOK(r) ==
  /\ row[r].begun => ValidState(r)
  /\ \A p \in row[r].prepared : Fundable(row[r].budget.grants[p].limits)

\* The business of a job has the roots of its preflight; all roots are leased.
RootsOK(r) ==
  /\ "business" \in row[r].prepared =>
       "preflight" \in row[r].prepared /\ row[r].roots["business"] = row[r].roots["preflight"]
  /\ \A p \in row[r].prepared : Reserved(r, row[r].roots[p])

\* The inductive invariant.
Inv ==
  /\ Types /\ ValidSlots(pool)
  /\ \A r \in Records : Fits(r) /\ SpentOK(r) /\ GrantsOK(r) /\ RootsOK(r)
  /\ OneUse

-----------------------------------------------------------------------------
(* Operators of the model *)

\* The phases of a record, and their number.
LEMMA PhasesKnown ==
  ASSUME NEW r \in Records
  PROVE  \/ /\ Len(PhasesOf(r)) = 3 /\ PhaseSet(r) = {"preflight", "business", "evidence"}
            /\ PhasesOf(r)[1] = "preflight"
         \/ /\ Len(PhasesOf(r)) = 2 /\ PhaseSet(r) = {"reconcile", "evidence"}
            /\ PhasesOf(r)[1] = "reconcile"
<1>1. CASE Namespace[r] = "job"
  <2>1. PhasesOf(r) = <<"preflight", "business", "evidence">>
    BY <1>1 DEF PhasesOf
  <2>2. Len(PhasesOf(r)) = 3 /\ PhasesOf(r)[1] = "preflight"
    BY <2>1
  <2>3. PhaseSet(r) = {"preflight", "business", "evidence"}
    BY <2>1 DEF PhaseSet, Range
  <2> QED BY <2>2, <2>3
<1>2. CASE Namespace[r] # "job"
  <2>1. PhasesOf(r) = <<"reconcile", "evidence">>
    BY <1>2 DEF PhasesOf
  <2>2. Len(PhasesOf(r)) = 2 /\ PhasesOf(r)[1] = "reconcile"
    BY <2>1
  <2>3. PhaseSet(r) = {"reconcile", "evidence"}
    BY <2>1 DEF PhaseSet, Range
  <2> QED BY <2>2, <2>3
<1> QED BY <1>1, <1>2

\* What a phase gets is a floor of what is shared, and the stop grace whole.
LEMMA AllocatedFits ==
  ASSUME BudgetAssumption, Types, NEW r \in Records
  PROVE  /\ Allocated(r) \in Limits /\ plan[r] \in Limits
         /\ Len(PhasesOf(r)) = 3 => 3 * Allocated(r).cpu <= plan[r].cpu
         /\ Len(PhasesOf(r)) = 2 => 2 * Allocated(r).cpu <= plan[r].cpu
         /\ Len(PhasesOf(r)) = 3 => 3 * Allocated(r).wall <= plan[r].wall
         /\ Len(PhasesOf(r)) = 2 => 2 * Allocated(r).wall <= plan[r].wall
         /\ Len(PhasesOf(r)) = 3 => 3 * Allocated(r).log <= plan[r].log
         /\ Len(PhasesOf(r)) = 2 => 2 * Allocated(r).log <= plan[r].log
<1> DEFINE n == Len(PhasesOf(r))
<1>1. plan[r] \in [wall : Positive, cpu : Positive, log : Positive, grace : Positive]
  BY DEF BudgetAssumption, Types
<1>2. plan[r] \in Limits
  BY <1>1 DEF Limits, Positive
<1>3. DOMAIN plan[r] = {"wall", "cpu", "log", "grace"}
  BY <1>1
<1>4. Allocated(r) = [wall |-> plan[r].wall \div n, cpu |-> plan[r].cpu \div n,
                      log |-> plan[r].log \div n, grace |-> plan[r].grace]
  BY <1>3 DEF Allocated, Shared
<1>5. n \in {2, 3}
  BY PhasesKnown
<1>6. \A c \in Nat : /\ c \div 3 \in Nat /\ 3 * (c \div 3) <= c
                     /\ c \div 2 \in Nat /\ 2 * (c \div 2) <= c
  OBVIOUS
<1> HIDE DEF n
<1>7. Allocated(r) \in Limits
  BY <1>2, <1>4, <1>5, <1>6 DEF Limits
<1>8. CASE n = 3
  BY <1>2, <1>4, <1>6, <1>7, <1>8 DEF Limits, n
<1>9. CASE n = 2
  BY <1>2, <1>4, <1>6, <1>7, <1>9 DEF Limits, n
<1> QED BY <1>5, <1>8, <1>9

\* Extend adds one phase to what is kept per phase.
LEMMA ExtendKnown ==
  ASSUME NEW S, NEW D \in SUBSET Names, NEW f \in [D -> S], NEW p \in Names, NEW v \in S
  PROVE  /\ Extend(f, p, v) \in [D \cup {p} -> S]
         /\ DOMAIN Extend(f, p, v) = D \cup {p}
         /\ Extend(f, p, v)[p] = v
         /\ \A q \in D : q # p => Extend(f, p, v)[q] = f[q]
BY DEF Extend

\* The stages of a phase in their order, each with a part of its share; together
\* they have the share.
LEMMA StageShare ==
  ASSUME NEW limits \in Limits
  PROVE  /\ Len(StageNames) = 3
         /\ Substage(limits, StageNames[1]).cpu = limits.cpu \div 3
         /\ Substage(limits, StageNames[2]).cpu = limits.cpu - 2 * (limits.cpu \div 3)
         /\ Substage(limits, StageNames[3]).cpu = limits.cpu \div 3
<1>1. Len(StageNames) = 3
  BY DEF StageNames
<1>2. StageNames[1] = "bootstrap" /\ StageNames[2] = "helper" /\ StageNames[3] = "result_reader"
  BY DEF StageNames
<1>3. ASSUME NEW stage
      PROVE  Substage(limits, stage).cpu
               = IF stage = "helper" THEN limits.cpu - (limits.cpu \div 3) * 2 ELSE limits.cpu \div 3
  BY <1>1 DEF Substage, Limits
<1>4. limits.cpu \in Nat /\ (limits.cpu \div 3) * 2 = 2 * (limits.cpu \div 3)
  BY DEF Limits
<1> QED BY <1>1, <1>2, <1>3, <1>4

\* Two overlapping paths overlap both ways.
LEMMA OverlapSymmetric ==
  ASSUME NEW p, NEW q, Overlap(p, q)
  PROVE  Overlap(q, p)
BY DEF Overlap

\* A set of numbers has a least one: of the intervals up to its members, one is
\* least under inclusion.
LEMMA LeastKnown ==
  ASSUME NEW S \in SUBSET Nat, S # {}
  PROVE  Min(S) \in S
<1> DEFINE T == {0..x : x \in S}
<1>1. T \subseteq FiniteSubsetsOf(Nat)
  <2>1. \A x \in S : 0..x \subseteq Nat /\ IsFiniteSet(0..x)
    BY FS_Interval
  <2> QED BY <2>1 DEF FiniteSubsetsOf
<1>2. PICK m \in T : \A t \in T : <<t, m>> \notin StrictSubsetOrdering(Nat)
  <2>1. T # {}
    OBVIOUS
  <2>2. IsWellFoundedOn(StrictSubsetOrdering(Nat), FiniteSubsetsOf(Nat))
    BY FS_StrictSubsetOrderingWellFounded
  <2> HIDE DEF T
  <2> QED BY <1>1, <2>1, <2>2, WFMin
<1>3. PICK x \in S : m = 0..x
  OBVIOUS
<1>4. ASSUME NEW y \in S, y < x PROVE FALSE
  <2>1. <<0..y, 0..x>> \in (SUBSET Nat) \X (SUBSET Nat)
    OBVIOUS
  <2>2. 0..y \subseteq 0..x /\ x \in 0..x /\ x \notin 0..y
    BY <1>4
  <2>3. <<0..y, 0..x>> \in StrictSubsetOrdering(Nat)
    BY <2>1, <2>2 DEF StrictSubsetOrdering
  <2> QED BY <1>2, <1>3, <2>3
<1>5. \E y \in S : \A z \in S : y <= z
  BY <1>4
<1> QED BY <1>5 DEF Min

-----------------------------------------------------------------------------
(* A record that a step does not write *)

\* What holds of a record stays, whatever the other records are granted.
LEMMA OthersKept ==
  ASSUME NEW t, row'[t] = row[t], plan' = plan, leases \subseteq leases',
         Fits(t), SpentOK(t), GrantsOK(t), RootsOK(t)
  PROVE  Fits(t)' /\ SpentOK(t)' /\ GrantsOK(t)' /\ RootsOK(t)'
<1>1. Fits(t)'
  BY DEF Fits
<1>2. Allocated(t)' = Allocated(t)
  BY DEF Allocated
<1>3. SpentOK(t)'
  BY <1>2 DEF SpentOK, Charged, Under, Share
<1>4. ValidState(t)' <=> ValidState(t)
  BY <1>2 DEF ValidState, ValidGrant
<1>5. GrantsOK(t)'
  BY <1>4 DEF GrantsOK
<1>6. RootsOK(t)'
  BY DEF RootsOK, Reserved
<1> QED BY <1>1, <1>3, <1>5, <1>6

-----------------------------------------------------------------------------
(* Prepare *)

\* A phase gets the roots of its preflight, or the first slot that is free.
LEMMA SlotKnown ==
  ASSUME BudgetAssumption, Inv, NEW r \in Records, NEW p \in PhaseSet(r), p \notin row[r].prepared,
         NEW slot \in SlotChoices(r, p)
  PROVE  /\ slot \in AllSlots
         /\ \/ /\ Inherited(r, p) # {} /\ p = "business" /\ "preflight" \in row[r].prepared
               /\ slot = row[r].roots["preflight"] /\ Reserved(r, slot)
            \/ Inherited(r, p) = {} /\ p # "business" /\ Available(slot)
<1>1. Range(pool) \subseteq AllSlots
  BY DEF Inv, Types, AllSlots
<1>2. DOMAIN row[r].roots = row[r].prepared
  BY DEF Inv, Fits
<1>3. CASE Inherited(r, p) # {}
  <2>1. p = "business" /\ "preflight" \in row[r].prepared /\ Inherited(r, p) = {row[r].roots["preflight"]}
    BY <1>2, <1>3 DEF Inherited
  <2> QED BY <1>1, <1>3, <2>1 DEF SlotChoices
<1>4. CASE Inherited(r, p) = {}
  <2> DEFINE free == {k \in DOMAIN pool : Available(pool[k])}
  <2>1. p # "business" /\ free # {} /\ slot = pool[Min(free)]
    BY <1>4 DEF SlotChoices
  <2>2. DOMAIN pool \subseteq Nat
    BY DEF Inv, Types, BudgetAssumption
  <2>3. Min(free) \in free
    BY <2>1, <2>2, LeastKnown
  <2>4. slot \in Range(pool) /\ Available(slot)
    BY <2>1, <2>3 DEF Range
  <2> QED BY <1>1, <1>4, <2>1, <2>4
<1> QED BY <1>3, <1>4

\* The state a phase is reserved in, on the clock it is reserved at: a new one, or
\* one that is valid.
Base(r) == IF ~row[r].begun THEN NewBudget(r) ELSE row[r].budget
Grant(r) ==
  [boot |-> Base(r).boot, started |-> Base(r).started, deadline |-> Base(r).deadline, reserved |-> now.at,
   limits |-> Allocated(r)]

\* The base holds the grants of the phases before, and the clock is inside it.
LEMMA BaseKnown ==
  ASSUME BudgetAssumption, Inv, NEW r \in Records,
         row[r].begun => ValidState(r), SameClock(Base(r)), Base(r).deadline - now.at > Allocated(r).grace
  PROVE  /\ Base(r) \in States /\ Base(r).grants \in [row[r].prepared -> Grants]
         /\ Base(r).started <= Base(r).last /\ Base(r).last <= now.at /\ now.at < Base(r).deadline
         /\ Base(r).deadline = Base(r).started + plan[r].wall
         /\ \A q \in row[r].prepared :
              /\ Base(r).grants[q] = row[r].budget.grants[q]
              /\ ValidGrant(r, Base(r).grants[q]) /\ Base(r).grants[q].boot = Base(r).boot
              /\ Base(r).grants[q].started = Base(r).started /\ Base(r).grants[q].reserved <= Base(r).last
<1>1. now.at \in Nat /\ now.boot \in Nat /\ row[r] \in Rows
  BY DEF Inv, Types, BudgetAssumption
<1>2. Allocated(r).grace \in Nat /\ plan[r].wall \in Nat
  BY AllocatedFits DEF Inv, Limits
<1>3. Fits(r)
  BY DEF Inv
<1>4. CASE ~row[r].begun
  <2>1. row[r].prepared = {}
    BY <1>3, <1>4 DEF Fits
  <2>2. Base(r) = [boot |-> now.boot, started |-> now.at, last |-> now.at, deadline |-> now.at + plan[r].wall,
                   grants |-> <<>>]
    BY <1>4 DEF Base, NewBudget
  <2>3. <<>> \in [{} -> Grants] /\ <<>> \in Partial(Grants)
    <3>1. <<>> = [x \in {} |-> x]
      OBVIOUS
    <3> QED BY <3>1 DEF Partial
  <2>4. Base(r) \in States /\ Base(r).grants \in [row[r].prepared -> Grants]
    BY <1>1, <1>2, <2>1, <2>2, <2>3 DEF States
  <2>5. now.at < Base(r).deadline
    BY <1>1, <1>2, <2>2
  <2> QED BY <1>1, <2>1, <2>2, <2>4, <2>5
<1>5. CASE row[r].begun
  <2>1. Base(r) = row[r].budget /\ ValidState(r)
    BY <1>5 DEF Base
  <2>2. Base(r) \in States
    BY <1>1, <2>1 DEF Rows
  <2>3. Base(r).grants \in Partial(Grants) /\ DOMAIN Base(r).grants = row[r].prepared
    BY <1>3, <2>1, <2>2 DEF Fits, States
  <2>4. Base(r).grants \in [row[r].prepared -> Grants]
    BY <2>3 DEF Partial
  <2>5. Base(r).last <= now.at
    BY <1>1, <2>2 DEF SameClock, States
  <2>6. now.at < Base(r).deadline
    BY <1>1, <1>2, <2>2 DEF States
  <2> QED BY <2>1, <2>2, <2>3, <2>4, <2>5, <2>6 DEF ValidState
<1> QED BY <1>4, <1>5

\* What Prepare writes.
LEMMA PrepareWrites ==
  ASSUME BudgetAssumption, Inv, NEW r \in Records, NEW p \in PhaseSet(r), Prepare(r, p)
  PROVE  /\ p \in Names /\ p \notin row[r].prepared
         /\ row[r].begun => ValidState(r)
         /\ SameClock(Base(r)) /\ Base(r).deadline - now.at > Allocated(r).grace
         /\ Fundable(Allocated(r)) /\ row[r].phase = Expected(r, p)
         /\ \E slot \in SlotChoices(r, p) :
              /\ row' = [row EXCEPT ![r] =
                          [@ EXCEPT !.begun = TRUE, !.budget = Kept(Base(r), p, Grant(r)),
                                    !.prepared = row[r].prepared \cup {p}, !.roots = Extend(row[r].roots, p, slot)]]
              /\ leases' = IF Inherited(r, p) # {} THEN leases
                           ELSE leases \cup {[res |-> x, owner |-> Owner(r, slot)] : x \in Resources(slot)}
         /\ UNCHANGED <<now, pool, plan>>
<1>1. p \in Names
  BY PhasesKnown DEF Names
<1>2. row \in [Records -> Rows] /\ row[r] \in Rows
  BY DEF Inv, Types
<1>3. DOMAIN Base(r).grants = row[r].prepared
  <2>1. CASE ~row[r].begun
    BY <2>1 DEF Inv, Fits, Base, NewBudget
  <2>2. CASE row[r].begun
    BY <2>2 DEF Inv, Fits, Base
  <2> QED BY <2>1, <2>2
<1>4. row[r].begun => ValidState(r)
  BY DEF Prepare
<1>5. /\ SameClock(Base(r)) /\ Base(r).deadline - now.at > Allocated(r).grace
      /\ Fundable(Allocated(r)) /\ row[r].phase = Expected(r, p) /\ Unreserved(Base(r), p)
      /\ UNCHANGED <<now, pool, plan>>
  BY DEF Prepare, Base
<1>6. PICK slot \in SlotChoices(r, p) :
        /\ row' = [row EXCEPT ![r].begun = TRUE, ![r].budget = Kept(Base(r), p, Grant(r)), ![r].prepared = @ \cup {p},
                              ![r].roots = Extend(@, p, slot)]
        /\ leases' = IF Inherited(r, p) # {} THEN leases
                     ELSE leases \cup {[res |-> x, owner |-> Owner(r, slot)] : x \in Resources(slot)}
  BY DEF Prepare, Base, Grant
<1>7. row' = [row EXCEPT ![r] =
               [@ EXCEPT !.begun = TRUE, !.budget = Kept(Base(r), p, Grant(r)),
                         !.prepared = row[r].prepared \cup {p}, !.roots = Extend(row[r].roots, p, slot)]]
  BY <1>2, <1>6
<1> QED BY <1>1, <1>3, <1>4, <1>5, <1>6, <1>7 DEF Unreserved

\* Equal floors for some of the phases of a record never exceed its budget.
LEMMA TotalFits ==
  ASSUME BudgetAssumption, Types, NEW r \in Records, NEW grants, DOMAIN grants \subseteq PhaseSet(r),
         \A q \in DOMAIN grants : grants[q].limits = Allocated(r), NEW k \in Shared
  PROVE  Total(grants, k) <= plan[r][k]
<1> DEFINE a == Allocated(r)[k]
<1>1. a \in Nat /\ plan[r][k] \in Nat
  BY AllocatedFits DEF Shared, Limits
<1>2. /\ Len(PhasesOf(r)) = 3 => 3 * a <= plan[r][k]
      /\ Len(PhasesOf(r)) = 2 => 2 * a <= plan[r][k]
  BY AllocatedFits DEF Shared
<1>3. \A q : Part(grants, k, q) = IF q \in DOMAIN grants THEN a ELSE 0
  BY DEF Part
<1> HIDE DEF a
<1>4. CASE Len(PhasesOf(r)) = 3
  <2>1. "reconcile" \notin DOMAIN grants
    BY <1>4, PhasesKnown
  <2> QED BY <1>1, <1>2, <1>3, <1>4, <2>1 DEF Total
<1>5. CASE Len(PhasesOf(r)) = 2
  <2>1. "preflight" \notin DOMAIN grants /\ "business" \notin DOMAIN grants
    BY <1>5, PhasesKnown
  <2> QED BY <1>1, <1>2, <1>3, <1>5, <2>1 DEF Total
<1> QED BY <1>4, <1>5, PhasesKnown

\* What a reservation writes of a budget state.
LEMMA KeptKnown ==
  ASSUME NEW s \in States, NEW p, NEW g
  PROVE  /\ Kept(s, p, g).boot = s.boot /\ Kept(s, p, g).started = s.started /\ Kept(s, p, g).last = now.at
         /\ Kept(s, p, g).deadline = s.deadline /\ Kept(s, p, g).grants = Extend(s.grants, p, g)
         /\ now.at \in Nat /\ Extend(s.grants, p, g) \in Partial(Grants) => Kept(s, p, g) \in States
<1> DEFINE e == Extend(s.grants, p, g)  at == now.at
<1> HIDE DEF e, at
<1>1. Kept(s, p, g) = [s EXCEPT !.grants = e, !.last = at]
  BY DEF Kept, e, at
<1>2. /\ [s EXCEPT !.grants = e, !.last = at].boot = s.boot
      /\ [s EXCEPT !.grants = e, !.last = at].started = s.started
      /\ [s EXCEPT !.grants = e, !.last = at].last = at
      /\ [s EXCEPT !.grants = e, !.last = at].deadline = s.deadline
      /\ [s EXCEPT !.grants = e, !.last = at].grants = e
  BY DEF States
<1>3. at \in Nat /\ e \in Partial(Grants) => [s EXCEPT !.grants = e, !.last = at] \in States
  BY DEF States
<1> QED BY <1>1, <1>2, <1>3 DEF e, at

\* The new grant leaves a valid state: the types, and what the state promises.
LEMMA PrepareGrants ==
  ASSUME BudgetAssumption, Inv, NEW r \in Records, NEW p \in PhaseSet(r), Prepare(r, p)
  PROVE  LET b == Kept(Base(r), p, Grant(r)) IN
         /\ b \in States /\ b.boot = Base(r).boot /\ b.started = Base(r).started /\ b.last = now.at
         /\ b.deadline = Base(r).deadline
         /\ b.grants \in [row[r].prepared \cup {p} -> Grants] /\ DOMAIN b.grants = row[r].prepared \cup {p}
         /\ b.grants[p] = Grant(r)
         /\ \A q \in row[r].prepared : b.grants[q] = row[r].budget.grants[q]
         /\ \A q \in row[r].prepared \cup {p} :
              /\ ValidGrant(r, b.grants[q]) /\ b.grants[q].boot = b.boot
              /\ b.grants[q].started = b.started /\ b.grants[q].reserved <= b.last
<1> DEFINE b == Kept(Base(r), p, Grant(r))
<1>1. /\ p \in Names /\ p \notin row[r].prepared
      /\ row[r].begun => ValidState(r)
      /\ SameClock(Base(r)) /\ Base(r).deadline - now.at > Allocated(r).grace
  BY PrepareWrites
<1>2. /\ Base(r) \in States /\ Base(r).grants \in [row[r].prepared -> Grants]
      /\ Base(r).started <= Base(r).last /\ Base(r).last <= now.at /\ now.at < Base(r).deadline
      /\ Base(r).deadline = Base(r).started + plan[r].wall
      /\ \A q \in row[r].prepared :
           /\ Base(r).grants[q] = row[r].budget.grants[q]
           /\ ValidGrant(r, Base(r).grants[q]) /\ Base(r).grants[q].boot = Base(r).boot
           /\ Base(r).grants[q].started = Base(r).started /\ Base(r).grants[q].reserved <= Base(r).last
  BY <1>1, BaseKnown
<1>3. now.at \in Nat /\ row[r].prepared \in SUBSET Names /\ Allocated(r) \in Limits /\ plan[r].wall \in Nat
  <2>1. now.at \in Nat
    BY DEF Inv, Types, BudgetAssumption
  <2>2. row[r].prepared \in SUBSET Names
    BY DEF Inv, Types, Rows
  <2>3. Allocated(r) \in Limits /\ plan[r].wall \in Nat
    BY AllocatedFits DEF Inv, Limits
  <2> QED BY <2>1, <2>2, <2>3
<1>4. Grant(r) \in Grants
  BY <1>2, <1>3 DEF Grant, Grants, States
<1>5. ValidGrant(r, Grant(r))
  BY <1>2, <1>3 DEF Grant, ValidGrant, States
<1>6. /\ b.boot = Base(r).boot /\ b.started = Base(r).started /\ b.last = now.at
      /\ b.deadline = Base(r).deadline /\ b.grants = Extend(Base(r).grants, p, Grant(r))
      /\ now.at \in Nat /\ b.grants \in Partial(Grants) => b \in States
  BY <1>2, KeptKnown
<1> HIDE DEF b
<1>7. /\ b.grants \in [row[r].prepared \cup {p} -> Grants] /\ DOMAIN b.grants = row[r].prepared \cup {p}
      /\ b.grants[p] = Grant(r)
      /\ \A q \in row[r].prepared : b.grants[q] = Base(r).grants[q]
  <2> DEFINE f == Base(r).grants  D == row[r].prepared
  <2>1. f \in [D -> Grants] /\ D \in SUBSET Names
    BY <1>2, <1>3
  <2> HIDE DEF f, D
  <2>2. /\ Extend(f, p, Grant(r)) \in [D \cup {p} -> Grants]
        /\ DOMAIN Extend(f, p, Grant(r)) = D \cup {p}
        /\ Extend(f, p, Grant(r))[p] = Grant(r)
        /\ \A q \in D : q # p => Extend(f, p, Grant(r))[q] = f[q]
    BY <1>1, <1>4, <2>1 DEF Extend
  <2> QED BY <1>1, <1>6, <2>2 DEF f, D
<1>8. b.grants \in Partial(Grants)
  BY <1>1, <1>3, <1>7 DEF Partial
<1>9. b \in States
  BY <1>2, <1>3, <1>6, <1>8 DEF States
<1>10. \A q \in row[r].prepared : b.grants[q].reserved <= b.last
  <2> TAKE q \in row[r].prepared
  <2>1. b.grants[q].reserved \in Nat /\ b.grants[q].reserved <= Base(r).last /\ Base(r).last \in Nat
    BY <1>2, <1>7 DEF Grants, States
  <2> QED BY <1>2, <1>3, <1>6, <2>1
<1>11. \A q \in row[r].prepared \cup {p} :
         /\ ValidGrant(r, b.grants[q]) /\ b.grants[q].boot = b.boot
         /\ b.grants[q].started = b.started /\ b.grants[q].reserved <= b.last
  <2> TAKE q \in row[r].prepared \cup {p}
  <2>1. CASE q = p
    <3>1. /\ Grant(r).boot = Base(r).boot /\ Grant(r).started = Base(r).started /\ Grant(r).reserved = now.at
      BY DEF Grant
    <3> QED BY <1>3, <1>5, <1>6, <1>7, <2>1, <3>1
  <2>2. CASE q \in row[r].prepared
    BY <1>2, <1>6, <1>7, <1>10, <2>2
  <2> QED BY <2>1, <2>2
<1> QED BY <1>2, <1>6, <1>7, <1>9, <1>11 DEF b

\* The row of a record that prepared a phase, and the resources it now holds.
LEMMA PrepareRow ==
  ASSUME BudgetAssumption, Inv, NEW r \in Records, NEW p \in PhaseSet(r), Prepare(r, p)
  PROVE  /\ row' \in [Records -> Rows] /\ \A t \in Records \ {r} : row'[t] = row[t]
         /\ row'[r].phase = row[r].phase /\ row'[r].begun = TRUE
         /\ row'[r].budget = Kept(Base(r), p, Grant(r)) /\ row'[r].prepared = row[r].prepared \cup {p}
         /\ row'[r].handles = row[r].handles /\ row'[r].stages = row[r].stages /\ row'[r].spent = row[r].spent
         /\ \E slot \in SlotChoices(r, p) :
              /\ row'[r].roots[p] = slot
              /\ leases' = IF Inherited(r, p) # {} THEN leases
                           ELSE leases \cup {[res |-> x, owner |-> Owner(r, slot)] : x \in Resources(slot)}
         /\ DOMAIN row'[r].roots = row[r].prepared \cup {p}
         /\ \A q \in row[r].prepared : row'[r].roots[q] = row[r].roots[q]
         /\ leases \subseteq leases' /\ UNCHANGED <<now, pool, plan>>
<1> DEFINE b == Kept(Base(r), p, Grant(r))  D == row[r].prepared
<1>1. p \in Names /\ p \notin D /\ UNCHANGED <<now, pool, plan>>
  BY PrepareWrites
<1>2. PICK slot \in SlotChoices(r, p) :
        /\ row' = [row EXCEPT ![r] = [@ EXCEPT !.begun = TRUE, !.budget = b, !.prepared = D \cup {p},
                                               !.roots = Extend(row[r].roots, p, slot)]]
        /\ leases' = IF Inherited(r, p) # {} THEN leases
                     ELSE leases \cup {[res |-> x, owner |-> Owner(r, slot)] : x \in Resources(slot)}
  BY PrepareWrites
<1>3. row \in [Records -> Rows] /\ row[r] \in Rows
  BY DEF Inv, Types
<1>4. slot \in AllSlots
  BY <1>1, <1>2, SlotKnown
<1>5. b \in States
  BY PrepareGrants
<1> DEFINE f == row[r].roots  g == Extend(row[r].roots, p, slot)
<1>6. f \in [D -> AllSlots] /\ D \in SUBSET Names
  <2>1. f \in Partial(AllSlots) /\ DOMAIN f = D /\ D \in SUBSET Names
    BY <1>3 DEF Inv, Fits, Rows
  <2> QED BY <2>1 DEF Partial
<1>7. /\ g \in [D \cup {p} -> AllSlots] /\ DOMAIN g = D \cup {p} /\ g[p] = slot
      /\ \A q \in D : g[q] = f[q]
  <2> HIDE DEF f, D
  <2>1. g = Extend(f, p, slot)
    BY DEF f
  <2> QED BY <1>1, <1>4, <1>6, <2>1 DEF Extend
<1>8. g \in Partial(AllSlots)
  <2> HIDE DEF g, f, D
  <2> QED BY <1>1, <1>6, <1>7 DEF Partial
<1> DEFINE next == [row[r] EXCEPT !.begun = TRUE, !.budget = b, !.prepared = D \cup {p}, !.roots = g]
<1>9. row' = [row EXCEPT ![r] = next]
  BY <1>2
<1>10. D \cup {p} \in SUBSET Names
  BY <1>1, <1>6
<1>11. /\ next.begun = TRUE /\ next.budget = b /\ next.prepared = D \cup {p} /\ next.roots = g
       /\ next.phase = row[r].phase /\ next.handles = row[r].handles /\ next.stages = row[r].stages
       /\ next.spent = row[r].spent
  <2> HIDE DEF b, g, D
  <2> QED BY <1>3 DEF Rows
<1>12. next \in Rows
  <2> HIDE DEF b, g, D
  <2> QED BY <1>3, <1>5, <1>8, <1>10 DEF Rows
<1>13. row'[r] = next /\ \A t \in Records \ {r} : row'[t] = row[t]
  <2> HIDE DEF next
  <2> QED BY <1>3, <1>9
<1>14. row' \in [Records -> Rows]
  <2> HIDE DEF next
  <2> QED BY <1>3, <1>9, <1>12
<1>15. leases \subseteq leases'
  BY <1>2
<1> HIDE DEF next
<1>16. /\ row'[r].roots[p] = slot /\ DOMAIN row'[r].roots = D \cup {p}
       /\ \A q \in D : row'[r].roots[q] = row[r].roots[q]
  <2> HIDE DEF g, b, D
  <2> QED BY <1>7, <1>11, <1>13 DEF f
<1>17. /\ row'[r].phase = row[r].phase /\ row'[r].begun = TRUE
       /\ row'[r].budget = b /\ row'[r].prepared = D \cup {p}
       /\ row'[r].handles = row[r].handles /\ row'[r].stages = row[r].stages /\ row'[r].spent = row[r].spent
  <2> HIDE DEF g, b, D
  <2> QED BY <1>11, <1>13
<1>18. \E s \in SlotChoices(r, p) :
         /\ row'[r].roots[p] = s
         /\ leases' = IF Inherited(r, p) # {} THEN leases
                      ELSE leases \cup {[res |-> x, owner |-> Owner(r, s)] : x \in Resources(s)}
  BY <1>2, <1>16
<1> QED BY <1>1, <1>13, <1>14, <1>15, <1>16, <1>17, <1>18

\* The record that prepares: what it reserves fits, is valid, and is leased.
LEMMA PrepareOwn ==
  ASSUME BudgetAssumption, Inv, NEW r \in Records, NEW p \in PhaseSet(r), Prepare(r, p)
  PROVE  Types' /\ Fits(r)' /\ SpentOK(r)' /\ GrantsOK(r)' /\ RootsOK(r)'
<1> DEFINE b == Kept(Base(r), p, Grant(r))  D == row[r].prepared
<1>1. /\ row' \in [Records -> Rows]
      /\ row'[r].phase = row[r].phase /\ row'[r].begun = TRUE
      /\ row'[r].budget = b /\ row'[r].prepared = D \cup {p}
      /\ row'[r].handles = row[r].handles /\ row'[r].stages = row[r].stages /\ row'[r].spent = row[r].spent
      /\ DOMAIN row'[r].roots = D \cup {p}
      /\ \A q \in D : row'[r].roots[q] = row[r].roots[q]
      /\ leases \subseteq leases' /\ UNCHANGED <<now, pool, plan>>
  BY PrepareRow
<1>2. PICK slot \in SlotChoices(r, p) :
        /\ row'[r].roots[p] = slot
        /\ leases' = IF Inherited(r, p) # {} THEN leases
                     ELSE leases \cup {[res |-> x, owner |-> Owner(r, slot)] : x \in Resources(slot)}
  BY PrepareRow
<1>3. /\ b \in States /\ b.boot = Base(r).boot /\ b.started = Base(r).started /\ b.last = now.at
      /\ b.deadline = Base(r).deadline
      /\ DOMAIN b.grants = D \cup {p} /\ b.grants[p] = Grant(r)
      /\ \A q \in D : b.grants[q] = row[r].budget.grants[q]
      /\ \A q \in D \cup {p} :
           /\ ValidGrant(r, b.grants[q]) /\ b.grants[q].boot = b.boot
           /\ b.grants[q].started = b.started /\ b.grants[q].reserved <= b.last
  BY PrepareGrants
<1>4. /\ p \in Names /\ p \notin D /\ Fundable(Allocated(r))
      /\ row[r].begun => ValidState(r)
      /\ SameClock(Base(r)) /\ Base(r).deadline - now.at > Allocated(r).grace
  BY PrepareWrites
<1>5. /\ Base(r).started <= Base(r).last /\ Base(r).last <= now.at /\ now.at < Base(r).deadline
      /\ Base(r).deadline = Base(r).started + plan[r].wall /\ Base(r) \in States
  BY <1>4, BaseKnown
<1> HIDE DEF b
<1>6. Types'
  BY <1>1 DEF Inv, Types
<1>7. Fits(r) /\ SpentOK(r) /\ GrantsOK(r) /\ RootsOK(r)
  BY DEF Inv
<1>8. Allocated(r)' = Allocated(r)
  BY <1>1 DEF Allocated
<1>9. Fits(r)'
  BY <1>1, <1>3, <1>7 DEF Fits
<1>10. SpentOK(r)'
  BY <1>1, <1>7, <1>8 DEF SpentOK, Charged, Under, Share
<1>11. GrantsOK(r)'
  <2>1. b.started <= b.last /\ b.last < b.deadline /\ b.deadline = b.started + plan[r].wall
    <3>1. now.at \in Nat
      BY DEF Inv, Types, BudgetAssumption
    <3> QED BY <1>3, <1>5, <3>1 DEF States
  <2>2. row'[r].handles \cup row'[r].prepared = D \cup {p}
    BY <1>1, <1>7 DEF Fits
  <2>3. \A k \in Shared : Total(b.grants, k) <= plan[r][k]
    <3>1. D \cup {p} \subseteq PhaseSet(r)
      BY <1>7 DEF Fits
    <3>2. \A q \in DOMAIN b.grants : b.grants[q].limits = Allocated(r)
      BY <1>3 DEF ValidGrant
    <3> QED BY <1>3, <3>1, <3>2, TotalFits DEF Inv
  <2>4. ValidState(r)'
    <3> DEFINE s == row'[r].budget
    <3>1. s = b /\ DOMAIN s.grants = D \cup {p}
      BY <1>1, <1>3
    <3>2. \A q \in DOMAIN s.grants : ValidGrant(r, row[r].budget.grants[q])'
      <4> TAKE q \in DOMAIN s.grants
      <4>1. ValidGrant(r, s.grants[q])
        BY <1>3, <3>1
      <4> QED BY <1>1, <1>8, <4>1 DEF ValidGrant
    <3>3. plan'[r] = plan[r]
      BY <1>1
    <3>4. /\ \A q \in DOMAIN s.grants : s.grants[q].boot = s.boot /\ s.grants[q].started = s.started
                                         /\ s.grants[q].reserved <= s.last
          /\ s.started <= s.last /\ s.last < s.deadline /\ s.deadline = s.started + plan[r].wall
          /\ \A k \in Shared : Total(s.grants, k) <= plan[r][k]
      BY <1>3, <2>1, <2>3, <3>1
    <3>5. DOMAIN s.grants = row'[r].handles \cup row'[r].prepared
      BY <2>2, <3>1
    <3> QED BY <3>2, <3>3, <3>4, <3>5 DEF ValidState
  <2>5. \A q \in D \cup {p} : Fundable(b.grants[q].limits)
    <3>1. Grant(r).limits = Allocated(r)
      BY DEF Grant
    <3> QED BY <1>3, <1>4, <1>7, <3>1 DEF GrantsOK
  <2> QED BY <1>1, <2>4, <2>5 DEF GrantsOK
<1>12. RootsOK(r)'
  <2>1. \/ /\ Inherited(r, p) # {} /\ p = "business" /\ "preflight" \in D
           /\ slot = row[r].roots["preflight"] /\ Reserved(r, slot)
        \/ Inherited(r, p) = {} /\ p # "business"
    BY <1>4, <1>2, SlotKnown
  <2> DEFINE Held(s) == \A x \in Resources(s) : [res |-> x, owner |-> Owner(r, s)] \in leases'
  <2>2. Held(slot)
    BY <1>1, <1>2, <2>1 DEF Reserved
  <2>3. \A q \in D : Held(row[r].roots[q])
    BY <1>1, <1>7 DEF RootsOK, Reserved
  <2>4. \A q \in D \cup {p} : Held(row'[r].roots[q])
    <3> HIDE DEF Held
    <3> TAKE q \in D \cup {p}
    <3>1. CASE q = p
      BY <1>2, <2>2, <3>1
    <3>2. CASE q \in D
      BY <1>1, <2>3, <3>2
    <3> QED BY <3>1, <3>2
  <2>5. "business" \in D \cup {p} =>
          "preflight" \in D \cup {p} /\ row'[r].roots["business"] = row'[r].roots["preflight"]
    BY <1>1, <1>2, <1>4, <1>7, <2>1 DEF RootsOK
  <2>6. \A q \in row'[r].prepared : Reserved(r, row[r].roots[q])'
    BY <1>1, <2>4 DEF Reserved
  <2> QED BY <1>1, <2>5, <2>6 DEF RootsOK
<1> QED BY <1>6, <1>9, <1>10, <1>11, <1>12

\* Two slots that share nothing.
Apart(s, u) == \A x \in SlotRoots(s) : \A y \in SlotRoots(u) : ~Overlap(x.path, y.path) /\ x.inode # y.inode

\* A slot that is free shares nothing with one that is leased.
LEMMA AvailableApart ==
  ASSUME NEW s, Available(s), NEW t, NEW u, Reserved(t, u)
  PROVE  Apart(s, u) /\ Apart(u, s)
<1> SUFFICES ASSUME NEW x \in SlotRoots(s), NEW y \in SlotRoots(u)
             PROVE  /\ ~Overlap(x.path, y.path) /\ ~Overlap(y.path, x.path)
                    /\ x.inode # y.inode
  BY DEF Apart
<1>1. y.path \in PathsLeased
  <2> DEFINE l == [res |-> [kind |-> "path", path |-> y.path, inode |-> 0], owner |-> Owner(t, u)]
  <2>1. l \in leases
    BY DEF Reserved, Resources
  <2>2. l.res.kind = "path" /\ l.res.path = y.path
    OBVIOUS
  <2> QED BY <2>1, <2>2 DEF PathsLeased
<1>2. y.inode \in InodesLeased
  <2> DEFINE l == [res |-> [kind |-> "inode", path |-> <<>>, inode |-> y.inode], owner |-> Owner(t, u)]
  <2>1. l \in leases
    BY DEF Reserved, Resources
  <2>2. l.res.kind = "inode" /\ l.res.inode = y.inode
    OBVIOUS
  <2> QED BY <2>1, <2>2 DEF InodesLeased
<1>3. ~Overlap(y.path, x.path) /\ x.inode # y.inode
  BY <1>1, <1>2 DEF Available
<1> QED BY <1>3, OverlapSymmetric

\* How OneUse compares two phases that were granted roots.
Together(r, p, t, q) ==
  \/ <<r, p>> = <<t, q>>
  \/ r = t /\ {p, q} = {"preflight", "business"} /\ row[r].roots[p] = row[t].roots[q]
  \/ Apart(row[r].roots[p], row[t].roots[q])

\* A new grant is apart from all others, or the business after its preflight.
LEMMA PrepareOneUse ==
  ASSUME BudgetAssumption, Inv, NEW r \in Records, NEW p \in PhaseSet(r), Prepare(r, p)
  PROVE  OneUse'
<1> DEFINE D == row[r].prepared
<1>1. /\ \A t \in Records \ {r} : row'[t] = row[t]
      /\ DOMAIN row'[r].roots = D \cup {p}
      /\ \A q \in D : row'[r].roots[q] = row[r].roots[q]
  BY PrepareRow
<1>2. PICK slot \in SlotChoices(r, p) :
        /\ row'[r].roots[p] = slot
        /\ leases' = IF Inherited(r, p) # {} THEN leases
                     ELSE leases \cup {[res |-> x, owner |-> Owner(r, slot)] : x \in Resources(slot)}
  BY PrepareRow
<1>3. p \notin D
  BY PrepareWrites
<1>4. \/ /\ p = "business" /\ "preflight" \in D /\ slot = row[r].roots["preflight"]
      \/ Available(slot)
  BY <1>2, <1>3, SlotKnown
<1>5. \A t \in Records : DOMAIN row[t].roots = row[t].prepared
  BY DEF Inv, Fits
<1>6. \A t, u \in Records : \A q \in row[t].prepared : \A v \in row[u].prepared : Together(t, q, u, v)
  BY <1>5 DEF Inv, OneUse, Together, Apart
<1>7. \A t \in Records : \A q \in row[t].prepared :
        /\ \/ t = r /\ p = "business" /\ q = "preflight" /\ slot = row[r].roots["preflight"]
           \/ Apart(slot, row[t].roots[q])
        /\ \/ t = r /\ p = "business" /\ q = "preflight" /\ slot = row[r].roots["preflight"]
           \/ Apart(row[t].roots[q], slot)
  <2> TAKE t \in Records
  <2> TAKE q \in row[t].prepared
  <2>1. CASE Available(slot)
    <3>1. Reserved(t, row[t].roots[q])
      BY DEF Inv, RootsOK
    <3> QED BY <2>1, <3>1, AvailableApart
  <2>2. CASE p = "business" /\ "preflight" \in D /\ slot = row[r].roots["preflight"]
    <3>1. Together(r, "preflight", t, q) /\ Together(t, q, r, "preflight")
      BY <1>6, <2>2
    <3> QED BY <1>3, <2>2, <3>1 DEF Together
  <2> QED BY <1>4, <2>1, <2>2
<1>8. ASSUME NEW t \in Records, NEW u \in Records,
             NEW q \in DOMAIN row'[t].roots, NEW v \in DOMAIN row'[u].roots
      PROVE  \/ <<t, q>> = <<u, v>>
             \/ t = u /\ {q, v} = {"preflight", "business"} /\ row'[t].roots[q] = row'[u].roots[v]
             \/ Apart(row'[t].roots[q], row'[u].roots[v])
  <2>1. \/ t = r /\ q = p /\ row'[t].roots[q] = slot
        \/ q \in row[t].prepared /\ row'[t].roots[q] = row[t].roots[q]
    BY <1>1, <1>2, <1>5
  <2>2. \/ u = r /\ v = p /\ row'[u].roots[v] = slot
        \/ v \in row[u].prepared /\ row'[u].roots[v] = row[u].roots[v]
    BY <1>1, <1>2, <1>5
  <2>3. CASE t = r /\ q = p /\ u = r /\ v = p
    BY <2>3
  <2>4. CASE /\ t = r /\ q = p /\ row'[t].roots[q] = slot
             /\ v \in row[u].prepared /\ row'[u].roots[v] = row[u].roots[v]
    BY <1>7, <2>4
  <2>5. CASE /\ q \in row[t].prepared /\ row'[t].roots[q] = row[t].roots[q]
             /\ u = r /\ v = p /\ row'[u].roots[v] = slot
    BY <1>7, <2>5
  <2>6. CASE /\ q \in row[t].prepared /\ row'[t].roots[q] = row[t].roots[q]
             /\ v \in row[u].prepared /\ row'[u].roots[v] = row[u].roots[v]
    BY <1>6, <2>6 DEF Together
  <2> QED BY <2>1, <2>2, <2>3, <2>4, <2>5, <2>6
<1> QED BY <1>8 DEF OneUse, Apart, SlotRoots

\* Prepare keeps the invariant.
LEMMA PrepareKeeps ==
  ASSUME BudgetAssumption, Inv, NEW r \in Records, NEW p \in PhaseSet(r), Prepare(r, p)
  PROVE  Inv'
<1>1. /\ \A t \in Records \ {r} : row'[t] = row[t]
      /\ leases \subseteq leases' /\ UNCHANGED <<now, pool, plan>>
  BY PrepareRow
<1>2. Types' /\ Fits(r)' /\ SpentOK(r)' /\ GrantsOK(r)' /\ RootsOK(r)'
  BY PrepareOwn
<1>3. \A t \in Records : Fits(t)' /\ SpentOK(t)' /\ GrantsOK(t)' /\ RootsOK(t)'
  <2> TAKE t \in Records
  <2>1. CASE t = r
    BY <1>2, <2>1
  <2>2. CASE t # r
    BY <1>1, <2>2, OthersKept DEF Inv
  <2> QED BY <2>1, <2>2
<1>4. OneUse'
  BY PrepareOneUse
<1>5. ValidSlots(pool)'
  BY <1>1 DEF Inv, ValidSlots
<1> QED BY <1>2, <1>3, <1>4, <1>5 DEF Inv

-----------------------------------------------------------------------------
(* Start, Deliver and Complete *)

\* A step that reserves nothing: it keeps what is reserved, whoever takes it.
LEMMA ReservesNothing ==
  ASSUME BudgetAssumption, Inv, NEW r \in Records, UNCHANGED <<now, pool, plan, leases>>,
         row' \in [Records -> Rows], \A t \in Records \ {r} : row'[t] = row[t],
         row'[r].begun = row[r].begun, row'[r].budget = row[r].budget, row'[r].prepared = row[r].prepared,
         row'[r].roots = row[r].roots, row'[r].handles \subseteq row[r].prepared,
         SpentOK(r)'
  PROVE  Inv'
<1>1. Types'
  BY DEF Inv, Types
<1>2. ValidSlots(pool)'
  BY DEF Inv, ValidSlots
<1>3. Fits(r)'
  BY DEF Inv, Fits
<1>4. Allocated(r)' = Allocated(r)
  BY DEF Allocated
<1>5. GrantsOK(r)'
  <2>1. row[r].handles \cup row[r].prepared = row'[r].handles \cup row'[r].prepared
    BY DEF Inv, Fits
  <2>2. ValidState(r) => ValidState(r)'
    <3> DEFINE s == row[r].budget
    <3>1. \A g : ValidGrant(r, g)' <=> ValidGrant(r, g)
      BY <1>4 DEF ValidGrant
    <3>2. s' = s /\ plan' = plan
      OBVIOUS
    <3>3. \A k \in Shared : Total(s.grants, k)' = Total(s.grants, k)
      BY <3>2 DEF Total, Part
    <3> HIDE DEF s
    <3>4. \A q \in DOMAIN s.grants : ValidGrant(r, s.grants[q])' <=> ValidGrant(r, s.grants[q])
      BY <1>4, <3>2 DEF ValidGrant
    <3> QED BY <2>1, <3>2, <3>3, <3>4 DEF ValidState, s
  <2> QED BY <2>2 DEF Inv, GrantsOK
<1>6. RootsOK(r)'
  BY DEF Inv, RootsOK, Reserved
<1>7. \A t \in Records : Fits(t)' /\ SpentOK(t)' /\ GrantsOK(t)' /\ RootsOK(t)'
  <2> TAKE t \in Records
  <2>1. CASE t = r
    BY <1>3, <1>5, <1>6, <2>1
  <2>2. CASE t # r
    BY <2>2, OthersKept DEF Inv
  <2> QED BY <2>1, <2>2
<1>8. \A t \in Records : row'[t].roots = row[t].roots
  OBVIOUS
<1>9. OneUse'
  <2> SUFFICES ASSUME NEW t \in Records, NEW u \in Records,
                      NEW p \in DOMAIN row'[t].roots, NEW q \in DOMAIN row'[u].roots
               PROVE  \/ <<t, p>> = <<u, q>>
                      \/ t = u /\ {p, q} = {"preflight", "business"} /\ row'[t].roots[p] = row'[u].roots[q]
                      \/ \A x \in SlotRoots(row'[t].roots[p]) : \A y \in SlotRoots(row'[u].roots[q]) :
                           ~Overlap(x.path, y.path) /\ x.inode # y.inode
    BY DEF OneUse, SlotRoots
  <2>1. row'[t].roots = row[t].roots /\ row'[u].roots = row[u].roots
    BY <1>8
  <2>2. p \in DOMAIN row[t].roots /\ q \in DOMAIN row[u].roots
    BY <2>1
  <2>3. \/ <<t, p>> = <<u, q>>
        \/ t = u /\ {p, q} = {"preflight", "business"} /\ row[t].roots[p] = row[u].roots[q]
        \/ \A x \in SlotRoots(row[t].roots[p]) : \A y \in SlotRoots(row[u].roots[q]) :
             ~Overlap(x.path, y.path) /\ x.inode # y.inode
    BY <2>2 DEF Inv, OneUse
  <2> QED BY <2>1, <2>3
<1> QED BY <1>1, <1>2, <1>7, <1>9 DEF Inv

\* The phase that starts has delivered nothing, and the one before had its share.
LEMMA StartKeeps ==
  ASSUME BudgetAssumption, Inv, NEW r \in Records, NEW p \in PhaseSet(r), Start(r, p)
  PROVE  Inv'
<1> DEFINE next == [row[r] EXCEPT !.handles = @ \cup {p}, !.phase = p]
<1>1. row \in [Records -> Rows] /\ row[r] \in Rows
  BY DEF Inv, Types
<1>2. /\ row[r].phase = Expected(r, p) /\ p \in row[r].prepared /\ p \notin row[r].handles
      /\ UNCHANGED <<now, pool, plan, leases>>
  BY DEF Start
<1>3. row' = [row EXCEPT ![r] = next]
  BY <1>1 DEF Start
<1>4. p \in Names /\ row[r].prepared \in SUBSET Names /\ row[r].handles \subseteq row[r].prepared
  BY PhasesKnown DEF Names, Inv, Types, Rows, Fits
<1>5. next \in Rows
  <2>1. p \in Phases
    BY <1>4 DEF Phases
  <2>2. row[r].handles \cup {p} \in SUBSET Names
    BY <1>4
  <2> QED BY <1>1, <2>1, <2>2 DEF Rows
<1>6. row' \in [Records -> Rows] /\ row'[r] = next /\ \A t \in Records \ {r} : row'[t] = row[t]
  <2> HIDE DEF next
  <2> QED BY <1>1, <1>3, <1>5
<1>7. /\ next.begun = row[r].begun /\ next.budget = row[r].budget /\ next.prepared = row[r].prepared
      /\ next.roots = row[r].roots /\ next.stages = row[r].stages /\ next.spent = row[r].spent
      /\ next.handles = row[r].handles \cup {p} /\ next.phase = p
  BY <1>1 DEF Rows
<1> HIDE DEF next
<1>8. row[r].phase \notin row[r].handles
  <2>1. row[r].phase \notin Names
    BY <1>2 DEF Expected, Names
  <2> QED BY <1>4, <2>1
<1>9. SpentOK(r)'
  <2>1. SpentOK(r) /\ row[r].stages = <<>>
    BY <1>8 DEF Inv, SpentOK
  <2>2. Share(r)' = Share(r)
    BY <1>2 DEF Share, Allocated
  <2>3. \A q : Charged(r, q)' = Charged(r, q)
    BY <1>2, <1>6, <1>7, <1>8, <2>2 DEF Charged
  <2>4. Under(r)' = 0 /\ Under(r) = 0 /\ row'[r].stages = <<>> /\ Len(row'[r].stages) = 0
    BY <1>6, <1>7, <2>1 DEF Under
  <2>5. row'[r].spent = row[r].spent /\ row'[r].phase \in row'[r].handles
    BY <1>6, <1>7
  <2> QED BY <2>1, <2>3, <2>4, <2>5 DEF SpentOK
<1> QED BY <1>2, <1>4, <1>6, <1>7, <1>9, ReservesNothing

\* What the delivered stages may have spent never exceeds the share of the phase.
LEMMA UnderKnown ==
  ASSUME BudgetAssumption, Inv, NEW r \in Records
  PROVE  /\ Share(r) \in Nat /\ Share(r) \div 3 \in Nat /\ 3 * (Share(r) \div 3) <= Share(r)
         /\ Len(row[r].stages) \in Nat /\ Len(row[r].stages) <= 3
         /\ Under(r) \in Nat /\ Under(r) <= Share(r)
         /\ \A q : Charged(r, q) \in Nat
         /\ row[r].spent \in Nat
<1>1. Share(r) \in Nat
  BY AllocatedFits DEF Share, Limits, Inv
<1>2. Share(r) \div 3 \in Nat /\ 3 * (Share(r) \div 3) <= Share(r)
  BY <1>1
<1>3. row[r].stages \in Seq(Stages) /\ row[r].spent \in Nat
  BY DEF Inv, Types, Rows
<1>4. Len(row[r].stages) \in Nat /\ Len(row[r].stages) <= 3
  BY <1>3 DEF Inv, SpentOK
<1>5. Under(r) \in Nat /\ Under(r) <= Share(r)
  <2> DEFINE n == Len(row[r].stages)  s == Share(r)  f == Share(r) \div 3
  <2>1. Under(r) = IF n = 0 THEN 0 ELSE IF n = 1 THEN f ELSE IF n = 2 THEN s - f ELSE s
    BY DEF Under
  <2>2. s \in Nat /\ f \in Nat /\ 3 * f <= s
    BY <1>1, <1>2
  <2> HIDE DEF n, s, f
  <2>3. Under(r) \in Nat /\ Under(r) <= s
    BY <2>1, <2>2
  <2> QED BY <2>3 DEF s
<1>6. \A q : Charged(r, q) \in Nat
  BY <1>1 DEF Charged
<1> QED BY <1>1, <1>2, <1>3, <1>4, <1>5, <1>6

\* A stage is delivered with its part of the share.
LEMMA DeliverRow ==
  ASSUME BudgetAssumption, Inv, NEW r \in Records, Deliver(r)
  PROVE  LET n == Len(row[r].stages) IN
         /\ n \in {0, 1, 2} /\ row[r].phase \in row[r].handles /\ UNCHANGED <<now, pool, plan, leases>>
         /\ row' \in [Records -> Rows] /\ \A t \in Records \ {r} : row'[t] = row[t]
         /\ row'[r].begun = row[r].begun /\ row'[r].budget = row[r].budget /\ row'[r].prepared = row[r].prepared
         /\ row'[r].roots = row[r].roots /\ row'[r].handles = row[r].handles /\ row'[r].phase = row[r].phase
         /\ Len(row'[r].stages) = n + 1
         /\ \E cost \in Nat :
              /\ n = 0 => cost = Share(r) \div 3
              /\ n = 1 => cost = Share(r) - 2 * (Share(r) \div 3)
              /\ n = 2 => cost = Share(r) \div 3
              /\ row'[r].spent = row[r].spent + cost
<1> DEFINE p == row[r].phase
           n == Len(row[r].stages)
           cost == Substage(row[r].budget.grants[p].limits, StageNames[n + 1]).cpu
           next == [row[r] EXCEPT !.stages = Append(@, StageNames[n + 1]), !.spent = @ + cost]
<1>1. row \in [Records -> Rows] /\ row[r] \in Rows
  BY DEF Inv, Types
<1>2. /\ p \in row[r].handles /\ n < Len(StageNames) /\ ValidState(r)
      /\ UNCHANGED <<now, pool, plan, leases>>
  BY DEF Deliver
<1>3. row' = [row EXCEPT ![r] = next]
  BY <1>1 DEF Deliver
<1>4. row[r].budget.grants[p].limits = Allocated(r)
  <2>1. p \in DOMAIN row[r].budget.grants
    BY <1>2 DEF Inv, Fits
  <2> QED BY <1>2, <2>1 DEF ValidState, ValidGrant
<1>5. n \in {0, 1, 2} /\ Len(StageNames) = 3
  <2>1. Len(StageNames) = 3
    BY DEF StageNames
  <2>2. n \in Nat /\ n < 3
    BY <1>2, <2>1, UnderKnown
  <2> HIDE DEF n
  <2> QED BY <2>1, <2>2
<1>6. /\ n = 0 => cost = Share(r) \div 3
      /\ n = 1 => cost = Share(r) - 2 * (Share(r) \div 3)
      /\ n = 2 => cost = Share(r) \div 3
  <2>1. Allocated(r) \in Limits
    BY AllocatedFits DEF Inv
  <2> HIDE DEF p, n
  <2> QED BY <1>4, <1>5, <2>1, StageShare DEF Share
<1>7. cost \in Nat
  <2> HIDE DEF cost, n
  <2> QED BY <1>5, <1>6, UnderKnown
<1>8. StageNames[n + 1] \in Stages /\ row[r].stages \in Seq(Stages)
  <2>1. row[r].stages \in Seq(Stages)
    BY <1>1 DEF Rows
  <2> HIDE DEF n
  <2> QED BY <1>5, <2>1 DEF StageNames, Stages
<1> DEFINE word == StageNames[n + 1]
<1>9. /\ next \in Rows
      /\ next.begun = row[r].begun /\ next.budget = row[r].budget /\ next.prepared = row[r].prepared
      /\ next.roots = row[r].roots /\ next.handles = row[r].handles /\ next.phase = p
      /\ next.spent = row[r].spent + cost /\ Len(next.stages) = n + 1
  <2>1. next = [row[r] EXCEPT !.stages = Append(@, word), !.spent = @ + cost]
    OBVIOUS
  <2>2. Append(row[r].stages, word) \in Seq(Stages) /\ Len(Append(row[r].stages, word)) = n + 1
    BY <1>8
  <2>3. row[r].spent \in Nat
    BY UnderKnown
  <2>4. row[r].spent + cost \in Nat
    <3> HIDE DEF cost
    <3> QED BY <1>7, <2>3
  <2> DEFINE list == Append(row[r].stages, word)  sum == row[r].spent + cost
  <2>5. next = [row[r] EXCEPT !.stages = list, !.spent = sum]
    BY <2>1
  <2>6. list \in Seq(Stages) /\ sum \in Nat /\ Len(list) = n + 1 /\ sum = row[r].spent + cost
    BY <2>2, <2>4
  <2> HIDE DEF list, sum, next
  <2>7. next \in Rows
    BY <1>1, <2>5, <2>6 DEF Rows
  <2>8. /\ next.begun = row[r].begun /\ next.budget = row[r].budget /\ next.prepared = row[r].prepared
        /\ next.roots = row[r].roots /\ next.handles = row[r].handles /\ next.phase = p
        /\ next.spent = sum /\ next.stages = list
    BY <1>1, <2>5 DEF Rows
  <2> HIDE DEF n, cost, p
  <2> QED BY <2>6, <2>7, <2>8
<1>10. row' \in [Records -> Rows] /\ row'[r] = next /\ \A t \in Records \ {r} : row'[t] = row[t]
  <2> HIDE DEF next
  <2> QED BY <1>1, <1>3, <1>9
<1>11. /\ row'[r].begun = row[r].begun /\ row'[r].budget = row[r].budget /\ row'[r].prepared = row[r].prepared
       /\ row'[r].roots = row[r].roots /\ row'[r].handles = row[r].handles /\ row'[r].phase = p
       /\ row'[r].spent = row[r].spent + cost /\ Len(row'[r].stages) = n + 1
  <2> HIDE DEF next, n, cost, p
  <2> QED BY <1>9, <1>10
<1> HIDE DEF cost, next, n
<1> QED BY <1>2, <1>5, <1>6, <1>7, <1>10, <1>11 DEF n

\* A stage spends its part of the share.
LEMMA DeliverKeeps ==
  ASSUME BudgetAssumption, Inv, NEW r \in Records, Deliver(r)
  PROVE  Inv'
<1> DEFINE n == Len(row[r].stages)
<1>1. /\ n \in {0, 1, 2} /\ row[r].phase \in row[r].handles /\ UNCHANGED <<now, pool, plan, leases>>
      /\ row' \in [Records -> Rows] /\ \A t \in Records \ {r} : row'[t] = row[t]
      /\ row'[r].begun = row[r].begun /\ row'[r].budget = row[r].budget /\ row'[r].prepared = row[r].prepared
      /\ row'[r].roots = row[r].roots /\ row'[r].handles = row[r].handles /\ row'[r].phase = row[r].phase
      /\ Len(row'[r].stages) = n + 1
  BY DeliverRow
<1>2. PICK cost \in Nat :
        /\ n = 0 => cost = Share(r) \div 3
        /\ n = 1 => cost = Share(r) - 2 * (Share(r) \div 3)
        /\ n = 2 => cost = Share(r) \div 3
        /\ row'[r].spent = row[r].spent + cost
  BY DeliverRow
<1>3. row'[r].handles \subseteq row[r].prepared
  BY <1>1 DEF Inv, Fits
<1>4. SpentOK(r)'
  <2>1. Share(r)' = Share(r)
    BY <1>1 DEF Share, Allocated
  <2>2. \A q : Charged(r, q)' = Charged(r, q)
    BY <1>1, <2>1 DEF Charged
  <2>3. Under(r)' = Under(r) + cost
    <3> DEFINE s == Share(r)  f == Share(r) \div 3
    <3>1. Under(r) = IF n = 0 THEN 0 ELSE IF n = 1 THEN f ELSE IF n = 2 THEN s - f ELSE s
      BY DEF Under
    <3>2. Under(r)' = IF n + 1 = 0 THEN 0 ELSE IF n + 1 = 1 THEN f ELSE IF n + 1 = 2 THEN s - f ELSE s
      BY <1>1, <2>1 DEF Under
    <3>3. s \in Nat /\ f \in Nat
      BY UnderKnown
    <3> HIDE DEF s, f, n
    <3>4. (n = 0 => cost = f) /\ (n = 1 => cost = s - 2 * f) /\ (n = 2 => cost = f)
      BY <1>2 DEF s, f
    <3> QED BY <1>1, <3>1, <3>2, <3>3, <3>4
  <2>4. Len(row'[r].stages) <= 3
    <3> HIDE DEF n
    <3> QED BY <1>1
  <2>5. SpentOK(r)
    BY DEF Inv
  <2> DEFINE total == Charged(r, "preflight") + Charged(r, "business") + Charged(r, "reconcile")
                      + Charged(r, "evidence")
             under == Under(r)
  <2>6. total \in Nat /\ under \in Nat /\ row[r].spent \in Nat /\ row[r].spent <= total + under
    <3>1. \A q : Charged(r, q) \in Nat
      BY UnderKnown
    <3>2. under \in Nat /\ row[r].spent \in Nat
      BY UnderKnown
    <3>3. row[r].spent <= total + under
      BY <2>5 DEF SpentOK
    <3> QED BY <3>1, <3>2, <3>3
  <2>7. Charged(r, "preflight")' + Charged(r, "business")' + Charged(r, "reconcile")' + Charged(r, "evidence")' = total
    BY <2>2
  <2>8. row'[r].spent <= total + Under(r)'
    <3> HIDE DEF total, under
    <3>1. Under(r)' = under + cost
      BY <2>3 DEF under
    <3> QED BY <1>2, <2>6, <3>1
  <2> HIDE DEF total, under, n
  <2> QED BY <1>1, <2>4, <2>7, <2>8 DEF SpentOK
<1> QED BY <1>1, <1>3, <1>4, ReservesNothing

\* The phase that ends is charged its whole share.
LEMMA CompleteKeeps ==
  ASSUME BudgetAssumption, Inv, NEW r \in Records, Complete(r)
  PROVE  Inv'
<1> DEFINE p == row[r].phase
<1>1. row \in [Records -> Rows] /\ row[r] \in Rows
  BY DEF Inv, Types
<1>2. p \in row[r].handles /\ UNCHANGED <<now, pool, plan, leases>>
  BY DEF Complete
<1>3. PICK next \in {"PREFLIGHT_COMPLETE", "AWAITING_SEAL", "EXITED"} :
        row' = [row EXCEPT ![r].phase = next, ![r].stages = <<>>]
  BY DEF Complete
<1> DEFINE new == [row[r] EXCEPT !.phase = next, !.stages = <<>>]
<1>4. row' = [row EXCEPT ![r] = new]
  BY <1>1, <1>3
<1>5. /\ new \in Rows
      /\ new.begun = row[r].begun /\ new.budget = row[r].budget /\ new.prepared = row[r].prepared
      /\ new.roots = row[r].roots /\ new.handles = row[r].handles /\ new.phase = next
      /\ new.spent = row[r].spent /\ new.stages = <<>>
  <2>1. next \in Phases /\ <<>> \in Seq(Stages)
    BY DEF Phases
  <2> QED BY <1>1, <2>1 DEF Rows
<1>6. row' \in [Records -> Rows] /\ row'[r] = new /\ \A t \in Records \ {r} : row'[t] = row[t]
  <2> HIDE DEF new
  <2> QED BY <1>1, <1>4, <1>5
<1>7. row[r].handles \subseteq row[r].prepared /\ row[r].handles \subseteq Names /\ next \notin Names
  BY <1>1 DEF Inv, Fits, Rows, Names
<1> HIDE DEF new
<1>8. SpentOK(r)'
  <2>1. Share(r)' = Share(r)
    BY <1>2 DEF Share, Allocated
  <2>2. \A q : Charged(r, q) = IF q \in row[r].handles /\ q # p THEN Share(r) ELSE 0
    BY DEF Charged
  <2>3. \A q \in Names : Charged(r, q)' = IF q \in row[r].handles THEN Share(r) ELSE 0
    BY <1>5, <1>6, <1>7, <2>1 DEF Charged
  <2>4. \/ p = "preflight" \/ p = "business" \/ p = "reconcile" \/ p = "evidence"
    BY <1>2, <1>7 DEF Names
  <2>5. /\ Share(r) \in Nat /\ Under(r) \in Nat /\ Under(r) <= Share(r) /\ row[r].spent \in Nat
        /\ \A q : Charged(r, q) \in Nat
    BY UnderKnown
  <2>6. row[r].spent <= Charged(r, "preflight") + Charged(r, "business") + Charged(r, "reconcile")
                        + Charged(r, "evidence") + Under(r)
    BY DEF Inv, SpentOK
  <2> DEFINE charge(q) == IF q \in row[r].handles THEN Share(r) ELSE 0
  <2>7. row[r].spent <= charge("preflight") + charge("business") + charge("reconcile") + charge("evidence")
    <3>1. \A q : charge(q) \in Nat /\ (q # p => Charged(r, q) = charge(q))
                 /\ (q = p => Charged(r, q) = 0 /\ charge(q) = Share(r))
      BY <1>2, <2>2, <2>5
    <3> HIDE DEF charge, p
    <3> QED BY <2>4, <2>5, <2>6, <3>1
  <2>8. /\ Charged(r, "preflight")' = charge("preflight") /\ Charged(r, "business")' = charge("business")
        /\ Charged(r, "reconcile")' = charge("reconcile") /\ Charged(r, "evidence")' = charge("evidence")
    BY <2>3 DEF Names
  <2>9. row'[r].stages = <<>> /\ Len(row'[r].stages) = 0 /\ row'[r].spent = row[r].spent
    BY <1>5, <1>6
  <2>10. Under(r)' = 0
    BY <2>9 DEF Under
  <2> HIDE DEF charge
  <2>11. \A q : charge(q) \in Nat
    BY <2>5 DEF charge
  <2> QED BY <2>7, <2>8, <2>9, <2>10, <2>11 DEF SpentOK
<1> QED BY <1>2, <1>5, <1>6, <1>7, <1>8, ReservesNothing

-----------------------------------------------------------------------------
(* The host, the administrator, and the invariant *)

\* A step that writes no row and no lease.
LEMMA RowsKept ==
  ASSUME Inv, row' = row, plan' = plan, leases' = leases
  PROVE  /\ \A t \in Records : Fits(t)' /\ SpentOK(t)' /\ GrantsOK(t)' /\ RootsOK(t)'
         /\ OneUse'
<1>1. \A t \in Records : Fits(t)' /\ SpentOK(t)' /\ GrantsOK(t)' /\ RootsOK(t)'
  BY OthersKept DEF Inv
<1>2. OneUse'
  BY DEF Inv, OneUse
<1> QED BY <1>1, <1>2

\* The clock, the reboots and the new pools keep the invariant.
LEMMA HostKeeps ==
  ASSUME BudgetAssumption, Inv, Tick \/ Reboot \/ Redeclare
  PROVE  Inv'
<1>1. CASE Tick
  <2>1. Types'
    <3>1. now \in [boot : 0..MaxBoots, at : 0..MaxClock] /\ now.at < MaxClock /\ MaxClock \in Nat
      BY <1>1 DEF Inv, Types, Tick, BudgetAssumption
    <3>2. now.at + 1 \in 0..MaxClock
      BY <3>1
    <3>3. now' = [now EXCEPT !.at = now.at + 1]
      BY <1>1 DEF Tick
    <3>4. now' \in [boot : 0..MaxBoots, at : 0..MaxClock]
      BY <3>1, <3>2, <3>3
    <3> QED BY <1>1, <3>4 DEF Inv, Types, Tick
  <2>2. ValidSlots(pool)'
    BY <1>1 DEF Inv, ValidSlots, Tick
  <2> QED BY <1>1, <2>1, <2>2, RowsKept DEF Tick, Inv
<1>2. CASE Reboot
  <2>1. Types'
    BY <1>2 DEF Inv, Types, Reboot, BudgetAssumption
  <2>2. ValidSlots(pool)'
    BY <1>2 DEF Inv, ValidSlots, Reboot
  <2> QED BY <1>2, <2>1, <2>2, RowsKept DEF Reboot, Inv
<1>3. CASE Redeclare
  <2>1. PICK new \in Pools : ValidSlots(new) /\ pool' = new /\ UNCHANGED <<now, plan, row, leases>>
    BY <1>3 DEF Redeclare
  <2>2. Types'
    BY <2>1 DEF Inv, Types
  <2>3. ValidSlots(pool)'
    BY <2>1 DEF ValidSlots
  <2> QED BY <2>1, <2>2, <2>3, RowsKept DEF Inv
<1> QED BY <1>1, <1>2, <1>3

\* Nothing is reserved at first.
LEMMA InitInv ==
  ASSUME BudgetAssumption, Init
  PROVE  Inv
<1> DEFINE empty == [phase |-> "QUEUED", begun |-> FALSE, prepared |-> {}, handles |-> {}, roots |-> <<>>,
                     stages |-> <<>>, spent |-> 0,
                     budget |-> [boot |-> 0, started |-> 0, last |-> 0, deadline |-> 0, grants |-> <<>>]]
<1>1. row = [r \in Records |-> empty]
  BY DEF Init
<1>2. DOMAIN <<>> = {} /\ \A S : <<>> \in Partial(S)
  <2>1. <<>> = [x \in {} |-> x]
    OBVIOUS
  <2> QED BY <2>1 DEF Partial
<1>3. empty \in Rows
  <2>1. [boot |-> 0, started |-> 0, last |-> 0, deadline |-> 0, grants |-> <<>>] \in States
    BY <1>2 DEF States
  <2>2. <<>> \in Seq(Stages) /\ <<>> \in Partial(AllSlots) /\ "QUEUED" \in Phases
    BY <1>2 DEF Phases
  <2> QED BY <2>1, <2>2 DEF Rows
<1>4. \A r \in Records :
        /\ row[r].phase = "QUEUED" /\ row[r].begun = FALSE /\ row[r].prepared = {} /\ row[r].handles = {}
        /\ row[r].roots = <<>> /\ row[r].stages = <<>> /\ row[r].spent = 0 /\ row[r].budget.grants = <<>>
  BY <1>1
<1>5. Types
  <2>1. row \in [Records -> Rows]
    <3> HIDE DEF empty
    <3> QED BY <1>1, <1>3
  <2> QED BY <2>1 DEF Init, Types, BudgetAssumption
<1>6. ValidSlots(pool)
  BY DEF Init
<1>7. \A r \in Records : Fits(r)
  BY <1>2, <1>4 DEF Fits
<1>8. \A r \in Records : SpentOK(r)
  BY <1>4 DEF SpentOK, Charged, Under
<1>9. \A r \in Records : GrantsOK(r) /\ RootsOK(r)
  BY <1>4 DEF GrantsOK, RootsOK
<1>10. OneUse
  BY <1>2, <1>4 DEF OneUse
<1> QED BY <1>5, <1>6, <1>7, <1>8, <1>9, <1>10 DEF Inv

\* Every step keeps the invariant.
LEMMA StepInv ==
  ASSUME BudgetAssumption, Inv, [Next]_vars
  PROVE  Inv'
<1>1. CASE \E r \in Records : \E p \in PhaseSet(r) : Prepare(r, p)
  BY <1>1, PrepareKeeps
<1>2. CASE \E r \in Records : \E p \in PhaseSet(r) : Start(r, p)
  BY <1>2, StartKeeps
<1>3. CASE \E r \in Records : Deliver(r)
  BY <1>3, DeliverKeeps
<1>4. CASE \E r \in Records : Complete(r)
  BY <1>4, CompleteKeeps
<1>5. CASE Tick \/ Reboot \/ Redeclare
  BY <1>5, HostKeeps
<1>6. CASE UNCHANGED vars
  <2>1. Types' /\ ValidSlots(pool)'
    BY <1>6 DEF Inv, Types, ValidSlots, vars
  <2> QED BY <1>6, <2>1, RowsKept DEF vars, Inv
<1> QED BY <1>1, <1>2, <1>3, <1>4, <1>5, <1>6 DEF Next

\* The invariant holds in every reachable state (local_hand_jobs/budget.py and
\* bootstrap_roots.py, under the transactions of broker.py that call them).
THEOREM Invariance ==
  ASSUME BudgetAssumption
  PROVE  Spec => []Inv
<1>1. Init => Inv
  BY InitInv
<1>2. Inv /\ [Next]_vars => Inv'
  BY StepInv
<1> QED BY <1>1, <1>2, PTL DEF Spec

-----------------------------------------------------------------------------
(* What the invariant implies *)

\* The stages of all phases spend what was admitted, at most.
LEMMA SpendingFits ==
  ASSUME BudgetAssumption, Inv, NEW r \in Records
  PROVE  row[r].spent <= plan[r].cpu
<1> DEFINE s == Share(r)  u == Under(r)
           p == row[r].phase  H == row[r].handles
<1>1. s \in Nat /\ u \in Nat /\ u <= s /\ row[r].spent \in Nat /\ plan[r].cpu \in Nat
  BY UnderKnown, AllocatedFits DEF Inv, Limits
<1>2. /\ Len(PhasesOf(r)) = 3 => 3 * s <= plan[r].cpu
      /\ Len(PhasesOf(r)) = 2 => 2 * s <= plan[r].cpu
  BY AllocatedFits DEF Inv, Share
<1>3. row[r].spent <= Charged(r, "preflight") + Charged(r, "business") + Charged(r, "reconcile")
                      + Charged(r, "evidence") + u
  BY DEF Inv, SpentOK
<1>4. H \subseteq PhaseSet(r)
  BY DEF Inv, Fits
<1>5. \A q : Charged(r, q) = IF q \in H /\ q # p THEN s ELSE 0
  BY DEF Charged
<1>6. p \notin H => u = 0
  <2>1. p \notin H => row[r].stages = <<>>
    BY DEF Inv, SpentOK
  <2> QED BY <2>1 DEF Under
<1> HIDE DEF s, u, p, H
<1>7. CASE Len(PhasesOf(r)) = 3
  <2>1. PhaseSet(r) = {"preflight", "business", "evidence"}
    BY <1>7, PhasesKnown
  <2>2. p \in H => p = "preflight" \/ p = "business" \/ p = "evidence"
    BY <1>4, <2>1
  <2>3. "reconcile" \notin H
    BY <1>4, <2>1
  <2> QED BY <1>1, <1>2, <1>3, <1>5, <1>6, <1>7, <2>2, <2>3
<1>8. CASE Len(PhasesOf(r)) = 2
  <2>1. PhaseSet(r) = {"reconcile", "evidence"}
    BY <1>8, PhasesKnown
  <2>2. p \in H => p = "reconcile" \/ p = "evidence"
    BY <1>4, <2>1
  <2>3. "preflight" \notin H /\ "business" \notin H
    BY <1>4, <2>1
  <2> QED BY <1>1, <1>2, <1>3, <1>5, <1>6, <1>8, <2>2, <2>3
<1> QED BY <1>7, <1>8, PhasesKnown

\* The shares of the phases fit, and each can fund all its stages.
LEMMA SharesFitKnown ==
  ASSUME BudgetAssumption, Inv
  PROVE  SharesFit
<1> SUFFICES ASSUME NEW r \in Records
             PROVE  /\ row[r].spent <= plan[r].cpu
                    /\ \A k \in Shared : Total(row[r].budget.grants, k) <= plan[r][k]
                    /\ \A p \in DOMAIN row[r].budget.grants : \A i \in DOMAIN StageNames :
                         Substage(row[r].budget.grants[p].limits, StageNames[i]).cpu >= 1
  BY DEF SharesFit
<1> DEFINE grants == row[r].budget.grants
<1>1. \A q \in DOMAIN grants : grants[q].limits = Allocated(r)
  <2>1. CASE row[r].begun
    BY <2>1 DEF Inv, GrantsOK, ValidState, ValidGrant
  <2>2. CASE ~row[r].begun
    BY <2>2 DEF Inv, Fits
  <2> QED BY <2>1, <2>2
<1>2. DOMAIN grants \subseteq PhaseSet(r) /\ DOMAIN grants = row[r].prepared
  BY DEF Inv, Fits
<1>3. \A k \in Shared : Total(grants, k) <= plan[r][k]
  BY <1>1, <1>2, TotalFits DEF Inv
<1>4. ASSUME NEW p \in DOMAIN grants, NEW i \in DOMAIN StageNames
      PROVE  Substage(grants[p].limits, StageNames[i]).cpu >= 1
  <2> DEFINE c == Allocated(r).cpu
  <2>1. Allocated(r) \in Limits /\ c \in Nat
    BY AllocatedFits DEF Inv, Limits
  <2>2. Len(StageNames) = 3 /\ c \div 3 >= 1
    <3>1. Len(StageNames) = 3
      BY DEF StageNames
    <3> QED BY <1>1, <1>2, <3>1 DEF Inv, GrantsOK, Fundable
  <2>3. i = 1 \/ i = 2 \/ i = 3
    BY <1>4 DEF StageNames
  <2>4. /\ Substage(Allocated(r), StageNames[1]).cpu = c \div 3
        /\ Substage(Allocated(r), StageNames[2]).cpu = c - 2 * (c \div 3)
        /\ Substage(Allocated(r), StageNames[3]).cpu = c \div 3
    BY <2>1, StageShare
  <2>5. c - 2 * (c \div 3) >= 1
    <3> HIDE DEF c
    <3> QED BY <2>1, <2>2
  <2> HIDE DEF c
  <2> QED BY <1>1, <2>2, <2>3, <2>4, <2>5
<1> QED BY <1>3, <1>4, SpendingFits

\* A path below a source root is written below the granted root that replaces it.
LEMMA WritesInsideKnown ==
  ASSUME BudgetAssumption, Inv
  PROVE  WritesInside
<1> SUFFICES ASSUME NEW r \in Records, NEW p \in DOMAIN row[r].roots, NEW v \in Writable
             PROVE  IF \E n \in DOMAIN Source : Prefix(Source[n], v)
                      THEN \E n \in DOMAIN Source :
                             Prefix(Source[n], v)
                             /\ Prefix(row[r].roots[p].roots[n].path, Mapped(v, row[r].roots[p]))
                      ELSE Mapped(v, row[r].roots[p]) = v
  BY DEF WritesInside
<1> DEFINE slot == row[r].roots[p]
           in == {n \in DOMAIN Source : Prefix(Source[n], v)}
<1>1. slot \in Slots /\ Len(slot.roots) = Len(Source)
  <2>1. slot \in AllSlots
    BY DEF Inv, Types, Rows, Partial
  <2> QED BY <2>1 DEF AllSlots, Range, BudgetAssumption
<1>2. v \in Paths /\ Source \in Seq(Paths)
  BY DEF BudgetAssumption
<1>3. CASE in = {}
  BY <1>3 DEF Mapped
<1>4. CASE in # {}
  <2> DEFINE n == Min(in)
  <2>1. in \subseteq Nat
    BY <1>2
  <2>2. n \in in
    <3> HIDE DEF in
    <3> QED BY <1>4, <2>1, LeastKnown
  <2>3. n \in DOMAIN Source /\ Prefix(Source[n], v)
    BY <2>2
  <2> HIDE DEF n
  <2>4. Mapped(v, slot) = slot.roots[n].path \o SubSeq(v, Len(Source[n]) + 1, Len(v))
    BY <1>4 DEF Mapped, n
  <2>5. slot.roots[n].path \in Paths /\ Source[n] \in Paths
    <3>1. slot.roots \in Seq([path : Paths, inode : Nat])
      BY <1>1 DEF Slots
    <3>2. n \in 1..Len(slot.roots)
      BY <1>1, <1>2, <2>3
    <3> HIDE DEF slot
    <3>3. slot.roots[n] \in [path : Paths, inode : Nat]
      <4> DEFINE Root == [path : Paths, inode : Nat]
      <4> HIDE DEF Root
      <4>1. \A roots \in Seq(Root) : \A i \in 1..Len(roots) : roots[i] \in Root
        OBVIOUS
      <4>2. slot.roots \in Seq(Root)
        BY <3>1 DEF Root
      <4> QED BY <3>2, <4>1, <4>2 DEF Root
    <3> QED BY <1>2, <2>3, <3>3
  <2>6. SubSeq(v, Len(Source[n]) + 1, Len(v)) \in Paths
    BY <1>2, <2>5 DEF Paths
  <2>7. \A a, b \in Paths : Prefix(a, a \o b)
    BY DEF Prefix, Paths
  <2>8. Prefix(slot.roots[n].path, Mapped(v, slot))
    BY <2>4, <2>5, <2>6, <2>7
  <2> QED BY <2>3, <2>8
<1> QED BY <1>3, <1>4

\* No step takes back a share, a deadline, a root or a lease.
LEMMA NothingTakenBack ==
  ASSUME BudgetAssumption, Inv, [Next]_vars
  PROVE  NeverRefunded
<1> DEFINE Keeps(r) ==
      row[r].begun =>
        /\ row'[r].budget.boot = row[r].budget.boot /\ row'[r].budget.deadline = row[r].budget.deadline
        /\ row'[r].spent >= row[r].spent
        /\ \A p \in DOMAIN row[r].roots :
             row'[r].roots[p] = row[r].roots[p] /\ row'[r].budget.grants[p] = row[r].budget.grants[p]
<1>1. ASSUME NEW t \in Records, row'[t] = row[t]
      PROVE  Keeps(t)
  BY <1>1, UnderKnown
<1>2. ASSUME NEW r \in Records, NEW p \in PhaseSet(r), Prepare(r, p)
      PROVE  NeverRefunded
  <2>1. /\ \A t \in Records \ {r} : row'[t] = row[t]
        /\ row'[r].budget = Kept(Base(r), p, Grant(r)) /\ row'[r].spent = row[r].spent
        /\ \A q \in row[r].prepared : row'[r].roots[q] = row[r].roots[q]
        /\ leases \subseteq leases'
    BY <1>2, PrepareRow
  <2> DEFINE b == Kept(Base(r), p, Grant(r))
  <2>2. /\ b.boot = Base(r).boot /\ b.deadline = Base(r).deadline
        /\ \A q \in row[r].prepared : b.grants[q] = row[r].budget.grants[q]
    BY <1>2, PrepareGrants
  <2>3. DOMAIN row[r].roots = row[r].prepared /\ row[r].spent \in Nat
    BY UnderKnown DEF Inv, Fits
  <2> HIDE DEF b
  <2>4. Keeps(r)
    <3> SUFFICES ASSUME row[r].begun
                 PROVE  /\ b.boot = row[r].budget.boot /\ b.deadline = row[r].budget.deadline
                        /\ \A q \in row[r].prepared : row'[r].roots[q] = row[r].roots[q]
                                                      /\ b.grants[q] = row[r].budget.grants[q]
      BY <2>1, <2>3 DEF b
    <3>1. Base(r) = row[r].budget
      BY DEF Base
    <3> QED BY <2>1, <2>2, <3>1
  <2>5. \A t \in Records : Keeps(t)
    BY <1>1, <2>1, <2>4
  <2> QED BY <2>1, <2>5 DEF NeverRefunded
<1>3. ASSUME NEW r \in Records, \A t \in Records \ {r} : row'[t] = row[t], leases' = leases,
             row'[r].budget = row[r].budget, row'[r].roots = row[r].roots, row'[r].spent >= row[r].spent
      PROVE  NeverRefunded
  <2>1. \A t \in Records : Keeps(t)
    BY <1>1, <1>3
  <2> QED BY <1>3, <2>1 DEF NeverRefunded
<1>4. row \in [Records -> Rows]
  BY DEF Inv, Types
<1>5. ASSUME NEW r \in Records, NEW p \in PhaseSet(r), Start(r, p)
      PROVE  NeverRefunded
  <2>1. row' = [row EXCEPT ![r].handles = @ \cup {p}, ![r].phase = p] /\ leases' = leases
    BY <1>5 DEF Start
  <2>2. /\ \A t \in Records \ {r} : row'[t] = row[t]
        /\ row'[r].budget = row[r].budget /\ row'[r].roots = row[r].roots /\ row'[r].spent = row[r].spent
    BY <1>4, <2>1 DEF Rows
  <2>3. row[r].spent \in Nat
    BY UnderKnown
  <2>4. row'[r].spent >= row[r].spent
    BY <2>2, <2>3
  <2> QED BY <1>3, <2>1, <2>2, <2>4
<1>6. ASSUME NEW r \in Records, Deliver(r)
      PROVE  NeverRefunded
  <2>1. /\ \A t \in Records \ {r} : row'[t] = row[t]
        /\ leases' = leases /\ row'[r].budget = row[r].budget /\ row'[r].roots = row[r].roots
        /\ \E cost \in Nat : row'[r].spent = row[r].spent + cost
    BY <1>6, DeliverRow
  <2>2. row'[r].spent >= row[r].spent
    BY <2>1, UnderKnown
  <2> QED BY <1>3, <2>1, <2>2
<1>7. ASSUME NEW r \in Records, Complete(r)
      PROVE  NeverRefunded
  <2>1. \E next : row' = [row EXCEPT ![r].phase = next, ![r].stages = <<>>]
    BY <1>7 DEF Complete
  <2>2. /\ \A t \in Records \ {r} : row'[t] = row[t]
        /\ row'[r].budget = row[r].budget /\ row'[r].roots = row[r].roots /\ row'[r].spent = row[r].spent
    BY <1>4, <2>1 DEF Rows
  <2>3. leases' = leases
    BY <1>7 DEF Complete
  <2> QED BY <1>3, <2>2, <2>3, UnderKnown
<1>8. CASE row' = row /\ leases' = leases
  BY <1>1, <1>8 DEF NeverRefunded
<1> QED BY <1>2, <1>5, <1>6, <1>7, <1>8 DEF Next, vars, Tick, Reboot, Redeclare

\* Every reachable state has the types and the frame of its tables: the clock is
\* within its bounds, the pool is one that validate_slots accepts, and a record
\* holds roots exactly for the phases it prepared (bootstrap_roots.py).
THEOREM TypeCorrect ==
  ASSUME BudgetAssumption
  PROVE  Spec => []TypeOK
<1>1. Inv => TypeOK
  BY DEF Inv, Types, Fits, TypeOK, BudgetAssumption
<1> QED BY <1>1, Invariance, PTL

\* Whatever phases a record reserved and whatever stages it delivered, they never
\* sum to more than was admitted, and every started phase can pay all its stages:
\* the refusal of a sum beyond the budget (budget.py, _validate_state) is never met.
THEOREM SharesFitHolds ==
  ASSUME BudgetAssumption
  PROVE  Spec => []SharesFit
BY Invariance, SharesFitKnown, PTL

\* What reserve wrote, _validate_state accepts ever after: no later phase, clock,
\* reboot or pool makes a record's own state invalid (budget.py).
THEOREM StateAcceptedHolds ==
  ASSUME BudgetAssumption
  PROVE  Spec => []StateAccepted
<1>1. Inv => StateAccepted
  BY DEF Inv, GrantsOK, StateAccepted
<1> QED BY <1>1, Invariance, PTL

\* A root directory has one use, through every pool the administrator declares:
\* two phases share a path, an ancestor or an inode only when they are the
\* preflight and the business of one job (bootstrap_roots.py, reserve).
THEOREM OneUseHolds ==
  ASSUME BudgetAssumption
  PROVE  Spec => []OneUse
<1>1. Inv => OneUse
  BY DEF Inv
<1> QED BY <1>1, Invariance, PTL

\* What a plan writes below its source roots is written below a granted root
\* (bootstrap_roots.py, bind_execution).
THEOREM WritesInsideHolds ==
  ASSUME BudgetAssumption
  PROVE  Spec => []WritesInside
BY Invariance, WritesInsideKnown, PTL

\* No step gives back or renews a share, a deadline, a root or a lease
\* (budget.py and bootstrap_roots.py only add).
THEOREM NeverRefundedHolds ==
  ASSUME BudgetAssumption
  PROVE  Spec => [][NeverRefunded]_vars
<1>1. Inv /\ [Next]_vars => [NeverRefunded]_vars
  BY NothingTakenBack
<1> QED BY <1>1, Invariance, PTL DEF Spec

\* For every budget, pool and clock: what budget.py and bootstrap_roots.py grant
\* fits, is accepted by every later call, is used once and confines the writes.
THEOREM BudgetSafetyHolds ==
  ASSUME BudgetAssumption
  PROVE  Spec => []BudgetSafety
<1>1. TypeOK /\ SharesFit /\ StateAccepted /\ OneUse /\ WritesInside => BudgetSafety
  BY DEF BudgetSafety
<1> QED BY <1>1, TypeCorrect, SharesFitHolds, StateAcceptedHolds, OneUseHolds, WritesInsideHolds, PTL
=============================================================================
