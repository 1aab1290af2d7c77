--------------------------- MODULE ResourceBarrier ---------------------------
(***************************************************************************)
(* What the broker promises to the users of its resources: a resource has  *)
(* one holder at a time, a job works only while it holds everything its    *)
(* plan names, and nothing is taken from a job that works.  Crashes, late  *)
(* reports and restarts of the broker are not visible at this level.       *)
(***************************************************************************)
CONSTANTS Jobs, Resources, Needs, Free

VARIABLES
  holder,   \* resource -> the job that holds it, or Free
  working   \* the jobs for which a process runs or can still be started

vars == <<holder, working>>

Init == holder = [r \in Resources |-> Free] /\ working = {}

\* All the resources of an admission are taken at once, or none is.
Take(j) ==
  /\ \A r \in Needs[j] : holder[r] \in {Free, j}
  /\ holder' = [r \in Resources |-> IF r \in Needs[j] THEN j ELSE holder[r]]
  /\ UNCHANGED working

Begin(j) ==
  /\ j \notin working
  /\ \A r \in Needs[j] : holder[r] = j
  /\ working' = working \cup {j}
  /\ UNCHANGED holder

\* One job comes to rest, or, at a crash, several do.
End(S) ==
  /\ working' = working \ S
  /\ UNCHANGED holder

Give(j) ==
  /\ j \notin working
  /\ holder' = [r \in Resources |-> IF holder[r] = j THEN Free ELSE holder[r]]
  /\ UNCHANGED working

Next == \/ \E j \in Jobs : Take(j) \/ Begin(j) \/ Give(j)
        \/ \E S \in SUBSET Jobs : End(S)

Spec == Init /\ [][Next]_vars
=============================================================================
