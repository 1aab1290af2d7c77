------------------------------ MODULE MCBroker ------------------------------
(* Small instances of the broker: which rows there are, who submitted them   *)
(* and which resources they share.                                           *)
EXTENDS Broker

CONSTANTS j1, j2, c1, p1, p2, r1, r2

OneParent == [c \in Reconciles |-> j1]
OnePrincipal == [j \in Jobs |-> p1]
TwoPrincipals == [j \in Jobs |-> IF j = j1 THEN p1 ELSE p2]
SameResource == [j \in Jobs |-> {r1}]
OwnResource == [j \in Jobs |-> IF j = j1 THEN {r1} ELSE {r2}]
Overlapping == [j \in Jobs |-> IF j = j1 THEN {r1, r2} ELSE {r2}]
=============================================================================
