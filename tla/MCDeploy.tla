------------------------------ MODULE MCDeploy ------------------------------
(* Instances of the deployment coordinator: two managed objects, the second   *)
(* of them a service, and one responsibility that services may accept.        *)
EXTENDS Deploy

CONSTANTS task, a1

OneKey == {<<"prepare", task, a1>>}
=============================================================================
