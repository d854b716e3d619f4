------------------------------ MODULE MCNodes ------------------------------
(* Two nodes, one with room for one pod, one for two; a ReplicaSet of two.  *)
EXTENDS Nodes

CONSTANTS n1, n2, p1, p2

OneEach  == [p \in Pod |-> 1]
Places   == [n \in Node |-> IF n = n1 THEN 1 ELSE 2]
=============================================================================
