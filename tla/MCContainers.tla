---------------------------- MODULE MCContainers ----------------------------
(* Two containers whose images share their base layer.                      *)
EXTENDS Containers

CONSTANTS c1, c2, base, app

Images == [c \in Container |-> IF c = c1 THEN <<base, app>> ELSE <<base>>]
=============================================================================
