----------------------------- MODULE MCRollout -----------------------------
(***************************************************************************)
(* A small instance of Rollout for TLC.                                     *)
(***************************************************************************)
EXTENDS Rollout

CONSTANTS a, b

Two   == {a, b}
Sizes == {1, 2}
AtA   == [template |-> a, desired |-> 2]
=============================================================================
