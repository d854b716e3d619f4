---------------------------- MODULE MCWorkQueue ----------------------------
(***************************************************************************)
(* A small instance of WorkQueue for TLC.                                   *)
(***************************************************************************)
EXTENDS WorkQueue, TLC

CONSTANTS a, b

Keys      == {a, b}
LossyKeys == {a}
=============================================================================
