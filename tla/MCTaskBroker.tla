---------------------------- MODULE MCTaskBroker ----------------------------
(***************************************************************************)
(* A small instance of TaskBroker for TLC.                                  *)
(***************************************************************************)
EXTENDS TaskBroker, TLC

CONSTANT w

(* The worker may lose its connection and connect again.                    *)
Twice == w :> 2
=============================================================================
