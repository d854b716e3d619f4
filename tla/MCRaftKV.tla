------------------------------ MODULE MCRaftKV ------------------------------
(***************************************************************************)
(* A small cluster of RaftKV for TLC.                                       *)
(***************************************************************************)
EXTENDS RaftKV, TLC

CONSTANTS n1, n2, n3

AnyOrder  == {}
Everyone  == Node \X Node

OneLeader == {<<n1, 1>>}
TwoCalls  == {n1} \X (1..2)

Keys == {"k"}

SetOnly == {<<"SET", "k", "v">>}

(* Bound: a second command comes only to a log that no late request and no   *)
(* second crash has to do with, and a crash only when no call waits.         *)
Budget ==
    \/ LastIndex(log[n1]) <= 1
    \/ late = {} /\ restarts <= 1 /\ (restarts = 1 => waiting = {})

FollowerSymmetry == Permutations({n2, n3})
=============================================================================
