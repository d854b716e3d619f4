---------------------------- MODULE MCRaftStore ----------------------------
(***************************************************************************)
(* Small instances of RaftStore for TLC.                                    *)
(***************************************************************************)
EXTENDS RaftStore, TLC

CONSTANTS c1, c2, n1, n2, k1, a1, a2, a3

Clients == {c1, c2}
Nodes   == {n1, n2}
Keys    == {k1}
Homes   == (c1 :> n1) @@ (c2 :> n2)
Specs   == (c1 :> 0) @@ (c2 :> 10)
Restarts == {n1}
CallsOf == (c1 :> 2) @@ (c2 :> 2)

(* c1 is called a1 or a2, before and after its node restarts: the RaftStore *)
(* that takes the place of the first has its address or another.            *)
Addresses == {a1, a2, a3}
Placed    == (c1 :> {a1, a2}) @@ (c2 :> {a3})
AddressSymmetry == Permutations({a1, a2})
=============================================================================
