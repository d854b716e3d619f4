----------------------------- MODULE MCRaftNode -----------------------------
(***************************************************************************)
(* Small clusters of RaftNode for TLC.  MayStand and MayPropose choose which *)
(* election timeouts expire and which client commands arrive, PeerOrder in  *)
(* which order a node calls its peers, Reaches which calls the network lets *)
(* through; everything else (who answers, what is lost or late, which       *)
(* thread runs) stays open.                                                 *)
(***************************************************************************)
EXTENDS RaftNode, TLC

CONSTANTS n1, n2, n3, n4, n5

(* The network lets every call through.                                     *)
Everyone == Node \X Node

(* The dicts of peers list the nodes in any order, or n3 last.              *)
AnyOrder  == {}
VoterLast == {<<n1, n3>>, <<n2, n3>>}

(* Two rivals, each of which may stand in terms 1 and 2, or skip a term; the *)
(* other nodes vote.  The rivals are interchangeable.                       *)
Rivals == {n1, n2} \X (1..2)
RivalSymmetry == Permutations({n1, n2})

(* A change of leadership: n1 may lead term 1, n2 term 2, n1 term 3.        *)
Handover == {<<n1, 1>>, <<n2, 2>>}

ThereAndBack == Handover \cup {<<n1, 3>>}

(* n1's only command competes with the first of the two n2 gets.            *)
NoProposal  == {}
OneEach     == {<<n1, 1>>, <<n2, 1>>}
Conflicting == {<<n1, 1>>, <<n2, 1>>, <<n2, 2>>}

(* Five nodes, a leader each for terms 1, 2 and 3.  n3 is cut off from the  *)
(* last one, n1 is what the two have in common, n4 and n5 only elect it.    *)
Position == n1 :> 1 @@ n3 :> 2 @@ n2 :> 3 @@ n4 :> 4 @@ n5 :> 5
InTurn == {e \in Node \X Node : Position[e[1]] < Position[e[2]]}
Split == ({n3} \X {n1, n2}) \cup ({n1} \X {n2, n3}) \cup ({n2} \X {n1, n4, n5})
Successors == {<<n3, 1>>, <<n1, 2>>, <<n2, 3>>}
Replacing == {<<n3, 1>>, <<n2, 1>>, <<n2, 2>>}
=============================================================================
