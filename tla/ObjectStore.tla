---------------------------- MODULE ObjectStore ----------------------------
(***************************************************************************)
(* The contract of ClusterStore, as MemoryStore keeps it under its lock: a  *)
(* call that was issued takes effect at most once, calls take effect one at *)
(* a time, and each is judged against the objects as they are then.  A call *)
(* may also come to nothing.                                                *)
(***************************************************************************)
EXTENDS ObjectStates

VARIABLES
    store,    \* the objects, the revision and the retained events
    open      \* the calls under way: [id, command] records

contract == <<store, open>>

Init == store = EmptyStore /\ open = {}

Issue == \E e \in open' \ open : open' = open \cup {e} /\ UNCHANGED store

(* MemoryStore.create, update or delete, under the store's lock.            *)
TakeEffect(e) ==
    /\ e \in open
    /\ open' = open \ {e}
    /\ store' = Effect(store, e.command)

Next == Issue \/ \E e \in open : TakeEffect(e)

Spec == Init /\ [][Next]_contract
=============================================================================
