--------------------------- MODULE ObjectStates ---------------------------
(***************************************************************************)
(* What a write does to the orchestrator's object store: the part that      *)
(* MemoryStore and the replicated ObjectStateMachine have in common.        *)
(*                                                                          *)
(* A store is a record: the objects, the global revision, and the events    *)
(* that are still retained.  An object carries its resourceVersion, its     *)
(* generation and its spec; status and metadata do not influence a verdict. *)
(***************************************************************************)
EXTENDS Integers, Sequences, FiniteSets

CONSTANTS
    Key,           \* the keys of the objects
    Absent,        \* a key that holds no object
    HistoryLimit   \* events retained (4096 in the code)

ASSUME HistoryAssumption == HistoryLimit \in Nat \ {0}
ASSUME KeyAssumption == Key # {}

Object == [version: Nat, generation: Nat, spec: Nat]

(* A command carries the resourceVersion and the spec its author wrote.     *)
Command == [verb: {"CREATE", "UPDATE", "DELETE"}, key: Key, version: Nat, spec: Nat]

Event == [verb: {"CREATE", "UPDATE", "DELETE"}, key: Key, revision: Nat]

Store == [objects: [Key -> Object \cup {Absent}], revision: Nat, history: Seq(Event)]

EmptyStore == [objects |-> [k \in Key |-> Absent], revision |-> 0, history |-> <<>>]

-----------------------------------------------------------------------------
(* The verdict on a command, and its effect.                                *)

Verdict(s, c) ==
    LET current == s.objects[c.key]
    IN  CASE c.verb = "CREATE" ->
                IF current = Absent THEN "ok" ELSE "AlreadyExistsError"
          [] current = Absent -> "NotFoundError"
          [] c.verb = "UPDATE" /\ c.version # current.version -> "ConflictError"
          [] OTHER -> "ok"

(* Mutant of Stored: versions are counted per object, from one.             *)
StoredPerObject(s, c, r) ==
    CASE c.verb = "CREATE" -> [version |-> 1, generation |-> 1, spec |-> c.spec]
      [] c.verb = "UPDATE" -> [s.objects[c.key] EXCEPT !.version = @ + 1, !.spec = c.spec]
      [] OTHER -> Absent

(* Mutant of Stored: a deleted object stays, with an impossible spec.       *)
StoredTombstone(s, c, r) ==
    IF c.verb = "DELETE" THEN [s.objects[c.key] EXCEPT !.spec = -1]
    ELSE [version |-> r, generation |-> 1, spec |-> c.spec]

(* What the key holds after an accepted command, written at revision r.     *)
Stored(s, c, r) ==
    LET current == s.objects[c.key]
    IN  CASE c.verb = "CREATE" -> [version |-> r, generation |-> 1, spec |-> c.spec]
          [] c.verb = "UPDATE" ->
                [version    |-> r,
                 generation |-> current.generation + (IF c.spec # current.spec THEN 1 ELSE 0),
                 spec       |-> c.spec]
          [] OTHER -> Absent

(* Mutant of Recorded: the newest event is the one that has no room.        *)
RecordedOldest(history, event) ==
    IF Len(history) = HistoryLimit THEN history ELSE Append(history, event)

(* The retained events: the oldest go first.                                *)
Recorded(history, event) ==
    LET all == Append(history, event)
    IN  IF Len(all) > HistoryLimit
        THEN SubSeq(all, Len(all) - HistoryLimit + 1, Len(all))
        ELSE all

Effect(s, c) ==
    IF Verdict(s, c) # "ok" THEN s
    ELSE LET r == s.revision + 1
         IN  [objects  |-> [s.objects EXCEPT ![c.key] = Stored(s, c, r)],
              revision |-> r,
              history  |-> Recorded(s.history, [verb |-> c.verb, key |-> c.key, revision |-> r])]

-----------------------------------------------------------------------------
(* RaftStore.events_since: the retained events after r.  Unlike that of      *)
(* MemoryStore it refuses no revision, so that a follower that asks from    *)
(* before the retained ones is not told that there were others.  (The code  *)
(* lists them in the order of history; each carries its revision, so that   *)
(* the set says as much.)                                                   *)
EventsSince(s, r) == {s.history[i] : i \in {j \in DOMAIN s.history : s.history[j].revision > r}}
=============================================================================
