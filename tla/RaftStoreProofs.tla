--------------------------- MODULE RaftStoreProofs ---------------------------
(***************************************************************************)
(* Proofs about RaftStore, for any clients, nodes and keys and any number   *)
(* of calls and restarts: the replicas agree, no update is lost, a replay   *)
(* of events is of the newest ones, the replicated store keeps the contract *)
(* of ObjectStore, and, as long as no two RaftStores have the same id(),    *)
(* answers are true and a client reads what it wrote.                       *)
(***************************************************************************)
EXTENDS RaftStore, SequenceTheorems, TLAPS

(* The stores that were reached: one per applied prefix of the log.         *)
StatesInv ==
    /\ states \in Seq(Store)
    /\ Len(states) \in 1..Len(log) + 1
    /\ states[1] = EmptyStore
    /\ \A i \in 1..Len(states) - 1 : states[i + 1] = Effect(states[i], log[i].command)

(* No two requests are the same call.                                       *)
Numbered(e) == e.by[2] <= calls[e.by[1]]
CallerInv ==
    /\ \A e \in inflight : Numbered(e)
    /\ \A i \in 1..Len(log) : Numbered(log[i])
    /\ \A i, j \in 1..Len(log) : log[i].by = log[j].by => i = j
    /\ \A e, f \in inflight : e.by = f.by => e = f
    /\ \A e \in inflight, i \in 1..Len(log) : e.by # log[i].by

(* An identity that is not shared is that of one client, and the requests   *)
(* under it are those of its present RaftStore: no later one than the last  *)
(* it numbered, which is the call it makes.                                 *)
Named(e) ==
    /\ e.id[1] \in taken
    /\ \A c \in Client : e.id[1] = identity[c] /\ identity[c] \notin shared =>
            /\ e.id[2] <= counter[c]
            /\ e.id[2] = counter[c] => e.by = <<c, calls[c]>>
NameInv ==
    /\ \A c \in Client : identity[c] \in taken
    /\ \A c, d \in Client : identity[c] \notin shared /\ identity[c] = identity[d] => c = d
    /\ \A e \in inflight : Named(e)
    /\ \A i \in 1..Len(log) : Named(log[i])

(* The verdict that request id, or the request of a caller, met at index i  *)
(* of the log.                                                              *)
Met(id, outcome, i) == log[i].id = id /\ outcome = Verdict(states[i], log[i].command)
MetOf(by, outcome, i) == log[i].by = by /\ outcome = Verdict(states[i], log[i].command)

ResultInv ==
    \A n \in Node : \A r \in results[n] : \E i \in 1..applied[n] : Met(r.id, r.outcome, i)

ToldInv ==
    \A c \in Client : \A t \in told[c] :
        t.id[1] \notin shared =>
            \E i \in 1..Len(states) - 1 : i <= t.at /\ MetOf(t.by, t.outcome, i)

(* Versions are revisions: an object that is not the one of an earlier      *)
(* store has a version that store had not reached.                          *)
VersionInv ==
    /\ \A i \in 1..Len(states), k \in Key :
          states[i].objects[k] # Absent => states[i].objects[k].version <= states[i].revision
    /\ \A i, j \in 1..Len(states) : i <= j =>
          /\ states[i].revision <= states[j].revision
          /\ \A k \in Key :
                \/ states[j].objects[k] = states[i].objects[k]
                \/ states[j].objects[k] = Absent
                \/ states[j].objects[k].version > states[i].revision

(* An UPDATE was made of an object that some store held.                    *)
MadeOf(c, s) ==
    /\ s.objects[c.key] # Absent
    /\ c.version = s.objects[c.key].version
    /\ c.spec = s.objects[c.key].spec + 1
Authored(c) == c.verb = "UPDATE" => \E j \in 1..Len(states) : MadeOf(c, states[j])
AuthorInv ==
    /\ \A c \in Client : Authored(call[c].command)
    /\ \A e \in inflight : Authored(e.command)
    /\ \A i \in 1..Len(log) : Authored(log[i].command)

IInv == /\ TypeOK /\ StatesInv /\ ReplicasAgree /\ CallerInv /\ NameInv
        /\ ResultInv /\ ToldInv /\ VersionInv /\ AuthorInv

-----------------------------------------------------------------------------
(* Writes                                                                   *)

(* A verdict is ok or one of the errors of the store (store.py:354-358).    *)
LEMMA VerdictType == \A s, c : Verdict(s, c) \in Outcome
BY DEF Verdict, Outcome

(* The history that record makes is a sequence of events                    *)
(* (store.py:284-292).                                                      *)
LEMMA RecordedType ==
    ASSUME NEW h \in Seq(Event), NEW e \in Event PROVE Recorded(h, e) \in Seq(Event)
<1> DEFINE all == Append(h, e)
<1>1. all \in Seq(Event) /\ Len(all) = Len(h) + 1 /\ Len(h) \in Nat
  OBVIOUS
<1>2. CASE Len(all) > HistoryLimit
  <2>1. SubSeq(all, Len(all) - HistoryLimit + 1, Len(all)) \in Seq(Event)
    BY <1>1, <1>2, HistoryAssumption, SubSeqProperties
  <2> QED BY <1>2, <2>1 DEF Recorded
<1>3. CASE ~ (Len(all) > HistoryLimit)
  BY <1>1, <1>3 DEF Recorded
<1> QED BY <1>2, <1>3

(* What an accepted command writes is an object, or nothing                 *)
(* (store.py:251-282).                                                      *)
LEMMA StoredType ==
    ASSUME NEW s \in Store, NEW c \in Command, NEW r \in Nat, Verdict(s, c) = "ok"
    PROVE  Stored(s, c, r) \in Object \cup {Absent}
<1>1. CASE c.verb = "CREATE"
  BY <1>1 DEF Stored, Command, Object
<1>2. CASE c.verb = "UPDATE"
  <2>1. s.objects[c.key] \in Object
    BY <1>2 DEF Verdict, Store, Command
  <2> QED BY <1>2, <2>1 DEF Stored, Command, Object
<1>3. CASE c.verb = "DELETE"
  BY <1>3 DEF Stored
<1> QED BY <1>1, <1>2, <1>3 DEF Command

(* What an accepted write changes: one object, which is gone or has the new *)
(* revision for its version.                                                *)
LEMMA EffectFacts ==
    ASSUME NEW s \in Store, NEW c \in Command
    PROVE  /\ Effect(s, c) \in Store
           /\ s.revision <= Effect(s, c).revision
           /\ \A k \in Key :
                 \/ Effect(s, c).objects[k] = s.objects[k]
                 \/ Effect(s, c).objects[k] = Absent
                 \/ /\ Effect(s, c).objects[k].version = s.revision + 1
                    /\ Effect(s, c).revision = s.revision + 1
<1>1. s.revision \in Nat /\ s.objects \in [Key -> Object \cup {Absent}] /\ c.key \in Key
  BY DEF Store, Command
<1>2. CASE Verdict(s, c) # "ok"
  BY <1>1, <1>2 DEF Effect
<1>3. CASE Verdict(s, c) = "ok"
  <2> DEFINE r == s.revision + 1
             o == Stored(s, c, r)
             h == Recorded(s.history, [verb |-> c.verb, key |-> c.key, revision |-> r])
  <2>1. o \in Object \cup {Absent}
    BY <1>1, <1>3, StoredType
  <2>2. h \in Seq(Event)
    <3>1. [verb |-> c.verb, key |-> c.key, revision |-> r] \in Event /\ s.history \in Seq(Event)
      BY <1>1 DEF Event, Command, Store
    <3> QED BY <3>1, RecordedType
  <2>3. Effect(s, c) = [objects |-> [s.objects EXCEPT ![c.key] = o], revision |-> r, history |-> h]
    BY <1>3 DEF Effect
  <2>4. o = Absent \/ o.version = r
    BY <1>1 DEF Stored, Command
  <2> HIDE DEF o, h
  <2>5. Effect(s, c) \in Store
    BY <1>1, <2>1, <2>2, <2>3 DEF Store
  <2> QED BY <1>1, <2>3, <2>4, <2>5
<1> QED BY <1>2, <1>3

-----------------------------------------------------------------------------
(* The initial state                                                        *)

(* The invariant holds at the start (store.py:227-233).                     *)
LEMMA Initially == Init => IInv
<1> SUFFICES ASSUME Init PROVE IInv
  OBVIOUS
<1> USE DEF Init
<1>1. EmptyStore \in Store
  BY DEF EmptyStore, Store
<1>2. NoCall \in [command: Command, tries: Nat] /\ NoCall.command.verb = "DELETE"
  <2>1. (CHOOSE k \in Key : TRUE) \in Key
    BY KeyAssumption
  <2> QED BY <2>1 DEF NoCall, Command
<1>3. TypeOK
  BY <1>1, <1>2 DEF TypeOK, Place
<1>4. StatesInv /\ ReplicasAgree
  BY <1>1 DEF StatesInv, ReplicasAgree
<1>5. CallerInv /\ ResultInv /\ ToldInv
  BY DEF CallerInv, ResultInv, ToldInv
<1>8. NameInv
  BY DEF NameInv
<1>6. VersionInv
  BY DEF VersionInv, EmptyStore
<1>7. AuthorInv
  BY <1>2 DEF AuthorInv, Authored
<1> QED BY <1>3, <1>4, <1>5, <1>6, <1>7, <1>8 DEF IInv

-----------------------------------------------------------------------------
(* The log                                                                  *)

(* The log's growth by an accepted proposal keeps the invariant.            *)
LEMMA CommitKeeps == ASSUME IInv, NEW e \in inflight, Commit(e) PROVE IInv'
<1> USE DEF IInv, Commit, machine, clientVars, naming
<1>1. log \in Seq(Entry) /\ e \in Entry /\ inflight \subseteq Entry
  BY DEF TypeOK
<1>2. /\ Len(log') = Len(log) + 1 /\ Len(log) \in Nat
      /\ \A i \in 1..Len(log) : log'[i] = log[i]
      /\ log'[Len(log) + 1] = e
  BY <1>1
<1>3. TypeOK'
  BY <1>1 DEF TypeOK
<1>4. StatesInv' /\ ReplicasAgree'
  BY <1>2 DEF StatesInv, ReplicasAgree
<1>5. CallerInv' /\ NameInv'
  BY <1>1, <1>2 DEF CallerInv, Numbered, NameInv, Named
<1>6. \A i \in 1..Len(states) - 1 : \A id, o : Met(id, o, i) => Met(id, o, i)'
  BY <1>2 DEF Met, StatesInv
<1>10. \A i \in 1..Len(states) - 1 : \A by, o : MetOf(by, o, i) => MetOf(by, o, i)'
  BY <1>2 DEF MetOf, StatesInv
<1>7. ResultInv'
  <2>1. \A n \in Node : applied[n] \in Nat /\ applied[n] < Len(states) /\ Len(states) \in Nat
    BY DEF TypeOK, ReplicasAgree, StatesInv
  <2>2. \A n \in Node : \A i \in 1..applied[n] : i \in 1..Len(states) - 1
    BY <2>1
  <2> QED BY <1>6, <2>2 DEF ResultInv
<1>8. ToldInv'
  BY <1>10 DEF ToldInv
<1>9. VersionInv' /\ AuthorInv'
  BY <1>1, <1>2 DEF VersionInv, AuthorInv, Authored
<1> QED BY <1>3, <1>4, <1>5, <1>7, <1>8, <1>9

(* The store a node reaches is the one that every node reaches there.       *)
LEMMA ApplyFacts ==
    ASSUME IInv, NEW n \in Node, Apply(n)
    PROVE  LET i == applied[n] + 1  e == log[i]
           IN  /\ i \in 1..Len(log) /\ i <= Len(states) /\ e \in Entry
               /\ sm[n] = states[i] /\ sm[n] \in Store
               /\ Effect(sm[n], e.command) \in Store
               /\ i < Len(states) => states' = states /\ states[i + 1] = Effect(sm[n], e.command)
               /\ i = Len(states) => states' = Append(states, Effect(sm[n], e.command))
<1> USE DEF IInv
<1>1. applied[n] \in Nat /\ log \in Seq(Entry) /\ sm[n] \in Store
  BY DEF TypeOK
<1>2. applied[n] < Len(states) /\ sm[n] = states[applied[n] + 1] /\ Len(states) \in Nat
  BY DEF ReplicasAgree, StatesInv
<1>3. applied[n] < Len(log) /\ Len(log) \in Nat
  BY <1>1 DEF Apply
<1>4. applied[n] + 1 \in 1..Len(log) /\ log[applied[n] + 1] \in Entry
  BY <1>1, <1>3
<1>5. Effect(sm[n], log[applied[n] + 1].command) \in Store
  BY <1>1, <1>4, EffectFacts DEF Entry
<1> QED BY <1>1, <1>2, <1>3, <1>4, <1>5 DEF Apply, StatesInv

(* A new state at the end of states.                                        *)
LEMMA NewState ==
    ASSUME IInv, NEW c \in Command, Len(states) \in 1..Len(log), log[Len(states)].command = c,
           states' = Append(states, Effect(latest, c)),
           UNCHANGED <<log, inflight, call, shared, told>>
    PROVE  StatesInv' /\ VersionInv' /\ AuthorInv' /\ ToldInv'
<1> USE DEF IInv
<1> DEFINE N == Len(states)
           s == Effect(latest, c)
<1>1. states \in Seq(Store) /\ N \in Nat \ {0} /\ latest \in Store /\ Len(log) \in Nat
  BY DEF StatesInv, latest, TypeOK
<1>2. /\ s \in Store /\ latest.revision <= s.revision
      /\ \A k \in Key : \/ s.objects[k] = latest.objects[k]
                         \/ s.objects[k] = Absent
                         \/ /\ s.objects[k].version = latest.revision + 1
                            /\ s.revision = latest.revision + 1
  BY <1>1, EffectFacts
<1> HIDE DEF s
<1>3. /\ Len(states') = N + 1 /\ states'[N + 1] = s /\ states' \in Seq(Store)
      /\ \A i \in 1..N : states'[i] = states[i] /\ states[i] \in Store
  BY <1>1, <1>2 DEF s
<1>4. StatesInv'
  <2>1. \A i \in 1..N : states'[i + 1] = Effect(states'[i], log[i].command)
    BY <1>1, <1>3 DEF StatesInv, latest, s
  <2> QED BY <1>1, <1>3, <2>1 DEF StatesInv
<1>5. \A i \in 1..N : states[i].revision \in Nat /\ states[i].revision <= latest.revision
                      /\ latest.revision \in Nat /\ s.revision \in Nat
  BY <1>1, <1>2, <1>3 DEF VersionInv, latest, Store
<1>6. \A k \in Key : s.objects[k] # Absent => s.objects[k].version <= s.revision
  <2> TAKE k \in Key
  <2>1. latest.objects[k] # Absent =>
            latest.objects[k].version <= latest.revision /\ latest.objects[k].version \in Nat
    <3>1. latest.objects[k] \in Object \cup {Absent}
      BY <1>1 DEF Store
    <3> QED BY <1>1, <3>1 DEF VersionInv, latest, Object
  <2> QED BY <1>1, <1>2, <1>5, <2>1
<1>7. \A i \in 1..N, k \in Key : \/ s.objects[k] = states[i].objects[k]
                                 \/ s.objects[k] = Absent
                                 \/ s.objects[k].version > states[i].revision
  <2> TAKE i \in 1..N, k \in Key
  <2>1. \/ latest.objects[k] = states[i].objects[k] \/ latest.objects[k] = Absent
        \/ latest.objects[k].version > states[i].revision
    BY <1>1 DEF VersionInv, latest
  <2> QED BY <1>1, <1>2, <1>5, <2>1
<1>8. VersionInv'
  <2>1. \A i \in 1..N + 1, k \in Key : states'[i].objects[k] # Absent =>
            states'[i].objects[k].version <= states'[i].revision
    BY <1>1, <1>3, <1>6 DEF VersionInv
  <2>2. \A i \in 1..N : states'[i].revision <= s.revision
    BY <1>1, <1>2, <1>3, <1>5
  <2>3. ASSUME NEW i \in 1..N + 1, NEW j \in 1..N + 1, i <= j
        PROVE  /\ states'[i].revision <= states'[j].revision
               /\ \A k \in Key : \/ states'[j].objects[k] = states'[i].objects[k]
                                  \/ states'[j].objects[k] = Absent
                                  \/ states'[j].objects[k].version > states'[i].revision
    <3>1. CASE j \in 1..N
      <4>1. i \in 1..N /\ states'[i] = states[i] /\ states'[j] = states[j]
        BY <1>1, <1>3, <2>3, <3>1
      <4> QED BY <2>3, <3>1, <4>1 DEF VersionInv
    <3>2. CASE j = N + 1 /\ i \in 1..N
      BY <1>3, <1>7, <2>2, <3>2
    <3>3. CASE i = N + 1 /\ j = N + 1
      BY <1>3, <1>5, <3>3, <1>1
    <3> QED BY <1>1, <2>3, <3>1, <3>2, <3>3
  <2> QED BY <1>3, <2>1, <2>3 DEF VersionInv
<1>9. AuthorInv'
  <2>1. \A d : Authored(d) => Authored(d)'
    BY <1>1, <1>3 DEF Authored, MadeOf
  <2> QED BY <2>1 DEF AuthorInv
<1>10. ToldInv'
  BY <1>1, <1>3 DEF ToldInv, MetOf
<1> QED BY <1>4, <1>8, <1>9, <1>10

(* So does a node that applies the next entry (store.py:235-292).           *)
LEMMA ApplyKeeps == ASSUME IInv, NEW n \in Node, Apply(n) PROVE IInv'
<1> USE DEF IInv
<1> DEFINE i == applied[n] + 1
           e == log[i]
<1>1. /\ i \in 1..Len(log) /\ i <= Len(states) /\ e \in Entry
      /\ sm[n] = states[i] /\ sm[n] \in Store
      /\ Effect(sm[n], e.command) \in Store
      /\ i < Len(states) => states' = states /\ states[i + 1] = Effect(sm[n], e.command)
      /\ i = Len(states) => states' = Append(states, Effect(sm[n], e.command))
  BY ApplyFacts
<1>2. /\ applied' = [applied EXCEPT ![n] = i]
      /\ sm' = [sm EXCEPT ![n] = Effect(sm[n], e.command)]
      /\ results' = [results EXCEPT ![n] = {r \in @ : r.id # e.id}
              \cup {[id |-> e.id, outcome |-> Verdict(sm[n], e.command)]}]
      /\ UNCHANGED <<log, inflight, pc, call, naming, restarts, told>>
  BY DEF Apply, clientVars
<1>3. applied \in [Node -> Nat] /\ states \in Seq(Store) /\ Len(states) \in Nat
  BY DEF TypeOK, StatesInv
<1> HIDE DEF i, e
<1>4. TypeOK'
  <2>1. [id |-> e.id, outcome |-> Verdict(sm[n], e.command)] \in Result
    BY <1>1, VerdictType DEF Entry, Result
  <2>2. i \in Nat
    BY <1>1
  <2>3. results' \in [Node -> SUBSET Result]
    BY <1>2, <2>1 DEF TypeOK
  <2>4. applied' \in [Node -> Nat] /\ sm' \in [Node -> Store]
    BY <1>1, <1>2, <2>2 DEF TypeOK
  <2> QED BY <1>2, <2>3, <2>4 DEF TypeOK, naming
<1>5. StatesInv' /\ VersionInv' /\ AuthorInv' /\ ToldInv'
  <2>1. CASE i < Len(states)
    <3>1. UNCHANGED <<states, log, inflight, call, shared, told>>
      BY <1>1, <1>2, <2>1 DEF naming
    <3> QED BY <3>1 DEF StatesInv, VersionInv, AuthorInv, Authored, ToldInv, MetOf
  <2>2. CASE i = Len(states)
    <3>1. e.command \in Command /\ latest = sm[n] /\ log[Len(states)].command = e.command
      BY <1>1, <2>2 DEF Entry, latest, e
    <3> QED BY <1>1, <1>2, <2>2, <3>1, NewState DEF naming
  <2> QED BY <1>1, <1>3, <2>1, <2>2
<1>6. /\ Len(states) <= Len(states') /\ Len(states') \in Nat
      /\ i < Len(states') /\ states'[i + 1] = Effect(sm[n], e.command)
      /\ \A j \in 1..Len(states) : states'[j] = states[j]
  BY <1>1, <1>3
<1>7. ReplicasAgree'
  <2> SUFFICES ASSUME NEW m \in Node
               PROVE  applied'[m] < Len(states') /\ sm'[m] = states'[applied'[m] + 1]
    BY DEF ReplicasAgree
  <2>1. CASE m = n
    BY <1>2, <1>3, <1>6, <2>1 DEF TypeOK
  <2>2. CASE m # n
    <3>1. applied'[m] = applied[m] /\ sm'[m] = sm[m] /\ applied[m] \in Nat
      BY <1>2, <1>3, <2>2 DEF TypeOK
    <3>2. applied[m] < Len(states) /\ sm[m] = states[applied[m] + 1]
      BY DEF ReplicasAgree
    <3>3. applied[m] + 1 \in 1..Len(states)
      BY <1>3, <3>1, <3>2
    <3> QED BY <1>3, <1>6, <3>1, <3>2, <3>3
  <2> QED BY <2>1, <2>2
<1>8. CallerInv' /\ NameInv'
  BY <1>2 DEF CallerInv, Numbered, NameInv, Named, naming
<1>9. ResultInv'
  <2>1. \A j \in 1..Len(states) : \A id, o : Met(id, o, j) => Met(id, o, j)'
    BY <1>2, <1>6 DEF Met
  <2>2. log'[i].id = e.id /\ Verdict(sm[n], e.command) = Verdict(states'[i], log'[i].command)
    <3>1. log'[i] = e /\ i \in 1..Len(states)
      BY <1>1, <1>2, <1>3 DEF e
    <3>2. states'[i] = sm[n]
      BY <1>1, <1>6, <3>1
    <3> QED BY <3>1, <3>2
  <2>3. \A m \in Node : applied[m] \in Nat /\ applied[m] <= applied'[m]
                        /\ applied[m] < Len(states) /\ applied'[m] \in Nat
    BY <1>1, <1>2, <1>3 DEF ReplicasAgree, i
  <2> SUFFICES ASSUME NEW m \in Node, NEW r \in results'[m]
               PROVE  \E j \in 1..applied'[m] : Met(r.id, r.outcome, j)'
    BY DEF ResultInv
  <2>4. CASE r \in results[m]
    BY <1>3, <2>1, <2>3, <2>4 DEF ResultInv
  <2>5. CASE r \notin results[m]
    <3>1. m = n /\ r = [id |-> e.id, outcome |-> Verdict(sm[n], e.command)]
      BY <1>2, <2>5 DEF TypeOK
    <3>2. applied'[m] = i /\ i \in 1..i
      BY <1>1, <1>2, <1>3, <3>1
    <3> QED BY <2>2, <3>1, <3>2 DEF Met
  <2> QED BY <2>4, <2>5
<1> QED BY <1>4, <1>5, <1>7, <1>8, <1>9

(* RaftStores that start over are called as they are: an identity that      *)
(* another one had is shared from then on (store.py:328,334).               *)
LEMMA StartOverKeeps ==
    ASSUME IInv, NEW cs \in SUBSET Client, StartOver(cs), UNCHANGED <<log, inflight>>
    PROVE  /\ CallerInv' /\ NameInv'
           /\ pc' \in [Client -> Place] /\ call' \in [Client -> [command: Command, tries: Nat]]
           /\ counter' \in [Client -> Nat] /\ identity' \in [Client -> Identity]
           /\ taken' \subseteq Identity /\ shared' \subseteq Identity /\ shared \subseteq shared'
           /\ calls' = calls
           /\ \A c \in Client : Authored(call'[c].command)
<1> USE DEF IInv, StartOver
<1>1. NoCall \in [command: Command, tries: Nat] /\ NoCall.command.verb = "DELETE"
  <2>1. (CHOOSE k \in Key : TRUE) \in Key
    BY KeyAssumption
  <2> QED BY <2>1 DEF NoCall, Command
<1>2. CallerInv'
  BY DEF CallerInv, Numbered
<1>3. /\ taken \subseteq taken' /\ shared \subseteq shared'
      /\ \A c \in cs : identity'[c] \in taken'
      /\ \A c \in Client \ cs : identity'[c] = identity[c] /\ counter'[c] = counter[c]
      /\ \A c \in cs : identity'[c] \notin shared' =>
             identity'[c] \notin taken /\ \A d \in cs \ {c} : identity'[d] # identity'[c]
  OBVIOUS
<1>4. ASSUME NEW c \in Client, NEW d \in Client, identity'[c] \notin shared', identity'[c] = identity'[d]
      PROVE  c = d
  <2>1. CASE c \in cs \/ d \in cs
    BY <1>3, <1>4, <2>1 DEF NameInv
  <2>2. CASE c \notin cs /\ d \notin cs
    BY <1>3, <1>4, <2>2 DEF NameInv
  <2> QED BY <2>1, <2>2
<1>5. ASSUME NEW e, Named(e) PROVE Named(e)'
  <2>1. e.id[1] \in taken /\ e.id[1] \in taken'
    BY <1>3, <1>5 DEF Named
  <2>2. ASSUME NEW c \in Client, e.id[1] = identity'[c], identity'[c] \notin shared'
        PROVE  /\ e.id[2] <= counter'[c]
               /\ e.id[2] = counter'[c] => e.by = <<c, calls[c]>>
    <3>1. c \notin cs
      BY <1>3, <2>1, <2>2
    <3> QED BY <1>3, <1>5, <2>2, <3>1 DEF Named
  <2> QED BY <2>1, <2>2 DEF Named
<1>6. NameInv'
  <2>1. \A c \in Client : identity'[c] \in taken'
    BY <1>3 DEF NameInv
  <2> QED BY <1>4, <1>5, <2>1 DEF NameInv
<1>7. pc' \in [Client -> Place] /\ call' \in [Client -> [command: Command, tries: Nat]]
      /\ counter' \in [Client -> Nat]
  BY <1>1 DEF TypeOK, Place
<1>8. taken' \subseteq Identity /\ shared' \subseteq Identity
  BY DEF TypeOK
<1>9. \A c \in Client : Authored(call'[c].command)
  BY <1>1 DEF AuthorInv, Authored
<1> QED BY <1>2, <1>3, <1>6, <1>7, <1>8, <1>9

(* So does a node that restarts with an empty state machine.                *)
LEMMA RestartKeeps == ASSUME IInv, NEW n \in Node, Restart(n) PROVE IInv'
<1> USE DEF IInv, Restart
<1>1. EmptyStore \in Store
  BY DEF EmptyStore, Store
<1>2. /\ CallerInv' /\ NameInv'
      /\ pc' \in [Client -> Place] /\ call' \in [Client -> [command: Command, tries: Nat]]
      /\ counter' \in [Client -> Nat] /\ identity' \in [Client -> Identity]
      /\ taken' \subseteq Identity /\ shared' \subseteq Identity /\ shared \subseteq shared'
      /\ calls' = calls
      /\ \A c \in Client : Authored(call'[c].command)
  BY StartOverKeeps DEF Homed
<1>3. TypeOK'
  BY <1>1, <1>2 DEF TypeOK
<1>4. StatesInv' /\ VersionInv'
  BY DEF StatesInv, VersionInv
<1>5. ReplicasAgree'
  BY DEF StatesInv, ReplicasAgree, TypeOK
<1>6. ResultInv' /\ ToldInv'
  BY <1>2 DEF ResultInv, ToldInv, Met, MetOf, TypeOK
<1>7. AuthorInv'
  BY <1>2 DEF AuthorInv, Authored, MadeOf
<1> QED BY <1>2, <1>3, <1>4, <1>5, <1>6, <1>7

-----------------------------------------------------------------------------
(* The clients                                                              *)

Calls == [command: Command, tries: Nat]

(* What the steps of a client do to its call.                               *)
CallStep ==
    /\ pc' \in [Client -> Place]
    /\ call' \in [Client -> Calls]
    /\ \A d \in Client : Authored(call'[d].command)

(* A call that ends leaves nothing that was not authored.                   *)
LEMMA ReturnSteps == ASSUME IInv, NEW c \in Client, Return(c) PROVE CallStep
<1>1. NoCall \in Calls /\ ~ NoCall.command.verb = "UPDATE"
  <2>1. (CHOOSE k \in Key : TRUE) \in Key
    BY KeyAssumption
  <2> QED BY <2>1 DEF NoCall, Command, Calls
<1>2. pc \in [Client -> Place] /\ call \in [Client -> Calls]
  BY DEF IInv, TypeOK, Calls
<1>3. Authored(NoCall.command)
  BY <1>1 DEF Authored
<1> QED BY <1>1, <1>2, <1>3 DEF Return, Goto, Place, CallStep, IInv, AuthorInv

(* update_with_retry writes one more than an object that some store held    *)
(* (store.py:73-82).                                                        *)
LEMMA ReadSteps ==
    ASSUME IInv, NEW c \in Client, NEW k \in Key, NEW tries \in Nat, Read(c, k, tries)
    PROVE  CallStep
<1> DEFINE o == Here(c).objects[k]
           u == [verb |-> "UPDATE", key |-> k, version |-> o.version, spec |-> o.spec + 1]
<1>1. Home[c] \in Node /\ Here(c) \in Store
  BY HomeAssumption DEF Here, IInv, TypeOK
<1>2. \E j \in 1..Len(states) : Here(c) = states[j]
  <2>1. applied[Home[c]] + 1 \in 1..Len(states) /\ Here(c) = states[applied[Home[c]] + 1]
    BY SMTT(30), <1>1 DEF IInv, TypeOK, ReplicasAgree, StatesInv, Here
  <2> QED BY <2>1
<1>3. CASE o = Absent
  BY <1>3, ReturnSteps DEF Read
<1>4. CASE o # Absent
  <2>1. o \in Object
    BY <1>1, <1>4 DEF Store
  <2>2. u \in Command
    BY <2>1 DEF Command, Object
  <2>3. Authored(u)
    BY <1>2, <1>4 DEF Authored, MadeOf
  <2>4. /\ pc' = [pc EXCEPT ![c] = "propose"]
        /\ call' = [call EXCEPT ![c] = [command |-> u, tries |-> tries]]
    BY <1>4 DEF Read, Goto
  <2>5. pc \in [Client -> Place] /\ call \in [Client -> Calls]
    BY DEF IInv, TypeOK, Calls
  <2> HIDE DEF u
  <2>6. [command |-> u, tries |-> tries] \in Calls
    BY <2>2 DEF Calls
  <2> QED BY <2>3, <2>4, <2>5, <2>6 DEF Place, CallStep, IInv, AuthorInv
<1> QED BY <1>3, <1>4

(* So does its next attempt (store.py:83-85).                               *)
LEMMA RetrySteps == ASSUME IInv, NEW c \in Client, Retry(c) PROVE CallStep
<1>1. call[c].command.key \in Key /\ call[c].tries + 1 \in Nat
  BY DEF IInv, TypeOK, Command
<1> QED BY <1>1, ReadSteps, ReturnSteps DEF Retry

(* The parts of a request.                                                  *)
LEMMA EntryParts ==
    ASSUME NEW e \in Entry
    PROVE  /\ e.by[1] \in Client /\ e.by[2] \in Nat /\ e.id[1] \in Identity /\ e.id[2] \in Nat
           /\ e.command \in Command
BY DEF Entry, Request, Caller

(* The parts of the requests in the log and under way.                      *)
LEMMA Requests ==
    ASSUME TypeOK
    PROVE  /\ \A e \in inflight : e.by[1] \in Client /\ e.by[2] \in Nat /\ e.id[2] \in Nat
           /\ \A i \in 1..Len(log) :
                 /\ log[i].by[1] \in Client /\ log[i].by[2] \in Nat /\ log[i].id[2] \in Nat
                 /\ log[i].command \in Command
<1>1. inflight \subseteq Entry /\ \A i \in 1..Len(log) : log[i] \in Entry
  BY DEF TypeOK
<1> QED BY <1>1, EntryParts

(* What a numbered request does to the names, whether it is accepted or     *)
(* not: c's last request is this one now.                                   *)
NumberStep(c) ==
    /\ counter' = [counter EXCEPT ![c] = @ + 1]
    /\ calls' = [calls EXCEPT ![c] = @ + 1]
    /\ told' = [told EXCEPT ![c] = {}]
    /\ UNCHANGED <<identity, taken, shared>>

(* The requests made before keep their names and numbers.                   *)
LEMMA NumberKeeps ==
    ASSUME IInv, NEW c \in Client, NumberStep(c), NEW e \in Entry, Numbered(e), Named(e)
    PROVE  Numbered(e)' /\ Named(e)'
<1> USE DEF IInv, NumberStep
<1>1. /\ counter \in [Client -> Nat] /\ calls \in [Client -> Nat]
      /\ e.by[1] \in Client /\ e.by[2] \in Nat /\ e.id[2] \in Nat
  BY EntryParts DEF TypeOK
<1>2. Numbered(e)'
  BY <1>1 DEF Numbered
<1>3. ASSUME NEW d \in Client, e.id[1] = identity[d], identity[d] \notin shared
      PROVE  /\ e.id[2] <= counter'[d]
             /\ e.id[2] = counter'[d] => e.by = <<d, calls'[d]>>
  <2>1. e.id[2] <= counter[d] /\ (e.id[2] = counter[d] => e.by = <<d, calls[d]>>)
    BY <1>3 DEF Named
  <2>2. CASE d = c
    <3>1. counter'[d] = counter[d] + 1 /\ counter[d] \in Nat
      BY <1>1, <2>2
    <3> QED BY <1>1, <2>1, <3>1
  <2>3. CASE d # c
    BY <1>1, <2>1, <2>3
  <2> QED BY <2>2, <2>3
<1> QED BY <1>2, <1>3 DEF Named

(* A number more for a client.                                              *)
LEMMA NumberTypes ==
    ASSUME IInv, NEW c \in Client, NumberStep(c)
    PROVE  /\ counter' \in [Client -> Nat] /\ calls' \in [Client -> Nat]
           /\ told' \in [Client -> SUBSET [id: Request, by: Caller, outcome: Outcome, at: Nat]]
           /\ \A d \in Client : told'[d] \subseteq told[d]
BY DEF IInv, TypeOK, NumberStep

(* A step of a client that asks for nothing new and is told nothing.        *)
LEMMA QuietKeeps ==
    ASSUME IInv, CallStep,
           UNCHANGED <<log, inflight, applied, sm, results, restarts, states>>,
           UNCHANGED <<naming, told>> \/ \E c \in Client : NumberStep(c)
    PROVE  IInv'
<1> USE DEF IInv
<1>1. /\ counter' \in [Client -> Nat] /\ calls' \in [Client -> Nat]
      /\ told' \in [Client -> SUBSET [id: Request, by: Caller, outcome: Outcome, at: Nat]]
      /\ \A d \in Client : told'[d] \subseteq told[d]
      /\ UNCHANGED <<identity, taken, shared>>
  BY NumberTypes DEF TypeOK, naming, NumberStep
<1>2. TypeOK'
  BY <1>1 DEF TypeOK, CallStep, Calls
<1>3. StatesInv' /\ ReplicasAgree' /\ ResultInv' /\ ToldInv' /\ VersionInv'
  BY <1>1 DEF StatesInv, ReplicasAgree, ResultInv, ToldInv, Met, MetOf, VersionInv
<1>4. AuthorInv'
  BY DEF AuthorInv, Authored, CallStep
<1>5. CallerInv' /\ NameInv'
  <2>1. CASE UNCHANGED <<naming, told>>
    BY <2>1 DEF naming, CallerInv, Numbered, NameInv, Named
  <2>2. ASSUME NEW c \in Client, NumberStep(c) PROVE CallerInv' /\ NameInv'
    <3>1. /\ \A e \in inflight : Numbered(e)' /\ Named(e)'
          /\ \A i \in 1..Len(log) : (Numbered(log[i]) /\ Named(log[i]))'
      <4>1. \A e \in Entry : Numbered(e) /\ Named(e) => Numbered(e)' /\ Named(e)'
        BY <2>2, NumberKeeps
      <4>2. inflight \subseteq Entry /\ \A i \in 1..Len(log) : log[i] \in Entry
        BY DEF TypeOK
      <4>3. \A i \in 1..Len(log) : Numbered(log[i])' /\ Named(log[i])'
        BY <4>1, <4>2 DEF CallerInv, NameInv
      <4>4. UNCHANGED log
        OBVIOUS
      <4> QED BY <4>1, <4>2, <4>3, <4>4 DEF CallerInv, NameInv, Numbered, Named
    <3>2. CallerInv'
      BY <3>1 DEF CallerInv
    <3>3. NameInv'
      BY <3>1, <1>1 DEF NameInv
    <3> QED BY <3>2, <3>3
  <2> QED BY <2>1, <2>2
<1> QED BY <1>2, <1>3, <1>4, <1>5

(* A request is a call that was not made before.                            *)
LEMMA RequestIsNew ==
    ASSUME IInv, NEW c \in Client, NEW e, e.by = <<c, calls[c] + 1>>
    PROVE  /\ \A f \in inflight : f.by # e.by
           /\ \A i \in 1..Len(log) : log[i].by # e.by
<1>1. calls[c] \in Nat
  BY DEF IInv, TypeOK
<1> QED BY <1>1 DEF IInv, CallerInv, Numbered

(* The request that a client makes next.                                    *)
NewRequest(c, command) ==
    [id |-> <<identity[c], counter[c] + 1>>, by |-> <<c, calls[c] + 1>>, command |-> command]

(* A proposal that a leader accepted keeps the invariant                    *)
(* (store.py:331-339).                                                      *)
LEMMA RequestKeeps ==
    ASSUME IInv, NEW c \in Client, NEW command \in Command, NEW tries \in Nat,
           Authored(command),
           inflight' = inflight \cup {NewRequest(c, command)},
           NumberStep(c),
           pc' = [pc EXCEPT ![c] = "wait"],
           call' = [call EXCEPT ![c] = [command |-> command, tries |-> tries]],
           UNCHANGED <<log, applied, sm, results, restarts, states>>
    PROVE  IInv'
<1> USE DEF IInv
<1> PICK e : e = NewRequest(c, command)
  OBVIOUS
<1>0. /\ counter \in [Client -> Nat] /\ calls \in [Client -> Nat] /\ identity \in [Client -> Identity]
      /\ log \in Seq(Entry) /\ inflight \subseteq Entry
  BY DEF TypeOK
<1>1. /\ counter' \in [Client -> Nat] /\ calls' \in [Client -> Nat]
      /\ told' \in [Client -> SUBSET [id: Request, by: Caller, outcome: Outcome, at: Nat]]
      /\ \A d \in Client : told'[d] \subseteq told[d]
      /\ UNCHANGED <<identity, taken, shared>>
  BY NumberTypes DEF NumberStep
<1>2. /\ e \in Entry /\ e.id = <<identity[c], counter[c] + 1>>
      /\ e.by = <<c, calls[c] + 1>> /\ e.command = command
  BY <1>0 DEF Entry, Request, Caller, NewRequest
<1>3. /\ \A f \in inflight : f.by # e.by
      /\ \A i \in 1..Len(log) : log[i].by # e.by
  BY <1>2, RequestIsNew
<1>4. inflight' = inflight \cup {e} /\ counter'[c] = counter[c] + 1 /\ calls'[c] = calls[c] + 1
  BY <1>0 DEF NumberStep
<1>5. TypeOK'
  BY <1>1, <1>2, <1>4 DEF TypeOK, Place
<1>6. StatesInv' /\ ReplicasAgree' /\ ResultInv' /\ ToldInv' /\ VersionInv'
  BY <1>1 DEF StatesInv, ReplicasAgree, ResultInv, ToldInv, Met, MetOf, VersionInv
<1>7. AuthorInv'
  BY <1>2, <1>4 DEF AuthorInv, Authored, TypeOK
<1>8. /\ \A f \in inflight : Numbered(f)' /\ Named(f)'
      /\ \A i \in 1..Len(log) : (Numbered(log[i]) /\ Named(log[i]))'
  <2>1. \A f \in Entry : Numbered(f) /\ Named(f) => Numbered(f)' /\ Named(f)'
    BY NumberKeeps
  <2>2. inflight \subseteq Entry /\ \A i \in 1..Len(log) : log[i] \in Entry
    BY <1>0
  <2>3. \A i \in 1..Len(log) : Numbered(log[i])' /\ Named(log[i])'
    BY <2>1, <2>2 DEF CallerInv, NameInv
  <2> QED BY <2>1, <2>2, <2>3 DEF CallerInv, NameInv, Numbered, Named
<1>9. Numbered(e)' /\ Named(e)'
  <2>1. Numbered(e)'
    BY <1>0, <1>2, <1>4 DEF Numbered
  <2>2. e.id[1] \in taken'
    BY <1>1, <1>2 DEF NameInv
  <2>3. ASSUME NEW d \in Client, e.id[1] = identity'[d], identity'[d] \notin shared'
        PROVE  e.id[2] <= counter'[d] /\ e.by = <<d, calls'[d]>>
    <3>1. d = c
      BY <1>1, <1>2, <2>3 DEF NameInv
    <3> QED BY <1>0, <1>2, <1>4, <3>1
  <2> QED BY <2>1, <2>2, <2>3 DEF Named
<1>10. CallerInv'
  <2>1. \A f, g \in inflight' : f.by = g.by => f = g
    BY <1>3, <1>4 DEF CallerInv
  <2>2. \A f \in inflight', i \in 1..Len(log) : f.by # log[i].by
    BY <1>3, <1>4 DEF CallerInv
  <2> QED BY <1>4, <1>8, <1>9, <2>1, <2>2 DEF CallerInv
<1>11. NameInv'
  BY <1>1, <1>4, <1>8, <1>9 DEF NameInv
<1> QED BY <1>5, <1>6, <1>7, <1>10, <1>11

(* So does _propose, whether the node believes it leads or not              *)
(* (store.py:331-339).                                                      *)
LEMMA SubmitKeeps ==
    ASSUME IInv, NEW c \in Client, NEW command \in Command, NEW tries \in Nat,
           Authored(command), Submit(c, command, tries)
    PROVE  IInv'
<1>1. CASE Retry(c) /\ UNCHANGED inflight
  BY <1>1, RetrySteps, QuietKeeps DEF Submit, machine, NumberStep
<1>2. CASE ~ (Retry(c) /\ UNCHANGED inflight)
  BY <1>2, RequestKeeps DEF Submit, machine, Goto, NumberStep, NewRequest
<1> QED BY <1>1, <1>2

(* An answer: the verdict was recorded here when the entry was applied here. *)
LEMMA AnswerKeeps == ASSUME IInv, NEW c \in Client, Answer(c) PROVE IInv'
<1> USE DEF IInv
<1> DEFINE h == Home[c]
<1>1. PICK r \in results[h] :
          /\ r.id = RequestId(c)
          /\ told' = [told EXCEPT ![c] = {[id |-> r.id, by |-> <<c, calls[c]>>,
                                           outcome |-> r.outcome, at |-> applied[h]]}]
          /\ IF r.outcome = "ConflictError" THEN Retry(c) ELSE Return(c)
  BY DEF Answer, Found
<1>2. h \in Node /\ applied[h] \in Nat /\ r.id \in Request /\ r.outcome \in Outcome
      /\ <<c, calls[c]>> \in Caller
  <2>1. h \in Node /\ applied[h] \in Nat /\ calls[c] \in Nat
    BY HomeAssumption DEF TypeOK
  <2>2. results[h] \subseteq Result
    BY <2>1 DEF TypeOK
  <2> QED BY <1>1, <2>1, <2>2 DEF Caller, Result
<1>3. CallStep
  BY <1>1, RetrySteps, ReturnSteps
<1>4. UNCHANGED <<log, inflight, applied, sm, results, counter, identity, calls, taken, shared,
                  restarts, states>>
  BY DEF Answer, machine, naming
<1>5. TypeOK'
  <2>1. [id |-> r.id, by |-> <<c, calls[c]>>, outcome |-> r.outcome, at |-> applied[h]]
            \in [id: Request, by: Caller, outcome: Outcome, at: Nat]
    BY <1>1, <1>2
  <2>2. told' \in [Client -> SUBSET [id: Request, by: Caller, outcome: Outcome, at: Nat]]
    BY <1>1, <2>1 DEF TypeOK
  <2> QED BY <1>3, <1>4, <2>2 DEF TypeOK, CallStep, Calls
<1>6. ToldInv'
  <2>1. PICK i \in 1..applied[h] : Met(r.id, r.outcome, i)
    BY <1>1, <1>2 DEF ResultInv
  <2>2. applied[h] < Len(states) /\ Len(states) \in Nat /\ Len(states) <= Len(log) + 1 /\ Len(log) \in Nat
    BY <1>2 DEF ReplicasAgree, StatesInv, TypeOK
  <2>3. i \in 1..Len(states) - 1 /\ i \in 1..Len(log) /\ i <= applied[h]
    BY <1>2, <2>1, <2>2
  <2>4. identity[c] \notin shared => log[i].by = <<c, calls[c]>>
    <3>1. log[i].id[1] = identity[c] /\ log[i].id[2] = counter[c]
      BY <1>1, <2>1 DEF Met, RequestId
    <3> QED BY <2>3, <3>1 DEF NameInv, Named
  <2> SUFFICES ASSUME NEW d \in Client, NEW t \in told'[d], t.id[1] \notin shared
               PROVE  \E k \in 1..Len(states) - 1 : k <= t.at /\ MetOf(t.by, t.outcome, k)
    BY <1>4 DEF ToldInv, MetOf
  <2>5. CASE d = c
    <3>1. /\ t.id = RequestId(c) /\ t.by = <<c, calls[c]>>
          /\ t.outcome = r.outcome /\ t.at = applied[h]
      BY <1>1, <2>5 DEF TypeOK
    <3>2. identity[c] \notin shared
      BY <3>1 DEF RequestId
    <3> QED BY <2>1, <2>3, <2>4, <3>1, <3>2 DEF Met, MetOf
  <2>6. CASE d # c
    <3>1. t \in told[d]
      BY <1>1, <2>6 DEF TypeOK
    <3> QED BY <3>1 DEF ToldInv
  <2> QED BY <2>5, <2>6
<1>7. StatesInv' /\ ReplicasAgree' /\ ResultInv' /\ VersionInv' /\ CallerInv' /\ NameInv'
  BY <1>4 DEF StatesInv, ReplicasAgree, ResultInv, Met, VersionInv, CallerInv, Numbered,
              NameInv, Named
<1>8. AuthorInv'
  BY <1>3, <1>4 DEF AuthorInv, Authored, CallStep
<1> QED BY <1>5, <1>6, <1>7, <1>8

(* Every step of a client keeps the invariant (store.py:361-368).           *)
LEMMA ClientKeeps ==
    ASSUME IInv, NEW c \in Client, NEW k \in Key,
           \/ Create(c, k) \/ Delete(c, k) \/ UpdateWithRetry(c, k)
           \/ Propose(c) \/ Answer(c) \/ TimeOut(c)
    PROVE  IInv'
<1>1. CASE Create(c, k)
  <2> DEFINE command == [verb |-> "CREATE", key |-> k, version |-> 0, spec |-> Fresh[c]]
  <2>1. command \in Command /\ Authored(command)
    BY FreshAssumption DEF Command, Authored
  <2> QED BY <1>1, <2>1, SubmitKeeps DEF Create
<1>2. CASE Delete(c, k)
  <2> DEFINE command == [verb |-> "DELETE", key |-> k, version |-> 0, spec |-> 0]
  <2>1. command \in Command /\ Authored(command)
    BY DEF Command, Authored
  <2> QED BY <1>2, <2>1, SubmitKeeps DEF Delete
<1>3. CASE UpdateWithRetry(c, k)
  BY <1>3, ReadSteps, QuietKeeps DEF UpdateWithRetry, machine
<1>4. CASE Propose(c)
  <2>1. call[c].command \in Command /\ call[c].tries \in Nat /\ Authored(call[c].command)
    BY DEF IInv, TypeOK, AuthorInv
  <2> QED BY <1>4, <2>1, SubmitKeeps DEF Propose
<1>5. CASE Answer(c)
  BY <1>5, AnswerKeeps
<1>6. CASE TimeOut(c)
  BY <1>6, ReturnSteps, QuietKeeps DEF TimeOut, machine
<1> QED BY <1>1, <1>2, <1>3, <1>4, <1>5, <1>6

(* Every step of the system keeps the invariant.                            *)
LEMMA NextKeeps == IInv /\ [Next]_vars => IInv'
<1> SUFFICES ASSUME IInv, [Next]_vars PROVE IInv'
  OBVIOUS
<1>1. CASE UNCHANGED vars
  <2>1. UNCHANGED <<log, inflight, applied, sm, results, pc, call, counter, identity, calls,
                    taken, shared, restarts, states, told>>
    BY <1>1 DEF vars, machine, clientVars, naming
  <2>2. TypeOK'
    BY <2>1 DEF IInv, TypeOK
  <2>3. StatesInv' /\ ReplicasAgree'
    BY <2>1 DEF IInv, StatesInv, ReplicasAgree
  <2>4. CallerInv'
    BY <2>1 DEF IInv, CallerInv, Numbered
  <2>5. NameInv'
    BY <2>1 DEF IInv, NameInv, Named
  <2>6. ResultInv' /\ ToldInv'
    BY <2>1 DEF IInv, ResultInv, ToldInv, Met, MetOf
  <2>7. VersionInv' /\ AuthorInv'
    BY <2>1 DEF IInv, VersionInv, AuthorInv, Authored
  <2> QED BY <2>2, <2>3, <2>4, <2>5, <2>6, <2>7 DEF IInv
<1>2. CASE Next
  BY <1>2, CommitKeeps, ApplyKeeps, RestartKeeps, ClientKeeps, HomeAssumption, KeyAssumption
  DEF Next
<1> QED BY <1>1, <1>2

(* The inductive invariant of the log, the replicas and the calls holds     *)
(* always (store.py:212-385).                                               *)
THEOREM Invariance == Spec => []IInv
BY Initially, NextKeeps, PTL DEF Spec

-----------------------------------------------------------------------------
(* The retained events                                                      *)

(* History ends with the event of the current revision, has no gap and is   *)
(* as long as it may be.                                                    *)
Contiguous(s) ==
    /\ \A j \in 1..Len(s.history) : s.history[j].revision = s.revision - Len(s.history) + j
    /\ Len(s.history) = IF s.revision > HistoryLimit THEN HistoryLimit ELSE s.revision

HistoryInv == \A i \in 1..Len(states) : Contiguous(states[i])

(* What Recorded keeps is the end of the history with the new event         *)
(* (store.py:289-292).                                                      *)
LEMMA RecordedTail ==
    ASSUME NEW h \in Seq(Event), NEW e \in Event
    PROVE  LET all == Append(h, e)  r == Recorded(h, e)
           IN  /\ Len(r) \in Nat \ {0} /\ Len(all) = Len(h) + 1
               /\ Len(r) = IF Len(all) > HistoryLimit THEN HistoryLimit ELSE Len(all)
               /\ \A j \in 1..Len(r) : /\ Len(all) - Len(r) + j \in 1..Len(all)
                                       /\ r[j] = all[Len(all) - Len(r) + j]
<1> DEFINE all == Append(h, e)
           m == Len(all) - HistoryLimit + 1
<1>1. all \in Seq(Event) /\ Len(all) \in Nat \ {0} /\ Len(all) = Len(h) + 1
  OBVIOUS
<1>2. \A j \in 1..Len(all) : all[j] \in Event
  BY <1>1
<1>3. HistoryLimit \in Nat \ {0}
  BY HistoryAssumption
<1>4. Recorded(h, e) = IF Len(all) > HistoryLimit THEN SubSeq(all, m, Len(all)) ELSE all
  BY DEF Recorded
<1> HIDE DEF all
<1>5. CASE Len(all) > HistoryLimit
  <2>1. m \in Int /\ Len(all) \in Int /\ m \in 1..Len(all) /\ Len(all) - m + 1 = HistoryLimit
    BY <1>1, <1>3, <1>5
  <2>2. \A j \in m..Len(all) : all[j] \in Event
    BY <1>2, <2>1
  <2> HIDE DEF m
  <2>3. /\ Len(SubSeq(all, m, Len(all))) = HistoryLimit
        /\ \A j \in 1..HistoryLimit : SubSeq(all, m, Len(all))[j] = all[m + j - 1]
    BY <2>1, <2>2, SubSeqProperties
  <2>4. \A j \in 1..HistoryLimit : m + j - 1 = Len(all) - HistoryLimit + j /\ m + j - 1 \in 1..Len(all)
    BY <1>1, <1>3, <1>5 DEF m
  <2>5. Recorded(h, e) = SubSeq(all, m, Len(all))
    BY <1>4, <1>5
  <2>6. Len(Recorded(h, e)) = HistoryLimit
    BY <2>3, <2>5
  <2>7. \A j \in 1..HistoryLimit : Len(all) - HistoryLimit + j \in 1..Len(all)
                /\ Recorded(h, e)[j] = all[Len(all) - HistoryLimit + j]
    BY <2>3, <2>4, <2>5
  <2> QED BY <1>1, <1>3, <1>5, <2>6, <2>7 DEF all
<1>6. CASE ~ (Len(all) > HistoryLimit)
  <2>1. Recorded(h, e) = all
    BY <1>4, <1>6
  <2>2. \A j \in 1..Len(all) : Len(all) - Len(all) + j = j
    BY <1>1
  <2> QED BY <1>1, <1>6, <2>1, <2>2 DEF all
<1> QED BY <1>5, <1>6

(* A write adds its event and lets go of the oldest ones                    *)
(* (store.py:284-292).                                                      *)
LEMMA EffectContiguous ==
    ASSUME NEW s \in Store, NEW c \in Command, Contiguous(s)
    PROVE  Contiguous(Effect(s, c))
<1>1. CASE Verdict(s, c) # "ok"
  BY <1>1 DEF Effect
<1>2. CASE Verdict(s, c) = "ok"
  <2> DEFINE r == s.revision + 1
             e == [verb |-> c.verb, key |-> c.key, revision |-> r]
             all == Append(s.history, e)
             N == Len(s.history)
             t == Recorded(s.history, e)
  <2>1. /\ s.history \in Seq(Event) /\ s.revision \in Nat /\ e \in Event /\ e.revision = r
        /\ N \in Nat
    BY DEF Store, Command, Event
  <2>2. /\ Len(all) = N + 1 /\ all[N + 1] = e
        /\ \A j \in 1..N : all[j] = s.history[j]
    BY <2>1
  <2>3. Effect(s, c).revision = r /\ Effect(s, c).history = t
    BY <1>2 DEF Effect
  <2>4. /\ Len(t) \in Nat \ {0}
        /\ Len(t) = IF Len(all) > HistoryLimit THEN HistoryLimit ELSE Len(all)
        /\ \A j \in 1..Len(t) : /\ Len(all) - Len(t) + j \in 1..Len(all)
                                /\ t[j] = all[Len(all) - Len(t) + j]
    BY <2>1, RecordedTail
  <2>5. \A j \in 1..N : s.history[j].revision = s.revision - N + j
    BY DEF Contiguous
  <2> HIDE DEF e, all, t
  <2>6. ASSUME NEW j \in 1..N + 1 PROVE all[j].revision = r - (N + 1) + j
    <3>1. CASE j = N + 1
      <4>1. all[j].revision = r
        BY <2>1, <2>2, <3>1
      <4> QED BY <2>1, <3>1, <4>1
    <3>2. CASE j # N + 1
      <4>1. j \in 1..N
        BY <2>1, <3>2
      <4>2. all[j].revision = s.revision - N + j
        BY <2>2, <2>5, <4>1
      <4> QED BY <2>1, <4>1, <4>2
    <3> QED BY <3>1, <3>2
  <2>7. ASSUME NEW j \in 1..Len(t) PROVE t[j].revision = r - Len(t) + j
    <3>1. Len(all) - Len(t) + j \in 1..N + 1 /\ t[j].revision = all[Len(all) - Len(t) + j].revision
      BY <2>2, <2>4
    <3>2. t[j].revision = r - (N + 1) + (Len(all) - Len(t) + j)
      BY <2>6, <3>1
    <3>3. r \in Int /\ N \in Int /\ Len(t) \in Int /\ j \in Int /\ Len(all) = N + 1
      BY <2>1, <2>2, <2>4
    <3> HIDE DEF r, N
    <3>4. r - (N + 1) + (Len(all) - Len(t) + j) = r - Len(t) + j
      BY <3>3
    <3> QED BY <3>2, <3>4
  <2>8. Len(t) = IF r > HistoryLimit THEN HistoryLimit ELSE r
    <3>1. N = IF s.revision > HistoryLimit THEN HistoryLimit ELSE s.revision
      BY DEF Contiguous
    <3>2. r = s.revision + 1 /\ Len(all) = N + 1 /\ s.revision \in Nat /\ HistoryLimit \in Nat \ {0}
      BY <2>1, <2>2, HistoryAssumption
    <3>3. Len(t) = IF Len(all) > HistoryLimit THEN HistoryLimit ELSE Len(all)
      BY <2>4
    <3> HIDE DEF r, N
    <3> QED BY <3>1, <3>2, <3>3
  <2> QED BY <2>3, <2>7, <2>8 DEF Contiguous
<1> QED BY <1>1, <1>2

(* So history has no gap in any state that any node reaches.                *)
LEMMA HistoryKept == IInv /\ HistoryInv /\ [Next]_vars => HistoryInv'
<1> SUFFICES ASSUME IInv, HistoryInv, [Next]_vars PROVE HistoryInv'
  OBVIOUS
<1>1. CASE states' = states
  BY <1>1 DEF HistoryInv
<1>2. ASSUME NEW n \in Node, Apply(n), states' # states PROVE HistoryInv'
  <2> DEFINE s == Effect(sm[n], log[Len(states)].command)
  <2>1. /\ states' = Append(states, s) /\ sm[n] = states[Len(states)] /\ sm[n] \in Store
        /\ log[Len(states)].command \in Command /\ states \in Seq(Store) /\ s \in Store
    BY <1>2, ApplyFacts DEF IInv, StatesInv, Entry
  <2>2. Len(states) \in Nat \ {0}
    BY DEF IInv, TypeOK, StatesInv
  <2>3. Contiguous(s)
    BY <2>1, <2>2, EffectContiguous DEF HistoryInv
  <2> HIDE DEF s
  <2>4. Len(states') = Len(states) + 1 /\ states'[Len(states) + 1] = s
        /\ \A i \in 1..Len(states) : states'[i] = states[i]
    BY <2>1, <2>2
  <2> QED BY <2>2, <2>3, <2>4 DEF HistoryInv
<1>3. UNCHANGED vars \/ Next => states' = states \/ \E n \in Node : Apply(n)
  BY DEF vars, Next, Commit, Restart, Create, Delete, UpdateWithRetry, Propose, Submit, Answer, TimeOut
<1> QED BY <1>1, <1>2, <1>3

(* What is left of a history without gaps is what came after r, as far back *)
(* as it reaches (store.py:384-385).                                        *)
LEMMA ReplayOf ==
    ASSUME NEW s \in Store, Contiguous(s), NEW r \in 0..s.revision
    PROVE  {e.revision : e \in EventsSince(s, r)} =
               {v \in (r + 1)..s.revision : v > s.revision - HistoryLimit}
<1> DEFINE N == Len(s.history)
<1>1. /\ s.history \in Seq(Event) /\ s.revision \in Nat /\ r \in Nat /\ N \in Nat
      /\ DOMAIN s.history = 1..N /\ HistoryLimit \in Nat \ {0}
  BY HistoryAssumption DEF Store
<1>2. \A j \in 1..N : s.history[j].revision = s.revision - N + j
  BY DEF Contiguous
<1>3. N = IF s.revision > HistoryLimit THEN HistoryLimit ELSE s.revision
  BY DEF Contiguous
<1>4. ASSUME NEW e \in EventsSince(s, r)
      PROVE  e.revision \in (r + 1)..s.revision /\ e.revision > s.revision - HistoryLimit
  <2>1. PICK j \in 1..N : e = s.history[j] /\ s.history[j].revision > r
    BY <1>1 DEF EventsSince
  <2>2. e.revision = s.revision - N + j /\ e.revision > r
    BY <1>2, <2>1
  <2> QED BY <1>1, <1>3, <2>2
<1>5. ASSUME NEW x \in (r + 1)..s.revision, x > s.revision - HistoryLimit
      PROVE  \E e \in EventsSince(s, r) : e.revision = x
  <2> DEFINE j == x - (s.revision - N)
  <2>a. j \in 1..N /\ s.revision - N + j = x /\ x > r
    BY <1>1, <1>3, <1>5
  <2> HIDE DEF j
  <2>1. j \in 1..N /\ s.history[j].revision = x /\ x > r
    BY <1>2, <2>a
  <2>2. s.history[j] \in EventsSince(s, r)
    BY <1>1, <2>1 DEF EventsSince
  <2> QED BY <2>1, <2>2
<1> QED BY <1>4, <1>5

-----------------------------------------------------------------------------
(* The theorems                                                             *)

(* Every variable keeps its type.                                           *)
THEOREM TypeCorrect == Spec => []TypeOK
BY Invariance, PTL DEF IInv

(* No two nodes differ in what they hold at an index of the log, before or  *)
(* after restarts (store.py:211-217).                                       *)
THEOREM ReplicasAreEqual == Spec => []ReplicasAgree
BY Invariance, PTL DEF IInv

(* A call that returns, returns the verdict its own command met, although   *)
(* others time out, are lost or commit late and logs are replayed, when the *)
(* id() of its RaftStore is no other one's (store.py:328-350).              *)
THEOREM AnswersAreRight == Spec => []AnswersAreTrue
<1>1. IInv => AnswersAreTrue
  BY DEF IInv, ToldInv, MetOf, AnswersAreTrue
<1> QED BY <1>1, Invariance, PTL

(* A client's own reads see what it was told, when the id() of its          *)
(* RaftStore is no other one's (store.py:328,343).                          *)
THEOREM WritesAreRead == Spec => []ReadsItsWrite
<1>1. IInv => ReadsItsWrite
  <2> SUFFICES ASSUME IInv, NEW c \in Client, NEW t \in told[c], t.id[1] \notin shared
               PROVE  \E i \in 1..t.at : i <= Len(log) /\ log[i].by = t.by
    BY DEF ReadsItsWrite
  <2>1. t.at \in Nat /\ Len(states) \in 1..Len(log) + 1 /\ Len(log) \in Nat
    BY DEF IInv, TypeOK, StatesInv
  <2>2. PICK i \in 1..Len(states) - 1 : i <= t.at /\ log[i].by = t.by
    BY DEF IInv, ToldInv, MetOf
  <2>3. i \in 1..t.at /\ i <= Len(log)
    BY <2>1, <2>2
  <2> QED BY <2>2, <2>3
<1> QED BY <1>1, Invariance, PTL

(* A follower of the history gets the newest HistoryLimit events at most,   *)
(* and all of them that come after the revision it names, from any node,    *)
(* however often it was restarted (store.py:284-292, 384-385).              *)
THEOREM ReplaysAreNewest == Spec => []ReplayIsNewest
<1>1. Init => HistoryInv
  BY HistoryAssumption DEF Init, HistoryInv, Contiguous, EmptyStore
<1>2. IInv /\ HistoryInv => ReplayIsNewest
  <2> SUFFICES ASSUME IInv, HistoryInv, NEW n \in Node PROVE Contiguous(sm[n]) /\ sm[n] \in Store
    BY ReplayOf DEF ReplayIsNewest
  <2>1. applied[n] \in Nat /\ applied[n] < Len(states) /\ Len(states) \in Nat
        /\ sm[n] = states[applied[n] + 1] /\ sm[n] \in Store
    BY DEF IInv, TypeOK, StatesInv, ReplicasAgree
  <2> QED BY <2>1 DEF HistoryInv
<1> QED BY <1>1, <1>2, Invariance, HistoryKept, PTL DEF Spec

(* No update is lost, although controllers read and write in separate steps *)
(* and objects are deleted and created again meanwhile (store.py:117).      *)
THEOREM UpdatesAreKept == Spec => []NoLostUpdate
<1>1. IInv => NoLostUpdate
  <2> SUFFICES ASSUME IInv, NEW i \in 1..Len(states) - 1,
                      log[i].command.verb = "UPDATE",
                      Verdict(states[i], log[i].command) = "ok"
               PROVE  log[i].command.spec = states[i].objects[log[i].command.key].spec + 1
    BY DEF NoLostUpdate
  <2> DEFINE c == log[i].command
  <2>1. i \in 1..Len(log) /\ i \in 1..Len(states) /\ c \in Command /\ c.key \in Key
    <3>1. i \in 1..Len(log) /\ i \in 1..Len(states)
      BY DEF IInv, StatesInv, TypeOK
    <3>2. c \in Command
      BY <3>1, Requests DEF IInv
    <3> QED BY <3>1, <3>2 DEF Command
  <2>2. PICK j \in 1..Len(states) : MadeOf(c, states[j])
    BY <2>1 DEF IInv, AuthorInv, Authored
  <2> DEFINE o == states[i].objects[c.key]
             q == states[j].objects[c.key]
  <2>3. o # Absent /\ q # Absent /\ o.version = q.version /\ c.spec = q.spec + 1
    BY <2>2 DEF Verdict, MadeOf
  <2>4. /\ states[i] \in Store /\ states[j] \in Store
        /\ o \in Object \cup {Absent} /\ q \in Object \cup {Absent}
    <3>1. states[i] \in Store /\ states[j] \in Store
      BY <2>1, <2>2 DEF IInv, StatesInv
    <3> QED BY <2>1, <3>1 DEF Store
  <2>5. /\ o.version <= states[i].revision /\ q.version <= states[j].revision
        /\ o.version \in Nat /\ q.version \in Nat
        /\ states[i].revision \in Nat /\ states[j].revision \in Nat
    BY <2>1, <2>2, <2>3, <2>4 DEF IInv, VersionInv, Store, Object
  <2>6. i <= j => q = o \/ q.version > states[i].revision
    BY <2>1, <2>2, <2>3 DEF IInv, VersionInv
  <2>7. j <= i => o = q \/ o.version > states[j].revision
    BY <2>1, <2>2, <2>3 DEF IInv, VersionInv
  <2> HIDE DEF o, q
  <2>8. o = q
    BY <2>1, <2>2, <2>3, <2>5, <2>6, <2>7
  <2> QED BY <2>3, <2>8 DEF o
<1> QED BY <1>1, Invariance, PTL

-----------------------------------------------------------------------------
(* The replicated store implements the contract of ObjectStore.             *)

(* The contract's writes are the state machine's (store.py:99-139 and       *)
(* 251-282).                                                                *)
LEMMA SameEffect ==
    /\ Contract!EmptyStore = EmptyStore
    /\ \A s, c : Contract!Effect(s, c) = Effect(s, c)
<1>1. Contract!EmptyStore = EmptyStore
  BY DEF Contract!EmptyStore, EmptyStore
<1>2. \A s, c : Contract!Verdict(s, c) = Verdict(s, c)
  BY DEF Contract!Verdict, Verdict
<1>3. \A s, c, r : Contract!Stored(s, c, r) = Stored(s, c, r)
  BY DEF Contract!Stored, Stored
<1>4. \A h, e : Contract!Recorded(h, e) = Recorded(h, e)
  BY DEF Contract!Recorded, Recorded
<1> QED BY <1>1, <1>2, <1>3, <1>4 DEF Contract!Effect, Effect

(* The replicated store starts as the contract does.                        *)
LEMMA StartsAsContract == Init => Contract!Init
<1> SUFFICES ASSUME Init PROVE Contract!Init
  OBVIOUS
<1>1. latest = EmptyStore
  BY DEF Init, latest
<1>2. unapplied = {}
  BY DEF Init, unapplied
<1> QED BY <1>1, <1>2, SameEffect DEF Contract!Init

(* A step that leaves the log, the proposals and the states alone.          *)
LEMMA Stutter ==
    ASSUME UNCHANGED <<log, inflight, states>> PROVE UNCHANGED Contract!contract
BY DEF latest, unapplied, Contract!contract

(* A commitment changes neither the store its users see nor the calls under *)
(* way.                                                                     *)
LEMMA CommitImplements == ASSUME IInv, NEW e \in inflight, Commit(e) PROVE UNCHANGED Contract!contract
<1> DEFINE N == Len(states)
<1>1. log \in Seq(Entry) /\ e \in Entry /\ Len(log) \in Nat /\ N \in 1..Len(log) + 1
  BY DEF IInv, TypeOK, StatesInv
<1>2. log' = Append(log, e) /\ inflight' = inflight \ {e} /\ states' = states
  BY DEF Commit
<1>3. Len(log') = Len(log) + 1 /\ log'[Len(log) + 1] = e
      /\ \A i \in 1..Len(log) : log'[i] = log[i]
  BY <1>1, <1>2
<1>4. {log'[i] : i \in N..Len(log')} = {log[i] : i \in N..Len(log)} \cup {e}
  BY <1>1, <1>3
<1>5. unapplied' = unapplied
  BY <1>2, <1>4 DEF unapplied
<1> QED BY <1>2, <1>5 DEF latest, Contract!contract

(* The first node to apply an entry is where its call takes effect.         *)
LEMMA ApplyImplements ==
    ASSUME IInv, NEW n \in Node, Apply(n)
    PROVE  Contract!Next \/ UNCHANGED Contract!contract
<1> DEFINE N == Len(states)
           e == log[N]
<1>1. UNCHANGED <<log, inflight>> /\ N \in Nat /\ Len(log) \in Nat /\ states \in Seq(Store) /\ N >= 1
  BY DEF Apply, IInv, StatesInv, TypeOK
<1>2. CASE applied[n] + 1 < N
  <2>1. states' = states
    BY <1>2, ApplyFacts
  <2> QED BY <1>1, <2>1, Stutter
<1>3. CASE applied[n] + 1 = N
  <2>1. /\ N \in 1..Len(log)
        /\ Effect(latest, e.command) \in Store
        /\ states' = Append(states, Effect(latest, e.command))
    BY <1>3, ApplyFacts DEF latest
  <2>2. Len(states') = N + 1 /\ latest' = Effect(latest, e.command)
    BY <1>1, <2>1 DEF latest
  <2>3. e \notin inflight /\ \A i \in N + 1..Len(log) : log[i] # e
    BY <1>1, <2>1 DEF IInv, CallerInv
  <2>4. {log[i] : i \in N + 1..Len(log)} = {log[i] : i \in N..Len(log)} \ {e}
    BY <1>1, <2>1, <2>3
  <2>5. unapplied = inflight \cup {log[i] : i \in N..Len(log)}
    BY DEF unapplied
  <2>6. unapplied' = inflight \cup {log[i] : i \in N + 1..Len(log)}
    BY <1>1, <2>2 DEF unapplied
  <2>7. e \in unapplied /\ unapplied' = unapplied \ {e}
    <3>1. e \in {log[i] : i \in N..Len(log)}
      BY <1>1, <2>1
    <3> QED BY <2>3, <2>4, <2>5, <2>6, <3>1
  <2>8. Contract!TakeEffect(e)
    BY <2>2, <2>7, SameEffect DEF Contract!TakeEffect
  <2> QED BY <2>7, <2>8 DEF Contract!Next
<1>4. applied[n] + 1 <= N /\ applied[n] \in Nat
  BY DEF IInv, ReplicasAgree, TypeOK, StatesInv
<1> QED BY <1>1, <1>2, <1>3, <1>4

(* A proposal is a call that is issued, if it is accepted.                  *)
LEMMA SubmitImplements ==
    ASSUME IInv, NEW c \in Client, NEW command, NEW tries, Submit(c, command, tries)
    PROVE  Contract!Next \/ UNCHANGED Contract!contract
<1> DEFINE e == NewRequest(c, command)
<1>1. UNCHANGED <<log, states>>
  BY DEF Submit
<1>2. CASE UNCHANGED inflight
  BY <1>1, <1>2, Stutter
<1>3. CASE inflight' = inflight \cup {e}
  <2>1. e.by = <<c, calls[c] + 1>>
    BY DEF NewRequest
  <2> HIDE DEF e
  <2>2. e \notin inflight /\ \A i \in 1..Len(log) : log[i] # e
    BY <2>1, RequestIsNew
  <2>3. Len(states) \in 1..Len(log) + 1 /\ Len(log) \in Nat
    BY DEF IInv, StatesInv, TypeOK
  <2>4. e \notin unapplied
    BY <2>2, <2>3 DEF unapplied
  <2>5. unapplied' = unapplied \cup {e} /\ latest' = latest
    BY <1>1, <1>3 DEF unapplied, latest
  <2>6. Contract!Issue
    BY <2>4, <2>5 DEF Contract!Issue
  <2> QED BY <2>6 DEF Contract!Next
<1> QED BY <1>2, <1>3 DEF Submit, NewRequest

(* Every step is one of the contract, or changes nothing the contract       *)
(* tells.                                                                   *)
LEMMA StepImplements == IInv /\ [Next]_vars => [Contract!Next]_(Contract!contract)
<1> SUFFICES ASSUME IInv, [Next]_vars PROVE Contract!Next \/ UNCHANGED Contract!contract
  OBVIOUS
<1>1. CASE UNCHANGED vars
  BY <1>1, Stutter DEF vars
<1>2. ASSUME NEW e \in inflight, Commit(e) PROVE UNCHANGED Contract!contract
  BY <1>2, CommitImplements
<1>3. ASSUME NEW n \in Node, Apply(n) PROVE Contract!Next \/ UNCHANGED Contract!contract
  BY <1>3, ApplyImplements
<1>4. ASSUME NEW n \in Node, Restart(n) PROVE UNCHANGED Contract!contract
  BY <1>4, Stutter DEF Restart
<1>5. ASSUME NEW c \in Client, NEW k \in Key,
             Create(c, k) \/ Delete(c, k) \/ UpdateWithRetry(c, k)
      PROVE  Contract!Next \/ UNCHANGED Contract!contract
  BY <1>5, SubmitImplements, Stutter DEF Create, Delete, UpdateWithRetry
<1>6. ASSUME NEW c \in Client, Propose(c) \/ Answer(c) \/ TimeOut(c)
      PROVE  Contract!Next \/ UNCHANGED Contract!contract
  BY <1>6, SubmitImplements, Stutter DEF Propose, Answer, TimeOut
<1> QED BY <1>1, <1>2, <1>3, <1>4, <1>5, <1>6, HomeAssumption DEF Next

(* Every behaviour of the replicated store is one of a store that takes its *)
(* calls one at a time, each against the objects as they are then, and each *)
(* at most once (store.py:334-350 and 250-300 against 60-150).              *)
THEOREM Implements == Spec => KeepsContract
<1>1. Init => Contract!Init
  BY StartsAsContract
<1>2. IInv /\ [Next]_vars => [Contract!Next]_(Contract!contract)
  BY StepImplements
<1> QED BY <1>1, <1>2, Invariance, PTL DEF Spec, KeepsContract, Contract!Spec
==============================================================================
