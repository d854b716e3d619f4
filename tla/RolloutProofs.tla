---------------------------- MODULE RolloutProofs ----------------------------
(***************************************************************************)
(* Proofs about Rollout, for any templates, sizes, limits and number of     *)
(* edits and faults:                                                        *)
(*   - every variable has its type;                                         *)
(*   - the replicas requested never exceed the largest size and maxSurge;   *)
(*   - with one edit and no fault, the pods that are ready stay above the   *)
(*     floor through the whole rollout;                                     *)
(*   - a completion that is believed is about the template the Deployment   *)
(*     asks for.                                                            *)
(* The sums of replicas come first: a sum of naturals is the number of      *)
(* their units, so that the facts about finite sets apply to it.            *)
(***************************************************************************)
EXTENDS Rollout, FiniteSetTheorems, SequenceTheorems, WellFoundedInduction, TLAPS

-----------------------------------------------------------------------------
(* Sums *)

(* Every unit of every value: a sum of naturals counts them.                *)
Units(f, S) == UNION {{x} \X (1..f[x]) : x \in S}

(* A set of naturals has a least element, unless it is empty.               *)
LEMMA LeastExists ==
  ASSUME NEW D \in SUBSET Nat, D # {}
  PROVE  \E x \in D : \A y \in D : x <= y
<1> DEFINE R == {ss \in Nat \X Nat : ss[1] < ss[2]}
<1>1. IsWellFoundedOn(R, Nat)
  BY NatLessThanWellFounded DEF OpToRel
<1>2. \A x, y \in Nat : y < x => <<y, x>> \in R
  OBVIOUS
<1> HIDE DEF R
<1>3. PICK x \in D : \A y \in D : <<y, x>> \notin R
  BY <1>1, WFMin
<1>4. \A y \in D : ~(y < x)
  BY <1>2, <1>3
<1> QED BY <1>4

(* One value has as many units as it is large.                              *)
LEMMA UnitsOfOne ==
  ASSUME NEW x, NEW k \in Nat
  PROVE  IsFiniteSet({x} \X (1..k)) /\ Cardinality({x} \X (1..k)) = k
<1>1. IsFiniteSet({x}) /\ Cardinality({x}) = 1
  BY FS_Singleton
<1>2. IsFiniteSet(1..k) /\ Cardinality(1..k) = k
  BY FS_Interval
<1>3. Cardinality({x} \X (1..k)) = 1 * k /\ IsFiniteSet({x} \X (1..k))
  <2> DEFINE A == {x}
             B == 1..k
  <2>1. IsFiniteSet(A) /\ Cardinality(A) = 1 /\ IsFiniteSet(B) /\ Cardinality(B) = k
    BY <1>1, <1>2
  <2> HIDE DEF A, B
  <2>2. Cardinality(A \X B) = 1 * k /\ IsFiniteSet(A \X B)
    BY <2>1, FS_Product
  <2> QED BY <2>2 DEF A, B
<1> QED BY <1>3

(* The units of finitely many values are finitely many.                     *)
LEMMA UnitsFinite ==
  ASSUME NEW D, NEW f \in [D -> Nat], NEW S \in SUBSET D, IsFiniteSet(S)
  PROVE  IsFiniteSet(Units(f, S)) /\ Cardinality(Units(f, S)) \in Nat
<1> DEFINE g == [x \in S |-> {x} \X (1..f[x])]
           T == {{x} \X (1..f[x]) : x \in S}
<1>1. g \in Surjection(S, T)
  BY DEF Surjection
<1>2. IsFiniteSet(T)
  BY <1>1, FS_Surjection
<1>3. \A x \in S : IsFiniteSet({x} \X (1..f[x]))
  BY UnitsOfOne
<1>4. IsFiniteSet(UNION T)
  <2> \A t \in T : IsFiniteSet(t)
    BY <1>3
  <2> HIDE DEF T
  <2> QED BY <1>2, FS_UNION
<1> QED BY <1>4, FS_CardinalityType DEF Units

(* The units of one value apart.                                            *)
LEMMA UnitsAdd ==
  ASSUME NEW D, NEW f \in [D -> Nat], NEW S \in SUBSET D, IsFiniteSet(S), NEW x \in S
  PROVE  Cardinality(Units(f, S)) = f[x] + Cardinality(Units(f, S \ {x}))
<1>1. Units(f, S) = ({x} \X (1..f[x])) \cup Units(f, S \ {x})
  BY DEF Units
<1>2. ({x} \X (1..f[x])) \cap Units(f, S \ {x}) = {}
  BY DEF Units
<1>3. IsFiniteSet(S \ {x}) /\ S \ {x} \in SUBSET D
  BY FS_RemoveElement
<1>4. IsFiniteSet(Units(f, S \ {x})) /\ Cardinality(Units(f, S \ {x})) \in Nat
  BY <1>3, UnitsFinite
<1>5. f[x] \in Nat
  OBVIOUS
<1>6. IsFiniteSet({x} \X (1..f[x])) /\ Cardinality({x} \X (1..f[x])) = f[x]
  BY <1>5, UnitsOfOne
<1> DEFINE A == {x} \X (1..f[x])
           B == Units(f, S \ {x})
<1>7. Units(f, S) = A \cup B /\ Cardinality(A \cap B) = 0
  BY <1>1, <1>2, FS_EmptySet
<1>8. Cardinality(A \cup B) = Cardinality(A) + Cardinality(B) - Cardinality(A \cap B)
  <2> HIDE DEF A, B
  <2>1. IsFiniteSet(A) /\ IsFiniteSet(B)
    BY <1>4, <1>6 DEF A, B
  <2> QED BY <2>1, FS_Union
<1> QED BY <1>4, <1>5, <1>6, <1>7, <1>8

(* A sum of naturals is the number of their units. (The sum takes the       *)
(* values one by one in an order of its own: by induction on how many there *)
(* are.)                                                                    *)
LEMMA SumIsUnits ==
  ASSUME NEW D, NEW f \in [D -> Nat], NEW S \in SUBSET D, IsFiniteSet(S)
  PROVE  SumFunctionOnSet(f, S) = Cardinality(Units(f, S))
<1> DEFINE pick(s) == CHOOSE x \in s : TRUE
           Rec(g) == [s \in SUBSET S |-> IF s = {} THEN 0 ELSE f[pick(s)] + g[s \ {pick(s)}]]
           h == [s \in SUBSET S |-> Cardinality(Units(f, s))]
<1>1. \A s \in SUBSET S : s # {} => pick(s) \in s /\ s \ {pick(s)} \in SUBSET S
  OBVIOUS
<1>2. \A s \in SUBSET S : IsFiniteSet(s) /\ Cardinality(s) \in Nat /\ s \in SUBSET D
  BY FS_Subset, FS_CardinalityType
<1> HIDE DEF pick
<1>3. \A s \in SUBSET S : s # {} => h[s] = f[pick(s)] + h[s \ {pick(s)}]
  BY <1>1, <1>2, UnitsAdd
<1>4. h[{}] = 0
  BY FS_EmptySet DEF Units
<1>5. h = Rec(h)
  BY <1>3, <1>4
<1>6. ASSUME NEW g, g = Rec(g) PROVE g[S] = h[S]
  <2> DEFINE Bad == {s \in SUBSET S : g[s] # h[s]}
             N   == {Cardinality(s) : s \in Bad}
  <2>1. SUFFICES ASSUME N # {} PROVE FALSE
    OBVIOUS
  <2>2. N \in SUBSET Nat
    BY <1>2
  <2>3. PICK s \in Bad : \A r \in Bad : Cardinality(s) <= Cardinality(r)
    <3> HIDE DEF Bad
    <3>1. PICK n \in N : \A m \in N : n <= m
      BY <2>1, <2>2, LeastExists
    <3> QED BY <3>1
  <2>4. s # {}
    BY <1>4, <1>6, <2>3
  <2>5. g[s] = f[pick(s)] + g[s \ {pick(s)}]
    BY <1>6, <2>4
  <2>6. s \ {pick(s)} \in Bad
    BY <1>1, <1>3, <2>4, <2>5
  <2>7. Cardinality(s \ {pick(s)}) = Cardinality(s) - 1
    BY <1>1, <1>2, <2>4, FS_RemoveElement
  <2>8. Cardinality(s) \in Nat
    BY <1>2
  <2>9. Cardinality(s) <= Cardinality(s \ {pick(s)})
    <3> HIDE DEF Bad
    <3> QED BY <2>3, <2>6
  <2> QED BY <2>7, <2>8, <2>9
<1>7. \A g : g = Rec(g) => g[S] = h[S]
  BY <1>6
<1>8. SumFunctionOnSet(f, S) = (CHOOSE g : g = Rec(g))[S]
  BY DEF SumFunctionOnSet, FoldFunctionOnSet, MapThenFoldSet, pick
<1>9. (CHOOSE g : g = Rec(g)) = Rec(CHOOSE g : g = Rec(g))
  <2> HIDE DEF Rec, h
  <2> QED BY <1>5
<1> QED
  <2>1. (CHOOSE g : g = Rec(g))[S] = h[S]
    <3> HIDE DEF Rec, h
    <3> QED BY <1>7, <1>9
  <2> QED BY <1>8, <2>1

(* A sum of naturals is a natural.                                          *)
LEMMA SumType ==
  ASSUME NEW D, NEW f \in [D -> Nat], NEW S \in SUBSET D, IsFiniteSet(S)
  PROVE  SumFunctionOnSet(f, S) \in Nat
BY SumIsUnits, UnitsFinite

(* The sum over no value is zero.                                           *)
LEMMA SumEmpty == ASSUME NEW D, NEW f \in [D -> Nat] PROVE SumFunctionOnSet(f, {}) = 0
<1>1. IsFiniteSet({}) /\ {} \in SUBSET D
  BY FS_EmptySet
<1>2. Units(f, {}) = {}
  BY DEF Units
<1> QED BY <1>1, <1>2, SumIsUnits, FS_EmptySet

(* One summand apart.                                                       *)
LEMMA SumRemove ==
  ASSUME NEW D, NEW f \in [D -> Nat], NEW S \in SUBSET D, IsFiniteSet(S), NEW x \in S
  PROVE  SumFunctionOnSet(f, S) = f[x] + SumFunctionOnSet(f, S \ {x})
<1>1. IsFiniteSet(S \ {x}) /\ S \ {x} \in SUBSET D
  BY FS_RemoveElement
<1> QED BY <1>1, SumIsUnits, UnitsAdd

(* No summand is negative: a part of a sum is no more than the whole, and a *)
(* sum of lesser summands is no more.                                       *)
LEMMA SumMonotone ==
  ASSUME NEW D, NEW f \in [D -> Nat], NEW S \in SUBSET D, IsFiniteSet(S),
         NEW E, NEW g \in [E -> Nat], NEW T \in SUBSET E, T \subseteq S,
         \A x \in T : g[x] <= f[x]
  PROVE  SumFunctionOnSet(g, T) <= SumFunctionOnSet(f, S)
<1>1. IsFiniteSet(T)
  BY FS_Subset
<1>2. Units(g, T) \subseteq Units(f, S)
  <2>1. \A x \in T : g[x] \in Nat /\ f[x] \in Nat
    OBVIOUS
  <2>2. \A x \in T : 1..g[x] \subseteq 1..f[x]
    BY <2>1
  <2> QED BY <2>2 DEF Units
<1>3. Cardinality(Units(g, T)) <= Cardinality(Units(f, S))
  BY <1>2, UnitsFinite, FS_Subset
<1> QED BY <1>1, <1>3, SumIsUnits

(* The sum depends on the summands only.                                    *)
LEMMA SumSame ==
  ASSUME NEW D, NEW f \in [D -> Nat], NEW S \in SUBSET D, IsFiniteSet(S),
         NEW E, NEW g \in [E -> Nat], S \in SUBSET E, \A x \in S : g[x] = f[x]
  PROVE  SumFunctionOnSet(g, S) = SumFunctionOnSet(f, S)
<1>1. Units(g, S) = Units(f, S)
  BY DEF Units
<1> QED BY <1>1, SumIsUnits

(* Summands that are zero may be left out.                                  *)
LEMMA SumSupport ==
  ASSUME NEW D, NEW f \in [D -> Nat], NEW S \in SUBSET D, IsFiniteSet(S),
         NEW T \in SUBSET S, \A x \in S \ T : f[x] = 0
  PROVE  SumFunctionOnSet(f, S) = SumFunctionOnSet(f, T)
<1>1. IsFiniteSet(T) /\ T \in SUBSET D
  BY FS_Subset
<1>2. Units(f, S) = Units(f, T)
  BY DEF Units
<1> QED BY <1>1, <1>2, SumIsUnits
-----------------------------------------------------------------------------
(* Extremes of finite sets of integers. *)

(* Min of a pair is one of the two, and not above either.                   *)
LEMMA MinOfTwo ==
  ASSUME NEW m \in Int, NEW n \in Int
  PROVE  Min({m, n}) \in {m, n} /\ Min({m, n}) <= m /\ Min({m, n}) <= n
<1>1. \E x \in {m, n} : \A y \in {m, n} : x <= y
  <2>1. CASE m <= n
    BY <2>1
  <2>2. CASE n <= m
    BY <2>2
  <2> QED BY <2>1, <2>2
<1> QED BY <1>1 DEF Min

(* Max of a pair is one of the two, and not below either.                   *)
LEMMA MaxOfTwo ==
  ASSUME NEW m \in Int, NEW n \in Int
  PROVE  Max({m, n}) \in {m, n} /\ m <= Max({m, n}) /\ n <= Max({m, n})
<1>1. \E x \in {m, n} : \A y \in {m, n} : x >= y
  <2>1. CASE m <= n
    BY <2>1
  <2>2. CASE n <= m
    BY <2>2
  <2> QED BY <2>1, <2>2
<1> QED BY <1>1 DEF Max

(* A finite set of naturals has a greatest element, unless it is empty.     *)
LEMMA MaxOfFinite ==
  ASSUME NEW S \in SUBSET Nat, IsFiniteSet(S), S # {}
  PROVE  Max(S) \in S /\ \A y \in S : y <= Max(S)
<1> DEFINE Great(s, x) == x \in s /\ \A y \in s : y <= x
           Bad == {s \in SUBSET S : s # {} /\ \A x \in s : ~ Great(s, x)}
           N   == {Cardinality(s) : s \in Bad}
<1>1. \A s \in SUBSET S : IsFiniteSet(s) /\ Cardinality(s) \in Nat
  BY FS_Subset, FS_CardinalityType
<1>2. Bad = {}
  <2>1. SUFFICES ASSUME Bad # {} PROVE FALSE
    OBVIOUS
  <2>2. N \in SUBSET Nat /\ N # {}
    BY <1>1, <2>1
  <2>3. PICK s \in Bad : \A r \in Bad : Cardinality(s) <= Cardinality(r)
    <3> HIDE DEF Bad
    <3>1. PICK n \in N : \A m \in N : n <= m
      BY <2>2, LeastExists
    <3> QED BY <3>1
  <2>4. PICK x \in s : TRUE
    BY <2>3
  <2>5. Cardinality(s \ {x}) = Cardinality(s) - 1
    BY <1>1, <2>4, FS_RemoveElement
  <2>6. s \ {x} \notin Bad
    <3>1. Cardinality(s) \in Nat
      BY <1>1
    <3> HIDE DEF Bad
    <3> QED BY <2>3, <2>5, <3>1
  <2>7. CASE s \ {x} = {}
    BY <2>4, <2>7
  <2>8. CASE s \ {x} # {}
    <3>1. PICK z \in s \ {x} : Great(s \ {x}, z)
      BY <2>6, <2>8
    <3>2. x \in Nat /\ z \in Nat /\ \A y \in s : y \in Nat
      BY <2>4, <3>1
    <3>3. CASE x <= z
      BY <3>1, <3>2, <3>3
    <3>4. CASE z <= x
      BY <2>4, <3>1, <3>2, <3>4
    <3> QED BY <3>2, <3>3, <3>4
  <2> QED BY <2>7, <2>8
<1>3. \E x \in S : \A y \in S : x >= y
  <2>1. PICK x \in S : Great(S, x)
    BY <1>2
  <2> QED BY <2>1
<1> QED BY <1>3 DEF Max

(* A set of pods has a first one, unless it is empty.                       *)
LEMMA MinOfPods ==
  ASSUME NEW S \in SUBSET Pod, S # {}
  PROVE  Min(S) \in S
<1>1. S \in SUBSET Nat
  BY DEF Pod
<1>2. PICK x \in S : \A y \in S : x <= y
  BY <1>1, LeastExists
<1> QED BY <1>2 DEF Min
-----------------------------------------------------------------------------
(* The pods *)

(* The pods of a ReplicaSet are finitely many.                              *)
LEMMA PodsFinite ==
  ASSUME NEW t
  PROVE  /\ IsFiniteSet(Alive(t)) /\ Cardinality(Alive(t)) \in Nat
         /\ IsFiniteSet(Ready(t)) /\ Cardinality(Ready(t)) \in Nat
         /\ Alive(t) \subseteq Pod /\ Ready(t) \subseteq Alive(t)
         /\ Cardinality(Ready(t)) <= Cardinality(Alive(t))
<1>1. IsFiniteSet(Pod)
  BY BoundAssumption, FS_Interval DEF Pod
<1>2. Alive(t) \subseteq Pod /\ Ready(t) \subseteq Alive(t)
  BY DEF Alive, Ready
<1>3. IsFiniteSet(Alive(t))
  BY <1>1, <1>2, FS_Subset
<1>4. IsFiniteSet(Ready(t)) /\ Cardinality(Ready(t)) <= Cardinality(Alive(t))
  BY <1>2, <1>3, FS_Subset
<1> QED BY <1>2, <1>3, <1>4, FS_CardinalityType

(* The templates that are known are finitely many.                          *)
LEMMA KnownFinite ==
  Known \in SUBSET Template /\ IsFiniteSet(Known) /\ IsFiniteSet(Template)
<1>1. Known \in SUBSET Template
  BY DEF Known
<1> QED BY <1>1, TemplateAssumption, FS_Subset

(* No more is counted as available than is asked for, or than is ready.     *)
LEMMA AvailableType ==
  ASSUME replicas \in [Template -> Nat]
  PROVE  /\ Available \in [Template -> Nat]
         /\ \A t \in Template : /\ Available[t] <= replicas[t]
                                /\ Available[t] <= Cardinality(Ready(t))
<1>1. ASSUME NEW t \in Template
      PROVE  LET m == Min({Cardinality(Ready(t)), replicas[t]})
             IN  m \in Nat /\ m <= replicas[t] /\ m <= Cardinality(Ready(t))
  <2>1. replicas[t] \in Nat /\ Cardinality(Ready(t)) \in Nat
    BY PodsFinite
  <2> QED BY <2>1, MinOfTwo
<1> QED BY <1>1 DEF Available

(* The floor is between zero and the size.                                  *)
LEMMA FloorType ==
  ASSUME NEW s \in [template: Template, desired: Size]
  PROVE  Floor(s) \in Nat /\ Floor(s) <= s.desired
<1>0. s.desired \in Nat /\ MaxUnavailable \in Nat
  BY SizeAssumption, BoundAssumption
<1>1. s.desired - MaxUnavailable \in Int /\ 0 \in Int
  BY <1>0
<1>2. Max({s.desired - MaxUnavailable, 0}) \in {s.desired - MaxUnavailable, 0}
      /\ 0 <= Max({s.desired - MaxUnavailable, 0})
  BY <1>1, MaxOfTwo
<1> QED BY <1>0, <1>2 DEF Floor

(* Step 2 takes no more than there is.                                      *)
LEMMA LoweredType ==
  ASSUME TypeOK, NEW t \in Template
  PROVE  Spare(t) \in Int /\ (Spare(t) > 0 => Lowered(t) \in 0..replicas[t])
<1>1. replicas \in [Template -> Nat] /\ dep.spec \in [template: Template, desired: Size]
  BY DEF TypeOK
<1> DEFINE newer == {u \in Older(Target) : revision[u] > revision[t]}
<1>2. newer \in SUBSET Template /\ IsFiniteSet(newer)
  <2>1. newer \in SUBSET Known
    BY DEF Older
  <2> QED BY <2>1, KnownFinite, FS_Subset
<1>3. SumFunctionOnSet(replicas, newer) \in Nat
  <2> HIDE DEF newer
  <2> QED BY <1>1, <1>2, SumType
<1>4. SumFunctionOnSet(Available, Known) \in Nat
  BY <1>1, KnownFinite, AvailableType, SumType
<1>5. Floor(dep.spec) \in Nat
  BY <1>1, FloorType
<1>6. Spare(t) \in Int
  BY <1>3, <1>4, <1>5 DEF Spare
<1>7. replicas[t] \in Nat /\ replicas[t] \in Int
  BY <1>1
<1>8. Min({replicas[t], Spare(t)}) \in {replicas[t], Spare(t)} /\ Min({replicas[t], Spare(t)}) <= replicas[t]
  BY <1>6, <1>7, MinOfTwo
<1> QED BY <1>6, <1>7, <1>8 DEF Lowered

(* What maxSurge leaves is an integer; below zero there is no room.         *)
LEMMA RoomType ==
  ASSUME TypeOK
  PROVE  Room \in Int
<1>1. replicas \in [Template -> Nat] /\ dep.spec.desired \in Nat
  BY SizeAssumption DEF TypeOK
<1>2. SumFunctionOnSet(replicas, Known) \in Nat
  BY <1>1, KnownFinite, SumType
<1> QED BY <1>1, <1>2, BoundAssumption DEF Room
(* A worker that is to create pods still has one to create.                 *)
CreateInv == rpc = "create" => rs.create > 0

(* Only the ReplicaSets that a pass has found or made are ever asked for     *)
(* replicas, and the pass's own is one of them.                              *)
KnownInv ==
    /\ \A t \in Template \ Known : replicas[t] = 0
    /\ dpc # "idle" => Target \in Known
    /\ rpc # "idle" => rs.of \in Known

(* What a pass is still to write lowers replicas, each write further than   *)
(* the one before.                                                          *)
ScaleInv ==
    /\ dpc \notin {"plan", "scale"} => dep.scale = <<>>
    /\ dpc = "plan" => \A i \in 1..Len(dep.scale) : dep.scale[i].of = Target
    /\ \A i \in 1..Len(dep.scale) : dep.scale[i].to <= replicas[dep.scale[i].of]
    /\ \A i, j \in 1..Len(dep.scale) :
          i < j /\ dep.scale[i].of = dep.scale[j].of => dep.scale[j].to <= dep.scale[i].to

-----------------------------------------------------------------------------
(* Types *)

Item == [of: Template, to: Nat]
Typed == TypeOK /\ CreateInv

(* What the second listing adds to what is to be scaled: first what the old *)
(* ReplicaSets can spare, then, when the target is available, all they have *)
(* (workloads.py:232-259).                                                  *)
LEMMA PlanShape ==
  ASSUME TypeOK, PlanScaleDown
  PROVE  \E give, retire \in Seq(Item) :
           /\ dep'.scale = give \o retire \o dep.scale
           /\ dep' = [dep EXCEPT !.scale = dep'.scale, !.complete = dep'.complete]
           /\ dep'.complete \in BOOLEAN
           /\ \A i \in 1..Len(give) :
                 /\ give[i].of \in Older(Target) /\ Spare(give[i].of) > 0
                 /\ give[i].to = Lowered(give[i].of)
                 /\ \A j \in 1..Len(give) : i < j => give[i].of # give[j].of
           /\ \A i \in 1..Len(retire) :
                 retire[i].of \in Older(Target) /\ retire[i].to = 0 /\ dep.enough
<1> DEFINE used   == {t \in Older(Target) : replicas[t] > 0}
           giving == {t \in used : Spare(t) > 0}
           spent  == IF dep.enough THEN used ELSE {}
           G(s)   == [i \in DOMAIN s |-> [of |-> s[i], to |-> Lowered(s[i])]]
           R(s)   == [i \in DOMAIN s |-> [of |-> s[i], to |-> 0]]
<1>1. /\ dep \in [spec: [template: Template, desired: Size], generation: Nat, enough: BOOLEAN,
                  scale: Seq(Item), complete: BOOLEAN]
      /\ replicas \in [Template -> Nat] /\ revision \in [Template -> Nat]
  BY DEF TypeOK, Item
<1>2. PICK give \in NewestFirst(giving), retire \in OldestFirst(spent) :
         dep' = [dep EXCEPT
                  !.scale = G(give) \o R(retire) \o @,
                  !.complete = dep.enough /\ used = {} /\ \A t \in Older(Target) : Alive(t) = {}]
  BY DEF PlanScaleDown
<1>3. used \in SUBSET Template /\ used \subseteq Older(Target) /\ giving \subseteq used /\ spent \subseteq used
  BY DEF Older, Known
<1>4. IsFiniteSet(giving) /\ Cardinality(giving) \in Nat /\ IsFiniteSet(spent) /\ Cardinality(spent) \in Nat
  <2>1. giving \in SUBSET Template /\ spent \in SUBSET Template
    BY <1>3
  <2> HIDE DEF giving, spent
  <2> QED BY <2>1, KnownFinite, FS_Subset, FS_CardinalityType
<1>5. /\ give \in [1..Cardinality(giving) -> giving]
      /\ \A i, j \in 1..Cardinality(giving) : i < j => revision[give[i]] > revision[give[j]]
  BY <1>2 DEF NewestFirst
<1>6. retire \in [1..Cardinality(spent) -> spent]
  BY <1>2 DEF OldestFirst
<1>7. \A t \in giving : Lowered(t) \in Nat
  <2>1. \A t \in giving : t \in Template /\ Spare(t) > 0
    BY <1>3
  <2> QED BY <2>1, LoweredType
<1>8. G(give) \in Seq(Item) /\ Len(G(give)) = Cardinality(giving)
  <2>1. giving \subseteq Template
    BY <1>3
  <2> HIDE DEF giving
  <2>2. \A i \in 1..Cardinality(giving) : G(give)[i] \in Item
    BY <1>5, <1>7, <2>1 DEF Item
  <2>3. G(give) \in [1..Cardinality(giving) -> Item]
    BY <1>5, <2>2
  <2> HIDE DEF G
  <2> QED BY <1>4, <2>3, SeqDef, LenProperties
<1>9. R(retire) \in Seq(Item) /\ Len(R(retire)) = Cardinality(spent)
  <2>1. spent \subseteq Template
    BY <1>3
  <2> HIDE DEF spent
  <2>2. \A i \in 1..Cardinality(spent) : R(retire)[i] \in Item
    BY <1>6, <2>1 DEF Item
  <2>3. R(retire) \in [1..Cardinality(spent) -> Item]
    BY <1>6, <2>2
  <2> HIDE DEF R
  <2> QED BY <1>4, <2>3, SeqDef, LenProperties
<1>10. \A i \in 1..Cardinality(giving) :
          /\ G(give)[i].of \in Older(Target) /\ Spare(G(give)[i].of) > 0
          /\ G(give)[i].to = Lowered(G(give)[i].of)
          /\ \A j \in 1..Cardinality(giving) : i < j => G(give)[i].of # G(give)[j].of
  <2>1. \A i \in 1..Cardinality(giving) : G(give)[i].of = give[i] /\ G(give)[i].to = Lowered(give[i])
    BY <1>5
  <2>2. \A i \in 1..Cardinality(giving) : give[i] \in giving
    BY <1>5
  <2>3. \A i, j \in 1..Cardinality(giving) : i < j => give[i] # give[j]
    <3>1. \A t \in giving : revision[t] \in Nat
      BY <1>1, <1>3
    <3> HIDE DEF giving
    <3> QED BY <1>5, <3>1
  <2>4. \A t \in giving : t \in Older(Target) /\ Spare(t) > 0
    BY <1>3
  <2> HIDE DEF G, giving
  <2> QED BY <2>1, <2>2, <2>3, <2>4
<1>11. \A i \in 1..Cardinality(spent) :
          R(retire)[i].of \in Older(Target) /\ R(retire)[i].to = 0 /\ dep.enough
  <2>1. \A i \in 1..Cardinality(spent) : R(retire)[i].of = retire[i] /\ R(retire)[i].to = 0
    BY <1>6
  <2>2. \A i \in 1..Cardinality(spent) : retire[i] \in spent
    BY <1>6
  <2>3. \A t \in spent : t \in Older(Target) /\ dep.enough
    BY <1>3
  <2> HIDE DEF R, spent
  <2> QED BY <2>1, <2>2, <2>3
<1>12. /\ dep'.scale = G(give) \o R(retire) \o dep.scale
       /\ dep' = [dep EXCEPT !.scale = dep'.scale, !.complete = dep'.complete]
       /\ dep'.complete \in BOOLEAN
  <2> HIDE DEF G, R
  <2> QED BY <1>1, <1>2
<1> HIDE DEF G, R, giving, spent
<1>13. \A i \in 1..Len(G(give)) :
          /\ G(give)[i].of \in Older(Target) /\ Spare(G(give)[i].of) > 0
          /\ G(give)[i].to = Lowered(G(give)[i].of)
          /\ \A j \in 1..Len(G(give)) : i < j => G(give)[i].of # G(give)[j].of
  BY <1>8, <1>10
<1>14. \A i \in 1..Len(R(retire)) :
          R(retire)[i].of \in Older(Target) /\ R(retire)[i].to = 0 /\ dep.enough
  BY <1>9, <1>11
<1> G(give) \in Seq(Item) /\ R(retire) \in Seq(Item)
  BY <1>8, <1>9
<1> WITNESS G(give) \in Seq(Item), R(retire) \in Seq(Item)
<1> QED BY <1>12, <1>13, <1>14

(* What is rolled out at first.                                             *)
LEMMA InitTyped == Init => Typed
<1> SUFFICES ASSUME Init PROVE Typed
  OBVIOUS
<1>1. Start.template \in Template /\ Start.desired \in Size /\ Start.desired \in Nat
  BY StartAssumption, SizeAssumption
<1>2. replicas \in [Template -> Nat] /\ revision \in [Template -> Nat]
  BY <1>1 DEF Init
<1>3. pod \in [Pod -> [owner: Template \cup {None}, ready: BOOLEAN]]
  BY <1>1 DEF Init, NoPod
<1>4. dep \in [spec: [template: Template, desired: Size], generation: Nat, enough: BOOLEAN,
               scale: Seq([of: Template, to: Nat]), complete: BOOLEAN]
  BY StartAssumption DEF Init, NoPass
<1>5. rs \in [of: Template, want: Nat, create: Nat, doomed: SUBSET Pod]
  BY <1>1 DEF Init, NoWork
<1>6. status \in [observed: Nat, complete: BOOLEAN, template: Template]
  BY <1>1 DEF Init
<1> QED BY <1>2, <1>3, <1>4, <1>5, <1>6, StartAssumption DEF Init, Typed, TypeOK, CreateInv

(* The steps of the deployment's worker (workloads.py:165-378).             *)
LEMMA StartTyped == Typed /\ StartPass => Typed'
<1> SUFFICES ASSUME Typed, StartPass PROVE Typed'
  OBVIOUS
<1>1. revision \in [Template -> Nat] /\ spec.template \in Template
  BY DEF Typed, TypeOK
<1>2. Max({revision[t] : t \in Template}) \in Nat
  <2> DEFINE R == {revision[t] : t \in Template}
  <2>1. R \in SUBSET Nat /\ R # {}
    BY <1>1
  <2>2. revision \in Surjection(Template, R)
    BY <1>1 DEF Surjection
  <2>3. IsFiniteSet(R)
    BY <2>2, TemplateAssumption, FS_Surjection
  <2> HIDE DEF R
  <2>4. Max(R) \in Nat
    BY <2>1, <2>3, MaxOfFinite
  <2> QED BY <2>4 DEF R
<1>3. revision' \in [Template -> Nat]
  BY <1>1, <1>2 DEF StartPass
<1>4. dep' \in [spec: [template: Template, desired: Size], generation: Nat, enough: BOOLEAN,
                scale: Seq([of: Template, to: Nat]), complete: BOOLEAN]
  <2>1. NoPass \in [spec: [template: Template, desired: Size], generation: Nat, enough: BOOLEAN,
                    scale: Seq([of: Template, to: Nat]), complete: BOOLEAN]
    BY StartAssumption DEF NoPass
  <2>2. spec \in [template: Template, desired: Size] /\ generation \in Nat
    BY DEF Typed, TypeOK
  <2> QED BY <2>1, <2>2 DEF StartPass
<1> QED BY <1>3, <1>4 DEF StartPass, Typed, TypeOK, CreateInv, deployment, replicator

(* The first listing of the pods.                                           *)
LEMMA CountTyped == Typed /\ CountPods => Typed'
<1> SUFFICES ASSUME Typed, CountPods PROVE Typed'
  OBVIOUS
<1> DEFINE b == Cardinality(Ready(Target)) >= dep.spec.desired
<1>1. b \in BOOLEAN /\ dep' = [dep EXCEPT !.enough = b]
  BY DEF CountPods
<1> HIDE DEF b
<1>2. dep' \in [spec: [template: Template, desired: Size], generation: Nat, enough: BOOLEAN,
                scale: Seq([of: Template, to: Nat]), complete: BOOLEAN]
  BY <1>1 DEF Typed, TypeOK
<1> QED BY <1>2 DEF Typed, TypeOK, CreateInv, CountPods, deployment, sets, replicator

(* What step 1 grants the target: no more than there is room for.           *)
LEMMA ScaleUpShape ==
  ASSUME TypeOK, ScaleUp
  PROVE  \E n \in Nat :
           /\ replicas' = [replicas EXCEPT ![Target] = @ + n]
           /\ n = 0 \/ (n <= Room /\ replicas[Target] + n <= dep.spec.desired)
<1>1. replicas \in [Template -> Nat] /\ Target \in Template /\ dep.spec.desired \in Nat
  BY SizeAssumption DEF TypeOK, Target
<1> DEFINE n == Min({Room, dep.spec.desired - replicas[Target]})
<1>2. CASE Room > 0 /\ replicas[Target] < dep.spec.desired
  <2>1. Room \in Int /\ dep.spec.desired - replicas[Target] \in Int /\ replicas[Target] \in Nat
    BY <1>1, RoomType
  <2>2. n \in {Room, dep.spec.desired - replicas[Target]}
        /\ n <= Room /\ n <= dep.spec.desired - replicas[Target]
    BY <2>1, MinOfTwo
  <2>3. n \in Nat /\ replicas[Target] + n <= dep.spec.desired
    BY <1>1, <1>2, <2>1, <2>2
  <2>4. replicas' = [replicas EXCEPT ![Target] = @ + n]
    BY <1>2 DEF ScaleUp
  <2> HIDE DEF n
  <2> QED BY <2>2, <2>3, <2>4
<1>3. CASE ~(Room > 0 /\ replicas[Target] < dep.spec.desired)
  <2>1. replicas' = replicas
    BY <1>3 DEF ScaleUp
  <2>2. replicas' = [replicas EXCEPT ![Target] = @ + 0]
    BY <1>1, <2>1
  <2> QED BY <2>2
<1> QED BY <1>2, <1>3

(* Step 1, which also decides step 4.                                       *)
LEMMA ScaleUpTyped == Typed /\ ScaleUp => Typed'
<1> SUFFICES ASSUME Typed, ScaleUp PROVE Typed'
  OBVIOUS
<1>1. TypeOK
  BY DEF Typed
<1>2. replicas' \in [Template -> Nat]
  <2>1. PICK n \in Nat : replicas' = [replicas EXCEPT ![Target] = @ + n]
    BY <1>1, ScaleUpShape
  <2>2. replicas \in [Template -> Nat] /\ Target \in Template
    BY <1>1 DEF TypeOK, Target
  <2>3. replicas[Target] + n \in Nat
    BY <2>2
  <2> QED BY <2>1, <2>2, <2>3
<1>3. dep' \in [spec: [template: Template, desired: Size], generation: Nat, enough: BOOLEAN,
                scale: Seq([of: Template, to: Nat]), complete: BOOLEAN]
  <2>1. Target \in Template /\ dep.spec.desired \in Nat
    BY <1>1, SizeAssumption DEF TypeOK, Target
  <2>2. PICK x \in {<<[of |-> Target, to |-> dep.spec.desired]>>, <<>>} : dep' = [dep EXCEPT !.scale = x]
    BY DEF ScaleUp
  <2>3. x \in Seq([of: Template, to: Nat])
    <3>1. [of |-> Target, to |-> dep.spec.desired] \in [of: Template, to: Nat]
      BY <2>1
    <3>2. \A e \in [of: Template, to: Nat] : <<e>> \in Seq([of: Template, to: Nat])
      OBVIOUS
    <3>3. <<>> \in Seq([of: Template, to: Nat])
      OBVIOUS
    <3> QED BY <2>2, <3>1, <3>2, <3>3
  <2> QED BY <1>1, <2>2, <2>3 DEF TypeOK
<1> QED BY <1>1, <1>2, <1>3 DEF ScaleUp, Typed, TypeOK, CreateInv, deployment, replicator

(* The second listing.                                                      *)
LEMMA PlanTyped == Typed /\ PlanScaleDown => Typed'
<1> SUFFICES ASSUME Typed, PlanScaleDown PROVE Typed'
  OBVIOUS
<1>1. TypeOK
  BY DEF Typed
<1>2. dep' \in [spec: [template: Template, desired: Size], generation: Nat, enough: BOOLEAN,
                scale: Seq([of: Template, to: Nat]), complete: BOOLEAN]
  <2>1. PICK give, retire \in Seq(Item) :
           /\ dep'.scale = give \o retire \o dep.scale
           /\ dep' = [dep EXCEPT !.scale = dep'.scale, !.complete = dep'.complete]
           /\ dep'.complete \in BOOLEAN
    BY <1>1, PlanShape
  <2>2. dep.scale \in Seq(Item)
    BY <1>1 DEF TypeOK, Item
  <2>3. dep'.scale \in Seq(Item)
    BY <2>1, <2>2, ConcatProperties
  <2> QED BY <1>1, <2>1, <2>3 DEF TypeOK, Item
<1> QED BY <1>1, <1>2 DEF PlanScaleDown, Typed, TypeOK, CreateInv, deployment, sets, replicator

(* One write of the pass: the head of what is to be scaled.                 *)
LEMMA ScaleShape ==
  ASSUME TypeOK, Scale
  PROVE  /\ Len(dep.scale) \in Nat /\ Len(dep.scale) > 0
         /\ dep.scale[1] \in Item
         /\ replicas' = [replicas EXCEPT ![dep.scale[1].of] = dep.scale[1].to]
         /\ dep' = [dep EXCEPT !.scale = Tail(@)]
         /\ dep'.scale \in Seq(Item)
         /\ Len(dep'.scale) = Len(dep.scale) - 1
         /\ \A i \in 1..Len(dep'.scale) : dep'.scale[i] = dep.scale[i + 1]
<1>1. dep.scale \in Seq(Item) /\ dep.scale # <<>>
  BY DEF TypeOK, Item, Scale
<1>2. /\ Len(dep.scale) \in Nat /\ Len(dep.scale) > 0
      /\ Head(dep.scale) = dep.scale[1] /\ dep.scale[1] \in Item
      /\ Tail(dep.scale) \in Seq(Item) /\ Len(Tail(dep.scale)) = Len(dep.scale) - 1
      /\ \A i \in 1..Len(Tail(dep.scale)) : Tail(dep.scale)[i] = dep.scale[i + 1]
  BY <1>1, HeadTailProperties, LenProperties, ElementOfSeq
<1>3. dep' = [dep EXCEPT !.scale = Tail(@)] /\ dep'.scale = Tail(dep.scale)
  BY DEF Scale, TypeOK
<1>4. replicas' = [replicas EXCEPT ![dep.scale[1].of] = dep.scale[1].to]
  BY <1>2 DEF Scale
<1> QED BY <1>2, <1>3, <1>4

(* One write of the pass to a ReplicaSet.                                   *)
LEMMA ScaleTyped == Typed /\ Scale => Typed'
<1> SUFFICES ASSUME Typed, Scale PROVE Typed'
  OBVIOUS
<1>1. TypeOK
  BY DEF Typed
<1>2. replicas' \in [Template -> Nat] /\ dep'.scale \in Seq(Item)
      /\ dep' = [dep EXCEPT !.scale = dep'.scale]
  <2>1. dep.scale[1] \in Item /\ replicas' = [replicas EXCEPT ![dep.scale[1].of] = dep.scale[1].to]
        /\ dep' = [dep EXCEPT !.scale = Tail(@)] /\ dep'.scale \in Seq(Item)
    BY <1>1, ScaleShape
  <2>2. replicas' \in [Template -> Nat]
    BY <1>1, <2>1 DEF TypeOK, Item
  <2> QED BY <1>1, <2>1, <2>2 DEF TypeOK
<1> QED BY <1>1, <1>2 DEF Scale, Typed, TypeOK, CreateInv, Item, deployment, replicator

(* The write of the status, which ends the pass.                            *)
LEMMA StatusTyped == Typed /\ WriteStatus => Typed'
<1> SUFFICES ASSUME Typed, WriteStatus PROVE Typed'
  OBVIOUS
<1>1. dep' \in [spec: [template: Template, desired: Size], generation: Nat, enough: BOOLEAN,
                scale: Seq([of: Template, to: Nat]), complete: BOOLEAN]
  BY StartAssumption DEF WriteStatus, NoPass
<1>2. status' \in [observed: Nat, complete: BOOLEAN, template: Template]
  BY DEF WriteStatus, Typed, TypeOK, Target
<1> QED BY <1>1, <1>2 DEF WriteStatus, Typed, TypeOK, CreateInv, sets, replicator

(* The steps of the ReplicaSets' worker (workloads.py:29-104).              *)
LEMMA PodsTyped ==
  ASSUME Typed, \/ \E t \in Template : GetReplicaSet(t)
                \/ ListPods \/ PodStep
                \/ \E p \in Pod : BecomeReady(p) \/ Fault(p)
  PROVE  Typed'
<1>1. rs \in [of: Template, want: Nat, create: Nat, doomed: SUBSET Pod]
      /\ pod \in [Pod -> [owner: Template \cup {None}, ready: BOOLEAN]]
  BY DEF Typed, TypeOK
<1>2. NoWork \in [of: Template, want: Nat, create: Nat, doomed: SUBSET Pod]
      /\ NoPod \in [owner: Template \cup {None}, ready: BOOLEAN]
  BY StartAssumption DEF NoWork, NoPod
<1>3. CASE \E t \in Template : GetReplicaSet(t)
  <2>1. PICK t \in Template : GetReplicaSet(t)
    BY <1>3
  <2>2. rs' \in [of: Template, want: Nat, create: Nat, doomed: SUBSET Pod] /\ rpc' = "list"
    BY <1>2, <2>1 DEF GetReplicaSet, Typed, TypeOK
  <2> QED BY <2>1, <2>2 DEF GetReplicaSet, Typed, TypeOK, CreateInv, deployment, sets, deployer
<1>4. CASE ListPods
  <2> DEFINE n == Cardinality(Alive(rs.of))
  <2>1. n \in Nat /\ Alive(rs.of) \subseteq Pod
    BY PodsFinite
  <2>2. \/ n < rs.want /\ rs' = [rs EXCEPT !.create = rs.want - n] /\ rpc' = "create"
        \/ \E S \in SUBSET Alive(rs.of) : rs' = [rs EXCEPT !.doomed = S] /\ rpc' = "delete"
        \/ rs' = NoWork /\ rpc' = "idle"
    BY <1>4 DEF ListPods, Surplus
  <2> HIDE DEF n
  <2>3. /\ rs' \in [of: Template, want: Nat, create: Nat, doomed: SUBSET Pod]
        /\ rpc' \in {"idle", "create", "delete"}
        /\ rpc' = "create" => rs'.create > 0
    <3>1. CASE n < rs.want /\ rs' = [rs EXCEPT !.create = rs.want - n] /\ rpc' = "create"
      <4>1. rs.want - n \in Nat /\ rs.want - n > 0
        BY <1>1, <2>1, <3>1
      <4> QED BY <1>1, <3>1, <4>1
    <3>2. CASE \E S \in SUBSET Alive(rs.of) : rs' = [rs EXCEPT !.doomed = S] /\ rpc' = "delete"
      BY <1>1, <2>1, <3>2
    <3>3. CASE rs' = NoWork /\ rpc' = "idle"
      BY <1>2, <3>3
    <3> QED BY <2>2, <3>1, <3>2, <3>3
  <2> QED BY <1>4, <2>3 DEF ListPods, Typed, TypeOK, CreateInv, deployment, sets, deployer
<1>5. CASE CreatePod
  <2>1. Alive(None) # {} => Min(Alive(None)) \in Pod
    BY PodsFinite, MinOfPods
  <2>2. pod' \in [Pod -> [owner: Template \cup {None}, ready: BOOLEAN]] /\ faults' \in Nat
    <3>1. CASE pod' = pod
      BY <1>1, <1>5, <3>1 DEF CreatePod, Typed, TypeOK
    <3>2. CASE /\ Alive(None) # {} /\ faults' = faults
               /\ pod' = [pod EXCEPT ![Min(Alive(None))] = [owner |-> rs.of, ready |-> FALSE]]
      BY <1>1, <2>1, <3>2 DEF Typed, TypeOK
    <3> QED BY <1>5, <3>1, <3>2 DEF CreatePod
  <2>3. /\ rs' \in [of: Template, want: Nat, create: Nat, doomed: SUBSET Pod]
        /\ rpc' \in {"idle", "create"} /\ (rpc' = "create" => rs'.create > 0)
    <3>1. CASE rs.create = 1
      BY <1>2, <1>5, <3>1 DEF CreatePod
    <3>2. CASE rs.create # 1
      <4>1. rs.create - 1 \in Nat /\ rs.create - 1 > 0
        BY <1>1, <1>5, <3>2 DEF CreatePod, Typed, CreateInv
      <4>2. rs' = [rs EXCEPT !.create = rs.create - 1] /\ rpc' = "create"
        BY <1>1, <1>5, <3>2 DEF CreatePod
      <4> QED BY <1>1, <4>1, <4>2
    <3> QED BY <3>1, <3>2
  <2> QED BY <1>5, <2>2, <2>3 DEF CreatePod, Typed, TypeOK, CreateInv, deployment, sets, deployer
<1>6. CASE \E p \in Pod : DeletePod(p)
  <2>1. PICK p \in Pod : DeletePod(p)
    BY <1>6
  <2>2. pod' \in [Pod -> [owner: Template \cup {None}, ready: BOOLEAN]]
    BY <1>1, <1>2, <2>1 DEF DeletePod
  <2>3. rs' \in [of: Template, want: Nat, create: Nat, doomed: SUBSET Pod] /\ rpc' \in {"idle", "delete"}
    <3>1. CASE rs.doomed = {p}
      BY <1>2, <2>1, <3>1 DEF DeletePod
    <3>2. CASE rs.doomed # {p}
      BY <1>1, <2>1, <3>2 DEF DeletePod
    <3> QED BY <3>1, <3>2
  <2> QED BY <2>1, <2>2, <2>3 DEF DeletePod, Typed, TypeOK, CreateInv, deployment, sets, deployer
<1>7. CASE \E p \in Pod : BecomeReady(p) \/ Fault(p)
  <2>1. PICK p \in Pod : BecomeReady(p) \/ Fault(p)
    BY <1>7
  <2>2. pod' \in [Pod -> [owner: Template \cup {None}, ready: BOOLEAN]] /\ faults' \in Nat
    <3>1. pod[p] \in [owner: Template \cup {None}, ready: BOOLEAN] /\ faults \in Nat
      BY <1>1 DEF Typed, TypeOK
    <3>2. \/ \E b \in BOOLEAN : pod' = [pod EXCEPT ![p].ready = b]
          \/ pod' = [pod EXCEPT ![p] = NoPod]
      BY <2>1 DEF BecomeReady, Fault
    <3>3. faults' \in {faults, faults + 1}
      BY <2>1 DEF BecomeReady, Fault
    <3>4. CASE pod' = [pod EXCEPT ![p] = NoPod]
      BY <1>1, <1>2, <3>1, <3>3, <3>4
    <3>5. ASSUME NEW b \in BOOLEAN, pod' = [pod EXCEPT ![p].ready = b]
          PROVE  pod' \in [Pod -> [owner: Template \cup {None}, ready: BOOLEAN]]
      <4>1. [pod[p] EXCEPT !.ready = b] \in [owner: Template \cup {None}, ready: BOOLEAN]
        BY <3>1
      <4>2. pod' = [pod EXCEPT ![p] = [pod[p] EXCEPT !.ready = b]]
        BY <1>1, <3>5
      <4> QED BY <1>1, <4>1, <4>2
    <3> QED BY <3>1, <3>2, <3>3, <3>4, <3>5
  <2>3. UNCHANGED <<deployment, sets, deployer, replicator, edits, healthy>>
    BY <2>1 DEF BecomeReady, Fault
  <2> QED BY <2>2, <2>3 DEF Typed, TypeOK, CreateInv, deployment, sets, deployer, replicator
<1> QED BY <1>3, <1>4, <1>5, <1>6, <1>7 DEF PodStep

(* An edit (cluster.py:107-122) or a rollback (workloads.py:404-431).       *)
LEMMA EditTyped ==
  ASSUME Typed, NEW s, s \in [template: Template, desired: Size], Edit(s)
  PROVE  Typed'
<1>1. spec' = s /\ generation' = generation + 1 /\ edits' = edits + 1
  BY DEF Edit
<1>2. UNCHANGED <<status, replicas, revision, pod, dpc, dep, rpc, rs, faults, healthy>>
  BY DEF Edit, sets, deployer, replicator
<1>3. generation' \in Nat /\ edits' \in Nat
  BY <1>1 DEF Typed, TypeOK
<1> QED BY <1>1, <1>2, <1>3 DEF Typed, TypeOK, CreateInv

(* A rollback is an edit that goes back to a template that is known.        *)
LEMMA RollbackIsEdit ==
  ASSUME TypeOK, Rollback
  PROVE  \E t \in Known : Edit([spec EXCEPT !.template = t])
         /\ [spec EXCEPT !.template = t] \in [template: Template, desired: Size]
<1>1. PICK t \in Older(spec.template) : Edit([spec EXCEPT !.template = t])
  BY DEF Rollback
<1>2. t \in Known /\ t \in Template
  BY <1>1 DEF Older, Known
<1> QED BY <1>1, <1>2 DEF TypeOK

(* Types hold after every step.                                             *)
LEMMA NextTyped == Typed /\ [Next]_vars => Typed'
<1> SUFFICES ASSUME Typed, [Next]_vars PROVE Typed'
  OBVIOUS
<1>1. CASE UNCHANGED vars
  BY <1>1 DEF vars, deployment, sets, deployer, replicator, Typed, TypeOK, CreateInv
<1>2. CASE DeploymentStep
  BY <1>2, StartTyped, CountTyped, ScaleUpTyped, PlanTyped, ScaleTyped, StatusTyped DEF DeploymentStep
<1>3. CASE \E s \in [template: Template, desired: Size] : Edit(s)
  BY <1>3, EditTyped
<1>4. CASE Rollback
  <2>1. TypeOK
    BY DEF Typed
  <2> QED BY <1>4, <2>1, RollbackIsEdit, EditTyped
<1>5. CASE \/ \E t \in Template : GetReplicaSet(t)
           \/ ListPods \/ PodStep
           \/ \E p \in Pod : BecomeReady(p) \/ Fault(p)
  BY <1>5, PodsTyped
<1> QED BY <1>1, <1>2, <1>3, <1>4, <1>5 DEF Next

(* Every variable has its type, at every bound.                             *)
THEOREM TypeCorrect == Spec => []TypeOK
<1>1. Typed => TypeOK
  BY DEF Typed
<1> QED BY <1>1, InitTyped, NextTyped, PTL DEF Spec

-----------------------------------------------------------------------------
(* The surge *)

Base == Typed /\ KnownInv /\ ScaleInv

(* At first one ReplicaSet is known and no worker has begun.                *)
LEMMA InitBase == Init => Base
<1> SUFFICES ASSUME Init PROVE Base
  OBVIOUS
<1>1. dpc = "idle" /\ rpc = "idle" /\ dep.scale = <<>>
  BY DEF Init, NoPass
<1>2. \A t \in Template \ Known : replicas[t] = 0
  BY DEF Init, Known
<1>3. Len(dep.scale) = 0
  BY <1>1
<1>4. ScaleInv
  BY <1>1, <1>3 DEF ScaleInv
<1> QED BY <1>1, <1>2, <1>4, InitTyped DEF Base, KnownInv

(* A pass makes the ReplicaSet of its template known (workloads.py:292-330).*)
LEMMA StartKnown ==
  ASSUME TypeOK, StartPass
  PROVE  /\ Known' = Known \cup {spec.template}
         /\ Target' = spec.template
         /\ \A t \in Known : revision'[t] = revision[t]
<1>1. revision \in [Template -> Nat] /\ spec.template \in Template
  BY DEF TypeOK
<1>2. Max({revision[t] : t \in Template}) \in Nat
  <2> DEFINE R == {revision[t] : t \in Template}
  <2>1. R \in SUBSET Nat /\ R # {}
    BY <1>1
  <2>2. revision \in Surjection(Template, R)
    BY <1>1 DEF Surjection
  <2>3. IsFiniteSet(R)
    BY <2>2, TemplateAssumption, FS_Surjection
  <2> HIDE DEF R
  <2>4. Max(R) \in Nat
    BY <2>1, <2>3, MaxOfFinite
  <2> QED BY <2>4 DEF R
<1>3. Target' = spec.template
  BY DEF StartPass, NoPass, Target
<1>4. CASE spec.template \in Known
  <2>1. revision' = revision
    BY <1>4 DEF StartPass
  <2> QED BY <1>3, <1>4, <2>1 DEF Known
<1>5. CASE spec.template \notin Known
  <2> DEFINE r == Max({revision[t] : t \in Template}) + 1
  <2>1. r \in Nat /\ r > 0 /\ revision' = [revision EXCEPT ![spec.template] = r]
    BY <1>2, <1>5 DEF StartPass
  <2> HIDE DEF r
  <2> QED BY <1>1, <1>3, <1>5, <2>1 DEF Known
<1> QED BY <1>4, <1>5

(* A pass begins with nothing to write, for a ReplicaSet that is known.     *)
LEMMA StartBase == Base /\ StartPass => Base'
<1> SUFFICES ASSUME Base, StartPass PROVE Base'
  OBVIOUS
<1>1. TypeOK /\ Typed'
  BY StartTyped DEF Base, Typed
<1>2. Known' = Known \cup {spec.template} /\ Target' = spec.template
  BY <1>1, StartKnown
<1>3. dpc' = "count" /\ dep'.scale = <<>> /\ UNCHANGED <<replicas, rpc, rs>>
  BY DEF StartPass, NoPass, replicator
<1>4. Len(dep'.scale) = 0
  BY <1>3
<1>5. ScaleInv'
  BY <1>3, <1>4 DEF ScaleInv
<1>6. KnownInv'
  BY <1>2, <1>3 DEF Base, KnownInv
<1> QED BY <1>1, <1>5, <1>6 DEF Base

(* The first listing writes nothing.                                        *)
LEMMA CountBase == Base /\ CountPods => Base'
<1> SUFFICES ASSUME Base, CountPods PROVE Base'
  OBVIOUS
<1>1. dpc = "count" /\ dpc' = "up" /\ UNCHANGED <<replicas, revision, rpc, rs>>
  BY DEF CountPods, sets, replicator
<1>2. dep'.scale = dep.scale /\ dep'.spec = dep.spec
  BY DEF CountPods, Base, Typed, TypeOK
<1>3. Known' = Known /\ Target' = Target
  BY <1>1, <1>2 DEF Known, Target
<1> QED BY <1>1, <1>2, <1>3, CountTyped DEF Base, KnownInv, ScaleInv

(* Step 1 raises the target; step 4, if it is to come, lowers it.           *)
LEMMA ScaleUpBase == Base /\ ScaleUp => Base'
<1> SUFFICES ASSUME Base, ScaleUp PROVE Base'
  OBVIOUS
<1>1. TypeOK /\ Typed'
  BY ScaleUpTyped DEF Base, Typed
<1>2. dpc = "up" /\ dpc' = "plan" /\ UNCHANGED <<revision, rpc, rs>>
  BY DEF ScaleUp, replicator
<1>3. PICK n \in Nat : /\ replicas' = [replicas EXCEPT ![Target] = @ + n]
                       /\ n = 0 \/ (n <= Room /\ replicas[Target] + n <= dep.spec.desired)
  BY <1>1, ScaleUpShape
<1>4. replicas \in [Template -> Nat] /\ Target \in Template /\ dep.spec.desired \in Nat
  BY <1>1, SizeAssumption DEF TypeOK, Target
<1>5. Known' = Known /\ dep'.spec = dep.spec /\ Target' = Target
  BY <1>1, <1>2 DEF ScaleUp, Known, Target, TypeOK
<1>6. KnownInv'
  BY <1>2, <1>3, <1>4, <1>5 DEF Base, KnownInv
<1>7. ScaleInv'
  <2>1. CASE replicas[Target] > dep.spec.desired
    <3>1. dep'.scale = <<[of |-> Target, to |-> dep.spec.desired]>>
      BY <1>1, <2>1 DEF ScaleUp, TypeOK
    <3>2. Len(dep'.scale) = 1 /\ dep'.scale[1].of = Target /\ dep'.scale[1].to = dep.spec.desired
      BY <3>1
    <3>3. replicas'[Target] >= dep.spec.desired
      BY <1>3, <1>4, <2>1
    <3>4. \A i \in 1..Len(dep'.scale) : i = 1
      BY <3>2
    <3> QED BY <1>2, <1>4, <1>5, <3>2, <3>3, <3>4 DEF ScaleInv
  <2>2. CASE ~ (replicas[Target] > dep.spec.desired)
    <3>1. dep'.scale = <<>>
      BY <1>1, <2>2 DEF ScaleUp, TypeOK
    <3>2. Len(dep'.scale) = 0
      BY <3>1
    <3> QED BY <1>2, <3>2 DEF ScaleInv
  <2> QED BY <2>1, <2>2
<1> QED BY <1>1, <1>6, <1>7 DEF Base

(* Where an element of three sequences in a row is from.                    *)
From(s, q, n, i) == i - n \in 1..Len(q) /\ s[i] = q[i - n]

(* Each element of three sequences in a row is from one of them.            *)
LEMMA ThreeInARow ==
  ASSUME NEW S, NEW f \in Seq(S), NEW g \in Seq(S), NEW h \in Seq(S), NEW s, s = f \o g \o h
  PROVE  /\ Len(s) = Len(f) + Len(g) + Len(h)
         /\ \A i \in 1..Len(s) :
              From(s, f, 0, i) \/ From(s, g, Len(f), i) \/ From(s, h, Len(f) + Len(g), i)
<1>1. Len(f) \in Nat /\ Len(g) \in Nat /\ Len(h) \in Nat
  BY LenProperties
<1>2. /\ f \o g \in Seq(S) /\ Len(f \o g) = Len(f) + Len(g)
      /\ \A i \in 1..(Len(f) + Len(g)) : (f \o g)[i] = IF i <= Len(f) THEN f[i] ELSE g[i - Len(f)]
  BY ConcatProperties
<1> DEFINE k == f \o g
<1>3. /\ Len(k \o h) = Len(k) + Len(h)
      /\ \A i \in 1..(Len(k) + Len(h)) : (k \o h)[i] = IF i <= Len(k) THEN k[i] ELSE h[i - Len(k)]
  <2>1. k \in Seq(S)
    BY <1>2
  <2> HIDE DEF k
  <2> QED BY <2>1, ConcatProperties
<1>4. /\ s = k \o h /\ Len(k) = Len(f) + Len(g)
      /\ \A i \in 1..(Len(f) + Len(g)) : k[i] = IF i <= Len(f) THEN f[i] ELSE g[i - Len(f)]
  BY <1>2
<1> HIDE DEF k
<1>5. Len(s) = Len(f) + Len(g) + Len(h)
  BY <1>3, <1>4
<1>6. ASSUME NEW i \in 1..Len(s)
      PROVE  From(s, f, 0, i) \/ From(s, g, Len(f), i) \/ From(s, h, Len(f) + Len(g), i)
  <2>1. i \in Int /\ i >= 1 /\ i <= Len(f) + Len(g) + Len(h)
    BY <1>1, <1>5
  <2>2. CASE i <= Len(f)
    <3>1. i \in 1..Len(f) /\ i - 0 = i /\ s[i] = f[i]
      BY <1>1, <1>3, <1>4, <2>1, <2>2
    <3> QED BY <3>1 DEF From
  <2>3. CASE Len(f) < i /\ i <= Len(f) + Len(g)
    <3>1. i - Len(f) \in 1..Len(g) /\ s[i] = g[i - Len(f)]
      BY <1>1, <1>3, <1>4, <2>1, <2>3
    <3> QED BY <3>1 DEF From
  <2>4. CASE Len(f) + Len(g) < i
    <3>1. i - (Len(f) + Len(g)) \in 1..Len(h) /\ s[i] = h[i - (Len(f) + Len(g))]
      BY <1>1, <1>3, <1>4, <2>1, <2>4
    <3> QED BY <3>1 DEF From
  <2> QED BY <1>1, <2>1, <2>2, <2>3, <2>4
<1> QED BY <1>5, <1>6

(* Step 2 never takes more than there is, and step 3 comes after it with    *)
(* zeros: what is to be written lowers replicas further and further.        *)
LEMMA PlanBase == Base /\ PlanScaleDown => Base'
<1> SUFFICES ASSUME Base, PlanScaleDown PROVE Base'
  OBVIOUS
<1>1. TypeOK /\ Typed'
  BY PlanTyped DEF Base, Typed
<1>2. dpc = "plan" /\ dpc' = "scale" /\ UNCHANGED <<replicas, revision, rpc, rs>>
  BY DEF PlanScaleDown, sets, replicator
<1>3. PICK give, retire \in Seq(Item) :
           /\ dep'.scale = give \o retire \o dep.scale
           /\ dep' = [dep EXCEPT !.scale = dep'.scale, !.complete = dep'.complete]
           /\ dep'.complete \in BOOLEAN
           /\ \A i \in 1..Len(give) :
                 /\ give[i].of \in Older(Target) /\ Spare(give[i].of) > 0
                 /\ give[i].to = Lowered(give[i].of)
                 /\ \A j \in 1..Len(give) : i < j => give[i].of # give[j].of
           /\ \A i \in 1..Len(retire) :
                 retire[i].of \in Older(Target) /\ retire[i].to = 0 /\ dep.enough
  BY <1>1, PlanShape
<1>4. dep'.spec = dep.spec /\ dep.scale \in Seq(Item)
  BY <1>1, <1>3 DEF TypeOK, Item
<1>5. KnownInv'
  BY <1>2, <1>4 DEF Base, KnownInv, Known, Target
<1>6. ScaleInv
  BY DEF Base
<1>7. replicas \in [Template -> Nat]
  BY <1>1 DEF TypeOK
<1>8. Len(give) \in Nat /\ Len(retire) \in Nat /\ Len(dep.scale) \in Nat
  BY <1>4, LenProperties
<1> DEFINE s == dep'.scale
           ng == Len(give)
           nr == Len(give) + Len(retire)
<1>9. /\ Len(s) \in Nat
      /\ \A i \in 1..Len(s) : From(s, give, 0, i) \/ From(s, retire, ng, i) \/ From(s, dep.scale, nr, i)
  <2>1. s = give \o retire \o dep.scale
    BY <1>3
  <2> HIDE DEF s
  <2>2. Len(s) = Len(give) + Len(retire) + Len(dep.scale)
    BY <1>4, <2>1, ThreeInARow
  <2>3. Len(s) \in Nat
    <3>1. s \in Seq(Item)
      BY <1>1 DEF Typed, TypeOK, Item, s
    <3> QED BY <3>1, LenProperties
  <2>4. \A i \in 1..Len(s) :
           \/ From(s, give, 0, i) \/ From(s, retire, Len(give), i)
           \/ From(s, dep.scale, Len(give) + Len(retire), i)
    BY <1>4, <2>1, ThreeInARow
  <2> QED BY <2>3, <2>4
<1>10. \A t \in Older(Target) : t \in Template /\ t # Target
  BY DEF Older, Known
<1>11. \A i \in 1..Len(give) :
         /\ give[i].of \in Template /\ give[i].of # Target /\ give[i].to \in Nat
         /\ give[i].to <= replicas[give[i].of]
  <2> SUFFICES ASSUME NEW i \in 1..Len(give)
               PROVE  /\ give[i].of \in Template /\ give[i].of # Target /\ give[i].to \in Nat
                      /\ give[i].to <= replicas[give[i].of]
    OBVIOUS
  <2>1. give[i].of \in Template /\ give[i].of # Target /\ Spare(give[i].of) > 0
        /\ give[i].to = Lowered(give[i].of)
    BY <1>3, <1>10
  <2>2. Lowered(give[i].of) \in 0..replicas[give[i].of]
    BY <1>1, <2>1, LoweredType
  <2>3. replicas[give[i].of] \in Nat
    BY <1>7, <2>1
  <2> QED BY <2>1, <2>2, <2>3
<1>12. \A i \in 1..Len(retire) : retire[i].of \in Template /\ retire[i].of # Target /\ retire[i].to = 0
  BY <1>3, <1>10
<1>13. \A i \in 1..Len(dep.scale) :
         /\ dep.scale[i].of = Target /\ dep.scale[i].of \in Template
         /\ dep.scale[i].to \in Nat /\ dep.scale[i].to <= replicas[dep.scale[i].of]
  <2>1. \A i \in 1..Len(dep.scale) : dep.scale[i] \in Item
    BY <1>4, ElementOfSeq
  <2> QED BY <1>2, <1>6, <2>1 DEF ScaleInv, Item
<1>14. \A i \in 1..Len(s) : s[i].to <= replicas[s[i].of]
  <2> SUFFICES ASSUME NEW i \in 1..Len(s) PROVE s[i].to <= replicas[s[i].of]
    OBVIOUS
  <2> HIDE DEF s
  <2>1. CASE From(s, give, 0, i)
    BY <1>11, <2>1 DEF From
  <2>2. CASE From(s, retire, ng, i)
    BY <1>7, <1>12, <2>2 DEF From
  <2>3. CASE From(s, dep.scale, nr, i)
    BY <1>13, <2>3 DEF From
  <2> QED BY <1>9, <2>1, <2>2, <2>3
<1>15. ASSUME NEW i \in 1..Len(s), NEW j \in 1..Len(s), i < j, s[i].of = s[j].of
       PROVE  s[j].to <= s[i].to
  <2> HIDE DEF s
  <2>1. CASE From(s, give, 0, i)
    <3>1. i - 0 \in 1..Len(give) /\ s[i] = give[i - 0]
      BY <2>1 DEF From
    <3>2. CASE From(s, give, 0, j)
      <4>1. j - 0 \in 1..Len(give) /\ s[j] = give[j - 0] /\ i - 0 < j - 0
        BY <1>15, <1>9, <3>2 DEF From
      <4> QED BY <1>3, <1>15, <3>1, <4>1
    <3>3. CASE From(s, retire, ng, j)
      <4>1. s[j].to = 0
        BY <1>12, <3>3 DEF From
      <4> QED BY <1>11, <3>1, <4>1
    <3>4. CASE From(s, dep.scale, nr, j)
      BY <1>11, <1>13, <1>15, <3>1, <3>4 DEF From
    <3> QED BY <1>9, <3>2, <3>3, <3>4
  <2>2. CASE From(s, retire, ng, i)
    <3>1. i - ng \in 1..Len(retire) /\ s[i] = retire[i - ng]
      BY <2>2 DEF From
    <3>2. CASE From(s, give, 0, j)
      <4>1. j - 0 \in 1..Len(give)
        BY <3>2 DEF From
      <4>2. i \in Int /\ j \in Int
        BY <1>9
      <4> QED BY <1>8, <1>15, <3>1, <4>1, <4>2
    <3>3. CASE From(s, retire, ng, j)
      BY <1>12, <3>1, <3>3 DEF From
    <3>4. CASE From(s, dep.scale, nr, j)
      BY <1>12, <1>13, <1>15, <3>1, <3>4 DEF From
    <3> QED BY <1>9, <3>2, <3>3, <3>4
  <2>3. CASE From(s, dep.scale, nr, i)
    <3>1. i - nr \in 1..Len(dep.scale) /\ s[i] = dep.scale[i - nr]
      BY <2>3 DEF From
    <3>2. i \in Int /\ j \in Int /\ nr \in Int
      BY <1>8, <1>9
    <3>3. CASE From(s, dep.scale, nr, j)
      <4>1. j - nr \in 1..Len(dep.scale) /\ s[j] = dep.scale[j - nr] /\ i - nr < j - nr
        BY <1>15, <3>2, <3>3 DEF From
      <4> HIDE DEF nr
      <4> QED BY <1>6, <1>15, <3>1, <4>1 DEF ScaleInv
    <3>4. CASE From(s, give, 0, j) \/ From(s, retire, ng, j)
      <4>1. j - 0 \in 1..Len(give) \/ j - ng \in 1..Len(retire)
        BY <3>4 DEF From
      <4> QED BY <1>8, <1>15, <3>1, <3>2, <4>1
    <3> QED BY <1>9, <3>3, <3>4
  <2> QED BY <1>9, <2>1, <2>2, <2>3
<1>16. ScaleInv'
  BY <1>2, <1>14, <1>15 DEF ScaleInv
<1> QED BY <1>1, <1>5, <1>16 DEF Base

(* A write lowers replicas, and those after it lower them further.          *)
LEMMA ScaleBase == Base /\ Scale => Base'
<1> SUFFICES ASSUME Base, Scale PROVE Base'
  OBVIOUS
<1>1. TypeOK /\ Typed' /\ ScaleInv /\ KnownInv
  BY ScaleTyped DEF Base, Typed
<1>2. dpc = "scale" /\ UNCHANGED <<dpc, revision, rpc, rs>>
  BY DEF Scale, replicator
<1>3. /\ Len(dep.scale) \in Nat /\ Len(dep.scale) > 0
      /\ dep.scale[1] \in Item
      /\ replicas' = [replicas EXCEPT ![dep.scale[1].of] = dep.scale[1].to]
      /\ dep' = [dep EXCEPT !.scale = Tail(@)]
      /\ dep'.scale \in Seq(Item)
      /\ Len(dep'.scale) = Len(dep.scale) - 1
      /\ \A i \in 1..Len(dep'.scale) : dep'.scale[i] = dep.scale[i + 1]
  BY <1>1, ScaleShape
<1>4. dep'.spec = dep.spec /\ replicas \in [Template -> Nat] /\ dep.scale \in Seq(Item)
  BY <1>1, <1>3 DEF TypeOK, Item
<1> DEFINE of == dep.scale[1].of
           to == dep.scale[1].to
<1>5. of \in Template /\ to \in Nat /\ to <= replicas[of]
  BY <1>1, <1>3 DEF Item, ScaleInv
<1>6. KnownInv'
  <2>1. \A t \in Template : replicas[t] = 0 => replicas'[t] = 0
    BY <1>3, <1>4, <1>5
  <2> QED BY <1>1, <1>2, <1>4, <2>1 DEF KnownInv, Known, Target
<1>7. ScaleInv'
  <2>1. \A i \in 1..Len(dep'.scale) : i + 1 \in 1..Len(dep.scale) /\ i + 1 > 1 /\ 1 \in 1..Len(dep.scale)
    BY <1>3
  <2>2. ASSUME NEW i \in 1..Len(dep'.scale)
        PROVE  dep'.scale[i].to <= replicas'[dep'.scale[i].of]
    <3>1. dep'.scale[i] = dep.scale[i + 1] /\ dep.scale[i + 1] \in Item
      BY <1>3, <1>4, <2>1, ElementOfSeq
    <3>2. CASE dep.scale[i + 1].of = of
      <4>1. dep.scale[i + 1].to <= to
        BY <1>1, <2>1, <3>2 DEF ScaleInv
      <4> QED BY <1>3, <1>4, <1>5, <3>1, <3>2, <4>1 DEF Item
    <3>3. CASE dep.scale[i + 1].of # of
      <4>1. dep.scale[i + 1].to <= replicas[dep.scale[i + 1].of]
        BY <1>1, <2>1 DEF ScaleInv
      <4> QED BY <1>3, <1>4, <3>1, <3>3, <4>1 DEF Item
    <3> QED BY <3>2, <3>3
  <2>3. ASSUME NEW i \in 1..Len(dep'.scale), NEW j \in 1..Len(dep'.scale), i < j,
               dep'.scale[i].of = dep'.scale[j].of
        PROVE  dep'.scale[j].to <= dep'.scale[i].to
    <3>1. dep'.scale[i] = dep.scale[i + 1] /\ dep'.scale[j] = dep.scale[j + 1] /\ i + 1 < j + 1
      BY <1>3, <2>3
    <3> QED BY <1>1, <2>1, <2>3, <3>1 DEF ScaleInv
  <2> QED BY <1>2, <2>2, <2>3 DEF ScaleInv
<1> QED BY <1>1, <1>6, <1>7 DEF Base

(* The pass ends with nothing left to write.                                *)
LEMMA StatusBase == Base /\ WriteStatus => Base'
<1> SUFFICES ASSUME Base, WriteStatus PROVE Base'
  OBVIOUS
<1>1. dpc' = "idle" /\ dep'.scale = <<>> /\ UNCHANGED <<replicas, revision, rpc, rs>>
  BY DEF WriteStatus, NoPass, sets, replicator
<1>2. Len(dep'.scale) = 0
  BY <1>1
<1>3. ScaleInv' /\ KnownInv'
  BY <1>1, <1>2 DEF Base, KnownInv, ScaleInv, Known
<1> QED BY <1>3, StatusTyped DEF Base

(* Nobody but the deployment worker writes ReplicaSets.                     *)
LEMMA OthersBase ==
  ASSUME Base, \/ \E t \in Template : GetReplicaSet(t)
               \/ ListPods \/ PodStep
               \/ \E p \in Pod : BecomeReady(p) \/ Fault(p)
               \/ \E s \in [template: Template, desired: Size] : Edit(s)
               \/ Rollback
  PROVE  Base'
<1>1. UNCHANGED <<replicas, revision, dpc, dep>>
  BY DEF GetReplicaSet, ListPods, PodStep, CreatePod, DeletePod, BecomeReady, Fault, Rollback, Edit,
         sets, deployer
<1>2. ScaleInv' /\ Known' = Known /\ Target' = Target
  BY <1>1 DEF Base, ScaleInv, Known, Target
<1>3. rpc' # "idle" => rs'.of \in Known
  <2>1. rpc # "idle" => rs.of \in Known
    BY DEF Base, KnownInv
  <2>2. rs \in [of: Template, want: Nat, create: Nat, doomed: SUBSET Pod]
    BY DEF Base, Typed, TypeOK
  <2>3. CASE \E t \in Template : GetReplicaSet(t)
    BY <2>3 DEF GetReplicaSet, NoWork
  <2>4. CASE ListPods
    <3>1. rpc = "list" /\ (rpc' = "idle" \/ rs'.of = rs.of)
      BY <2>2, <2>4 DEF ListPods
    <3> QED BY <2>1, <3>1
  <2>5. CASE CreatePod
    <3>1. rpc = "create" /\ (rpc' = "idle" \/ rs'.of = rs.of)
      BY <2>2, <2>5 DEF CreatePod
    <3> QED BY <2>1, <3>1
  <2>6. CASE \E p \in Pod : DeletePod(p)
    <3>1. rpc = "delete" /\ (rpc' = "idle" \/ rs'.of = rs.of)
      BY <2>2, <2>6 DEF DeletePod
    <3> QED BY <2>1, <3>1
  <2>7. CASE \/ \E p \in Pod : BecomeReady(p) \/ Fault(p)
             \/ \E s \in [template: Template, desired: Size] : Edit(s)
             \/ Rollback
    <3>1. UNCHANGED <<rpc, rs>>
      BY <2>7 DEF BecomeReady, Fault, Edit, Rollback, replicator
    <3> QED BY <2>1, <3>1
  <2> QED BY <2>3, <2>4, <2>5, <2>6, <2>7 DEF PodStep
<1>4. Typed'
  BY NextTyped DEF Base, Next
<1> QED BY <1>1, <1>2, <1>3, <1>4 DEF Base, KnownInv

(* All of it holds after every step.                                        *)
LEMMA NextBase == Base /\ [Next]_vars => Base'
<1> SUFFICES ASSUME Base, [Next]_vars PROVE Base'
  OBVIOUS
<1>1. CASE UNCHANGED vars
  <2>1. Typed'
    BY NextTyped DEF Base
  <2> QED BY <1>1, <2>1 DEF vars, sets, deployer, replicator, Base, KnownInv, ScaleInv, Known, Target
<1>2. CASE DeploymentStep
  BY <1>2, StartBase, CountBase, ScaleUpBase, PlanBase, ScaleBase, StatusBase DEF DeploymentStep
<1>3. CASE ~ DeploymentStep /\ Next
  BY <1>3, OthersBase DEF Next
<1> QED BY <1>1, <1>2, <1>3

(* What is asked for in all never exceeds the largest size and maxSurge.    *)
LEMMA SurgeKeeps == Base /\ SurgeBounded /\ [Next]_vars => SurgeBounded'
<1> SUFFICES ASSUME Base, SurgeBounded, [Next]_vars PROVE SurgeBounded'
  OBVIOUS
<1>1. TypeOK /\ TypeOK' /\ replicas \in [Template -> Nat] /\ replicas' \in [Template -> Nat]
  BY NextTyped DEF Base, Typed, TypeOK
<1>2. /\ SumFunction(replicas) = SumFunctionOnSet(replicas, Template)
      /\ SumFunction(replicas') = SumFunctionOnSet(replicas', Template)
  BY <1>1 DEF SumFunction
<1>3. Template \in SUBSET Template /\ IsFiniteSet(Template)
  BY TemplateAssumption
<1>4. SumFunctionOnSet(replicas, Template) \in Nat /\ SumFunctionOnSet(replicas', Template) \in Nat
  BY <1>1, <1>3, SumType
<1>5. CASE ScaleUp
  <2>1. PICK n \in Nat : /\ replicas' = [replicas EXCEPT ![Target] = @ + n]
                         /\ n = 0 \/ (n <= Room /\ replicas[Target] + n <= dep.spec.desired)
    BY <1>1, <1>5, ScaleUpShape
  <2>2. Target \in Template /\ dep.spec.desired \in Size /\ dep.spec.desired \in Nat
    BY <1>1, SizeAssumption DEF TypeOK, Target
  <2>3. SumFunctionOnSet(replicas', Template) = SumFunctionOnSet(replicas, Template) + n
    <3>1. /\ SumFunctionOnSet(replicas, Template) = replicas[Target] + SumFunctionOnSet(replicas, Template \ {Target})
          /\ SumFunctionOnSet(replicas', Template) = replicas'[Target] + SumFunctionOnSet(replicas', Template \ {Target})
      BY <1>1, <1>3, <2>2, SumRemove
    <3> DEFINE rest == Template \ {Target}
    <3>2. rest \in SUBSET Template /\ IsFiniteSet(rest) /\ \A t \in rest : replicas'[t] = replicas[t]
      BY <1>1, <1>3, <2>1, FS_RemoveElement
    <3> HIDE DEF rest
    <3>3. SumFunctionOnSet(replicas', rest) = SumFunctionOnSet(replicas, rest)
          /\ SumFunctionOnSet(replicas, rest) \in Nat
      BY <1>1, <3>2, SumSame, SumType
    <3>4. replicas'[Target] = replicas[Target] + n /\ replicas[Target] \in Nat
      BY <1>1, <2>1, <2>2
    <3> QED BY <3>1, <3>3, <3>4 DEF rest
  <2>4. CASE n = 0
    BY <1>2, <1>4, <2>3, <2>4 DEF SurgeBounded
  <2>5. CASE n # 0
    <3>1. SumFunctionOnSet(replicas, Template) = SumFunctionOnSet(replicas, Known)
      BY <1>1, KnownFinite, SumSupport DEF Base, KnownInv
    <3>2. n <= dep.spec.desired + MaxSurge - SumFunctionOnSet(replicas, Template)
      BY <2>1, <2>5, <3>1 DEF Room
    <3>3. dep.spec.desired <= Max(Size) /\ Max(Size) \in Nat /\ MaxSurge \in Nat
      BY <2>2, SizeAssumption, BoundAssumption, MaxOfFinite
    <3> QED BY <1>2, <1>4, <2>2, <2>3, <3>2, <3>3 DEF SurgeBounded
  <2> QED BY <2>4, <2>5
<1>6. CASE Scale
  <2>1. /\ Len(dep.scale) \in Nat /\ Len(dep.scale) > 0 /\ dep.scale[1] \in Item
        /\ replicas' = [replicas EXCEPT ![dep.scale[1].of] = dep.scale[1].to]
    BY <1>1, <1>6, ScaleShape
  <2>2. dep.scale[1].to <= replicas[dep.scale[1].of]
    BY <2>1 DEF Base, ScaleInv
  <2>3. \A t \in Template : replicas'[t] <= replicas[t]
    BY <1>1, <2>1, <2>2 DEF Item
  <2>4. SumFunctionOnSet(replicas', Template) <= SumFunctionOnSet(replicas, Template)
    BY <1>1, <1>3, <2>3, SumMonotone
  <2>5. Max(Size) \in Nat /\ MaxSurge \in Nat
    <3>1. Size # {}
      BY StartAssumption
    <3> QED BY <3>1, SizeAssumption, BoundAssumption, MaxOfFinite
  <2> QED BY <1>2, <1>4, <2>4, <2>5 DEF SurgeBounded
<1>7. CASE ~ ScaleUp /\ ~ Scale
  <2>1. replicas' = replicas
    BY <1>7 DEF Next, DeploymentStep, StartPass, CountPods, PlanScaleDown, WriteStatus, GetReplicaSet,
                ListPods, PodStep, CreatePod, DeletePod, Edit, Rollback, BecomeReady, Fault, vars, sets
  <2> QED BY <2>1 DEF SurgeBounded
<1> QED BY <1>5, <1>6, <1>7

(* At first what is asked for is one of the sizes.                          *)
LEMMA InitSurge == Init => SurgeBounded
<1> SUFFICES ASSUME Init PROVE SurgeBounded
  OBVIOUS
<1>1. Start.template \in Template /\ Start.desired \in Size /\ Start.desired \in Nat
  BY StartAssumption, SizeAssumption
<1>2. replicas \in [Template -> Nat] /\ replicas[Start.template] = Start.desired
      /\ \A t \in Template \ {Start.template} : replicas[t] = 0
  BY <1>1 DEF Init
<1>3. SumFunctionOnSet(replicas, Template) = SumFunctionOnSet(replicas, {Start.template})
  BY <1>1, <1>2, TemplateAssumption, SumSupport
<1>4. SumFunctionOnSet(replicas, {Start.template}) = replicas[Start.template] + SumFunctionOnSet(replicas, {})
  <2>1. {Start.template} \in SUBSET Template /\ IsFiniteSet({Start.template})
        /\ {Start.template} \ {Start.template} = {}
    BY <1>1, FS_Singleton
  <2>2. SumFunctionOnSet(replicas, {Start.template})
          = replicas[Start.template] + SumFunctionOnSet(replicas, {Start.template} \ {Start.template})
    BY <1>2, <2>1, SumRemove
  <2> QED BY <2>1, <2>2
<1>5. SumFunctionOnSet(replicas, {}) = 0
  BY <1>2, SumEmpty
<1>6. Start.desired <= Max(Size) /\ Max(Size) \in Nat /\ MaxSurge \in Nat
  BY <1>1, SizeAssumption, BoundAssumption, MaxOfFinite
<1>7. SumFunction(replicas) = Start.desired
  BY <1>1, <1>2, <1>3, <1>4, <1>5 DEF SumFunction
<1> QED BY <1>1, <1>6, <1>7 DEF SurgeBounded

(* The replicas requested in all never exceed the largest size by more than *)
(* maxSurge, for any number of templates, edits and faults, and however the *)
(* passes interleave with the pods they wait for (workloads.py:191-211).    *)
THEOREM SurgeIsBounded == Spec => []SurgeBounded
<1> QED BY InitBase, InitSurge, NextBase, SurgeKeeps, PTL DEF Spec

-----------------------------------------------------------------------------
(* The rollout of one edit without faults.                                  *)

First == Start.template
Low   == Min({Floor(spec), Floor(Start)})

(* What the first ReplicaSet may not go below.                              *)
Kept == IF spec.template = First THEN spec.desired ELSE Low - Cardinality(Ready(spec.template))

(* What is rolled out at first is what every pass finds until the edit, and *)
(* what a pass that has not seen the edit leaves as it was.                 *)
Unseen == edits = 0 \/ (dpc # "idle" /\ dep.spec = Start)

UnseenInv ==
    /\ edits = 0 <=> spec = Start
    /\ dep.spec \in {Start, spec}
    /\ Unseen => /\ replicas = [t \in Template |-> IF t = First THEN Start.desired ELSE 0]
                 /\ Known = {First}
                 /\ dep.scale = <<>>
    /\ First \in Known /\ Known \subseteq {First, spec.template}
    /\ \A t \in Template \ Known : Alive(t) = {}

(* A ReplicaSet that only grows: none of its pods is chosen to be deleted.  *)
Grows(t) ==
    /\ Cardinality(Alive(t)) <= replicas[t]
    /\ rs.of = t /\ rpc = "list" => Cardinality(Alive(t)) <= rs.want /\ rs.want <= replicas[t]
    /\ rs.of = t /\ rpc = "create" => Cardinality(Alive(t)) + rs.create <= replicas[t]
    /\ rs.of = t => rpc # "delete"

(* One that only shrinks: all its pods are ready, and those that are not    *)
(* chosen to be deleted are as many as it asks for.                         *)
Drains(t) ==
    /\ Alive(t) = Ready(t)
    /\ replicas[t] <= Cardinality(Alive(t))
    /\ rs.of = t /\ rpc = "list" => rs.want <= Cardinality(Alive(t)) /\ replicas[t] <= rs.want
    /\ rs.of = t => rpc # "create"
    /\ rs.of = t /\ rpc = "delete" =>
          rs.doomed \subseteq Alive(t) /\ replicas[t] <= Cardinality(Alive(t) \ rs.doomed)

(* The ReplicaSet of the new template, or the first one when more is asked  *)
(* of it.                                                                   *)
RiseInv ==
    spec.template # First \/ spec.desired >= Start.desired =>
        /\ Grows(spec.template)
        /\ replicas[spec.template] <= spec.desired
        /\ \A i \in 1..Len(dep.scale) : dep.scale[i].of # spec.template
        /\ spec.template = First => Start.desired <= Cardinality(Ready(First))

(* The ReplicaSet of the first template otherwise: what it asks for, now    *)
(* and after each write that is still to come, makes up the floor together  *)
(* with the new pods that are ready.                                        *)
FallInv ==
    spec.template # First \/ spec.desired <= Start.desired =>
        /\ Drains(First)
        /\ Kept <= replicas[First]
        /\ \A i \in 1..Len(dep.scale) : dep.scale[i].of = First => Kept <= dep.scale[i].to
        /\ spec.template # First /\ dep.enough /\ dep.spec = spec =>
              spec.desired <= Cardinality(Ready(spec.template))

-----------------------------------------------------------------------------
(* What the steps on pods do to a ReplicaSet *)

(* A pod that is created is not ready, and is of one ReplicaSet.            *)
LEMMA CreateEffect ==
  ASSUME TypeOK, CreatePod, UNCHANGED faults, rs.of \in Template
  PROVE  /\ \A t \in Template \ {rs.of} : Alive(t)' = Alive(t)
         /\ \A t \in Template : Ready(t)' = Ready(t)
         /\ \A t \in Template : t = rs.of => Cardinality(Alive(t)') = Cardinality(Alive(t)) + 1
<1> DEFINE p == Min(Alive(None))
<1>0. /\ Alive(None) # {}
      /\ pod' = [pod EXCEPT ![Min(Alive(None))] = [owner |-> rs.of, ready |-> FALSE]]
  BY DEF TypeOK, CreatePod
<1>1. p \in Pod /\ pod[p].owner = None
  <2>1. p \in Alive(None) /\ Alive(None) \subseteq Pod
    BY <1>0, PodsFinite, MinOfPods
  <2> HIDE DEF p
  <2> QED BY <2>1 DEF Alive
<1>2. pod \in [Pod -> [owner: Template \cup {None}, ready: BOOLEAN]]
      /\ pod' = [pod EXCEPT ![p] = [owner |-> rs.of, ready |-> FALSE]]
  BY <1>0 DEF TypeOK
<1> HIDE DEF p
<1>3. pod'[p] = [owner |-> rs.of, ready |-> FALSE] /\ \A q \in Pod \ {p} : pod'[q] = pod[q]
  BY <1>1, <1>2
<1>4. \A t \in Template : p \notin Alive(t)
  BY <1>1, TemplateAssumption DEF Alive
<1>5. \A t \in Template \ {rs.of} : Alive(t)' = Alive(t)
  BY <1>1, <1>3, <1>4 DEF Alive
<1>6. \A t \in Template : t = rs.of => Alive(t)' = Alive(t) \cup {p}
  BY <1>1, <1>3, <1>4 DEF Alive
<1>7. ASSUME NEW t \in Template PROVE Ready(t)' = Ready(t)
  <2>1. \A q \in Pod : /\ q \in Ready(t)  <=> pod[q].owner = t /\ pod[q].ready
                       /\ q \in Ready(t)' <=> pod'[q].owner = t /\ pod'[q].ready
    BY DEF Ready, Alive
  <2>2. Ready(t) \subseteq Pod /\ Ready(t)' \subseteq Pod
    BY DEF Ready, Alive
  <2>3. pod[p].owner # t /\ ~ pod'[p].ready
    BY <1>1, <1>3, TemplateAssumption
  <2> QED BY <1>1, <1>3, <2>1, <2>2, <2>3
<1>8. \A t \in Template : t = rs.of => Cardinality(Alive(t)') = Cardinality(Alive(t)) + 1
  BY <1>4, <1>6, PodsFinite, FS_AddElement
<1> QED BY <1>5, <1>7, <1>8

(* A pod that is deleted is of no ReplicaSet any more.                      *)
LEMMA DeleteEffect ==
  ASSUME TypeOK, NEW p \in Pod, DeletePod(p)
  PROVE  \A t \in Template : /\ Alive(t)' = Alive(t) \ {p}
                             /\ Ready(t)' = Ready(t) \ {p}
<1>1. pod \in [Pod -> [owner: Template \cup {None}, ready: BOOLEAN]] /\ pod' = [pod EXCEPT ![p] = NoPod]
  BY DEF TypeOK, DeletePod
<1>2. pod'[p].owner = None /\ \A q \in Pod \ {p} : pod'[q] = pod[q]
  BY <1>1 DEF NoPod
<1>3. \A t \in Template : Alive(t)' = Alive(t) \ {p}
  BY <1>1, <1>2, TemplateAssumption DEF Alive
<1> QED BY <1>2, <1>3 DEF Ready, Alive

(* A pod that becomes ready stays where it is.                              *)
LEMMA ReadyEffect ==
  ASSUME TypeOK, NEW p \in Pod, BecomeReady(p)
  PROVE  \A t \in Template : Alive(t)' = Alive(t) /\ Ready(t) \subseteq Ready(t)'
<1>1. pod \in [Pod -> [owner: Template \cup {None}, ready: BOOLEAN]] /\ pod' = [pod EXCEPT ![p].ready = TRUE]
  BY DEF TypeOK, BecomeReady
<1>2. \A q \in Pod : pod'[q].owner = pod[q].owner /\ (pod[q].ready => pod'[q].ready)
  BY <1>1
<1>3. \A t \in Template : Alive(t)' = Alive(t)
  BY <1>2 DEF Alive
<1>4. ASSUME NEW t \in Template PROVE Ready(t) \subseteq Ready(t)'
  <2>1. \A q \in Pod : /\ q \in Ready(t)  <=> pod[q].owner = t /\ pod[q].ready
                       /\ q \in Ready(t)' <=> pod'[q].owner = t /\ pod'[q].ready
    BY DEF Ready, Alive
  <2>2. Ready(t) \subseteq Pod
    BY DEF Ready, Alive
  <2> QED BY <1>2, <2>1, <2>2
<1> QED BY <1>3, <1>4

(* As long as no pod changes, no ReplicaSet gains or loses one.             *)
LEMMA SamePods ==
  ASSUME pod' = pod
  PROVE  \A t \in Template : Alive(t)' = Alive(t) /\ Ready(t)' = Ready(t)
BY DEF Alive, Ready

(* A ReplicaSet that only grows goes on doing so, whatever its worker does  *)
(* (workloads.py:29-104), and loses no pod that is ready.                   *)
LEMMA GrowsStep ==
  ASSUME TypeOK, CreateInv, NEW t \in Template, Grows(t), rpc # "idle" => rs.of \in Template,
         \/ \E u \in Template : GetReplicaSet(u)
         \/ ListPods \/ (CreatePod /\ UNCHANGED faults)
         \/ \E p \in Pod : DeletePod(p) /\ p \notin Alive(t)
         \/ \E p \in Pod : BecomeReady(p)
  PROVE  Grows(t)' /\ Ready(t) \subseteq Ready(t)'
<1>1. rs \in [of: Template, want: Nat, create: Nat, doomed: SUBSET Pod] /\ replicas[t] \in Nat
      /\ Cardinality(Alive(t)) \in Nat
  BY PodsFinite DEF TypeOK
<1>2. replicas'[t] = replicas[t]
  BY DEF GetReplicaSet, ListPods, CreatePod, DeletePod, BecomeReady, sets
<1>3. CASE \E u \in Template : GetReplicaSet(u)
  <2>1. PICK u \in Template : GetReplicaSet(u)
    BY <1>3
  <2>2. rs'.of = u /\ rs'.want = replicas[u] /\ rpc' = "list" /\ pod' = pod
    BY <2>1 DEF GetReplicaSet, NoWork
  <2> QED BY <1>1, <1>2, <2>2, SamePods DEF Grows
<1>4. CASE ListPods
  <2>1. rpc = "list" /\ pod' = pod
    BY <1>4 DEF ListPods
  <2>2. Alive(t)' = Alive(t) /\ Ready(t)' = Ready(t)
    BY <2>1, SamePods
  <2>3. CASE rs.of # t
    <3>1. rpc' = "idle" \/ rs'.of = rs.of
      BY <1>1, <1>4 DEF ListPods
    <3>2. rpc' # "list"
      BY <1>4 DEF ListPods
    <3> QED BY <1>2, <2>2, <2>3, <3>1, <3>2 DEF Grows
  <2>4. CASE rs.of = t
    <3>1. Cardinality(Alive(t)) <= rs.want /\ rs.want <= replicas[t] /\ rs.want \in Nat
      BY <1>1, <2>1, <2>4 DEF Grows
    <3>2. \/ rs' = [rs EXCEPT !.create = rs.want - Cardinality(Alive(t))] /\ rpc' = "create"
          \/ rpc' = "idle"
      BY <1>1, <1>4, <2>4, <3>1 DEF ListPods
    <3>3. rpc' = "create" => rs'.create = rs.want - Cardinality(Alive(t))
      BY <1>1, <3>2
    <3>4. rpc' = "create" => Cardinality(Alive(t)) + rs'.create <= replicas[t]
      BY <1>1, <3>1, <3>3
    <3> QED BY <1>2, <2>2, <3>2, <3>4 DEF Grows
  <2> QED BY <2>3, <2>4
<1>5. CASE CreatePod /\ UNCHANGED faults
  <2>1. rpc = "create" /\ rs.of \in Template /\ rs.create > 0
    BY <1>5 DEF CreatePod, CreateInv
  <2>2. Ready(t)' = Ready(t)
    BY <1>5, <2>1, CreateEffect
  <2>3. rpc' = "idle" \/ (rpc' = "create" /\ rs'.of = rs.of /\ rs'.create = rs.create - 1)
    BY <1>1, <1>5, <2>1 DEF CreatePod
  <2>4. CASE rs.of # t
    <3>1. Alive(t)' = Alive(t)
      BY <1>5, <2>1, <2>4, CreateEffect
    <3> QED BY <1>2, <2>2, <2>3, <2>4, <3>1 DEF Grows
  <2>5. CASE rs.of = t
    <3>1. Cardinality(Alive(t)') = Cardinality(Alive(t)) + 1
      BY <1>5, <2>1, <2>5, CreateEffect
    <3>2. Cardinality(Alive(t)) + rs.create <= replicas[t] /\ rs.create \in Nat
      BY <1>1, <2>1, <2>5 DEF Grows
    <3>3. Cardinality(Alive(t)') <= replicas[t]
      BY <1>1, <2>1, <3>1, <3>2
    <3>4. rpc' = "create" => Cardinality(Alive(t)') + rs'.create <= replicas[t]
      BY <1>1, <2>1, <2>3, <3>1, <3>2
    <3> QED BY <1>2, <2>2, <2>3, <3>3, <3>4 DEF Grows
  <2> QED BY <2>4, <2>5
<1>6. CASE \E p \in Pod : DeletePod(p) /\ p \notin Alive(t)
  <2>1. PICK p \in Pod : DeletePod(p) /\ p \notin Alive(t)
    BY <1>6
  <2>2. Alive(t)' = Alive(t) /\ Ready(t)' = Ready(t)
    <3>1. Alive(t)' = Alive(t) \ {p} /\ Ready(t)' = Ready(t) \ {p}
      BY <2>1, DeleteEffect
    <3>2. p \notin Alive(t) /\ p \notin Ready(t)
      BY <2>1 DEF Ready
    <3> QED BY <3>1, <3>2
  <2>3. rpc = "delete" /\ (rpc' = "idle" \/ (rpc' = "delete" /\ rs'.of = rs.of))
    BY <1>1, <2>1 DEF DeletePod
  <2> QED BY <1>2, <2>2, <2>3 DEF Grows
<1>7. CASE \E p \in Pod : BecomeReady(p)
  <2>1. PICK p \in Pod : BecomeReady(p)
    BY <1>7
  <2>2. UNCHANGED <<rpc, rs>>
    BY <2>1 DEF BecomeReady, replicator
  <2> QED BY <1>2, <2>1, <2>2, ReadyEffect DEF Grows
<1> QED BY <1>3, <1>4, <1>5, <1>6, <1>7

(* One that only shrinks goes on doing so: its worker deletes no more pods  *)
(* than the ReplicaSet asked for fewer when it was read.                    *)
LEMMA DrainsStep ==
  ASSUME TypeOK, NEW t \in Template, Drains(t), rpc # "idle" => rs.of \in Template,
         \/ \E u \in Template : GetReplicaSet(u)
         \/ ListPods \/ (CreatePod /\ UNCHANGED faults)
         \/ \E p \in Pod : DeletePod(p) /\ rs.of = t
         \/ \E p \in Pod : BecomeReady(p)
  PROVE  Drains(t)'
<1>1. rs \in [of: Template, want: Nat, create: Nat, doomed: SUBSET Pod] /\ replicas[t] \in Nat
      /\ Cardinality(Alive(t)) \in Nat /\ IsFiniteSet(Alive(t))
  BY PodsFinite DEF TypeOK
<1>2. replicas'[t] = replicas[t]
  BY DEF GetReplicaSet, ListPods, CreatePod, DeletePod, BecomeReady, sets
<1>3. CASE \E u \in Template : GetReplicaSet(u)
  <2>1. PICK u \in Template : GetReplicaSet(u)
    BY <1>3
  <2>2. rs'.of = u /\ rs'.want = replicas[u] /\ rpc' = "list" /\ pod' = pod
    BY <2>1 DEF GetReplicaSet, NoWork
  <2> QED BY <1>1, <1>2, <2>2, SamePods DEF Drains
<1>4. CASE ListPods
  <2>1. rpc = "list" /\ pod' = pod
    BY <1>4 DEF ListPods
  <2>2. Alive(t)' = Alive(t) /\ Ready(t)' = Ready(t)
    BY <2>1, SamePods
  <2>3. CASE rs.of # t
    <3>1. rpc' = "idle" \/ rs'.of = rs.of
      BY <1>1, <1>4 DEF ListPods
    <3>2. rpc' # "list"
      BY <1>4 DEF ListPods
    <3> QED BY <1>2, <2>2, <2>3, <3>1, <3>2 DEF Drains
  <2>4. CASE rs.of = t
    <3>1. rs.want <= Cardinality(Alive(t)) /\ replicas[t] <= rs.want /\ rs.want \in Nat
      BY <1>1, <2>1, <2>4 DEF Drains
    <3>2. \/ rpc' = "idle"
          \/ /\ rpc' = "delete"
             /\ \E S \in SUBSET Alive(t) : /\ Cardinality(S) = Cardinality(Alive(t)) - rs.want
                                           /\ rs' = [rs EXCEPT !.doomed = S]
      BY <1>1, <1>4, <2>4, <3>1 DEF ListPods, Surplus
    <3>3. ASSUME NEW S \in SUBSET Alive(t), Cardinality(S) = Cardinality(Alive(t)) - rs.want,
                 rs' = [rs EXCEPT !.doomed = S]
          PROVE  rs'.doomed \subseteq Alive(t) /\ replicas[t] <= Cardinality(Alive(t) \ rs'.doomed)
      <4>1. rs'.doomed = S /\ Alive(t) \cap S = S
        BY <1>1, <3>3
      <4>2. Cardinality(Alive(t) \ S) = Cardinality(Alive(t)) - Cardinality(S)
        <5>1. Cardinality(Alive(t) \ S) = Cardinality(Alive(t)) - Cardinality(Alive(t) \cap S)
          BY <1>1, FS_Difference
        <5> QED BY <4>1, <5>1
      <4>3. Cardinality(Alive(t) \ S) = rs.want
        BY <1>1, <3>1, <3>3, <4>2
      <4> QED BY <3>1, <4>1, <4>3
    <3>4. rpc' = "delete" => rs'.doomed \subseteq Alive(t) /\ replicas[t] <= Cardinality(Alive(t) \ rs'.doomed)
      BY <3>2, <3>3
    <3>5. rpc' \in {"idle", "delete"}
      BY <3>2
    <3> QED BY <1>2, <2>2, <3>4, <3>5 DEF Drains
  <2> QED BY <2>3, <2>4
<1>5. CASE CreatePod /\ UNCHANGED faults
  <2>1. rpc = "create" /\ rs.of \in Template /\ rs.of # t
    BY <1>5 DEF CreatePod, Drains
  <2>2. Ready(t)' = Ready(t) /\ Alive(t)' = Alive(t)
    BY <1>5, <2>1, CreateEffect
  <2>3. rpc' = "idle" \/ (rpc' = "create" /\ rs'.of = rs.of)
    BY <1>1, <1>5, <2>1 DEF CreatePod
  <2> QED BY <1>2, <2>1, <2>2, <2>3 DEF Drains
<1>6. CASE \E p \in Pod : DeletePod(p) /\ rs.of = t
  <2>1. PICK p \in Pod : DeletePod(p) /\ rs.of = t
    BY <1>6
  <2>2. Alive(t)' = Alive(t) \ {p} /\ Ready(t)' = Ready(t) \ {p}
    BY <2>1, DeleteEffect
  <2>3. rpc = "delete" /\ p \in rs.doomed
    BY <2>1 DEF DeletePod
  <2>4. rs.doomed \subseteq Alive(t) /\ replicas[t] <= Cardinality(Alive(t) \ rs.doomed)
    BY <2>1, <2>3 DEF Drains
  <2>5. \/ rpc' = "idle" /\ rs.doomed = {p}
        \/ rpc' = "delete" /\ rs'.of = t /\ rs'.doomed = rs.doomed \ {p}
    BY <1>1, <2>1 DEF DeletePod
  <2>6. replicas[t] <= Cardinality(Alive(t) \ {p})
    <3>1. IsFiniteSet(Alive(t) \ {p}) /\ Cardinality(Alive(t) \ {p}) \in Nat
      BY <1>1, FS_RemoveElement, FS_CardinalityType
    <3>2. Alive(t) \ rs.doomed \in SUBSET (Alive(t) \ {p})
      BY <2>3
    <3>3. Cardinality(Alive(t) \ rs.doomed) <= Cardinality(Alive(t) \ {p})
          /\ Cardinality(Alive(t) \ rs.doomed) \in Nat
      BY <3>1, <3>2, FS_Subset, FS_CardinalityType
    <3> QED BY <1>1, <2>4, <3>1, <3>3
  <2>7. (Alive(t) \ {p}) \ (rs.doomed \ {p}) = Alive(t) \ rs.doomed
    BY <2>3
  <2>8. rpc' = "delete" => rs'.doomed \subseteq Alive(t)' /\ replicas[t] <= Cardinality(Alive(t)' \ rs'.doomed)
    BY <2>2, <2>4, <2>5, <2>7
  <2>9. Alive(t)' = Ready(t)'
    BY <2>2 DEF Drains
  <2> QED BY <1>2, <2>2, <2>5, <2>6, <2>8, <2>9 DEF Drains
<1>7. CASE \E p \in Pod : BecomeReady(p)
  <2>1. PICK p \in Pod : BecomeReady(p)
    BY <1>7
  <2>2. UNCHANGED <<rpc, rs>>
    BY <2>1 DEF BecomeReady, replicator
  <2>3. Alive(t)' = Alive(t) /\ Ready(t) \subseteq Ready(t)'
    BY <2>1, ReadyEffect
  <2>4. Ready(t)' \subseteq Alive(t)'
    BY DEF Ready
  <2>5. Alive(t)' = Ready(t)'
    BY <2>3, <2>4 DEF Drains
  <2> QED BY <1>2, <2>2, <2>3, <2>5 DEF Drains
<1> QED BY <1>3, <1>4, <1>5, <1>6, <1>7

-----------------------------------------------------------------------------
(* The floor *)

Rising  == spec.template # First \/ spec.desired >= Start.desired
Falling == spec.template # First \/ spec.desired <= Start.desired
Floored == UnseenInv /\ RiseInv /\ FallInv

(* The floor to be held is between zero and both sizes.                     *)
LEMMA FloorTypes ==
  ASSUME TypeOK
  PROVE  /\ First \in Template /\ Start.desired \in Nat
         /\ spec.template \in Template /\ spec.desired \in Nat
         /\ replicas \in [Template -> Nat] /\ dep.scale \in Seq(Item)
         /\ Low \in Nat /\ Low <= spec.desired /\ Low <= Start.desired
         /\ Low <= Floor(spec) /\ Low <= Floor(Start)
         /\ Kept \in Int
<1>1. /\ First \in Template /\ Start.desired \in Nat
      /\ spec.template \in Template /\ spec.desired \in Nat
      /\ replicas \in [Template -> Nat] /\ dep.scale \in Seq(Item)
  BY StartAssumption, SizeAssumption DEF TypeOK, First, Item
<1>2. /\ Floor(spec) \in Nat /\ Floor(spec) <= spec.desired
      /\ Floor(Start) \in Nat /\ Floor(Start) <= Start.desired
  BY StartAssumption, FloorType DEF TypeOK
<1>3. Low \in {Floor(spec), Floor(Start)} /\ Low <= Floor(spec) /\ Low <= Floor(Start)
  BY <1>2, MinOfTwo DEF Low
<1>4. Low \in Nat /\ Low <= spec.desired /\ Low <= Start.desired
  BY <1>1, <1>2, <1>3
<1>5. Kept \in Int
  BY <1>1, <1>4, PodsFinite DEF Kept
<1> QED BY <1>1, <1>3, <1>4, <1>5

(* What is there at first is above the floor.                               *)
LEMMA InitFloored == Init => Floored
<1> SUFFICES ASSUME Init PROVE Floored
  OBVIOUS
<1>1. TypeOK
  BY InitTyped DEF Typed
<1>2. /\ spec = Start /\ edits = 0 /\ rpc = "idle" /\ dep.spec = Start /\ dep.scale = <<>> /\ dep.enough = FALSE
      /\ Len(dep.scale) = 0
  BY DEF Init, NoPass
<1>3. First \in Template /\ Start.desired \in Nat /\ Start.desired <= MaxPods /\ MaxPods \in Nat
  BY <1>1, FloorTypes, StartAssumption, BoundAssumption
<1>4. replicas = [t \in Template |-> IF t = First THEN Start.desired ELSE 0]
      /\ replicas[First] = Start.desired
  BY <1>3 DEF Init, First
<1>5. Known = {First}
  BY <1>3 DEF Init, First, Known
<1>6. Alive(First) = 1..Start.desired /\ Ready(First) = Alive(First)
  <2>1. First # None
    BY <1>3, TemplateAssumption
  <2>2. \A p \in Pod : (pod[p].owner = First <=> p <= Start.desired) /\ (p <= Start.desired => pod[p].ready)
    BY <2>1 DEF Init, NoPod, First
  <2>3. Alive(First) = {p \in Pod : p <= Start.desired}
    BY <2>2 DEF Alive
  <2>4. {p \in Pod : p <= Start.desired} = 1..Start.desired
    BY <1>3 DEF Pod
  <2>5. Ready(First) = Alive(First)
    BY <2>2 DEF Ready, Alive
  <2> QED BY <2>3, <2>4, <2>5
<1>7. Cardinality(Alive(First)) = Start.desired /\ Cardinality(Ready(First)) = Start.desired
  BY <1>3, <1>6, FS_Interval
<1>8. \A t \in Template \ {First} : Alive(t) = {}
  BY TemplateAssumption DEF Init, Alive, NoPod, First
<1>9. UnseenInv
  BY <1>2, <1>4, <1>5, <1>8 DEF UnseenInv, Unseen
<1>10. Grows(First) /\ Drains(First)
  BY <1>2, <1>4, <1>6, <1>7, <1>3 DEF Grows, Drains
<1>11. spec.template = First
  BY <1>2 DEF First
<1>12. RiseInv
  BY <1>2, <1>3, <1>4, <1>7, <1>10, <1>11 DEF RiseInv
<1>13. FallInv
  BY <1>2, <1>3, <1>4, <1>7, <1>10, <1>11 DEF FallInv, Kept
<1> QED BY <1>9, <1>12, <1>13 DEF Floored

(* The same of the state after a step.                                      *)
LEMMA FloorTypesNext ==
  ASSUME TypeOK'
  PROVE  /\ spec'.template \in Template /\ spec'.desired \in Nat
         /\ Low' \in Nat /\ Low' <= spec'.desired /\ Low' <= Start.desired
         /\ Low' <= Floor(spec')
<1>1. spec' \in [template: Template, desired: Size]
  BY DEF TypeOK
<1>2. /\ Floor(spec') \in Nat /\ Floor(spec') <= spec'.desired
      /\ Floor(Start) \in Nat /\ Floor(Start) <= Start.desired
  BY <1>1, StartAssumption, FloorType
<1>3. Low' = Min({Floor(spec'), Floor(Start)})
  BY DEF Low
<1>4. Low' \in {Floor(spec'), Floor(Start)} /\ Low' <= Floor(spec') /\ Low' <= Floor(Start)
  BY <1>2, <1>3, MinOfTwo
<1>5. spec'.desired \in Nat /\ Start.desired \in Nat
  BY <1>1, StartAssumption, SizeAssumption
<1> QED BY <1>1, <1>2, <1>4, <1>5

(* What the first ReplicaSet may not go below after a step.                 *)
LEMMA KeptNext ==
  ASSUME NEW t, spec'.template = t
  PROVE  Kept' = IF t = First THEN spec'.desired ELSE Low' - Cardinality(Ready(t)')
BY DEF Kept, Ready, Alive

(* The edit: what is known of the first template so far is what both cases  *)
(* start from.                                                              *)
LEMMA EditFloored ==
  ASSUME Base, Floored, NEW s \in [template: Template, desired: Size], Edit(s), edits = 0
  PROVE  Floored'
<1>1. TypeOK /\ TypeOK' /\ KnownInv
  BY EditTyped DEF Base, Typed
<1>2. spec' = s /\ s # spec /\ edits' = 1
  BY DEF Edit
<1>3. UNCHANGED <<replicas, revision, pod, dpc, dep, rpc, rs>>
  BY DEF Edit, sets, deployer, replicator
<1>4. spec = Start /\ dep.spec = Start /\ spec.template = First
      /\ replicas = [t \in Template |-> IF t = First THEN Start.desired ELSE 0]
      /\ Known = {First} /\ dep.scale = <<>>
      /\ \A t \in Template \ Known : Alive(t) = {}
  BY DEF Floored, UnseenInv, Unseen, First
<1>5. /\ First \in Template /\ Start.desired \in Nat
      /\ s.template \in Template /\ s.desired \in Nat
      /\ Low' \in Nat /\ Low' <= Start.desired
  <2>1. /\ spec'.template \in Template /\ spec'.desired \in Nat
        /\ Low' \in Nat /\ Low' <= Start.desired
    BY <1>1, FloorTypesNext
  <2> QED BY <1>1, <1>2, <2>1, FloorTypes
<1>6. Grows(First) /\ Drains(First) /\ Start.desired <= Cardinality(Ready(First))
  BY <1>4, <1>5 DEF Floored, RiseInv, FallInv
<1>7. \A t \in Template : Alive(t)' = Alive(t) /\ Ready(t)' = Ready(t)
  BY <1>3, SamePods
<1>8. Known' = Known /\ Len(dep'.scale) = 0 /\ replicas'[First] = Start.desired
  BY <1>3, <1>4, <1>5 DEF Known
<1>9. Grows(First)' /\ Drains(First)'
  BY <1>3, <1>5, <1>6, <1>7 DEF Grows, Drains
<1>10. UnseenInv'
  BY <1>2, <1>3, <1>4, <1>7, <1>8 DEF UnseenInv, Unseen
<1>11. RiseInv'
  <2>1. CASE s.template = First
    BY <1>2, <1>5, <1>6, <1>7, <1>8, <1>9, <2>1 DEF RiseInv
  <2>2. CASE s.template # First
    <3> DEFINE t == s.template
    <3>0. t \in Template /\ t # First /\ spec'.template = t
      BY <1>2, <1>5, <2>2
    <3> HIDE DEF t
    <3>1. Alive(t) = {} /\ replicas'[t] = 0 /\ (rpc # "idle" => rs.of # t)
      BY <1>1, <1>3, <1>4, <3>0 DEF KnownInv
    <3>2. Cardinality(Alive(t)') = 0
      BY <1>7, <3>0, <3>1, FS_EmptySet
    <3>3. Grows(t)'
      BY <1>3, <3>1, <3>2 DEF Grows
    <3>4. Grows(spec.template)'
      BY <3>0, <3>3 DEF Grows, Alive
    <3>5. replicas'[spec'.template] <= spec'.desired
      BY <1>2, <1>5, <3>0, <3>1
    <3> QED BY <1>8, <3>0, <3>4, <3>5 DEF RiseInv
  <2> QED BY <2>1, <2>2
<1>12. FallInv'
  <2>1. dep'.spec # spec'
    BY <1>2, <1>3, <1>4
  <2>2. s.template # First \/ s.desired <= Start.desired => Kept' <= replicas'[First]
    <3>1. CASE s.template = First
      BY <1>2, <1>8, <3>1 DEF Kept
    <3>2. CASE s.template # First
      <4>1. PICK t \in Template : t = s.template
        BY <1>5
      <4>2. Kept' = Low' - Cardinality(Ready(t)')
        BY <1>2, <3>2, <4>1, KeptNext
      <4>3. Cardinality(Ready(t)') \in Nat
        BY <1>7, <4>1, PodsFinite
      <4> QED BY <1>5, <1>8, <4>2, <4>3
    <3> QED BY <3>1, <3>2
  <2> QED BY <1>2, <1>8, <1>9, <2>1, <2>2 DEF FallInv
<1> QED BY <1>10, <1>11, <1>12 DEF Floored

(* The invariants of the state after a step, by the template it asks for.   *)
LEMMA RiseNext ==
  ASSUME NEW t \in Template, spec'.template = t,
         t # First \/ spec'.desired >= Start.desired =>
            /\ Grows(t)'
            /\ replicas'[t] <= spec'.desired
            /\ \A i \in 1..Len(dep'.scale) : dep'.scale[i].of # t
            /\ t = First => Start.desired <= Cardinality(Ready(First)')
  PROVE  RiseInv'
<1>1. Grows(t)' => Grows(spec.template)'
  BY DEF Grows, Alive
<1> QED BY <1>1 DEF RiseInv

(* The same of the ReplicaSet that is to shrink.                            *)
LEMMA FallNext ==
  ASSUME NEW t \in Template, spec'.template = t,
         t # First \/ spec'.desired <= Start.desired =>
            /\ Drains(First)'
            /\ Kept' <= replicas'[First]
            /\ \A i \in 1..Len(dep'.scale) : dep'.scale[i].of = First => Kept' <= dep'.scale[i].to
            /\ t # First /\ dep'.enough /\ dep'.spec = spec' => spec'.desired <= Cardinality(Ready(t)')
  PROVE  FallInv'
<1>1. Cardinality(Ready(t)') = Cardinality(Ready(spec.template))'
  BY DEF Ready, Alive
<1> QED BY <1>1 DEF FallInv

(* No step on pods goes below the floor: a ReplicaSet that grows loses no   *)
(* pod, and one that shrinks none but those it was asked to.                *)
LEMMA PodsFloored ==
  ASSUME Base, Floored,
         \/ \E u \in Template : GetReplicaSet(u)
         \/ ListPods \/ (CreatePod /\ UNCHANGED faults)
         \/ \E p \in Pod : DeletePod(p)
         \/ \E p \in Pod : BecomeReady(p)
  PROVE  Floored'
<1>1. TypeOK /\ CreateInv /\ KnownInv
  BY DEF Base, Typed
<1>2. UNCHANGED <<spec, generation, replicas, revision, dpc, dep, edits>>
  BY DEF GetReplicaSet, ListPods, CreatePod, DeletePod, BecomeReady, deployment, sets, deployer
<1>3. PICK t \in Template : t = spec.template
  BY FloorTypes, <1>1
<1>4. /\ First \in Template /\ Start.desired \in Nat /\ spec.desired \in Nat
      /\ replicas \in [Template -> Nat] /\ dep.scale \in Seq(Item)
      /\ Low \in Nat /\ Kept \in Int
  BY <1>1, FloorTypes
<1>5. rpc # "idle" => rs.of \in {First, t} /\ rs.of \in Template
  BY <1>1, <1>3, <1>4 DEF Floored, UnseenInv, KnownInv
<1>6. Known' = Known /\ Target' = Target /\ (Unseen' <=> Unseen)
  BY <1>2 DEF Known, Target, Unseen
<1>7. t # First \/ spec.desired >= Start.desired =>
        /\ Grows(t)
        /\ replicas[t] <= spec.desired
        /\ \A i \in 1..Len(dep.scale) : dep.scale[i].of # t
        /\ t = First => Start.desired <= Cardinality(Ready(First))
  BY <1>3 DEF Floored, RiseInv
<1>8. t # First \/ spec.desired <= Start.desired =>
        /\ Drains(First)
        /\ Kept <= replicas[First]
        /\ \A i \in 1..Len(dep.scale) : dep.scale[i].of = First => Kept <= dep.scale[i].to
        /\ t # First /\ dep.enough /\ dep.spec = spec => spec.desired <= Cardinality(Ready(t))
  BY <1>3 DEF Floored, FallInv
<1>9. ASSUME NEW p \in Pod, DeletePod(p)
      PROVE  rs.of = First /\ p \in rs.doomed /\ (t # First => p \notin Alive(t))
             /\ (t = First => spec.desired < Start.desired)
  <2>1. rpc = "delete" /\ p \in rs.doomed
    BY <1>9 DEF DeletePod
  <2>2. t # First \/ spec.desired >= Start.desired => rs.of # t
    BY <1>7, <2>1 DEF Grows
  <2>3. rs.of = First
    BY <1>5, <2>1, <2>2
  <2>4. t = First => spec.desired < Start.desired
    BY <1>4, <2>2, <2>3
  <2>5. t # First => p \in Alive(First)
    BY <1>8, <2>1, <2>3 DEF Drains
  <2> QED BY <2>1, <2>3, <2>4, <2>5 DEF Alive
<1>10. t # First \/ spec.desired >= Start.desired => Grows(t)' /\ Ready(t) \subseteq Ready(t)'
  <2> SUFFICES ASSUME t # First \/ spec.desired >= Start.desired
               PROVE  Grows(t)' /\ Ready(t) \subseteq Ready(t)'
    OBVIOUS
  <2>1. Grows(t)
    BY <1>7
  <2>2. \A p \in Pod : DeletePod(p) => p \notin Alive(t)
    BY <1>4, <1>9
  <2> QED BY <1>1, <1>5, <2>1, <2>2, GrowsStep
<1>11. t # First \/ spec.desired <= Start.desired => Drains(First)'
  <2> SUFFICES ASSUME t # First \/ spec.desired <= Start.desired PROVE Drains(First)'
    OBVIOUS
  <2>1. Drains(First)
    BY <1>8
  <2>2. \A p \in Pod : DeletePod(p) => rs.of = First
    BY <1>9
  <2> QED BY <1>1, <1>4, <1>5, <2>1, <2>2, DrainsStep
<1>12. t # First \/ spec.desired >= Start.desired => Cardinality(Ready(t)) <= Cardinality(Ready(t)')
  <2>1. IsFiniteSet(Ready(t)')
    <3>1. Ready(t)' \subseteq Pod /\ IsFiniteSet(Pod)
      BY BoundAssumption, FS_Interval DEF Ready, Alive, Pod
    <3> QED BY <3>1, FS_Subset
  <2> QED BY <1>10, <2>1, FS_Subset
<1>13. Cardinality(Ready(t)) \in Nat /\ Cardinality(Ready(t)') \in Nat
  <2>1. Ready(t)' \subseteq Pod /\ IsFiniteSet(Pod)
    BY BoundAssumption, FS_Interval DEF Ready, Alive, Pod
  <2> QED BY <2>1, PodsFinite, FS_Subset, FS_CardinalityType
<1>14. Low' = Low /\ Kept' <= Kept /\ Kept' \in Int
  <2>1. Low' = Low
    BY <1>2 DEF Low
  <2>2. Kept' = IF t = First THEN spec.desired ELSE Low - Cardinality(Ready(t)')
    BY <1>2, <1>3, <2>1, KeptNext
  <2>3. Kept = IF t = First THEN spec.desired ELSE Low - Cardinality(Ready(t))
    BY <1>3 DEF Kept
  <2> QED BY <1>4, <1>12, <1>13, <2>1, <2>2, <2>3
<1>15. UnseenInv'
  <2>1. ASSUME NEW u \in Template \ Known PROVE Alive(u)' = {}
    <3>1. Alive(u) = {} /\ (rpc # "idle" => rs.of # u)
      BY <1>1, <2>1 DEF Floored, UnseenInv, KnownInv
    <3>2. CASE CreatePod /\ UNCHANGED faults
      <4>1. rs.of \in Template /\ rs.of # u
        BY <1>5, <3>1, <3>2 DEF CreatePod
      <4> QED BY <1>1, <3>1, <3>2, <4>1, CreateEffect
    <3>3. CASE \E p \in Pod : DeletePod(p)
      <4>1. PICK p \in Pod : DeletePod(p)
        BY <3>3
      <4>2. Alive(u)' = Alive(u) \ {p}
        BY <1>1, <4>1, DeleteEffect
      <4> QED BY <3>1, <4>2
    <3>4. CASE \E p \in Pod : BecomeReady(p)
      <4>1. PICK p \in Pod : BecomeReady(p)
        BY <3>4
      <4>2. Alive(u)' = Alive(u)
        BY <1>1, <4>1, ReadyEffect
      <4> QED BY <3>1, <4>2
    <3>5. CASE ListPods \/ \E v \in Template : GetReplicaSet(v)
      <4>1. pod' = pod
        BY <3>5 DEF ListPods, GetReplicaSet
      <4> QED BY <3>1, <4>1, SamePods
    <3> QED BY <3>2, <3>3, <3>4, <3>5
  <2>2. UnseenInv
    BY DEF Floored
  <2> HIDE DEF Unseen
  <2> QED BY <1>2, <1>6, <2>1, <2>2 DEF UnseenInv
<1>16. RiseInv'
  <2>1. t = First /\ spec.desired >= Start.desired => Start.desired <= Cardinality(Ready(First)')
    BY <1>4, <1>7, <1>12, <1>13
  <2>2. t # First \/ spec'.desired >= Start.desired =>
            /\ Grows(t)'
            /\ replicas'[t] <= spec'.desired
            /\ \A i \in 1..Len(dep'.scale) : dep'.scale[i].of # t
            /\ t = First => Start.desired <= Cardinality(Ready(First)')
    BY <1>2, <1>7, <1>10, <2>1
  <2> QED BY <1>2, <1>3, <2>2, RiseNext
<1>17. FallInv'
  <2>1. \A i \in 1..Len(dep.scale) : dep.scale[i].to \in Nat
    <3>1. \A i \in 1..Len(dep.scale) : dep.scale[i] \in Item
      BY <1>4, ElementOfSeq
    <3> QED BY <3>1 DEF Item
  <2>2. t # First \/ spec.desired <= Start.desired =>
            /\ Kept' <= replicas[First]
            /\ \A i \in 1..Len(dep.scale) : dep.scale[i].of = First => Kept' <= dep.scale[i].to
            /\ t # First /\ dep.enough /\ dep.spec = spec => spec.desired <= Cardinality(Ready(t)')
    BY <1>4, <1>8, <1>12, <1>13, <1>14, <2>1
  <2>3. t # First \/ spec'.desired <= Start.desired =>
            /\ Drains(First)'
            /\ Kept' <= replicas'[First]
            /\ \A i \in 1..Len(dep'.scale) : dep'.scale[i].of = First => Kept' <= dep'.scale[i].to
            /\ t # First /\ dep'.enough /\ dep'.spec = spec' => spec'.desired <= Cardinality(Ready(t)')
    BY <1>2, <1>11, <2>2
  <2> QED BY <1>2, <1>3, <2>3, FallNext
<1> QED BY <1>15, <1>16, <1>17 DEF Floored

(* A step of a pass stays above the floor when it raises what the new       *)
(* template is asked for and lowers the first one to what is to be kept.    *)
LEMMA PassFloored ==
  ASSUME Base, TypeOK', Floored, UNCHANGED <<spec, pod, rpc, rs, edits>>, UnseenInv',
         NEW t \in Template, t = spec.template,
         t # First \/ spec.desired >= Start.desired =>
            /\ replicas[t] <= replicas'[t] /\ replicas'[t] <= spec.desired
            /\ \A i \in 1..Len(dep'.scale) : dep'.scale[i].of # t,
         t # First \/ spec.desired <= Start.desired =>
            /\ replicas'[First] <= replicas[First] /\ Kept <= replicas'[First]
            /\ \A i \in 1..Len(dep'.scale) : dep'.scale[i].of = First => Kept <= dep'.scale[i].to
            /\ t # First /\ dep'.enough /\ dep'.spec = spec => spec.desired <= Cardinality(Ready(t))
  PROVE  Floored'
<1>1. TypeOK
  BY DEF Base, Typed
<1>2. /\ First \in Template /\ Start.desired \in Nat /\ spec.desired \in Nat
      /\ replicas \in [Template -> Nat] /\ replicas' \in [Template -> Nat]
  BY <1>1, FloorTypes DEF TypeOK
<1>3. \A u \in Template : Alive(u)' = Alive(u) /\ Ready(u)' = Ready(u)
  BY SamePods
<1>4. /\ Cardinality(Alive(t)) \in Nat /\ Cardinality(Alive(First)) \in Nat
      /\ rs \in [of: Template, want: Nat, create: Nat, doomed: SUBSET Pod]
  BY <1>1, PodsFinite DEF TypeOK
<1>5. Kept' = Kept
  <2>1. Kept' = IF t = First THEN spec.desired ELSE Low' - Cardinality(Ready(t)')
    BY KeptNext
  <2>2. Low' = Low
    BY DEF Low
  <2> QED BY <1>3, <2>1, <2>2 DEF Kept
<1>6. t # First \/ spec.desired >= Start.desired => Grows(t)'
  <2> SUFFICES ASSUME t # First \/ spec.desired >= Start.desired PROVE Grows(t)'
    OBVIOUS
  <2>1. Grows(t) /\ replicas[t] <= replicas'[t]
    BY DEF Floored, RiseInv
  <2> QED BY <1>2, <1>3, <1>4, <2>1 DEF Grows
<1>7. t # First \/ spec.desired <= Start.desired => Drains(First)'
  <2> SUFFICES ASSUME t # First \/ spec.desired <= Start.desired PROVE Drains(First)'
    OBVIOUS
  <2>1. Drains(First) /\ replicas'[First] <= replicas[First]
    BY DEF Floored, FallInv
  <2>2. Cardinality(Alive(First) \ rs.doomed) \in Nat
    BY PodsFinite, FS_Difference, FS_CardinalityType
  <2>3. replicas[First] \in Nat /\ replicas'[First] \in Nat /\ rs.want \in Nat
    BY <1>2, <1>4
  <2>4. rs' = rs /\ rpc' = rpc /\ Alive(First)' = Alive(First) /\ Ready(First)' = Ready(First)
    BY <1>2, <1>3
  <2>5. rs.of = First /\ rpc = "list" => replicas'[First] <= rs.want
    BY <2>1, <2>3 DEF Drains
  <2>6. rs.of = First /\ rpc = "delete" => replicas'[First] <= Cardinality(Alive(First) \ rs.doomed)
    BY <2>1, <2>2, <2>3 DEF Drains
  <2>7. replicas'[First] <= Cardinality(Alive(First))
    BY <1>4, <2>1, <2>3 DEF Drains
  <2> QED BY <2>1, <2>4, <2>5, <2>6, <2>7 DEF Drains
<1>8. RiseInv'
  <2>1. t = First /\ spec.desired >= Start.desired => Start.desired <= Cardinality(Ready(First)')
    BY <1>2, <1>3 DEF Floored, RiseInv
  <2>2. t # First \/ spec'.desired >= Start.desired =>
            /\ Grows(t)'
            /\ replicas'[t] <= spec'.desired
            /\ \A i \in 1..Len(dep'.scale) : dep'.scale[i].of # t
            /\ t = First => Start.desired <= Cardinality(Ready(First)')
    BY <1>6, <2>1
  <2> QED BY <2>2, RiseNext
<1>9. FallInv'
  <2>1. t # First \/ spec'.desired <= Start.desired =>
            /\ Drains(First)'
            /\ Kept' <= replicas'[First]
            /\ \A i \in 1..Len(dep'.scale) : dep'.scale[i].of = First => Kept' <= dep'.scale[i].to
            /\ t # First /\ dep'.enough /\ dep'.spec = spec' => spec'.desired <= Cardinality(Ready(t)')
    BY <1>3, <1>5, <1>7
  <2> QED BY <2>1, FallNext
<1> QED BY <1>8, <1>9 DEF Floored

(* What the invariants say of the template that is asked for.               *)
LEMMA FlooredOf ==
  ASSUME TypeOK, Floored, NEW t \in Template, t = spec.template
  PROVE  /\ t # First \/ spec.desired >= Start.desired =>
              /\ replicas[t] <= spec.desired
              /\ \A i \in 1..Len(dep.scale) : dep.scale[i].of # t
         /\ t # First \/ spec.desired <= Start.desired =>
              /\ Kept <= replicas[First]
              /\ \A i \in 1..Len(dep.scale) : dep.scale[i].of = First => Kept <= dep.scale[i].to
              /\ t # First /\ dep.enough /\ dep.spec = spec => spec.desired <= Cardinality(Ready(t))
         /\ replicas[t] \in Nat /\ replicas[First] \in Nat
<1>1. replicas[t] \in Nat /\ replicas[First] \in Nat
  BY FloorTypes
<1> QED BY <1>1 DEF Floored, RiseInv, FallInv

(* A pass begins: it has seen the edit, unless there is none.               *)
LEMMA StartFloored == Base /\ Floored /\ StartPass => Floored'
<1> SUFFICES ASSUME Base, Floored, StartPass PROVE Floored'
  OBVIOUS
<1>1. TypeOK /\ TypeOK' /\ UnseenInv
  BY StartBase DEF Base, Typed, Floored
<1>2. PICK t \in Template : t = spec.template
  BY <1>1, FloorTypes
<1>3. /\ dpc = "idle" /\ dpc' = "count" /\ UNCHANGED <<spec, pod, replicas, rpc, rs, edits>>
      /\ dep'.spec = spec /\ dep'.scale = <<>> /\ dep'.enough = FALSE
  BY DEF StartPass, NoPass, deployment, replicator
<1>4. Len(dep'.scale) = 0
  BY <1>3
<1>5. Known' = Known \cup {t}
  BY <1>1, <1>2, StartKnown
<1>6. UnseenInv'
  <2>1. Unseen' <=> edits = 0
    BY <1>1, <1>3 DEF Unseen, UnseenInv
  <2>2. edits = 0 => replicas = [u \in Template |-> IF u = First THEN Start.desired ELSE 0]
                     /\ Known = {First} /\ t = First
    BY <1>1, <1>2 DEF UnseenInv, Unseen, First
  <2>3. \A u \in Template : Alive(u)' = Alive(u)
    BY <1>3, SamePods
  <2> HIDE DEF Unseen
  <2> QED BY <1>1, <1>2, <1>3, <1>5, <2>1, <2>2, <2>3 DEF UnseenInv
<1>7. replicas[t] \in Nat /\ replicas[First] \in Nat
  BY <1>1, FloorTypes
<1> QED BY <1>1, <1>2, <1>3, <1>4, <1>6, <1>7, FlooredOf, PassFloored

(* The first listing says enough only when the new pods are ready.          *)
LEMMA CountFloored == Base /\ Floored /\ CountPods => Floored'
<1> SUFFICES ASSUME Base, Floored, CountPods PROVE Floored'
  OBVIOUS
<1>1. TypeOK /\ TypeOK' /\ UnseenInv
  BY CountBase DEF Base, Typed, Floored
<1>2. PICK t \in Template : t = spec.template
  BY <1>1, FloorTypes
<1>3. dpc = "count" /\ dpc' = "up" /\ UNCHANGED <<spec, pod, replicas, revision, rpc, rs, edits>>
  BY DEF CountPods, deployment, sets, replicator
<1>4. /\ dep'.spec = dep.spec /\ dep'.scale = dep.scale
      /\ dep'.enough = (Cardinality(Ready(Target)) >= dep.spec.desired)
  BY <1>1 DEF CountPods, TypeOK
<1>5. dep'.enough /\ dep'.spec = spec => spec.desired <= Cardinality(Ready(t))
  <2>1. dep.spec = spec => Target = t
    BY <1>2 DEF Target
  <2>2. Cardinality(Ready(t)) \in Nat /\ spec.desired \in Nat
    BY <1>1, FloorTypes, PodsFinite
  <2> QED BY <1>4, <2>1, <2>2
<1>6. UnseenInv'
  <2>1. (Unseen' <=> Unseen) /\ Known' = Known
    BY <1>3, <1>4 DEF Unseen, Known
  <2>2. \A u \in Template : Alive(u)' = Alive(u)
    BY <1>3, SamePods
  <2> HIDE DEF Unseen
  <2> QED BY <1>1, <1>3, <1>4, <2>1, <2>2 DEF UnseenInv
<1> QED BY <1>1, <1>2, <1>3, <1>4, <1>5, <1>6, FlooredOf, PassFloored

(* A pass that has not seen the edit finds nothing to do.                   *)
LEMMA UnseenPass ==
  ASSUME TypeOK, UnseenInv, dpc # "idle"
  PROVE  /\ Unseen <=> dep.spec = Start
         /\ dep.spec = Start => /\ Target = First /\ dep.spec.desired = Start.desired
                                /\ replicas = [u \in Template |-> IF u = First THEN Start.desired ELSE 0]
                                /\ replicas[First] = Start.desired
                                /\ Known = {First} /\ dep.scale = <<>>
         /\ dep.spec # Start => dep.spec = spec /\ Target = spec.template
<1>1. First \in Template
  BY FloorTypes
<1> QED BY <1>1 DEF UnseenInv, Unseen, Target, First

(* Step 1 raises the new template to no more than its size, and does        *)
(* nothing to the first one.                                                *)
LEMMA ScaleUpFloored == Base /\ Floored /\ ScaleUp => Floored'
<1> SUFFICES ASSUME Base, Floored, ScaleUp PROVE Floored'
  OBVIOUS
<1>1. TypeOK /\ TypeOK' /\ UnseenInv
  BY ScaleUpBase DEF Base, Typed, Floored
<1>2. PICK t \in Template : t = spec.template
  BY <1>1, FloorTypes
<1>3. dpc = "up" /\ dpc' = "plan" /\ UNCHANGED <<spec, pod, revision, rpc, rs, edits>>
  BY DEF ScaleUp, deployment, replicator
<1>4. /\ dep'.spec = dep.spec /\ dep'.enough = dep.enough
      /\ dep'.scale = IF replicas[Target] > dep.spec.desired
                      THEN <<[of |-> Target, to |-> dep.spec.desired]>> ELSE <<>>
  BY <1>1 DEF ScaleUp, TypeOK
<1>5. PICK n \in Nat : /\ replicas' = [replicas EXCEPT ![Target] = @ + n]
                       /\ n = 0 \/ (n <= Room /\ replicas[Target] + n <= dep.spec.desired)
  BY <1>1, ScaleUpShape
<1>6. /\ First \in Template /\ Start.desired \in Nat /\ spec.desired \in Nat
      /\ replicas \in [Template -> Nat] /\ Target \in Template
  BY <1>1, FloorTypes DEF TypeOK, Target
<1>7. (Unseen' <=> Unseen) /\ Known' = Known
  BY <1>3, <1>4 DEF Unseen, Known
<1>8. \A u \in Template : Alive(u)' = Alive(u)
  BY <1>3, SamePods
<1>9. CASE dep.spec = Start
  <2>1. /\ Target = First /\ dep.spec.desired = Start.desired /\ replicas[First] = Start.desired
        /\ dep.scale = <<>>
    BY <1>1, <1>3, <1>9, UnseenPass
  <2>2. n = 0 /\ dep'.scale = <<>>
    BY <1>4, <1>5, <1>6, <2>1
  <2>3. replicas' = replicas
    BY <1>5, <1>6, <2>2
  <2>4. Len(dep'.scale) = 0
    BY <2>2
  <2>5. UnseenInv'
    <3> HIDE DEF Unseen
    <3> QED BY <1>1, <1>3, <1>4, <1>7, <1>8, <2>1, <2>2, <2>3 DEF UnseenInv
  <2> QED BY <1>1, <1>2, <1>3, <1>4, <1>6, <2>3, <2>4, <2>5, FlooredOf, PassFloored
<1>10. CASE dep.spec # Start
  <2>1. dep.spec = spec /\ Target = t /\ ~ Unseen
    BY <1>1, <1>2, <1>3, <1>10, UnseenPass
  <2>2. replicas'[t] = replicas[t] + n /\ \A u \in Template \ {t} : replicas'[u] = replicas[u]
    BY <1>5, <1>6, <2>1
  <2>3. UnseenInv'
    <3> HIDE DEF Unseen
    <3> QED BY <1>1, <1>3, <1>4, <1>7, <1>8, <2>1 DEF UnseenInv
  <2>4. replicas[t] \in Nat /\ replicas[First] \in Nat
    BY <1>6
  <2>5. t # First \/ spec.desired >= Start.desired =>
            /\ replicas[t] <= replicas'[t] /\ replicas'[t] <= spec.desired
            /\ \A i \in 1..Len(dep'.scale) : dep'.scale[i].of # t
    <3> SUFFICES ASSUME t # First \/ spec.desired >= Start.desired
                 PROVE  /\ replicas[t] <= replicas'[t] /\ replicas'[t] <= spec.desired
                        /\ \A i \in 1..Len(dep'.scale) : dep'.scale[i].of # t
      OBVIOUS
    <3>1. replicas[t] <= spec.desired
      BY <1>1, <1>2, FlooredOf
    <3>2. dep'.scale = <<>>
      BY <1>4, <1>6, <2>1, <2>4, <3>1
    <3>3. Len(dep'.scale) = 0
      BY <3>2
    <3> QED BY <1>5, <1>6, <2>1, <2>2, <2>4, <3>1, <3>3
  <2>6. t # First \/ spec.desired <= Start.desired =>
            /\ replicas'[First] <= replicas[First] /\ Kept <= replicas'[First]
            /\ \A i \in 1..Len(dep'.scale) : dep'.scale[i].of = First => Kept <= dep'.scale[i].to
            /\ t # First /\ dep'.enough /\ dep'.spec = spec => spec.desired <= Cardinality(Ready(t))
    <3> SUFFICES ASSUME t # First \/ spec.desired <= Start.desired
                 PROVE  /\ replicas'[First] <= replicas[First] /\ Kept <= replicas'[First]
                        /\ \A i \in 1..Len(dep'.scale) : dep'.scale[i].of = First => Kept <= dep'.scale[i].to
                        /\ t # First /\ dep'.enough /\ dep'.spec = spec
                              => spec.desired <= Cardinality(Ready(t))
      OBVIOUS
    <3>1. /\ Kept <= replicas[First] 
          /\ t # First /\ dep.enough /\ dep.spec = spec => spec.desired <= Cardinality(Ready(t))
      BY <1>1, <1>2, FlooredOf
    <3>2. CASE t # First
      <4>1. \A i \in 1..Len(dep'.scale) : dep'.scale[i].of # First
        BY <1>4, <2>1, <2>5, <3>2
      <4> QED BY <1>4, <1>6, <2>2, <2>4, <3>1, <3>2, <4>1
    <3>3. CASE t = First
      <4>1. Kept = spec.desired
        BY <1>2, <3>3 DEF Kept
      <4>2. n = 0
        BY <1>5, <1>6, <2>1, <2>4, <3>1, <3>3, <4>1
      <4>3. \A i \in 1..Len(dep'.scale) : dep'.scale[i].to = spec.desired
        <5>1. CASE replicas[Target] > dep.spec.desired
          <6>1. Len(dep'.scale) = 1 /\ dep'.scale[1].to = spec.desired
            BY <1>4, <2>1, <5>1
          <6> QED BY <6>1
        <5>2. CASE ~ (replicas[Target] > dep.spec.desired)
          <6>1. Len(dep'.scale) = 0
            BY <1>4, <5>2
          <6> QED BY <6>1
        <5> QED BY <5>1, <5>2
      <4> QED BY <1>6, <2>2, <2>4, <3>1, <3>3, <4>1, <4>2, <4>3
    <3> QED BY <3>2, <3>3
  <2> QED BY <1>1, <1>2, <1>3, <2>3, <2>5, <2>6, PassFloored
<1> QED BY <1>9, <1>10

(* Step 2 leaves the first ReplicaSet what, with the new pods that are      *)
(* ready, makes up the floor (workloads.py:214-231).                        *)
LEMMA LoweredKeeps ==
  ASSUME TypeOK, UnseenInv, NEW t \in Template, t = spec.template, t # First,
         dep.spec = spec, Target = t
  PROVE  Kept <= Lowered(First)
<1>1. /\ First \in Template /\ replicas \in [Template -> Nat] /\ replicas[First] \in Nat
      /\ Low \in Nat /\ Low <= Floor(spec)
      /\ First \in Known /\ Known \subseteq {First, t}
  BY FloorTypes DEF UnseenInv
<1>2. Kept = Low - Cardinality(Ready(t)) /\ Cardinality(Ready(t)) \in Nat
  BY PodsFinite DEF Kept
<1>3. Available \in [Template -> Nat] /\ Available[First] <= replicas[First] /\ Available[t] <= Cardinality(Ready(t))
      /\ Available[First] \in Nat /\ Available[t] \in Nat
  BY <1>1, AvailableType
<1>4. SumFunctionOnSet(Available, Known) <= Available[First] + Available[t]
      /\ SumFunctionOnSet(Available, Known) \in Nat
  <2>1. {First, t} \in SUBSET Template /\ IsFiniteSet({First, t}) /\ {First, t} \ {First} = {t}
        /\ {t} \in SUBSET Template /\ IsFiniteSet({t}) /\ {t} \ {t} = {}
    <3>1. {First, t} \in SUBSET Template /\ {First, t} \subseteq Template /\ {t} \subseteq Template
      BY <1>1
    <3>2. {First, t} \ {First} = {t} /\ {t} \ {t} = {}
      BY <1>1
    <3> QED BY <3>1, <3>2, TemplateAssumption, FS_Subset
  <2>2. SumFunctionOnSet(Available, {First, t})
          = Available[First] + SumFunctionOnSet(Available, {First, t} \ {First})
    BY <1>3, <2>1, SumRemove
  <2>3. SumFunctionOnSet(Available, {t}) = Available[t] + SumFunctionOnSet(Available, {t} \ {t})
    BY <1>3, <2>1, SumRemove
  <2>4. SumFunctionOnSet(Available, {}) = 0
    BY <1>3, SumEmpty
  <2>5. SumFunctionOnSet(Available, {First, t}) = Available[First] + Available[t]
    BY <1>3, <2>1, <2>2, <2>3, <2>4
  <2>6. SumFunctionOnSet(Available, Known) <= SumFunctionOnSet(Available, {First, t})
    BY <1>1, <1>3, <2>1, KnownFinite, SumMonotone
  <2>7. SumFunctionOnSet(Available, Known) \in Nat
    BY <1>3, KnownFinite, SumType
  <2> QED BY <2>5, <2>6, <2>7
<1>5. Spare(First) = SumFunctionOnSet(Available, Known) - Floor(spec)
  <2> DEFINE newer == {u \in Older(Target) : revision[u] > revision[First]}
  <2>1. newer = {}
    <3>1. Older(Target) \subseteq {First}
      BY <1>1 DEF Older
    <3>2. revision[First] \in Nat
      BY <1>1 DEF TypeOK
    <3> QED BY <3>1, <3>2
  <2>2. SumFunctionOnSet(replicas, {}) = 0
    BY <1>1, SumEmpty
  <2>3. SumFunctionOnSet(replicas, newer) = 0
    BY <2>1, <2>2
  <2>4. Floor(spec) \in Nat
    BY FloorType DEF TypeOK
  <2>5. Spare(First) = SumFunctionOnSet(Available, Known) - Floor(spec) - SumFunctionOnSet(replicas, newer)
    BY DEF Spare
  <2> HIDE DEF newer
  <2> QED BY <1>4, <2>3, <2>4, <2>5
<1>6. Floor(spec) \in Nat /\ Spare(First) \in Int
  BY <1>4, <1>5, FloorType DEF TypeOK
<1>7. Min({replicas[First], Spare(First)}) <= Spare(First)
      /\ Min({replicas[First], Spare(First)}) \in {replicas[First], Spare(First)}
  BY <1>1, <1>6, MinOfTwo
<1>8. Lowered(First) = replicas[First] - Min({replicas[First], Spare(First)})
  BY DEF Lowered
<1> DEFINE m == Min({replicas[First], Spare(First)})
<1>9. m <= Spare(First) /\ m \in Int /\ Lowered(First) = replicas[First] - m
  BY <1>1, <1>6, <1>7, <1>8
<1> HIDE DEF m
<1> QED BY <1>1, <1>2, <1>3, <1>4, <1>5, <1>6, <1>9

(* Steps 2 and 3 as they are decided: step 2 leaves the floor, and step 3   *)
(* leaves nothing only when enough new pods are ready.                      *)
LEMMA PlanFloored == Base /\ Floored /\ PlanScaleDown => Floored'
<1> SUFFICES ASSUME Base, Floored, PlanScaleDown PROVE Floored'
  OBVIOUS
<1>1. TypeOK /\ TypeOK' /\ UnseenInv
  BY PlanBase DEF Base, Typed, Floored
<1>2. PICK t \in Template : t = spec.template
  BY <1>1, FloorTypes
<1>3. dpc = "plan" /\ dpc' = "scale" /\ UNCHANGED <<spec, pod, replicas, revision, rpc, rs, edits>>
  BY DEF PlanScaleDown, deployment, sets, replicator
<1>4. PICK give, retire \in Seq(Item) :
           /\ dep'.scale = give \o retire \o dep.scale
           /\ dep' = [dep EXCEPT !.scale = dep'.scale, !.complete = dep'.complete]
           /\ dep'.complete \in BOOLEAN
           /\ \A i \in 1..Len(give) :
                 /\ give[i].of \in Older(Target) /\ Spare(give[i].of) > 0
                 /\ give[i].to = Lowered(give[i].of)
                 /\ \A j \in 1..Len(give) : i < j => give[i].of # give[j].of
           /\ \A i \in 1..Len(retire) :
                 retire[i].of \in Older(Target) /\ retire[i].to = 0 /\ dep.enough
  BY <1>1, PlanShape
<1>5. dep'.spec = dep.spec /\ dep'.enough = dep.enough /\ dep.scale \in Seq(Item)
  BY <1>1, <1>4 DEF TypeOK, Item
<1> DEFINE s == dep'.scale
           ng == Len(give)
           nr == Len(give) + Len(retire)
<1>6. /\ Len(s) = Len(give) + Len(retire) + Len(dep.scale)
      /\ \A i \in 1..Len(s) : From(s, give, 0, i) \/ From(s, retire, ng, i) \/ From(s, dep.scale, nr, i)
  <2>1. s = give \o retire \o dep.scale
    BY <1>4
  <2> HIDE DEF s
  <2>2. Len(s) = Len(give) + Len(retire) + Len(dep.scale)
    BY <1>5, <2>1, ThreeInARow
  <2>3. \A i \in 1..Len(s) :
           \/ From(s, give, 0, i) \/ From(s, retire, Len(give), i)
           \/ From(s, dep.scale, Len(give) + Len(retire), i)
    BY <1>5, <2>1, ThreeInARow
  <2> QED BY <2>2, <2>3
<1>7. /\ \A i \in 1..Len(s) : From(s, give, 0, i) => s[i].of \in Older(Target) /\ s[i].to = Lowered(s[i].of)
      /\ \A i \in 1..Len(s) : From(s, retire, ng, i) => s[i].of \in Older(Target) /\ s[i].to = 0 /\ dep.enough
      /\ \A i \in 1..Len(s) : From(s, dep.scale, nr, i) => \E j \in 1..Len(dep.scale) : s[i] = dep.scale[j]
  <2> HIDE DEF s, nr, ng
  <2> QED BY <1>4 DEF From
<1>8. \A u \in Template : Alive(u)' = Alive(u)
  BY <1>3, SamePods
<1>9. (Unseen' <=> Unseen) /\ Known' = Known
  BY <1>3, <1>5 DEF Unseen, Known
<1>10. CASE dep.spec = Start
  <2>1. Older(Target) = {} /\ dep.scale = <<>>
    BY <1>1, <1>3, <1>10, UnseenPass DEF Older
  <2>2. Len(dep.scale) = 0
    BY <2>1
  <2>3. Len(s) = 0
    <3> HIDE DEF s
    <3>1. Len(give) \in Nat /\ Len(retire) \in Nat /\ Len(dep.scale) \in Nat
      BY <1>5, LenProperties
    <3>2. ~ 1 \in 1..Len(give) /\ ~ 1 \in 1..Len(retire)
      BY <1>4, <2>1
    <3> QED BY <1>6, <2>2, <3>1, <3>2
  <2>4. dep'.scale = <<>>
    <3>1. dep'.scale \in Seq(Item)
      BY <1>1 DEF TypeOK, Item
    <3> QED BY <2>3, <3>1, EmptySeq
  <2>5. UnseenInv'
    <3> HIDE DEF Unseen
    <3> QED BY <1>1, <1>3, <1>5, <1>8, <1>9, <2>4 DEF UnseenInv
  <2>6. replicas[t] \in Nat /\ replicas[First] \in Nat
    BY <1>1, FloorTypes
  <2> QED BY <1>1, <1>2, <1>3, <1>5, <2>3, <2>5, <2>6, FlooredOf, PassFloored
<1>11. CASE dep.spec # Start
  <2>1. dep.spec = spec /\ Target = t /\ ~ Unseen
    BY <1>1, <1>2, <1>3, <1>11, UnseenPass
  <2>2. UnseenInv'
    <3> HIDE DEF Unseen
    <3> QED BY <1>1, <1>3, <1>5, <1>8, <1>9, <2>1 DEF UnseenInv
  <2>3. \A u \in Older(Target) : u # t /\ (t = First => u # First)
    BY <2>1 DEF Older
  <2>4. t # First \/ spec.desired >= Start.desired => \A i \in 1..Len(s) : s[i].of # t
    <3> SUFFICES ASSUME t # First \/ spec.desired >= Start.desired, NEW i \in 1..Len(s) PROVE s[i].of # t
      OBVIOUS
    <3> HIDE DEF s, ng, nr
    <3>1. \A j \in 1..Len(dep.scale) : dep.scale[j].of # t
      BY <1>1, <1>2, FlooredOf
    <3> QED BY <1>6, <1>7, <2>3, <3>1
  <2>5. t # First \/ spec.desired <= Start.desired =>
            \A i \in 1..Len(s) : s[i].of = First => Kept <= s[i].to
    <3> SUFFICES ASSUME t # First \/ spec.desired <= Start.desired, NEW i \in 1..Len(s), s[i].of = First
                 PROVE  Kept <= s[i].to
      OBVIOUS
    <3> HIDE DEF s, ng, nr
    <3>1. CASE From(s, give, 0, i)
      <4>1. First \in Older(Target) /\ s[i].to = Lowered(First)
        BY <1>7, <3>1
      <4>2. t # First
        BY <2>3, <4>1
      <4> QED BY <1>1, <1>2, <2>1, <4>1, <4>2, LoweredKeeps
    <3>2. CASE From(s, retire, ng, i)
      <4>1. First \in Older(Target) /\ s[i].to = 0 /\ dep.enough
        BY <1>7, <3>2
      <4>2. t # First
        BY <2>3, <4>1
      <4>3. spec.desired <= Cardinality(Ready(t)) /\ Low <= spec.desired /\ Low \in Nat /\ spec.desired \in Nat
        BY <1>1, <1>2, <2>1, <4>1, <4>2, FlooredOf, FloorTypes
      <4>4. Kept = Low - Cardinality(Ready(t)) /\ Cardinality(Ready(t)) \in Nat
        BY <1>2, <4>2, PodsFinite DEF Kept
      <4> QED BY <4>1, <4>3, <4>4
    <3>3. CASE From(s, dep.scale, nr, i)
      <4>1. \A j \in 1..Len(dep.scale) : dep.scale[j].of = First => Kept <= dep.scale[j].to
        BY <1>1, <1>2, FlooredOf
      <4> QED BY <1>7, <3>3, <4>1
    <3> QED BY <1>6, <3>1, <3>2, <3>3
  <2>6. replicas[t] \in Nat /\ replicas[First] \in Nat
    BY <1>1, FloorTypes
  <2> QED BY <1>1, <1>2, <1>3, <1>5, <2>2, <2>4, <2>5, <2>6, FlooredOf, PassFloored
<1> QED BY <1>10, <1>11

(* One write of the pass, decided before and still above the floor.         *)
LEMMA ScaleFloored == Base /\ Floored /\ Scale => Floored'
<1> SUFFICES ASSUME Base, Floored, Scale PROVE Floored'
  OBVIOUS
<1>1. TypeOK /\ TypeOK' /\ UnseenInv /\ ScaleInv
  BY ScaleBase DEF Base, Typed, Floored
<1>2. PICK t \in Template : t = spec.template
  BY <1>1, FloorTypes
<1>3. dpc = "scale" /\ dpc' = dpc /\ UNCHANGED <<spec, pod, revision, rpc, rs, edits>>
  BY DEF Scale, deployment, replicator
<1>4. /\ First \in Template /\ replicas \in [Template -> Nat] /\ dep.scale \in Seq(Item)
      /\ replicas[t] \in Nat /\ replicas[First] \in Nat
  BY <1>1, FloorTypes
<1>5. /\ Len(dep.scale) \in Nat /\ Len(dep.scale) > 0 /\ dep.scale[1] \in Item
      /\ replicas' = [replicas EXCEPT ![dep.scale[1].of] = dep.scale[1].to]
  BY <1>1, ScaleShape
<1>6. /\ dep'.spec = dep.spec /\ dep'.enough = dep.enough
      /\ Len(dep'.scale) = Len(dep.scale) - 1
      /\ \A i \in 1..Len(dep'.scale) : dep'.scale[i] = dep.scale[i + 1] /\ i + 1 \in 1..Len(dep.scale)
  <2>1. dep'.scale = Tail(dep.scale) /\ dep'.spec = dep.spec /\ dep'.enough = dep.enough
    BY <1>1 DEF Scale, TypeOK
  <2>2. dep.scale # <<>>
    BY DEF Scale
  <2> QED BY <1>4, <1>5, <2>1, <2>2, HeadTailProperties
<1>7. 1 \in 1..Len(dep.scale) /\ dep.scale[1].to <= replicas[dep.scale[1].of]
  BY <1>1, <1>5 DEF ScaleInv
<1>8. UnseenInv'
  <2>1. (Unseen' <=> Unseen) /\ Known' = Known
    BY <1>3, <1>6 DEF Unseen, Known
  <2>2. ~ Unseen
    BY <1>1 DEF UnseenInv, Scale
  <2>3. \A u \in Template : Alive(u)' = Alive(u)
    BY <1>3, SamePods
  <2> HIDE DEF Unseen
  <2> QED BY <1>1, <1>3, <1>6, <2>1, <2>2, <2>3 DEF UnseenInv
<1>9. t # First \/ spec.desired >= Start.desired =>
            /\ replicas[t] <= replicas'[t] /\ replicas'[t] <= spec.desired
            /\ \A i \in 1..Len(dep'.scale) : dep'.scale[i].of # t
  <2> SUFFICES ASSUME t # First \/ spec.desired >= Start.desired
               PROVE  /\ replicas[t] <= replicas'[t] /\ replicas'[t] <= spec.desired
                      /\ \A i \in 1..Len(dep'.scale) : dep'.scale[i].of # t
    OBVIOUS
  <2>1. replicas[t] <= spec.desired /\ \A i \in 1..Len(dep.scale) : dep.scale[i].of # t
    BY <1>1, <1>2, FlooredOf
  <2>2. replicas'[t] = replicas[t]
    BY <1>4, <1>5, <1>7, <2>1
  <2> QED BY <1>4, <1>6, <2>1, <2>2
<1>10. t # First \/ spec.desired <= Start.desired =>
            /\ replicas'[First] <= replicas[First] /\ Kept <= replicas'[First]
            /\ \A i \in 1..Len(dep'.scale) : dep'.scale[i].of = First => Kept <= dep'.scale[i].to
            /\ t # First /\ dep'.enough /\ dep'.spec = spec => spec.desired <= Cardinality(Ready(t))
  <2> SUFFICES ASSUME t # First \/ spec.desired <= Start.desired
               PROVE  /\ replicas'[First] <= replicas[First] /\ Kept <= replicas'[First]
                      /\ \A i \in 1..Len(dep'.scale) : dep'.scale[i].of = First => Kept <= dep'.scale[i].to
                      /\ t # First /\ dep'.enough /\ dep'.spec = spec => spec.desired <= Cardinality(Ready(t))
    OBVIOUS
  <2>1. /\ Kept <= replicas[First]
        /\ \A i \in 1..Len(dep.scale) : dep.scale[i].of = First => Kept <= dep.scale[i].to
        /\ t # First /\ dep.enough /\ dep.spec = spec => spec.desired <= Cardinality(Ready(t))
    BY <1>1, <1>2, FlooredOf
  <2>2. replicas'[First] <= replicas[First] /\ Kept <= replicas'[First]
    <3>1. CASE dep.scale[1].of = First
      BY <1>4, <1>5, <1>7, <2>1, <3>1
    <3>2. CASE dep.scale[1].of # First
      BY <1>4, <1>5, <2>1, <3>2
    <3> QED BY <3>1, <3>2
  <2> QED BY <1>6, <2>1, <2>2
<1> QED BY <1>1, <1>2, <1>3, <1>8, <1>9, <1>10, PassFloored

(* The write of the status changes no ReplicaSet.                           *)
LEMMA StatusFloored == Base /\ Floored /\ WriteStatus => Floored'
<1> SUFFICES ASSUME Base, Floored, WriteStatus PROVE Floored'
  OBVIOUS
<1>1. TypeOK /\ TypeOK' /\ UnseenInv
  BY StatusBase DEF Base, Typed, Floored
<1>2. PICK t \in Template : t = spec.template
  BY <1>1, FloorTypes
<1>3. /\ dpc' = "idle" /\ UNCHANGED <<spec, pod, replicas, revision, rpc, rs, edits>>
      /\ dep'.spec = Start /\ dep'.scale = <<>> /\ dep'.enough = FALSE
  BY DEF WriteStatus, NoPass, sets, replicator
<1>4. Len(dep'.scale) = 0
  BY <1>3
<1>5. UnseenInv'
  <2>1. (Unseen' => Unseen) /\ Known' = Known
    BY <1>3 DEF Unseen, Known
  <2>2. \A u \in Template : Alive(u)' = Alive(u)
    BY <1>3, SamePods
  <2> HIDE DEF Unseen
  <2> QED BY <1>1, <1>3, <2>1, <2>2 DEF UnseenInv
<1>6. replicas[t] \in Nat /\ replicas[First] \in Nat
  BY <1>1, FloorTypes
<1> QED BY <1>1, <1>2, <1>3, <1>4, <1>5, <1>6, FlooredOf, PassFloored

(* Every step but a second edit or a fault keeps what the floor rests on.   *)
LEMMA NextFloored ==
  ASSUME Base, edits <= 1 /\ faults = 0 => Floored, [Next]_vars
  PROVE  (edits <= 1 /\ faults = 0 => Floored)'
<1> SUFFICES ASSUME edits' <= 1, faults' = 0 PROVE Floored'
  OBVIOUS
<1>1. TypeOK /\ edits \in Nat /\ faults \in Nat
  BY DEF Base, Typed, TypeOK
<1>2. CASE UNCHANGED vars
  <2>1. Floored
    BY <1>2 DEF vars
  <2>2. \A t : Alive(t)' = Alive(t) /\ Ready(t)' = Ready(t)
    BY <1>2 DEF vars, Alive, Ready
  <2>3. PICK t \in Template : t = spec.template
    BY <1>1, FloorTypes
  <2>4. UnseenInv'
    BY <1>2, <2>1 DEF vars, deployment, sets, deployer, replicator, Floored, UnseenInv, Unseen, Known, Alive
  <2>5. RiseInv'
    BY <1>2, <2>1 DEF vars, deployment, sets, deployer, replicator, Floored, RiseInv, Grows, Alive, Ready
  <2>6. FallInv'
    BY <1>2, <2>1 DEF vars, deployment, sets, deployer, replicator, Floored, FallInv, Drains, Kept, Low, Alive, Ready
  <2> QED BY <2>4, <2>5, <2>6 DEF Floored
<1>3. CASE DeploymentStep
  <2>1. UNCHANGED <<edits, faults>>
    BY <1>3 DEF DeploymentStep, StartPass, CountPods, ScaleUp, PlanScaleDown, Scale, WriteStatus
  <2> QED BY <1>3, <2>1, StartFloored, CountFloored, ScaleUpFloored, PlanFloored, ScaleFloored, StatusFloored
       DEF DeploymentStep
<1>4. CASE (\E t \in Template : GetReplicaSet(t)) \/ ListPods \/ PodStep \/ \E p \in Pod : BecomeReady(p)
  <2>1. edits' = edits /\ faults' \in {faults, faults + 1}
    BY <1>4 DEF GetReplicaSet, ListPods, PodStep, CreatePod, DeletePod, BecomeReady
  <2>2. UNCHANGED <<edits, faults>>
    BY <1>1, <2>1
  <2> QED BY <1>4, <2>2, PodsFloored DEF PodStep
<1>5. ASSUME NEW s \in [template: Template, desired: Size], Edit(s) PROVE Floored'
  <2>1. edits' = edits + 1 /\ faults' = faults
    BY <1>5 DEF Edit
  <2>2. edits = 0
    BY <1>1, <2>1
  <2> QED BY <1>5, <2>1, <2>2, EditFloored
<1>6. CASE Rollback
  <2>1. PICK t \in Known : Edit([spec EXCEPT !.template = t])
          /\ [spec EXCEPT !.template = t] \in [template: Template, desired: Size]
    BY <1>1, <1>6, RollbackIsEdit
  <2> QED BY <1>5, <2>1
<1>7. CASE \E p \in Pod : Fault(p)
  <2>1. faults' = faults + 1
    BY <1>7 DEF Fault
  <2> QED BY <1>1, <2>1
<1> QED BY <1>2, <1>3, <1>4, <1>5, <1>6, <1>7 DEF Next

(* What is kept, and what is ready of the new template, is the floor.       *)
LEMMA FlooredIsEnough ==
  ASSUME Base, Floored
  PROVE  Cardinality(UNION {Ready(u) : u \in Template}) >= Min({Floor(spec), Floor(Start)})
<1>1. TypeOK
  BY DEF Base, Typed
<1>2. PICK t \in Template : t = spec.template
  BY <1>1, FloorTypes
<1>3. /\ First \in Template /\ Start.desired \in Nat /\ spec.desired \in Nat
      /\ replicas[First] \in Nat /\ Low \in Nat /\ Low <= spec.desired /\ Low <= Start.desired
  BY <1>1, FloorTypes
<1> DEFINE all == UNION {Ready(u) : u \in Template}
<1>4. IsFiniteSet(all) /\ Cardinality(all) \in Nat /\ \A u \in Template : Ready(u) \subseteq all
  <2>1. all \subseteq Pod
    BY DEF Ready, Alive
  <2>2. IsFiniteSet(Pod)
    BY BoundAssumption, FS_Interval DEF Pod
  <2>3. IsFiniteSet(all)
    <3> HIDE DEF all
    <3> QED BY <2>1, <2>2, FS_Subset
  <2>4. Cardinality(all) \in Nat
    <3> HIDE DEF all
    <3> QED BY <2>3, FS_CardinalityType
  <2>5. \A u \in Template : Ready(u) \subseteq all
    OBVIOUS
  <2> QED BY <2>3, <2>4, <2>5
<1> HIDE DEF all
<1>5. \A u \in Template : Cardinality(Ready(u)) <= Cardinality(all) /\ Cardinality(Ready(u)) \in Nat
  <2>1. \A u \in Template : Cardinality(Ready(u)) <= Cardinality(all)
    BY <1>4, FS_Subset
  <2> QED BY <2>1, PodsFinite
<1>6. Low <= Cardinality(all)
  <2>1. CASE t = First /\ spec.desired >= Start.desired
    <3>1. Start.desired <= Cardinality(Ready(First))
      BY <1>2, <2>1 DEF Floored, RiseInv
    <3> QED BY <1>3, <1>4, <1>5, <3>1
  <2>2. CASE t = First /\ spec.desired <= Start.desired
    <3>1. Kept <= replicas[First] /\ replicas[First] <= Cardinality(Ready(First)) /\ Kept = spec.desired
      BY <1>2, <2>2 DEF Floored, FallInv, Drains, Kept
    <3> QED BY <1>3, <1>4, <1>5, <3>1
  <2>3. CASE t # First
    <3>1. Kept <= replicas[First] /\ replicas[First] <= Cardinality(Ready(First))
          /\ Kept = Low - Cardinality(Ready(t))
      BY <1>2, <2>3 DEF Floored, FallInv, Drains, Kept
    <3>2. Ready(First) \cap Ready(t) = {}
      BY <2>3 DEF Ready, Alive
    <3>3. Cardinality(Ready(First) \cup Ready(t)) = Cardinality(Ready(First)) + Cardinality(Ready(t))
      <4>1. IsFiniteSet(Ready(First)) /\ IsFiniteSet(Ready(t))
        BY PodsFinite
      <4>2. Cardinality(Ready(First) \cap Ready(t)) = 0
        BY <3>2, FS_EmptySet
      <4> QED BY <1>3, <1>5, <4>1, <4>2, FS_Union
    <3>4. Cardinality(Ready(First) \cup Ready(t)) <= Cardinality(all)
      <4>1. Ready(First) \cup Ready(t) \in SUBSET all
        BY <1>3, <1>4
      <4> QED BY <1>4, <4>1, FS_Subset
    <3> QED BY <1>3, <1>4, <1>5, <3>1, <3>3, <3>4
  <2> QED BY <1>3, <2>1, <2>2, <2>3
<1> QED BY <1>3, <1>4, <1>6 DEF all, Low

(* With no fault and no second edit, the pods stay above the floor through  *)
(* the whole rollout, for any number of templates and sizes, however passes *)
(* and pods interleave (workloads.py:167-264).                              *)
THEOREM FloorIsHeld == Spec => []FloorHeld
<1> DEFINE Inv == edits <= 1 /\ faults = 0 => Floored
<1>1. Init => Inv
  BY InitFloored
<1>2. Base /\ Inv /\ [Next]_vars => Inv'
  BY NextFloored
<1>3. Base /\ Inv => FloorHeld
  BY FlooredIsEnough DEF FloorHeld
<1> QED BY <1>1, <1>2, <1>3, InitBase, NextBase, PTL DEF Spec

-----------------------------------------------------------------------------
(* The completion *)

(* What a pass works on is the Deployment of the generation it read, which  *)
(* is the current one until somebody edits it.                              *)
PassInv ==
    /\ {"spec", "generation", "enough", "scale", "complete"} \subseteq DOMAIN dep
    /\ dpc # "idle" =>
          /\ dep.generation \in Nat /\ dep.generation <= generation
          /\ dep.generation = generation => dep.spec = spec

(* A status that was observed at the current generation is about the        *)
(* current template.                                                        *)
StatusInv ==
    /\ status.observed \in Nat /\ status.observed <= generation
    /\ status.observed = generation => status.template = spec.template

IInv == generation \in Nat /\ PassInv /\ StatusInv

(* The Deployment that is rolled out at first has a status of its own.      *)
LEMMA InitKeeps == Init => IInv
BY DEF Init, IInv, PassInv, StatusInv, NoPass

(* A pass reads spec and generation together (workloads.py:165-175).        *)
LEMMA StartKeeps == IInv /\ StartPass => IInv'
<1> SUFFICES ASSUME IInv, StartPass PROVE IInv'
  OBVIOUS
<1>1. dep' = [NoPass EXCEPT !.spec = spec, !.generation = generation]
  BY DEF StartPass
<1>2. /\ dep'.spec = spec /\ dep'.generation = generation
      /\ {"spec", "generation", "enough", "scale", "complete"} \subseteq DOMAIN dep'
  BY <1>1 DEF NoPass
<1>3. UNCHANGED <<spec, generation, status>>
  BY DEF StartPass, deployment
<1> QED BY <1>2, <1>3 DEF IInv, PassInv, StatusInv

(* The steps between do not touch what was read (workloads.py:183-275).     *)
LEMMA PassKeeps == IInv /\ (CountPods \/ ScaleUp \/ PlanScaleDown \/ Scale) => IInv'
<1> SUFFICES ASSUME IInv, CountPods \/ ScaleUp \/ PlanScaleDown \/ Scale PROVE IInv'
  OBVIOUS
<1>1. UNCHANGED <<spec, generation, status>> /\ dpc # "idle"
  BY DEF CountPods, ScaleUp, PlanScaleDown, Scale, deployment
<1>2. /\ dep'.spec = dep.spec /\ dep'.generation = dep.generation
      /\ {"spec", "generation", "enough", "scale", "complete"} \subseteq DOMAIN dep'
  <2>1. CASE CountPods
    BY <2>1 DEF CountPods, IInv, PassInv
  <2>2. CASE ScaleUp
    <3>1. \E x : dep' = [dep EXCEPT !.scale = x]
      BY <2>2 DEF ScaleUp
    <3> QED BY <3>1 DEF IInv, PassInv
  <2>3. CASE PlanScaleDown
    <3>1. \E x, y : dep' = [dep EXCEPT !.scale = x, !.complete = y]
      BY <2>3 DEF PlanScaleDown
    <3> QED BY <3>1 DEF IInv, PassInv
  <2>4. CASE Scale
    <3>1. \E x : dep' = [dep EXCEPT !.scale = x]
      BY <2>4 DEF Scale
    <3> QED BY <3>1 DEF IInv, PassInv
  <2> QED BY <2>1, <2>2, <2>3, <2>4
<1> QED BY <1>1, <1>2 DEF IInv, PassInv, StatusInv

(* A status is written only for the generation its pass read                *)
(* (workloads.py:342-378).                                                  *)
LEMMA StatusKeeps == IInv /\ WriteStatus => IInv'
<1> SUFFICES ASSUME IInv, WriteStatus PROVE IInv'
  OBVIOUS
<1>1. dpc = "scale" /\ dpc' = "idle" /\ dep' = NoPass /\ UNCHANGED <<spec, generation>>
  BY DEF WriteStatus
<1>2. PassInv'
  BY <1>1 DEF PassInv, NoPass
<1>3. StatusInv'
  <2>1. CASE generation = dep.generation
    <3>1. status'.observed = generation /\ status'.template = dep.spec.template
      BY <2>1 DEF WriteStatus, Target
    <3>2. dep.spec = spec
      BY <1>1, <2>1 DEF IInv, PassInv
    <3> QED BY <1>1, <3>1, <3>2 DEF IInv, StatusInv
  <2>2. CASE generation # dep.generation
    BY <1>1, <2>2 DEF WriteStatus, IInv, StatusInv
  <2> QED BY <2>1, <2>2
<1> QED BY <1>1, <1>2, <1>3 DEF IInv

(* An edit makes whatever was read or observed an earlier generation        *)
(* (cluster.py:107-122).                                                    *)
LEMMA EditKeeps == IInv /\ ((\E s \in [template: Template, desired: Size] : Edit(s)) \/ Rollback) => IInv'
<1> SUFFICES ASSUME IInv, (\E s \in [template: Template, desired: Size] : Edit(s)) \/ Rollback
             PROVE  IInv'
  OBVIOUS
<1>1. PICK s : Edit(s)
  BY DEF Rollback
<1>2. generation' = generation + 1 /\ UNCHANGED <<status, dpc, dep>>
  BY <1>1 DEF Edit, deployer
<1> QED BY <1>2 DEF IInv, PassInv, StatusInv

(* Every step of the system keeps the invariant.                            *)
LEMMA NextKeeps == IInv /\ [Next]_vars => IInv'
<1> SUFFICES ASSUME IInv, [Next]_vars PROVE IInv'
  OBVIOUS
<1>1. CASE UNCHANGED vars
  BY <1>1 DEF vars, deployment, sets, deployer, replicator, IInv, PassInv, StatusInv
<1>2. CASE DeploymentStep
  BY <1>2, StartKeeps, PassKeeps, StatusKeeps DEF DeploymentStep
<1>3. CASE (\E s \in [template: Template, desired: Size] : Edit(s)) \/ Rollback
  BY <1>3, EditKeeps
<1>4. CASE \/ \E t \in Template : GetReplicaSet(t)
           \/ ListPods \/ PodStep
           \/ \E p \in Pod : BecomeReady(p) \/ Fault(p)
  <2>1. UNCHANGED <<spec, generation, status, dpc, dep>>
    BY <1>4 DEF GetReplicaSet, ListPods, PodStep, CreatePod, DeletePod, BecomeReady, Fault,
                deployment, deployer
  <2> QED BY <2>1 DEF IInv, PassInv, StatusInv
<1> QED BY <1>1, <1>2, <1>3, <1>4 DEF Next

(* A completion that wait_complete believes is about the template that is   *)
(* asked for, however edits and passes interleave (workloads.py:276-281,    *)
(* cluster.py:155).                                                         *)
THEOREM CompletionIsCurrent == Spec => []CompleteIsCurrent
<1>1. IInv => CompleteIsCurrent
  BY DEF IInv, StatusInv, CompleteIsCurrent, Believed
<1> QED BY <1>1, InitKeeps, NextKeeps, PTL DEF Spec
=============================================================================
