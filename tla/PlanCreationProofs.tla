------------------------- MODULE PlanCreationProofs -------------------------
(***************************************************************************)
(* Proofs about create_plan and the two graph algorithms, for any          *)
(* decomposition: any number of tasks, any names, any graph.               *)
(***************************************************************************)
EXTENDS PlanCreation, SequenceTheorems, FiniteSetTheorems, WellFoundedInduction, TLAPS

-----------------------------------------------------------------------------
(* Induction, for a set instead of a predicate. *)

LEMMA LeastOf ==
  ASSUME NEW S \in SUBSET Nat, S # {}
  PROVE  \E m \in S : \A k \in S : m <= k
<1>1. \A i, j \in Nat : j < i => <<j, i>> \in OpToRel(<, Nat)
  <2> SUFFICES ASSUME NEW i \in Nat, NEW j \in Nat, j < i
               PROVE  <<j, i>> \in OpToRel(<, Nat)
    OBVIOUS
  <2>1. <<j, i>> \in Nat \X Nat /\ <<j, i>>[1] = j /\ <<j, i>>[2] = i
    OBVIOUS
  <2> QED
    BY <2>1, Zenon DEF OpToRel
<1>2. \E R : IsWellFoundedOn(R, Nat) /\ \A i, j \in Nat : j < i => <<j, i>> \in R
  BY <1>1, NatLessThanWellFounded, Zenon
<1>3. PICK R : IsWellFoundedOn(R, Nat) /\ \A i, j \in Nat : j < i => <<j, i>> \in R
  BY <1>2, Zenon
<1>4. PICK m \in S : \A k \in S : <<k, m>> \notin R
  BY <1>3, WFMin, Zenon
<1>5. \A k \in S : ~ (k < m)
  BY <1>3, <1>4, Zenon
<1> QED
  BY <1>4, <1>5

LEMMA ByInduction ==
  ASSUME NEW S, 0 \in S, \A n \in Nat : n \in S => n + 1 \in S
  PROVE  Nat \subseteq S
<1> SUFFICES ASSUME Nat \ S # {} PROVE FALSE
  OBVIOUS
<1>1. PICK m \in Nat \ S : \A k \in Nat \ S : m <= k
  BY LeastOf
<1>2. m # 0 /\ m - 1 \in Nat
  BY <1>1
<1>3. m - 1 \in S
  BY <1>1, <1>2
<1> QED
  BY <1>1, <1>2, <1>3

(* A loop: c is its start, step what a turn makes of the turn before. *)
Loops(f, n, c, step) ==
  \A i \in 0..n : f[i] = IF i = 0 THEN c ELSE step[<<i, f[i - 1]>>]

LEMMA Recursion ==
  ASSUME NEW S, NEW c \in S, NEW step \in [Nat \X S -> S], NEW n \in Nat
  PROVE  \E f \in [0..n -> S] : Loops(f, n, c, step)
<1> DEFINE Is(f, m) == /\ f \in [0..m -> S]
                       /\ f = [i \in 0..m |-> IF i = 0 THEN c ELSE step[<<i, f[i - 1]>>]]
           Good == {m \in Nat : \E f : Is(f, m)}
<1>1. 0 \in Good
  <2> DEFINE f == [i \in 0..0 |-> c]
  <2>1. Is(f, 0)
    OBVIOUS
  <2> QED
    BY <2>1
<1>2. ASSUME NEW m \in Nat, m \in Good PROVE m + 1 \in Good
  <2>1. PICK f : Is(f, m)
    BY <1>2
  <2> DEFINE g == [i \in 0..(m + 1) |-> IF i = m + 1 THEN step[<<m + 1, f[m]>>] ELSE f[i]]
  <2>2. step[<<m + 1, f[m]>>] \in S
    BY <2>1
  <2>3. g \in [0..(m + 1) -> S]
    BY <2>1, <2>2
  <2>4. ASSUME NEW i \in 0..(m + 1)
        PROVE  g[i] = IF i = 0 THEN c ELSE step[<<i, g[i - 1]>>]
    <3>1. CASE i = m + 1
      <4>1. g[i] = step[<<m + 1, f[m]>>] /\ g[m] = f[m]
        BY <3>1
      <4>2. i # 0 /\ i - 1 = m
        BY <3>1
      <4> HIDE DEF g
      <4> QED
        BY <3>1, <4>1, <4>2
    <3>2. CASE i # m + 1
      <4>1. i \in 0..m /\ g[i] = f[i] /\ (i # 0 => g[i - 1] = f[i - 1])
        BY <3>2
      <4>2. f[i] = IF i = 0 THEN c ELSE step[<<i, f[i - 1]>>]
        BY <2>1, <4>1, Zenon
      <4> HIDE DEF g
      <4>3. CASE i = 0
        BY <4>1, <4>2, <4>3
      <4>4. CASE i # 0
        BY <4>1, <4>2, <4>4
      <4> QED
        BY <4>3, <4>4
    <3> QED
      BY <3>1, <3>2
  <2>5. Is(g, m + 1)
    <3> HIDE DEF g
    <3>1. g = [i \in 0..(m + 1) |-> g[i]]
      BY <2>3
    <3> QED
      BY <2>3, <2>4, <3>1
  <2> HIDE DEF g, Is
  <2>6. m + 1 \in Nat
    OBVIOUS
  <2> QED
    BY <2>5, <2>6, Zenon
<1>3. n \in Good
  <2> HIDE DEF Good
  <2> QED
    BY <1>1, <1>2, ByInduction
<1>4. PICK f : Is(f, n)
  BY <1>3
<1>5. Loops(f, n, c, step)
  BY <1>4, Zenon DEF Loops
<1> QED
  BY <1>4, <1>5, Zenon

-----------------------------------------------------------------------------
(* Finite sets with a key: the greatest element, and the listing by key. *)

LEMMA SubsetsByOne ==
  ASSUME NEW S, IsFiniteSet(S), NEW Good, {} \in Good,
         \A T \in SUBSET S : T # {} /\ (\A x \in T : T \ {x} \in Good) => T \in Good
  PROVE  SUBSET S \subseteq Good
<1> DEFINE Sizes == {n \in Nat : \A T \in SUBSET S : Cardinality(T) = n => T \in Good}
<1>1. 0 \in Sizes
  <2> SUFFICES ASSUME NEW T \in SUBSET S, Cardinality(T) = 0 PROVE T \in Good
    OBVIOUS
  <2>1. IsFiniteSet(T)
    BY FS_Subset
  <2> QED
    BY <2>1, FS_EmptySet
<1>2. ASSUME NEW n \in Nat, n \in Sizes PROVE n + 1 \in Sizes
  <2> SUFFICES ASSUME NEW T \in SUBSET S, Cardinality(T) = n + 1 PROVE T \in Good
    OBVIOUS
  <2>1. IsFiniteSet(T)
    BY FS_Subset
  <2>2. T # {}
    BY FS_EmptySet
  <2>3. ASSUME NEW x \in T PROVE T \ {x} \in Good
    <3>1. Cardinality(T \ {x}) = n
      <4>1. Cardinality(T \ {x}) = Cardinality(T) - 1
        BY <2>1, <2>3, FS_RemoveElement
      <4> QED
        BY <4>1
    <3> QED
      BY <1>2, <3>1
  <2> QED
    BY <2>2, <2>3
<1> HIDE DEF Sizes
<1>3. Nat \subseteq Sizes
  BY <1>1, <1>2, ByInduction
<1>4. ASSUME NEW T \in SUBSET S PROVE T \in Good
  <2>1. Cardinality(T) \in Nat
    BY FS_Subset, FS_CardinalityType
  <2> QED
    BY <1>3, <2>1 DEF Sizes
<1> QED
  BY <1>4

LEMMA GreatestBy ==
  ASSUME NEW S, IsFiniteSet(S), S # {}, NEW key, \A x \in S : key[x] \in Int
  PROVE  \E m \in S : \A x \in S : key[x] <= key[m]
<1> DEFINE Good == {T \in SUBSET S : T # {} => \E m \in T : \A x \in T : key[x] <= key[m]}
<1>1. {} \in Good
  OBVIOUS
<1>2. ASSUME NEW T \in SUBSET S, T # {}, \A x \in T : T \ {x} \in Good PROVE T \in Good
  <2> PICK x \in T : TRUE
    BY <1>2
  <2>1. CASE T = {x}
    BY <2>1
  <2>2. CASE T # {x}
    <3>1. PICK m \in T \ {x} : \A y \in T \ {x} : key[y] <= key[m]
      BY <1>2, <2>2
    <3>2. CASE key[x] <= key[m]
      BY <3>1, <3>2
    <3>3. CASE ~ (key[x] <= key[m])
      <4>1. \A y \in T : key[y] <= key[x]
        BY <3>1, <3>3
      <4> QED
        BY <4>1
    <3> QED
      BY <3>2, <3>3
  <2> QED
    BY <2>1, <2>2
<1> HIDE DEF Good
<1>3. S \in Good
  BY <1>1, <1>2, SubsetsByOne
<1> QED
  BY <1>3 DEF Good

LEMMA MaxOf ==
  ASSUME NEW S \in SUBSET Int, IsFiniteSet(S), S # {}
  PROVE  Max(S) \in S /\ \A x \in S : x <= Max(S)
<1> DEFINE key == [x \in S |-> x]
<1>1. \A x \in S : key[x] \in Int
  OBVIOUS
<1>2. PICK m \in S : \A x \in S : key[x] <= key[m]
  BY <1>1, GreatestBy
<1>3. \A x \in S : m >= x
  BY <1>2
<1> QED
  BY <1>3 DEF Max

(* InOrder is a listing of the whole set, without repetition, by key. *)
LEMMA Ordered ==
  ASSUME NEW S, IsFiniteSet(S), NEW key, \A x \in S : key[x] \in Int
  PROVE  /\ InOrder(S, key) \in [1..Cardinality(S) -> S]
         /\ Range(InOrder(S, key)) = S
         /\ \A i, j \in 1..Cardinality(S) :
              i < j => /\ InOrder(S, key)[i] # InOrder(S, key)[j]
                       /\ key[InOrder(S, key)[i]] <= key[InOrder(S, key)[j]]
<1> DEFINE Is(line, T) ==
             /\ line \in [1..Cardinality(T) -> T]
             /\ Range(line) = T
             /\ \A i, j \in DOMAIN line : i < j => key[line[i]] <= key[line[j]]
           Good == {T \in SUBSET S : \E line : Is(line, T)}
<1>1. {} \in Good
  <2>1. Cardinality({}) = 0
    BY FS_EmptySet
  <2>2. Is(<<>>, {})
    BY <2>1 DEF Range
  <2> QED
    BY <2>2
<1>2. ASSUME NEW T \in SUBSET S, T # {}, \A x \in T : T \ {x} \in Good PROVE T \in Good
  <2>1. IsFiniteSet(T) /\ \A x \in T : key[x] \in Int
    BY FS_Subset
  <2>2. PICK m \in T : \A x \in T : key[x] <= key[m]
    BY <1>2, <2>1, GreatestBy
  <2>3. PICK f : Is(f, T \ {m})
    BY <1>2
  <2> DEFINE n == Cardinality(T \ {m})
             g == [i \in 1..(n + 1) |-> IF i = n + 1 THEN m ELSE f[i]]
  <2>4. n \in Nat /\ Cardinality(T) = n + 1
    BY <2>1, FS_RemoveElement, FS_CardinalityType, FS_Subset
  <2> HIDE DEF n
  <2>5. f \in [1..n -> T \ {m}] /\ \A x \in T \ {m} : \E i \in 1..n : f[i] = x
    BY <2>3 DEF Range, n
  <2>6. \A i \in 1..n : g[i] = f[i] /\ g[i] \in T
    BY <2>4, <2>5
  <2>7. g[n + 1] = m
    BY <2>4
  <2>8. g \in [1..Cardinality(T) -> T]
    BY <2>4, <2>5
  <2> HIDE DEF g
  <2>9. Range(g) = T
    <3>1. ASSUME NEW x \in T PROVE \E i \in 1..(n + 1) : g[i] = x
      <4>1. CASE x = m
        BY <2>4, <2>7, <4>1
      <4>2. CASE x # m
        <5>1. PICK i \in 1..n : f[i] = x
          BY <2>5, <4>2
        <5> QED
          BY <2>4, <2>6, <5>1
      <4> QED
        BY <4>1, <4>2
    <3>2. ASSUME NEW i \in 1..(n + 1) PROVE g[i] \in T
      BY <2>4, <2>8
    <3> QED
      BY <2>4, <2>8, <3>1, <3>2 DEF Range
  <2>10. ASSUME NEW i \in DOMAIN g, NEW j \in DOMAIN g, i < j
         PROVE  key[g[i]] <= key[g[j]]
    <3>1. i \in 1..n /\ j \in 1..(n + 1)
      BY <2>4, <2>8, <2>10
    <3>2. CASE j = n + 1
      BY <2>2, <2>6, <2>7, <3>1, <3>2
    <3>3. CASE j # n + 1
      <4>1. j \in 1..n
        BY <2>4, <3>1, <3>3
      <4>2. key[f[i]] <= key[f[j]]
        BY <2>3, <2>5, <2>10, <3>1, <4>1
      <4> QED
        BY <2>6, <3>1, <4>1, <4>2
    <3> QED
      BY <3>2, <3>3
  <2>11. Is(g, T)
    BY <2>8, <2>9, <2>10
  <2> QED
    BY <2>11
<1>3. \E line : Is(line, S)
  <2> HIDE DEF Is
  <2>1. S \in Good
    <3> HIDE DEF Good
    <3> QED
      BY <1>1, <1>2, SubsetsByOne
  <2> QED
    BY <2>1
<1>4. Is(InOrder(S, key), S)
  BY <1>3, Zenon DEF InOrder
<1>5. \A i, j \in 1..Cardinality(S) :
        InOrder(S, key)[i] = InOrder(S, key)[j] => i = j
  <2> DEFINE f == InOrder(S, key)
             n == Cardinality(S)
  <2> HIDE DEF f
  <2>1. n \in Nat /\ IsFiniteSet(1..n) /\ Cardinality(1..n) = n
    BY FS_CardinalityType, FS_Interval
  <2>2. f \in Surjection(1..n, S)
    BY <1>4 DEF Surjection, Range, f
  <2>3. f \in Injection(1..n, S)
    BY <2>1, <2>2, FS_SurjSameCardinalityImpliesInj
  <2> QED
    BY <2>3 DEF Injection, IsInjective, f
<1> QED
  BY <1>4, <1>5

(* The same for places of a sequence. *)
LEMMA ListedPlaces ==
  ASSUME NEW E, NEW seq \in Seq(E), NEW S \in SUBSET DOMAIN seq
  PROVE  /\ Listed(seq, S) \in Seq(S)
         /\ Range(Listed(seq, S)) = S
         /\ \A i, j \in DOMAIN Listed(seq, S) : i < j => Listed(seq, S)[i] < Listed(seq, S)[j]
         /\ IsFiniteSet(S)
<1> DEFINE key == [i \in DOMAIN seq |-> i]
<1>1. IsFiniteSet(S)
  BY FS_Interval, FS_Subset, LenProperties
<1>2. \A x \in S : key[x] = x /\ x \in Int
  BY LenProperties
<1>3. Listed(seq, S) = InOrder(S, key)
  BY DEF Listed
<1> HIDE DEF key
<1>4. Cardinality(S) \in Nat
  BY <1>1, FS_CardinalityType
<1>5. /\ Listed(seq, S) \in [1..Cardinality(S) -> S]
      /\ Range(Listed(seq, S)) = S
  BY <1>1, <1>2, <1>3, Ordered
<1>6. ASSUME NEW i \in 1..Cardinality(S), NEW j \in 1..Cardinality(S), i < j
      PROVE  Listed(seq, S)[i] < Listed(seq, S)[j]
  <2>1. \A x \in S : key[x] \in Int
    BY <1>2
  <2>2. /\ Listed(seq, S)[i] # Listed(seq, S)[j]
        /\ key[Listed(seq, S)[i]] <= key[Listed(seq, S)[j]]
    BY <1>1, <1>3, <1>6, <2>1, Ordered
  <2>3. Listed(seq, S)[i] \in S /\ Listed(seq, S)[j] \in S
    BY <1>5
  <2> QED
    BY <1>2, <2>2, <2>3
<1> QED
  BY <1>1, <1>4, <1>5, <1>6, IsASeq

-----------------------------------------------------------------------------
(* create_plan *)

Decomposed == Seq([name : STRING, dependencies : Seq(STRING), required_capabilities : Seq(STRING)])

(* What deps is for a plan: any directed graph, as lists of neighbours. *)
IsGraph(deps) == deps \in Seq(Seq(DOMAIN deps))

(* A task's dependencies are those it asked for that a task bears. *)
LEMMA Mapped ==
  ASSUME NEW named \in Decomposed, NEW t \in DOMAIN named
  PROVE  /\ MapDependencies(named, t) \in Seq(DOMAIN named)
         /\ Resolves(named, t, MapDependencies(named, t))
<1> DEFINE asked == named[t].dependencies
           known == {i \in DOMAIN asked : KnownName(named, asked[i])}
           place == Listed(asked, known)
           deps  == MapDependencies(named, t)
<1>1. asked \in Seq(STRING)
  <2>1. named[t] \in [name : STRING, dependencies : Seq(STRING),
                      required_capabilities : Seq(STRING)]
    <3>1. DOMAIN named = 1..Len(named)
      BY LenProperties DEF Decomposed
    <3> QED
      BY <3>1, ElementOfSeq DEF Decomposed
  <2> QED
    BY <2>1
<1>2. deps = [i \in DOMAIN place |-> TaskNameToId(named, asked[place[i]])]
  BY DEF MapDependencies
<1> HIDE DEF asked, deps
<1>3. /\ place \in Seq(known) /\ Range(place) = known
      /\ \A i, j \in DOMAIN place : i < j => place[i] < place[j]
  BY <1>1, ListedPlaces
<1> HIDE DEF place
<1>4. ASSUME NEW i \in DOMAIN place
      PROVE  /\ place[i] \in known
             /\ deps[i] \in DOMAIN named /\ named[deps[i]].name = asked[place[i]]
             /\ \A j \in DOMAIN named : named[j].name = asked[place[i]] => j <= deps[i]
  <2> DEFINE bearers == {j \in DOMAIN named : named[j].name = asked[place[i]]}
  <2>1. place[i] \in known
    BY <1>3, ElementOfSeq
  <2>2. bearers # {} /\ bearers \in SUBSET Int /\ IsFiniteSet(bearers)
    <3>1. bearers # {}
      BY <2>1 DEF KnownName
    <3>2. DOMAIN named = 1..Len(named) /\ Len(named) \in Nat
      BY LenProperties DEF Decomposed
    <3>3. IsFiniteSet(DOMAIN named) /\ DOMAIN named \subseteq Int
      BY <3>2, FS_Interval
    <3> QED
      BY <3>1, <3>3, FS_Subset
  <2>3. deps[i] = Max(bearers)
    BY <1>2 DEF TaskNameToId
  <2> HIDE DEF bearers
  <2>4. deps[i] \in bearers /\ \A j \in bearers : j <= deps[i]
    BY <2>2, <2>3, MaxOf
  <2> QED
    BY <2>1, <2>4 DEF bearers
<1>5. DOMAIN deps = DOMAIN place /\ DOMAIN place = 1..Len(place) /\ Len(place) \in Nat
  BY <1>2, <1>3, LenProperties
<1>6. deps \in Seq(DOMAIN named)
  <2>1. deps \in [1..Len(place) -> DOMAIN named]
    BY <1>2, <1>4, <1>5
  <2> QED
    BY <1>5, <2>1, IsASeq
<1>7. place \in [DOMAIN deps -> DOMAIN asked]
  BY <1>3, <1>4, <1>5
<1>8. known = {i \in DOMAIN asked : \E j \in DOMAIN named : j \in DOMAIN named /\ named[j].name = asked[i]}
  BY DEF KnownName
<1> HIDE DEF known
<1>9. /\ \A i, j \in DOMAIN deps : i < j => place[i] < place[j]
      /\ Range(place) = {i \in DOMAIN asked :
                           \E j \in DOMAIN named : j \in DOMAIN named /\ named[j].name = asked[i]}
  BY <1>3, <1>5, <1>8
<1> QED
  BY <1>4, <1>5, <1>6, <1>7, <1>9 DEF Resolves, asked, deps

(* What create_plan makes of a decomposition is a graph over its tasks. *)
LEMMA MadeOfGraph ==
  ASSUME NEW d \in Decompositions
  PROVE  /\ d \in Decomposed
         /\ NewPlan(d).decomposed = d
         /\ NewPlan(d).dependencies = [t \in DOMAIN d |-> MapDependencies(d, t)]
         /\ IsGraph(NewPlan(d).dependencies)
<1>1. d \in Decomposed
  BY PlanCreationAssumption DEF PlanCreationAssumption, Decomposed
<1>2. DOMAIN d = 1..Len(d) /\ Len(d) \in Nat
  BY <1>1, LenProperties DEF Decomposed
<1>3. /\ NewPlan(d).decomposed = d
      /\ NewPlan(d).dependencies = [t \in DOMAIN d |-> MapDependencies(d, t)]
  BY DEF NewPlan
<1>4. [t \in DOMAIN d |-> MapDependencies(d, t)] \in Seq(Seq(DOMAIN d))
  <2>1. \A t \in DOMAIN d : MapDependencies(d, t) \in Seq(DOMAIN d)
    BY <1>1, Mapped
  <2>2. [t \in DOMAIN d |-> MapDependencies(d, t)] \in [1..Len(d) -> Seq(DOMAIN d)]
    BY <1>2, <2>1
  <2> QED
    BY <1>2, <2>2, IsASeq
<1> QED
  BY <1>1, <1>3, <1>4 DEF IsGraph

(* Every stored plan is one create_plan made. *)
Made == plans \in Seq({NewPlan(d) : d \in Decompositions})

THEOREM PlansMade == Spec => []Made
<1>1. Init => Made
  BY DEF Init, Made
<1>2. Made /\ [Next]_plans => Made'
  <2> SUFFICES ASSUME Made, NEW d \in Decompositions, CreatePlan(d) PROVE Made'
    BY DEF Next, Made
  <2> QED
    BY AppendProperties DEF Made, CreatePlan
<1> QED
  BY <1>1, <1>2, PTL DEF Spec

LEMMA CreatedAreMade ==
  ASSUME Made, NEW p \in Created
  PROVE  \E d \in Decompositions : p = NewPlan(d)
<1>1. PICK i \in 1..Len(plans) : p = plans[i]
  BY LenProperties DEF Created, Range, Made
<1>2. plans[i] \in {NewPlan(d) : d \in Decompositions}
  BY <1>1, ElementOfSeq DEF Made
<1> QED
  BY <1>1, <1>2

(* create_plan loses no dependency but the names of no task. *)
THEOREM PlansResolveNames == Spec => []NamesResolve
<1>1. Made => NamesResolve
  <2> SUFFICES ASSUME Made, NEW p \in Created, NEW t \in DOMAIN p.decomposed
               PROVE  Resolves(p.decomposed, t, p.dependencies[t])
    BY DEF NamesResolve
  <2>1. PICK d \in Decompositions : p = NewPlan(d)
    BY CreatedAreMade
  <2>2. /\ d \in Decomposed /\ p.decomposed = d
        /\ \A u \in DOMAIN d : p.dependencies[u] = MapDependencies(d, u)
    BY <2>1, MadeOfGraph
  <2> QED
    BY <2>2, Mapped
<1> QED
  BY <1>1, PlansMade, PTL

-----------------------------------------------------------------------------
(* Sequences without repetition, as sets of their elements. *)

LEMMA RangeOf ==
  ASSUME NEW E, NEW s \in Seq(E)
  PROVE  /\ Range(s) = {s[i] : i \in 1..Len(s)} /\ Range(s) \subseteq E
         /\ DOMAIN s = 1..Len(s) /\ Len(s) \in Nat
BY LenProperties DEF Range

LEMMA RangeOfAppend ==
  ASSUME NEW E, NEW s \in Seq(E), NEW x \in E
  PROVE  /\ Append(s, x) \in Seq(E) /\ Range(Append(s, x)) = Range(s) \cup {x}
         /\ Len(Append(s, x)) = Len(s) + 1
         /\ \A i \in 1..Len(s) : Append(s, x)[i] = s[i]
         /\ Append(s, x)[Len(s) + 1] = x
         /\ IsInjective(s) /\ x \notin Range(s) => IsInjective(Append(s, x))
<1> DEFINE a == Append(s, x)
<1>1. /\ a \in Seq(E) /\ Len(a) = Len(s) + 1 /\ a[Len(s) + 1] = x
      /\ \A i \in 1..Len(s) : a[i] = s[i]
  BY AppendProperties
<1>2. /\ DOMAIN s = 1..Len(s) /\ DOMAIN a = 1..(Len(s) + 1) /\ Len(s) \in Nat
  BY <1>1, LenProperties
<1> HIDE DEF a
<1>3. Range(a) = Range(s) \cup {x}
  BY <1>1, <1>2 DEF Range
<1>4. IsInjective(s) /\ x \notin Range(s) => IsInjective(a)
  BY <1>1, <1>2 DEF Range, IsInjective
<1> QED
  BY <1>1, <1>3, <1>4 DEF a

LEMMA RangeOfTail ==
  ASSUME NEW E, NEW s \in Seq(E), s # <<>>
  PROVE  /\ Head(s) \in E /\ Tail(s) \in Seq(E)
         /\ Range(s) = Range(Tail(s)) \cup {Head(s)}
         /\ IsInjective(s) => IsInjective(Tail(s)) /\ Head(s) \notin Range(Tail(s))
<1> DEFINE t == Tail(s)
<1>1. /\ Head(s) \in E /\ t \in Seq(E) /\ Len(t) = Len(s) - 1
      /\ \A i \in 1..Len(t) : t[i] = s[i + 1]
      /\ Head(s) = s[1]
  BY HeadTailProperties
<1>2. DOMAIN s = 1..Len(s) /\ DOMAIN t = 1..Len(t) /\ Len(s) \in Nat \ {0} /\ Len(t) \in Nat
  BY <1>1, LenProperties, EmptySeq
<1> HIDE DEF t
<1>3. Range(s) = Range(t) \cup {Head(s)}
  <2>1. ASSUME NEW i \in 1..Len(s) PROVE s[i] \in Range(t) \cup {Head(s)}
    <3>1. CASE i = 1
      BY <1>1, <3>1
    <3>2. CASE i # 1
      <4>1. i - 1 \in DOMAIN t /\ t[i - 1] = s[i]
        BY <1>1, <1>2, <3>2
      <4> QED
        BY <4>1 DEF Range
    <3> QED
      BY <3>1, <3>2
  <2>2. ASSUME NEW i \in 1..Len(t) PROVE t[i] \in Range(s)
    BY <1>1, <1>2 DEF Range
  <2>3. Head(s) \in Range(s)
    BY <1>1, <1>2 DEF Range
  <2> QED
    BY <1>2, <2>1, <2>2, <2>3 DEF Range
<1>4. IsInjective(s) => IsInjective(t) /\ Head(s) \notin Range(t)
  <2> SUFFICES ASSUME IsInjective(s) PROVE IsInjective(t) /\ Head(s) \notin Range(t)
    OBVIOUS
  <2>1. \A i \in DOMAIN t : t[i] = s[i + 1] /\ i + 1 \in DOMAIN s /\ 1 \in DOMAIN s
    BY <1>1, <1>2
  <2>2. \A i, j \in DOMAIN t : t[i] = t[j] => i + 1 = j + 1
    BY <2>1 DEF IsInjective
  <2>3. \A i \in DOMAIN t : t[i] # s[1]
    <3>1. \A i \in DOMAIN t : i + 1 # 1
      BY <1>2
    <3> QED
      BY <2>1, <3>1 DEF IsInjective
  <2> QED
    BY <1>1, <1>2, <2>2, <2>3 DEF IsInjective, Range
<1> QED
  BY <1>1, <1>3, <1>4 DEF t

LEMMA RangeOfConcat ==
  ASSUME NEW E, NEW s \in Seq(E), NEW t \in Seq(E)
  PROVE  /\ s \o t \in Seq(E) /\ Range(s \o t) = Range(s) \cup Range(t)
         /\ IsInjective(s) /\ IsInjective(t) /\ Range(s) \cap Range(t) = {} => IsInjective(s \o t)
<1> DEFINE c == s \o t
<1>1. /\ c \in Seq(E) /\ Len(c) = Len(s) + Len(t)
      /\ \A i \in 1..(Len(s) + Len(t)) : c[i] = IF i <= Len(s) THEN s[i] ELSE t[i - Len(s)]
  BY ConcatProperties
<1>2. /\ DOMAIN s = 1..Len(s) /\ DOMAIN t = 1..Len(t) /\ DOMAIN c = 1..(Len(s) + Len(t))
      /\ Len(s) \in Nat /\ Len(t) \in Nat
  BY <1>1, LenProperties
<1> HIDE DEF c
<1>3. /\ \A i \in 1..Len(s) : i \in DOMAIN c /\ c[i] = s[i]
      /\ \A i \in 1..Len(t) : Len(s) + i \in DOMAIN c /\ c[Len(s) + i] = t[i]
      /\ \A i \in DOMAIN c : \/ i \in 1..Len(s)
                             \/ \E j \in 1..Len(t) : i = Len(s) + j
  <2>1. ASSUME NEW i \in DOMAIN c PROVE i \in 1..Len(s) \/ \E j \in 1..Len(t) : i = Len(s) + j
    <3>1. CASE i <= Len(s)
      BY <1>2, <3>1
    <3>2. CASE ~ (i <= Len(s))
      <4>1. i - Len(s) \in 1..Len(t) /\ i = Len(s) + (i - Len(s))
        BY <1>2, <3>2
      <4> QED
        BY <4>1
    <3> QED
      BY <3>1, <3>2
  <2>2. ASSUME NEW i \in 1..Len(s) PROVE i \in DOMAIN c /\ c[i] = s[i]
    BY <1>1, <1>2
  <2>3. ASSUME NEW i \in 1..Len(t) PROVE Len(s) + i \in DOMAIN c /\ c[Len(s) + i] = t[i]
    <3>1. /\ Len(s) + i \in 1..(Len(s) + Len(t)) /\ ~ (Len(s) + i <= Len(s))
          /\ Len(s) + i - Len(s) = i
      BY <1>2
    <3> QED
      BY <1>1, <1>2, <3>1
  <2> QED
    BY <2>1, <2>2, <2>3
<1>4. Range(c) = Range(s) \cup Range(t)
  <2>1. ASSUME NEW i \in DOMAIN c PROVE c[i] \in Range(s) \cup Range(t)
    BY <1>2, <1>3 DEF Range
  <2>2. ASSUME NEW i \in DOMAIN s PROVE s[i] \in Range(c)
    <3>1. i \in DOMAIN c /\ c[i] = s[i]
      BY <1>2, <1>3
    <3> QED
      BY <3>1 DEF Range
  <2>3. ASSUME NEW i \in DOMAIN t PROVE t[i] \in Range(c)
    <3>1. Len(s) + i \in DOMAIN c /\ c[Len(s) + i] = t[i]
      BY <1>2, <1>3
    <3> QED
      BY <3>1 DEF Range
  <2> QED
    BY <2>1, <2>2, <2>3 DEF Range
<1>5. ASSUME IsInjective(s), IsInjective(t), Range(s) \cap Range(t) = {},
             NEW i \in DOMAIN c, NEW j \in DOMAIN c, c[i] = c[j]
      PROVE  i = j
  <2>1. \A k \in DOMAIN s, l \in DOMAIN t : s[k] # t[l]
    BY <1>5 DEF Range
  <2>2. CASE i \in 1..Len(s)
    BY <1>2, <1>3, <1>5, <2>1, <2>2 DEF IsInjective
  <2>3. CASE i \notin 1..Len(s)
    <3>1. PICK k \in 1..Len(t) : i = Len(s) + k
      BY <1>3, <2>3
    <3>2. c[i] = t[k]
      BY <1>3, <3>1
    <3>3. CASE j \in 1..Len(s)
      BY <1>2, <1>3, <1>5, <2>1, <3>2, <3>3
    <3>4. CASE j \notin 1..Len(s)
      <4>1. PICK l \in 1..Len(t) : j = Len(s) + l
        BY <1>3, <3>4
      <4>2. t[k] = t[l]
        BY <1>3, <1>5, <3>2, <4>1
      <4> QED
        BY <1>2, <1>5, <3>1, <4>1, <4>2 DEF IsInjective
    <3> QED
      BY <3>3, <3>4
  <2> QED
    BY <2>2, <2>3
<1> QED
  BY <1>1, <1>4, <1>5 DEF c, IsInjective

(* A listing without repetition is of everything exactly if it is as long. *)
LEMMA FullListing ==
  ASSUME NEW n \in Nat, NEW s \in Seq(1..n), IsInjective(s)
  PROVE  Range(s) = 1..n <=> Len(s) = n
<1>1. s \in [1..Len(s) -> 1..n] /\ Len(s) \in Nat
  BY LenProperties
<1>2. s \in Injection(1..Len(s), 1..n)
  BY <1>1 DEF Injection
<1>3. \A m \in Nat : IsFiniteSet(1..m) /\ Cardinality(1..m) = m
  BY FS_Interval
<1>4. Len(s) = n <=> s \in Surjection(1..Len(s), 1..n)
  BY <1>1, <1>2, <1>3, FS_Injection
<1>5. s \in Surjection(1..Len(s), 1..n) <=> Range(s) = 1..n
  BY <1>1 DEF Surjection, Range
<1> QED
  BY <1>4, <1>5

-----------------------------------------------------------------------------
(* topological_sort.  What is sorted and what is queued are together the   *)
(* tasks all of whose dependencies are sorted, and what is sorted has its  *)
(* dependencies before it.                                                 *)

Sorting(deps) == [queue : Seq(DOMAIN deps), sorted : Seq(DOMAIN deps)]

DependenciesFirst(deps, order) ==
  \A j \in DOMAIN order : \A d \in DependsOn(deps, order[j]) :
    \E i \in DOMAIN order : i < j /\ order[i] = d

KahnInv(deps, at) ==
  /\ at \in Sorting(deps)
  /\ IsInjective(at.queue) /\ IsInjective(at.sorted)
  /\ Range(at.queue) \cap Range(at.sorted) = {}
  /\ \A t \in DOMAIN deps :
       t \in Range(at.queue) \cup Range(at.sorted) <=> DependsOn(deps, t) \subseteq Range(at.sorted)
  /\ DependenciesFirst(deps, at.sorted)

LEMMA GraphTypes ==
  ASSUME NEW deps, IsGraph(deps)
  PROVE  /\ Len(deps) \in Nat /\ DOMAIN deps = 1..Len(deps)
         /\ IsFiniteSet(DOMAIN deps) /\ Cardinality(DOMAIN deps) = Len(deps)
         /\ \A t \in DOMAIN deps :
              /\ deps[t] \in Seq(DOMAIN deps) /\ DependsOn(deps, t) \subseteq DOMAIN deps
              /\ DependsOn(deps, t) = {} <=> deps[t] = <<>>
<1>1. /\ Len(deps) \in Nat /\ DOMAIN deps = 1..Len(deps)
      /\ deps \in [1..Len(deps) -> Seq(DOMAIN deps)]
  BY LenProperties DEF IsGraph
<1>2. IsFiniteSet(DOMAIN deps) /\ Cardinality(DOMAIN deps) = Len(deps)
  BY <1>1, FS_Interval
<1>3. ASSUME NEW t \in DOMAIN deps
      PROVE  /\ deps[t] \in Seq(DOMAIN deps) /\ DependsOn(deps, t) \subseteq DOMAIN deps
             /\ DependsOn(deps, t) = {} <=> deps[t] = <<>>
  <2>1. deps[t] \in Seq(DOMAIN deps)
    BY <1>1
  <2>2. /\ Range(deps[t]) = {deps[t][i] : i \in 1..Len(deps[t])}
        /\ Range(deps[t]) \subseteq DOMAIN deps /\ Len(deps[t]) \in Nat
    BY <2>1, RangeOf
  <2>3. deps[t] # <<>> => 1 \in 1..Len(deps[t])
    BY <2>1, EmptySeq
  <2>4. Range(<<>>) = {}
    BY DEF Range
  <2> QED
    BY <2>1, <2>2, <2>3, <2>4 DEF DependsOn
<1> QED
  BY <1>1, <1>2, <1>3

(* A listing of tasks, as a sequence without repetition. *)
LEMMA ListedTasks ==
  ASSUME NEW deps, IsGraph(deps), NEW S \in SUBSET DOMAIN deps
  PROVE  /\ Listed(deps, S) \in Seq(DOMAIN deps)
         /\ Range(Listed(deps, S)) = S
         /\ IsInjective(Listed(deps, S))
<1>1. deps \in Seq(Seq(DOMAIN deps))
  BY DEF IsGraph
<1> DEFINE l == Listed(deps, S)
<1>2. l \in Seq(S) /\ Range(l) = S /\ \A i, j \in DOMAIN l : i < j => l[i] < l[j]
  BY <1>1, ListedPlaces
<1>3. l \in Seq(DOMAIN deps) /\ DOMAIN l = 1..Len(l) /\ Len(l) \in Nat
  BY <1>2, SeqMonotonic, LenProperties
<1>4. \A i \in DOMAIN l : l[i] \in Nat
  BY <1>3, GraphTypes, ElementOfSeq
<1> HIDE DEF l
<1>5. ASSUME NEW i \in DOMAIN l, NEW j \in DOMAIN l, l[i] = l[j] PROVE i = j
  <2>1. ~ (i < j) /\ ~ (j < i) /\ i \in Nat /\ j \in Nat
    BY <1>2, <1>3, <1>4, <1>5
  <2> QED
    BY <2>1
<1> QED
  BY <1>2, <1>3, <1>5 DEF l, IsInjective

LEMMA KahnStart ==
  ASSUME NEW deps, IsGraph(deps)
  PROVE  KahnInv(deps, [queue |-> Roots(deps), sorted |-> <<>>])
<1>1. /\ Roots(deps) \in Seq(DOMAIN deps) /\ IsInjective(Roots(deps))
      /\ Range(Roots(deps)) = {t \in DOMAIN deps : deps[t] = <<>>}
  BY ListedTasks DEF Roots
<1>2. <<>> \in Seq(DOMAIN deps) /\ Range(<<>>) = {} /\ IsInjective(<<>>) /\ DependenciesFirst(deps, <<>>)
  BY DEF Range, IsInjective, DependenciesFirst
<1> QED
  BY <1>1, <1>2, GraphTypes DEF KahnInv, Sorting

LEMMA KahnTurn ==
  ASSUME NEW deps, IsGraph(deps), NEW at, KahnInv(deps, at)
  PROVE  /\ KahnInv(deps, Turn(deps, at))
         /\ IF at.queue = <<>> THEN Turn(deps, at) = at
            ELSE Len(Turn(deps, at).sorted) = Len(at.sorted) + 1
<1>1. CASE at.queue = <<>>
  BY <1>1 DEF Turn
<1>2. CASE at.queue # <<>>
  <2> DEFINE t        == Head(at.queue)
             sorted   == Append(at.sorted, t)
             released == Released(deps, t, Range(sorted))
             queue    == Tail(at.queue) \o released
             done     == Range(at.sorted)
             V        == DOMAIN deps
  <2>1. Turn(deps, at) = [queue |-> queue, sorted |-> sorted]
    BY <1>2 DEF Turn
  <2>2. at.queue \in Seq(V) /\ at.sorted \in Seq(V)
    BY DEF KahnInv, Sorting
  <2>3. /\ t \in V /\ Tail(at.queue) \in Seq(V)
        /\ Range(at.queue) = Range(Tail(at.queue)) \cup {t}
        /\ IsInjective(Tail(at.queue)) /\ t \notin Range(Tail(at.queue))
    BY <1>2, <2>2, RangeOfTail DEF KahnInv
  <2>4. t \notin done /\ DependsOn(deps, t) \subseteq done
    BY <2>3 DEF KahnInv
  <2> HIDE DEF t
  <2>5. /\ sorted \in Seq(V) /\ Range(sorted) = done \cup {t}
        /\ Len(sorted) = Len(at.sorted) + 1
        /\ \A i \in 1..Len(at.sorted) : sorted[i] = at.sorted[i]
        /\ sorted[Len(at.sorted) + 1] = t
        /\ IsInjective(sorted)
    BY <2>2, <2>3, <2>4, RangeOfAppend DEF KahnInv
  <2> HIDE DEF sorted
  <2> DEFINE R == {i \in V : t \in DependsOn(deps, i) /\ DependsOn(deps, i) \subseteq done \cup {t}}
  <2>6. released \in Seq(V) /\ Range(released) = R /\ IsInjective(released)
    BY <2>5, ListedTasks DEF Released
  <2> HIDE DEF released
  <2>7. R \cap (Range(at.queue) \cup done) = {}
    BY <2>4 DEF KahnInv
  <2>8. /\ queue \in Seq(V) /\ Range(queue) = Range(Tail(at.queue)) \cup R /\ IsInjective(queue)
    BY <2>3, <2>6, <2>7, RangeOfConcat
  <2> HIDE DEF queue
  <2>9. Range(queue) \cap Range(sorted) = {}
    BY <2>3, <2>5, <2>7, <2>8 DEF KahnInv
  <2>10. ASSUME NEW u \in V
         PROVE  u \in Range(queue) \cup Range(sorted) <=> DependsOn(deps, u) \subseteq Range(sorted)
    <3>1. u \in Range(queue) \cup Range(sorted) <=> u \in R \cup Range(at.queue) \cup done
      BY <2>3, <2>5, <2>8
    <3>2. u \in Range(at.queue) \cup done <=> DependsOn(deps, u) \subseteq done
      BY DEF KahnInv
    <3> QED
      BY <2>5, <3>1, <3>2
  <2>11. DependenciesFirst(deps, sorted)
    <3>1. /\ DOMAIN at.sorted = 1..Len(at.sorted) /\ DOMAIN sorted = 1..(Len(at.sorted) + 1)
          /\ Len(at.sorted) \in Nat
      BY <2>2, <2>5, LenProperties
    <3>2. ASSUME NEW j \in DOMAIN sorted, NEW d \in DependsOn(deps, sorted[j])
          PROVE  \E i \in DOMAIN sorted : i < j /\ sorted[i] = d
      <4>1. CASE j \in DOMAIN at.sorted
        <5>1. PICK i \in DOMAIN at.sorted : i < j /\ at.sorted[i] = d
          BY <2>5, <3>1, <3>2, <4>1 DEF KahnInv, DependenciesFirst
        <5> QED
          BY <2>5, <3>1, <5>1
      <4>2. CASE j = Len(at.sorted) + 1
        <5>1. d \in done
          BY <2>4, <2>5, <3>2, <4>2
        <5>2. PICK i \in DOMAIN at.sorted : at.sorted[i] = d
          BY <5>1 DEF Range
        <5> QED
          BY <2>5, <3>1, <4>2, <5>2
      <4> QED
        BY <3>1, <4>1, <4>2
    <3> QED
      BY <3>2 DEF DependenciesFirst
  <2>12. KahnInv(deps, [queue |-> queue, sorted |-> sorted])
    BY <2>5, <2>8, <2>9, <2>10, <2>11 DEF KahnInv, Sorting
  <2> QED
    BY <1>2, <2>1, <2>5, <2>12
<1> QED
  BY <1>1, <1>2

(* Kahn's loop is the iteration of Turn. *)
LEMMA KahnTurns ==
  ASSUME NEW deps, IsGraph(deps)
  PROVE  \E turn : /\ Kahn(deps) = turn[Len(deps)]
                   /\ turn[0] = [queue |-> Roots(deps), sorted |-> <<>>]
                   /\ \A i \in 0..(Len(deps) - 1) : turn[i + 1] = Turn(deps, turn[i])
<1> DEFINE N == Len(deps)
           S == {at \in Sorting(deps) : KahnInv(deps, at)}
           c == [queue |-> Roots(deps), sorted |-> <<>>]
           step == [x \in Nat \X S |-> Turn(deps, x[2])]
           F(f) == [n \in 0..N |-> IF n = 0 THEN c ELSE Turn(deps, f[n - 1])]
<1>1. N \in Nat
  BY GraphTypes
<1>2. c \in S
  BY KahnStart DEF KahnInv
<1>3. step \in [Nat \X S -> S]
  <2>1. \A at \in S : Turn(deps, at) \in S
    BY KahnTurn DEF KahnInv
  <2> QED
    BY <2>1
<1> HIDE DEF c, S
<1>4. \A i \in Nat, at \in S : step[<<i, at>>] = Turn(deps, at)
  OBVIOUS
<1> HIDE DEF step, N
<1>5. PICK f \in [0..N -> S] : Loops(f, N, c, step)
  BY <1>1, <1>2, <1>3, Recursion
<1>6. \A i \in 0..N : f[i] = IF i = 0 THEN c ELSE Turn(deps, f[i - 1])
  <2> TAKE i \in 0..N
  <2>1. CASE i = 0
    BY <1>5, <2>1 DEF Loops
  <2>2. CASE i # 0
    <3>1. i \in Nat /\ i - 1 \in 0..N
      BY <1>1, <2>2
    <3>2. f[i - 1] \in S /\ f[i] = step[<<i, f[i - 1]>>]
      BY <1>5, <2>2, <3>1 DEF Loops
    <3> QED
      BY <1>4, <2>2, <3>1, <3>2
  <2> QED
    BY <2>1, <2>2
<1>7. f = F(f)
  BY <1>5, <1>6
<1> DEFINE turn == CHOOSE g : g = F(g)
<1>8. turn = F(turn)
  <2> HIDE DEF F
  <2> QED
    BY <1>7
<1>9. Kahn(deps) = turn[N]
  BY DEF Kahn, c, N
<1> HIDE DEF turn
<1>10. \A g : \A n \in 0..N : F(g)[n] = IF n = 0 THEN c ELSE Turn(deps, g[n - 1])
  OBVIOUS
<1> HIDE DEF F
<1>11. turn[0] = c /\ \A i \in 0..(N - 1) : turn[i + 1] = Turn(deps, turn[i])
  <2>1. turn[0] = c
    BY <1>1, <1>8, <1>10
  <2>2. ASSUME NEW i \in 0..(N - 1) PROVE turn[i + 1] = Turn(deps, turn[i])
    <3>1. i + 1 \in 0..N /\ i + 1 # 0 /\ i + 1 - 1 = i
      BY <1>1
    <3>2. turn[i + 1] = Turn(deps, turn[i + 1 - 1])
      BY <1>8, <1>10, <3>1
    <3> QED
      BY <3>1, <3>2
  <2> QED
    BY <2>1, <2>2
<1> QED
  BY <1>9, <1>11 DEF c, N

(* After as many turns as there are tasks nothing is queued. *)
LEMMA KahnEnd ==
  ASSUME NEW deps, IsGraph(deps)
  PROVE  KahnInv(deps, Kahn(deps)) /\ Kahn(deps).queue = <<>>
<1> DEFINE N == Len(deps)
           V == DOMAIN deps
<1>1. PICK turn : /\ Kahn(deps) = turn[N]
                  /\ turn[0] = [queue |-> Roots(deps), sorted |-> <<>>]
                  /\ \A i \in 0..(N - 1) : turn[i + 1] = Turn(deps, turn[i])
  BY KahnTurns
<1> DEFINE Good(n) == n <= N => /\ KahnInv(deps, turn[n])
                                /\ turn[n].queue = <<>> \/ Len(turn[n].sorted) = n
           G == {n \in Nat : Good(n)}
<1>2. N \in Nat /\ V = 1..N
  BY GraphTypes
<1>3. 0 \in G
  <2>1. turn[0].sorted = <<>> /\ Len(<<>>) = 0 /\ KahnInv(deps, turn[0])
    BY <1>1, KahnStart
  <2> QED
    BY <2>1
<1>4. ASSUME NEW n \in Nat, n \in G PROVE n + 1 \in G
  <2> HIDE DEF N
  <2> SUFFICES ASSUME n + 1 <= N
               PROVE  /\ KahnInv(deps, turn[n + 1])
                      /\ turn[n + 1].queue = <<>> \/ Len(turn[n + 1].sorted) = n + 1
    OBVIOUS
  <2>1. turn[n + 1] = Turn(deps, turn[n])
    BY <1>1, <1>2
  <2>2. KahnInv(deps, turn[n]) /\ (turn[n].queue = <<>> \/ Len(turn[n].sorted) = n)
    BY <1>2, <1>4
  <2> QED
    BY <2>1, <2>2, KahnTurn
<1>5. N \in G
  <2> HIDE DEF G, N
  <2> QED
    BY <1>2, <1>3, <1>4, ByInduction
<1>6. KahnInv(deps, Kahn(deps)) /\ (Kahn(deps).queue = <<>> \/ Len(Kahn(deps).sorted) = N)
  BY <1>1, <1>2, <1>5
<1>7. ASSUME Len(Kahn(deps).sorted) = N PROVE Kahn(deps).queue = <<>>
  <2>1. /\ Kahn(deps).sorted \in Seq(1..N) /\ IsInjective(Kahn(deps).sorted)
        /\ Kahn(deps).queue \in Seq(V) /\ Range(Kahn(deps).queue) \cap Range(Kahn(deps).sorted) = {}
    BY <1>2, <1>6 DEF KahnInv, Sorting
  <2>2. Range(Kahn(deps).sorted) = V
    BY <1>2, <1>7, <2>1, FullListing
  <2>3. Range(Kahn(deps).queue) = {}
    BY <2>1, <2>2, RangeOf
  <2>4. Kahn(deps).queue # <<>> => 1 \in 1..Len(Kahn(deps).queue)
    BY <2>1, EmptySeq
  <2>5. 1 \in 1..Len(Kahn(deps).queue) => Kahn(deps).queue[1] \in Range(Kahn(deps).queue)
    BY <2>1, RangeOf
  <2> QED
    BY <2>3, <2>4, <2>5
<1> QED
  BY <1>6, <1>7

(* On a graph without cycles, and on no other, every task is sorted. *)
LEMMA KahnSortsIffAcyclic ==
  ASSUME NEW deps, IsGraph(deps)
  PROVE  Len(Kahn(deps).sorted) = Len(deps) <=> Acyclic(deps)
<1> DEFINE sorted == Kahn(deps).sorted
           V      == DOMAIN deps
           done   == Range(sorted)
<1>1. /\ sorted \in Seq(V) /\ IsInjective(sorted) /\ DependenciesFirst(deps, sorted)
      /\ \A t \in V : t \in done <=> DependsOn(deps, t) \subseteq done
  <2>1. Range(<<>>) = {}
    BY DEF Range
  <2> QED
    BY <2>1, KahnEnd DEF KahnInv, Sorting
<1> HIDE DEF sorted
<1>2. V = 1..Len(deps) /\ Len(deps) \in Nat
  BY GraphTypes
<1>3. done = V <=> Len(sorted) = Len(deps)
  BY <1>1, <1>2, FullListing
<1>4. done \subseteq V
  BY <1>1, RangeOf
<1>5. ASSUME Acyclic(deps) PROVE done = V
  <2> SUFFICES ASSUME V \ done # {} PROVE FALSE
    BY <1>4
  <2>1. PICK t \in V \ done : DependsOn(deps, t) \cap (V \ done) = {}
    BY <1>5 DEF Acyclic
  <2>2. DependsOn(deps, t) \subseteq V
    BY GraphTypes
  <2> QED
    BY <1>1, <2>1, <2>2
<1>6. ASSUME done = V, NEW S \in SUBSET V, S # {}
      PROVE  \E t \in S : DependsOn(deps, t) \cap S = {}
  <2> DEFINE places == {i \in DOMAIN sorted : sorted[i] \in S}
  <2>1. DOMAIN sorted = 1..Len(sorted) /\ Len(sorted) \in Nat
    BY <1>1, LenProperties
  <2>2. places \in SUBSET Nat /\ places # {}
    BY <1>6, <2>1 DEF Range
  <2>3. PICK i \in places : \A j \in places : i <= j
    BY <2>2, LeastOf
  <2>4. ASSUME NEW d \in DependsOn(deps, sorted[i]) \cap S PROVE FALSE
    <3>1. PICK j \in DOMAIN sorted : j < i /\ sorted[j] = d
      BY <1>1 DEF DependenciesFirst
    <3> QED
      BY <2>1, <2>3, <3>1
  <2> QED
    BY <2>4
<1> QED
  BY <1>3, <1>5, <1>6 DEF Acyclic, sorted

(* What execute_plan walks: an order of the graph, or the plan's own. *)
THEOREM Topological ==
  ASSUME NEW deps, IsGraph(deps)
  PROVE  /\ Range(TopologicalSort(deps)) = DOMAIN deps
         /\ Len(TopologicalSort(deps)) = Len(deps)
         /\ TopologicalSort(deps) \in Seq(DOMAIN deps)
         /\ IsInjective(TopologicalSort(deps))
         /\ Acyclic(deps) => DependenciesFirst(deps, TopologicalSort(deps))
         /\ ~ Acyclic(deps) => TopologicalSort(deps) = [t \in DOMAIN deps |-> t]
<1>1. Len(deps) \in Nat /\ DOMAIN deps = 1..Len(deps)
  BY GraphTypes
<1>2. CASE Acyclic(deps)
  <2>1. Len(Kahn(deps).sorted) = Len(deps)
    BY <1>2, KahnSortsIffAcyclic
  <2>2. TopologicalSort(deps) = Kahn(deps).sorted
    BY <2>1 DEF TopologicalSort
  <2>3. /\ Kahn(deps).sorted \in Seq(DOMAIN deps) /\ IsInjective(Kahn(deps).sorted)
        /\ DependenciesFirst(deps, Kahn(deps).sorted)
    BY KahnEnd DEF KahnInv, Sorting
  <2>4. Range(Kahn(deps).sorted) = DOMAIN deps
    BY <1>1, <2>1, <2>3, FullListing
  <2> QED
    BY <1>2, <2>1, <2>2, <2>3, <2>4
<1>3. CASE ~ Acyclic(deps)
  <2> DEFINE own == [t \in DOMAIN deps |-> t]
  <2>1. TopologicalSort(deps) = own
    BY <1>3, KahnSortsIffAcyclic DEF TopologicalSort
  <2>2. own \in [1..Len(deps) -> DOMAIN deps] /\ own \in Seq(DOMAIN deps)
    BY <1>1, IsASeq
  <2>3. Len(own) = Len(deps) /\ Range(own) = DOMAIN deps /\ IsInjective(own)
    BY <1>1, <2>2, LenProperties DEF Range, IsInjective
  <2> QED
    BY <1>3, <2>1, <2>2, <2>3
<1> QED
  BY <1>2, <1>3

(* execute_plan's order is one of the tasks, each after what it depends on *)
(* where the graph has no cycle.                                           *)
THEOREM PlansOrdered == Spec => []OrderRespectsDependencies
<1>1. Made => OrderRespectsDependencies
  <2> SUFFICES ASSUME Made, NEW p \in Created
               PROVE  LET deps  == p.dependencies
                          order == TopologicalSort(deps)
                          Pos(t) == CHOOSE i \in DOMAIN order : order[i] = t
                      IN  /\ Range(order) = DOMAIN deps
                          /\ Len(order) = Len(deps)
                          /\ IF Acyclic(deps)
                             THEN \A t \in DOMAIN deps : \A d \in DependsOn(deps, t) : Pos(d) < Pos(t)
                             ELSE order = [t \in DOMAIN deps |-> t]
    BY DEF OrderRespectsDependencies
  <2> DEFINE deps   == p.dependencies
             order  == TopologicalSort(deps)
             Pos(t) == CHOOSE i \in DOMAIN order : order[i] = t
  <2>1. IsGraph(deps)
    BY CreatedAreMade, MadeOfGraph
  <2> HIDE DEF deps
  <2>2. /\ Range(order) = DOMAIN deps /\ Len(order) = Len(deps) /\ IsInjective(order)
        /\ Acyclic(deps) => DependenciesFirst(deps, order)
        /\ ~ Acyclic(deps) => order = [t \in DOMAIN deps |-> t]
    BY <2>1, Topological
  <2> HIDE DEF order
  <2>3. ASSUME Acyclic(deps), NEW t \in DOMAIN deps, NEW d \in DependsOn(deps, t)
        PROVE  Pos(d) < Pos(t)
    <3>1. PICK i \in DOMAIN order : order[i] = t
      BY <2>2 DEF Range
    <3>2. PICK j \in DOMAIN order : j < i /\ order[j] = d
      BY <2>2, <2>3, <3>1 DEF DependenciesFirst
    <3>3. Pos(t) = i /\ Pos(d) = j
      BY <2>2, <3>1, <3>2 DEF IsInjective
    <3> QED
      BY <3>2, <3>3
  <2> QED
    BY <2>2, <2>3 DEF deps, order
<1> QED
  BY <1>1, PlansMade, PTL

-----------------------------------------------------------------------------
(* calculate_task_depths.  The calls of calculate_depth, and what its loop *)
(* over the dependencies of a task has found so far.                       *)

Calls(deps) == [Memo(deps) -> [DOMAIN deps -> Memo(deps)]]
Looks(deps) == [memo : Memo(deps), max : Nat \cup {-1}]

Start(memo, t) == [memo |-> [memo EXCEPT !.visited = @ \cup {t}], max |-> -1]

LookAt(calculate, look, d) ==
  LET after == calculate[look.memo][d]
  IN  [memo |-> after, max |-> Deeper(look.max, after.depths[d])]

LEMMA DeeperIsMax ==
  ASSUME NEW a \in Int, NEW b \in Int
  PROVE  Deeper(a, b) = IF a >= b THEN a ELSE b
<1>1. {a, b} \in SUBSET Int /\ {a, b} # {} /\ IsFiniteSet({a, b})
  <2>1. IsFiniteSet({a}) /\ {a} \cup {b} = {a, b}
    BY FS_Singleton
  <2> QED
    BY <2>1, FS_AddElement
<1>2. Max({a, b}) \in {a, b} /\ \A x \in {a, b} : x <= Max({a, b})
  BY <1>1, MaxOf
<1> QED
  BY <1>2 DEF Deeper

LEMMA MemoTypes ==
  ASSUME NEW deps, NEW memo \in Memo(deps), NEW t \in DOMAIN deps
  PROVE  /\ memo.visited \in SUBSET DOMAIN deps
         /\ memo.depths \in [DOMAIN deps -> Nat]
         /\ Start(memo, t) \in Looks(deps)
         /\ Start(memo, t).max = -1
         /\ Start(memo, t).memo.visited = memo.visited \cup {t}
         /\ Start(memo, t).memo.depths = memo.depths
         /\ \A x \in Nat : /\ [memo EXCEPT !.depths[t] = x] \in Memo(deps)
                           /\ [memo EXCEPT !.depths[t] = x].visited = memo.visited
                           /\ [memo EXCEPT !.depths[t] = x].depths[t] = x
                           /\ \A u \in DOMAIN deps : u # t =>
                                [memo EXCEPT !.depths[t] = x].depths[u] = memo.depths[u]
<1>1. memo.visited \in SUBSET DOMAIN deps /\ memo.depths \in [DOMAIN deps -> Nat]
  BY DEF Memo
<1>2. /\ Start(memo, t) \in Looks(deps) /\ Start(memo, t).max = -1
      /\ Start(memo, t).memo.visited = memo.visited \cup {t}
      /\ Start(memo, t).memo.depths = memo.depths
  BY DEF Memo, Start, Looks
<1>3. ASSUME NEW x \in Nat
      PROVE  /\ [memo EXCEPT !.depths[t] = x] \in Memo(deps)
             /\ [memo EXCEPT !.depths[t] = x].visited = memo.visited
             /\ [memo EXCEPT !.depths[t] = x].depths = [memo.depths EXCEPT ![t] = x]
  BY DEF Memo
<1> QED
  BY <1>1, <1>2, <1>3

LEMMA LookAtTypes ==
  ASSUME NEW deps, NEW calculate \in Calls(deps), NEW look \in Looks(deps), NEW d \in DOMAIN deps
  PROVE  /\ LookAt(calculate, look, d) \in Looks(deps)
         /\ LookAt(calculate, look, d).memo = calculate[look.memo][d]
         /\ calculate[look.memo][d] \in Memo(deps)
         /\ LookAt(calculate, look, d).max =
              LET depth == calculate[look.memo][d].depths[d]
              IN  IF look.max >= depth THEN look.max ELSE depth
<1> DEFINE after == calculate[look.memo][d]
<1>1. look.memo \in Memo(deps) /\ look.max \in Nat \cup {-1}
  BY DEF Looks
<1>2. after \in Memo(deps)
  BY <1>1 DEF Calls
<1>3. LookAt(calculate, look, d) = [memo |-> after, max |-> Deeper(look.max, after.depths[d])]
  BY DEF LookAt
<1> HIDE DEF after
<1>4. after.depths[d] \in Nat
  BY <1>2, MemoTypes
<1>5. Deeper(look.max, after.depths[d]) = IF look.max >= after.depths[d] THEN look.max ELSE after.depths[d]
  BY <1>1, <1>4, DeeperIsMax
<1>6. Deeper(look.max, after.depths[d]) \in Nat \cup {-1}
  BY <1>1, <1>4, <1>5
<1> QED
  BY <1>2, <1>3, <1>5, <1>6 DEF Looks, after

(* The loop is the iteration of LookAt. *)
LEMMA LooksAtDeps ==
  ASSUME NEW deps, IsGraph(deps), NEW calculate \in Calls(deps),
         NEW memo \in Memo(deps), NEW t \in DOMAIN deps
  PROVE  \E look \in [0..Len(deps[t]) -> Looks(deps)] :
           /\ LookAtDeps(deps, calculate, memo, t) = look[Len(deps[t])]
           /\ look[0] = Start(memo, t)
           /\ \A i \in 1..Len(deps[t]) : look[i] = LookAt(calculate, look[i - 1], deps[t][i])
<1> DEFINE N == Len(deps[t])
           S == Looks(deps)
           c == [memo |-> [memo EXCEPT !.visited = @ \cup {t}], max |-> -1]
           e(i, before) == LET after == calculate[before.memo][deps[t][i]]
                           IN  [memo |-> after,
                                max  |-> Deeper(before.max, after.depths[deps[t][i]])]
           step == [x \in Nat \X S |-> IF x[1] \in 1..N THEN e(x[1], x[2]) ELSE x[2]]
           F(f) == [i \in 0..N |-> IF i = 0 THEN c ELSE e(i, f[i - 1])]
<1>1. N \in Nat /\ \A i \in 1..N : deps[t][i] \in DOMAIN deps
  BY GraphTypes, LenProperties, ElementOfSeq
<1>2. c = Start(memo, t) /\ c \in S
  BY MemoTypes DEF Start
<1>3. \A i \in 1..N, look \in S : /\ e(i, look) = LookAt(calculate, look, deps[t][i])
                                  /\ e(i, look) \in S
  <2> TAKE i \in 1..N, look \in S
  <2>1. e(i, look) = LookAt(calculate, look, deps[t][i])
    BY DEF LookAt
  <2>2. LookAt(calculate, look, deps[t][i]) \in S
    BY <1>1, LookAtTypes
  <2> QED
    BY <2>1, <2>2
<1> HIDE DEF e, S, c, N
<1>4. step \in [Nat \X S -> S]
  BY <1>3
<1>5. \A i \in 1..N, look \in S : i \in Nat => step[<<i, look>>] = e(i, look)
  OBVIOUS
<1> HIDE DEF step
<1>6. PICK f \in [0..N -> S] : Loops(f, N, c, step)
  BY <1>1, <1>2, <1>4, Recursion
<1>7. \A i \in 0..N : f[i] = IF i = 0 THEN c ELSE e(i, f[i - 1])
  <2> TAKE i \in 0..N
  <2>1. CASE i = 0
    BY <1>6, <2>1 DEF Loops
  <2>2. CASE i # 0
    <3>1. i \in Nat /\ i \in 1..N /\ i - 1 \in 0..N
      BY <1>1, <2>2
    <3>2. f[i - 1] \in S /\ f[i] = step[<<i, f[i - 1]>>]
      BY <1>6, <2>2, <3>1 DEF Loops
    <3> QED
      BY <1>5, <2>2, <3>1, <3>2
  <2> QED
    BY <2>1, <2>2
<1>8. f = F(f)
  BY <1>6, <1>7
<1> DEFINE look == CHOOSE g : g = F(g)
<1>9. look = F(look)
  <2> HIDE DEF F
  <2> QED
    BY <1>8
<1>10. LookAtDeps(deps, calculate, memo, t) = look[N]
  BY DEF LookAtDeps, c, N, e
<1> HIDE DEF look
<1>11. \A g : \A i \in 0..N : F(g)[i] = IF i = 0 THEN c ELSE e(i, g[i - 1])
  OBVIOUS
<1>12. \A g : DOMAIN F(g) = 0..N
  OBVIOUS
<1> HIDE DEF F
<1> DEFINE G == {i \in Nat : i <= N => look[i] \in S}
<1>13. look[0] = c
  BY <1>1, <1>9, <1>11
<1>14. ASSUME NEW i \in 1..N PROVE look[i] = e(i, look[i - 1])
  <2>1. i \in 0..N /\ i # 0
    BY <1>1
  <2> QED
    BY <1>9, <1>11, <2>1
<1>15. 0 \in G
  BY <1>2, <1>13
<1>16. ASSUME NEW i \in Nat, i \in G PROVE i + 1 \in G
  <2> SUFFICES ASSUME i + 1 <= N PROVE look[i + 1] \in S
    OBVIOUS
  <2>1. i + 1 \in 1..N /\ i + 1 - 1 = i
    BY <1>1
  <2>2. look[i + 1] = e(i + 1, look[i])
    BY <1>14, <2>1
  <2>3. look[i] \in S
    BY <1>1, <1>16
  <2> QED
    BY <1>3, <2>1, <2>2, <2>3
<1>17. \A i \in 0..N : look[i] \in S
  <2>1. Nat \subseteq G
    <3> HIDE DEF G
    <3> QED
      BY <1>15, <1>16, ByInduction
  <2> QED
    BY <1>1, <2>1
<1>18. look \in [0..N -> S]
  <2>1. look = [i \in 0..N |-> look[i]]
    BY <1>9, <1>12 DEF F
  <2> QED
    BY <1>17, <2>1
<1>19. \A i \in 1..N : look[i] = LookAt(calculate, look[i - 1], deps[t][i])
  <2> TAKE i \in 1..N
  <2>1. look[i - 1] \in S
    BY <1>1, <1>17
  <2> QED
    BY <1>3, <1>14, <2>1
<1> QED
  BY <1>2, <1>10, <1>13, <1>18, <1>19 DEF N, S

(* A call of calculate_depth, by the number of calls that may be nested. *)
Call(deps, calculate) ==
  [memo \in Memo(deps) |-> [t \in DOMAIN deps |-> CalculateDepth(deps, calculate, memo, t)]]

LEMMA CallTypes ==
  ASSUME NEW deps, IsGraph(deps), NEW calculate \in Calls(deps)
  PROVE  /\ Call(deps, calculate) \in Calls(deps)
         /\ \A memo \in Memo(deps), t \in DOMAIN deps :
              Call(deps, calculate)[memo][t] = CalculateDepth(deps, calculate, memo, t)
<1>1. ASSUME NEW memo \in Memo(deps), NEW t \in DOMAIN deps
      PROVE  CalculateDepth(deps, calculate, memo, t) \in Memo(deps)
  <2> DEFINE end == LookAtDeps(deps, calculate, memo, t)
  <2>1. Len(deps[t]) \in 0..Len(deps[t])
    BY GraphTypes, LenProperties
  <2>2. end \in Looks(deps)
    BY <2>1, LooksAtDeps
  <2>3. end.memo \in Memo(deps) /\ end.max + 1 \in Nat
    BY <2>2 DEF Looks
  <2> HIDE DEF end
  <2>4. [end.memo EXCEPT !.depths[t] = end.max + 1] \in Memo(deps)
    BY <2>3, MemoTypes
  <2> QED
    BY <2>4 DEF CalculateDepth, end
<1> QED
  BY <1>1 DEF Call, Calls

LEMMA NestedCalls ==
  ASSUME NEW deps, IsGraph(deps)
  PROVE  \E calculate \in [0..Len(deps) -> Calls(deps)] :
           /\ Calculation(deps) = calculate[Len(deps)]
           /\ calculate[0] = [memo \in Memo(deps) |-> [t \in DOMAIN deps |-> memo]]
           /\ \A n \in 1..Len(deps) : calculate[n] = Call(deps, calculate[n - 1])
<1> DEFINE N == Len(deps)
           S == Calls(deps)
           c == [memo \in Memo(deps) |-> [t \in DOMAIN deps |-> memo]]
           step == [x \in Nat \X S |-> Call(deps, x[2])]
           F(f) == [n \in 0..N |-> IF n = 0 THEN c ELSE Call(deps, f[n - 1])]
<1>1. N \in Nat
  BY GraphTypes
<1>2. c \in S
  BY DEF Calls
<1>3. \A calculate \in S : Call(deps, calculate) \in S
  BY CallTypes
<1> HIDE DEF S, c, N
<1>4. step \in [Nat \X S -> S]
  BY <1>3
<1>5. \A i \in Nat, calculate \in S : step[<<i, calculate>>] = Call(deps, calculate)
  OBVIOUS
<1> HIDE DEF step
<1>6. PICK f \in [0..N -> S] : Loops(f, N, c, step)
  BY <1>1, <1>2, <1>4, Recursion
<1>7. \A i \in 0..N : f[i] = IF i = 0 THEN c ELSE Call(deps, f[i - 1])
  <2> TAKE i \in 0..N
  <2>1. CASE i = 0
    BY <1>6, <2>1 DEF Loops
  <2>2. CASE i # 0
    <3>1. i \in Nat /\ i - 1 \in 0..N
      BY <1>1, <2>2
    <3>2. f[i - 1] \in S /\ f[i] = step[<<i, f[i - 1]>>]
      BY <1>6, <2>2, <3>1 DEF Loops
    <3> QED
      BY <1>5, <2>2, <3>1, <3>2
  <2> QED
    BY <2>1, <2>2
<1>8. f = F(f)
  BY <1>6, <1>7
<1> DEFINE calculate == CHOOSE g : g = F(g)
<1>9. calculate = F(calculate)
  <2> HIDE DEF F
  <2> QED
    BY <1>8
<1>10. Calculation(deps) = calculate[N]
  BY DEF Calculation, Call, c, N
<1> HIDE DEF calculate
<1>11. \A g : \A i \in 0..N : F(g)[i] = IF i = 0 THEN c ELSE Call(deps, g[i - 1])
  OBVIOUS
<1> HIDE DEF F
<1> DEFINE G == {i \in Nat : i <= N => calculate[i] \in S}
<1>12. calculate[0] = c
  BY <1>1, <1>9, <1>11
<1>13. ASSUME NEW i \in 1..N PROVE calculate[i] = Call(deps, calculate[i - 1])
  <2>1. i \in 0..N /\ i # 0
    BY <1>1
  <2> QED
    BY <1>9, <1>11, <2>1
<1>14. 0 \in G
  BY <1>2, <1>12
<1>15. ASSUME NEW i \in Nat, i \in G PROVE i + 1 \in G
  <2> SUFFICES ASSUME i + 1 <= N PROVE calculate[i + 1] \in S
    OBVIOUS
  <2>1. i + 1 \in 1..N /\ i + 1 - 1 = i
    BY <1>1
  <2>2. calculate[i + 1] = Call(deps, calculate[i])
    BY <1>13, <2>1
  <2>3. calculate[i] \in S
    BY <1>1, <1>15
  <2> QED
    BY <1>3, <2>1, <2>2, <2>3
<1>16. \A i \in 0..N : calculate[i] \in S
  <2>1. Nat \subseteq G
    <3> HIDE DEF G
    <3> QED
      BY <1>14, <1>15, ByInduction
  <2> QED
    BY <1>1, <2>1
<1>17. calculate \in [0..N -> S]
  <2>1. calculate = [i \in 0..N |-> calculate[i]]
    BY <1>9 DEF F
  <2> QED
    BY <1>16, <2>1
<1> QED
  BY <1>10, <1>12, <1>13, <1>17 DEF N, S, c

(* The outer loop, over the tasks. *)
LEMMA TasksLoop ==
  ASSUME NEW deps, IsGraph(deps), Calculation(deps) \in Calls(deps)
  PROVE  \E memo : /\ TaskDepths(deps) = memo[Len(deps)].depths
                   /\ memo[0] = [visited |-> {}, depths |-> [d \in DOMAIN deps |-> 0]]
                   /\ \A t \in 1..Len(deps) : memo[t] = Calculation(deps)[memo[t - 1]][t]
<1> DEFINE N == Len(deps)
           S == Memo(deps)
           c == [visited |-> {}, depths |-> [d \in DOMAIN deps |-> 0]]
           calculate == Calculation(deps)
           step == [x \in Nat \X S |-> IF x[1] \in DOMAIN deps THEN calculate[x[2]][x[1]] ELSE x[2]]
           F(f) == [t \in 0..N |-> IF t = 0 THEN c ELSE calculate[f[t - 1]][t]]
<1>1. N \in Nat /\ DOMAIN deps = 1..N
  BY GraphTypes
<1>2. c \in S
  BY DEF Memo
<1>3. \A memo \in S, t \in DOMAIN deps : calculate[memo][t] \in S
  BY DEF Calls
<1> HIDE DEF S, c, N, calculate
<1>4. step \in [Nat \X S -> S]
  BY <1>3
<1>5. \A i \in Nat, memo \in S : i \in DOMAIN deps => step[<<i, memo>>] = calculate[memo][i]
  OBVIOUS
<1> HIDE DEF step
<1>6. PICK f \in [0..N -> S] : Loops(f, N, c, step)
  BY <1>1, <1>2, <1>4, Recursion
<1>7. \A i \in 0..N : f[i] = IF i = 0 THEN c ELSE calculate[f[i - 1]][i]
  <2> TAKE i \in 0..N
  <2>1. CASE i = 0
    BY <1>6, <2>1 DEF Loops
  <2>2. CASE i # 0
    <3>1. i \in Nat /\ i - 1 \in 0..N /\ i \in DOMAIN deps
      BY <1>1, <2>2
    <3>2. f[i - 1] \in S /\ f[i] = step[<<i, f[i - 1]>>]
      BY <1>6, <2>2, <3>1 DEF Loops
    <3> QED
      BY <1>5, <2>2, <3>1, <3>2
  <2> QED
    BY <2>1, <2>2
<1>8. f = F(f)
  BY <1>6, <1>7
<1> DEFINE memo == CHOOSE g : g = F(g)
<1>9. memo = F(memo)
  <2> HIDE DEF F
  <2> QED
    BY <1>8
<1>10. TaskDepths(deps) = memo[N].depths
  BY DEF TaskDepths, c, N, calculate
<1> HIDE DEF memo
<1>11. \A g : \A i \in 0..N : F(g)[i] = IF i = 0 THEN c ELSE calculate[g[i - 1]][i]
  OBVIOUS
<1> HIDE DEF F
<1>12. memo[0] = c
  BY <1>1, <1>9, <1>11
<1>13. ASSUME NEW i \in 1..N PROVE memo[i] = calculate[memo[i - 1]][i]
  <2>1. i \in 0..N /\ i # 0
    BY <1>1
  <2> QED
    BY <1>9, <1>11, <2>1
<1> QED
  BY <1>10, <1>12, <1>13 DEF N, c, calculate

-----------------------------------------------------------------------------
(* The walk.  open are the tasks whose calls are under way; of the others  *)
(* visited the depth is final: no call changes it any more, and on a graph *)
(* without cycles it is one more than the greatest of the dependencies',   *)
(* all of which are final too.                                             *)

Finished(memo, open) == memo.visited \ open

Settled(deps, memo, open) ==
  \A u \in Finished(memo, open) :
    /\ memo.depths[u] < Cardinality(Finished(memo, open))
    /\ \A d \in DependsOn(deps, u) :
         d \in Finished(memo, open) /\ memo.depths[d] < memo.depths[u]
    /\ memo.depths[u] # 0 => \E d \in DependsOn(deps, u) : memo.depths[d] + 1 = memo.depths[u]

WalkInv(deps, memo, open) ==
  /\ memo \in Memo(deps)
  /\ open \in SUBSET memo.visited
  /\ \A u \in DOMAIN deps : memo.depths[u] <= Cardinality(Finished(memo, open))
  /\ Acyclic(deps) => Settled(deps, memo, open)

(* Every task ranks above its dependencies, if the graph has no cycle; the *)
(* calls under way are then for tasks that rank above the one asked for.   *)
Ranks(deps, rank) ==
  /\ rank \in [DOMAIN deps -> Nat]
  /\ Acyclic(deps) => \A t \in DOMAIN deps : \A d \in DependsOn(deps, t) : rank[d] < rank[t]

Above(deps, rank, open, t) == Acyclic(deps) => \A u \in open : rank[t] < rank[u]

Grown(memo, after) ==
  /\ memo.visited \subseteq after.visited
  /\ \A u \in memo.visited : after.depths[u] = memo.depths[u]

(* What a call promises, if no more than n others are nested in it. *)
Answers(deps, rank, n, calculate) ==
  \A memo \in Memo(deps), open \in SUBSET DOMAIN deps, t \in DOMAIN deps :
    /\ WalkInv(deps, memo, open)
    /\ Above(deps, rank, open, t)
    /\ t \in memo.visited \/ Cardinality(DOMAIN deps \ memo.visited) <= n
    => /\ WalkInv(deps, calculate[memo][t], open)
       /\ Grown(memo, calculate[memo][t])
       /\ t \in calculate[memo][t].visited

(* What the loop over the dependencies of t has after i of them. *)
LookInv(deps, memo, open, t, look, i) ==
  /\ WalkInv(deps, look.memo, open \cup {t})
  /\ Grown(memo, look.memo) /\ t \in look.memo.visited
  /\ look.max <= Cardinality(Finished(look.memo, open \cup {t}))
  /\ Acyclic(deps) =>
       /\ \A j \in 1..i : /\ deps[t][j] \in Finished(look.memo, open \cup {t})
                          /\ look.memo.depths[deps[t][j]] <= look.max
       /\ look.max # -1 => \E j \in 1..i : look.memo.depths[deps[t][j]] = look.max

LEMMA FinishedSizes ==
  ASSUME NEW deps, IsGraph(deps), NEW memo \in Memo(deps), NEW open
  PROVE  /\ Cardinality(Finished(memo, open)) \in Nat
         /\ IsFiniteSet(Finished(memo, open)) /\ Finished(memo, open) \subseteq DOMAIN deps
         /\ \A T \in SUBSET Finished(memo, open) :
              Cardinality(T) \in Nat /\ Cardinality(T) <= Cardinality(Finished(memo, open))
<1>1. memo.visited \subseteq DOMAIN deps /\ IsFiniteSet(DOMAIN deps)
  BY GraphTypes, MemoTypes DEF Memo
<1>2. Finished(memo, open) \subseteq DOMAIN deps
  BY <1>1 DEF Finished
<1>3. IsFiniteSet(Finished(memo, open))
  BY <1>1, <1>2, FS_Subset
<1>4. \A T \in SUBSET Finished(memo, open) : IsFiniteSet(T)
  BY <1>3, FS_Subset
<1> QED
  BY <1>2, <1>3, <1>4, FS_Subset, FS_CardinalityType

LEMMA LookStart ==
  ASSUME NEW deps, IsGraph(deps), NEW memo, NEW open, WalkInv(deps, memo, open),
         NEW t \in DOMAIN deps, t \notin memo.visited
  PROVE  LookInv(deps, memo, open, t, Start(memo, t), 0)
<1> DEFINE first == Start(memo, t).memo
<1>1. memo \in Memo(deps) /\ open \in SUBSET memo.visited
  BY DEF WalkInv
<1>2. /\ first \in Memo(deps) /\ first.visited = memo.visited \cup {t}
      /\ first.depths = memo.depths /\ Start(memo, t).max = -1
  BY <1>1, MemoTypes DEF Looks
<1> HIDE DEF first
<1>3. Finished(first, open \cup {t}) = Finished(memo, open)
  BY <1>1, <1>2 DEF Finished
<1>4. WalkInv(deps, first, open \cup {t})
  BY <1>1, <1>2, <1>3 DEF WalkInv, Settled
<1>5. Grown(memo, first) /\ t \in first.visited
  BY <1>2 DEF Grown
<1>6. Cardinality(Finished(first, open \cup {t})) \in Nat
  BY <1>2, FinishedSizes
<1> QED
  BY <1>2, <1>4, <1>5, <1>6 DEF LookInv, first

LEMMA LookNext ==
  ASSUME NEW deps, IsGraph(deps), NEW rank, Ranks(deps, rank),
         NEW n \in Nat, NEW calculate \in Calls(deps), Answers(deps, rank, n, calculate),
         NEW memo, NEW open, WalkInv(deps, memo, open),
         NEW t \in DOMAIN deps, t \notin memo.visited, Above(deps, rank, open, t),
         Cardinality(DOMAIN deps \ memo.visited) <= n + 1,
         NEW i \in 1..Len(deps[t]), NEW look \in Looks(deps),
         LookInv(deps, memo, open, t, look, i - 1)
  PROVE  LookInv(deps, memo, open, t, LookAt(calculate, look, deps[t][i]), i)
<1> DEFINE d     == deps[t][i]
           V     == DOMAIN deps
           o     == open \cup {t}
           after == calculate[look.memo][d]
           next  == LookAt(calculate, look, d)
<1>1. d \in V /\ d \in DependsOn(deps, t) /\ Len(deps[t]) \in Nat
  BY GraphTypes, LenProperties, ElementOfSeq DEF DependsOn, Range
<1>2. /\ memo \in Memo(deps) /\ open \in SUBSET memo.visited /\ look.memo \in Memo(deps)
      /\ look.max \in Int /\ memo.visited \in SUBSET V
  BY MemoTypes DEF WalkInv, Looks
<1>3. /\ next.memo = after /\ after \in Memo(deps)
      /\ next.max = IF look.max >= after.depths[d] THEN look.max ELSE after.depths[d]
  BY <1>1, LookAtTypes
<1>4. WalkInv(deps, look.memo, o) /\ Grown(memo, look.memo) /\ t \in look.memo.visited
  BY DEF LookInv
<1>5. Above(deps, rank, o, d)
  <2> SUFFICES ASSUME Acyclic(deps), NEW u \in o PROVE rank[d] < rank[u]
    BY DEF Above
  <2>1. rank[d] < rank[t] /\ rank[d] \in Nat /\ rank[t] \in Nat /\ u \in V
    BY <1>1, <1>2 DEF Ranks
  <2>2. rank[u] \in Nat /\ (u # t => rank[t] < rank[u])
    BY <2>1 DEF Ranks, Above
  <2> QED
    BY <2>1, <2>2
<1>6. Cardinality(V \ look.memo.visited) <= n
  <2>1. IsFiniteSet(V \ memo.visited) /\ t \in V \ memo.visited
    BY GraphTypes, FS_Subset
  <2>2. /\ Cardinality((V \ memo.visited) \ {t}) = Cardinality(V \ memo.visited) - 1
        /\ IsFiniteSet((V \ memo.visited) \ {t})
    BY <2>1, FS_RemoveElement
  <2>3. V \ look.memo.visited \subseteq (V \ memo.visited) \ {t}
    BY <1>4 DEF Grown
  <2>4. Cardinality(V \ look.memo.visited) <= Cardinality((V \ memo.visited) \ {t})
    BY <2>2, <2>3, FS_Subset
  <2>5. Cardinality(V \ memo.visited) \in Nat /\ Cardinality(V \ look.memo.visited) \in Nat
    BY <2>1, <2>2, <2>3, FS_Subset, FS_CardinalityType
  <2> QED
    BY <2>2, <2>4, <2>5
<1>7. o \in SUBSET V
  BY <1>2
<1>8. WalkInv(deps, after, o) /\ Grown(look.memo, after) /\ d \in after.visited
  BY <1>1, <1>2, <1>4, <1>5, <1>6, <1>7 DEF Answers
<1> HIDE DEF d, o, after, next
<1>9. Grown(memo, after) /\ t \in after.visited
  BY <1>2, <1>4, <1>8 DEF Grown
<1>10. Finished(look.memo, o) \subseteq Finished(after, o)
  BY <1>8 DEF Grown, Finished
<1>11. /\ Cardinality(Finished(look.memo, o)) <= Cardinality(Finished(after, o))
       /\ Cardinality(Finished(look.memo, o)) \in Nat /\ Cardinality(Finished(after, o)) \in Nat
  BY <1>2, <1>3, <1>10, FinishedSizes
<1>12. after.depths[d] \in Nat /\ after.depths[d] <= Cardinality(Finished(after, o))
  BY <1>1, <1>3, <1>8, MemoTypes DEF WalkInv
<1>13. look.max <= Cardinality(Finished(look.memo, o))
  BY DEF LookInv, o
<1>14. /\ next.max \in Int /\ next.max <= Cardinality(Finished(after, o))
       /\ look.max <= next.max /\ after.depths[d] <= next.max
       /\ next.max = look.max \/ next.max = after.depths[d]
  BY <1>2, <1>3, <1>11, <1>12, <1>13
<1>15. ASSUME Acyclic(deps)
       PROVE  /\ \A j \in 1..i : /\ deps[t][j] \in Finished(after, o)
                                 /\ after.depths[deps[t][j]] <= next.max
              /\ next.max # -1 => \E j \in 1..i : after.depths[deps[t][j]] = next.max
  <2>1. d \notin o
    <3>1. rank[d] \in Nat /\ \A u \in o : rank[d] < rank[u]
      BY <1>1, <1>5, <1>15 DEF Above, Ranks
    <3> QED
      BY <3>1
  <2>2. d \in Finished(after, o)
    BY <1>8, <2>1 DEF Finished
  <2>3. ASSUME NEW j \in 1..(i - 1)
        PROVE  /\ deps[t][j] \in Finished(look.memo, o)
               /\ look.memo.depths[deps[t][j]] <= look.max
               /\ after.depths[deps[t][j]] = look.memo.depths[deps[t][j]]
    <3>1. /\ deps[t][j] \in Finished(look.memo, o)
          /\ look.memo.depths[deps[t][j]] <= look.max
      BY <1>15 DEF LookInv, o
    <3> QED
      BY <1>8, <3>1 DEF Grown, Finished
  <2>4. ASSUME NEW j \in 1..i
        PROVE  deps[t][j] \in Finished(after, o) /\ after.depths[deps[t][j]] <= next.max
    <3>1. CASE j = i
      BY <1>14, <2>2, <3>1 DEF d
    <3>2. CASE j # i
      <4>1. j \in 1..(i - 1)
        BY <1>1, <3>2
      <4>2. deps[t][j] \in Finished(after, o)
        BY <1>10, <2>3, <4>1
      <4>3. after.depths[deps[t][j]] \in Int
        BY <1>3, <4>2, FinishedSizes, MemoTypes
      <4> QED
        BY <1>2, <1>14, <2>3, <4>1, <4>2, <4>3
    <3> QED
      BY <3>1, <3>2
  <2>5. ASSUME next.max # -1 PROVE \E j \in 1..i : after.depths[deps[t][j]] = next.max
    <3>1. CASE next.max = after.depths[d]
      BY <1>1, <3>1 DEF d
    <3>2. CASE next.max # after.depths[d]
      <4>1. next.max = look.max
        BY <1>14, <3>2
      <4>2. PICK j \in 1..(i - 1) : look.memo.depths[deps[t][j]] = look.max
        BY <1>15, <2>5, <4>1 DEF LookInv
      <4> QED
        BY <1>1, <2>3, <4>1, <4>2
    <3> QED
      BY <3>1, <3>2
  <2> QED
    BY <2>4, <2>5
<1>16. LookInv(deps, memo, open, t, next, i)
  BY <1>3, <1>8, <1>9, <1>14, <1>15 DEF LookInv, o
<1> QED
  BY <1>16 DEF next, d

(* A call finishes the task it was made for. *)
LEMMA CallAnswers ==
  ASSUME NEW deps, IsGraph(deps), NEW rank, Ranks(deps, rank),
         NEW n \in Nat, NEW calculate \in Calls(deps), Answers(deps, rank, n, calculate)
  PROVE  Answers(deps, rank, n + 1, Call(deps, calculate))
<1> DEFINE V == DOMAIN deps
<1> SUFFICES ASSUME NEW memo \in Memo(deps), NEW open \in SUBSET V, NEW t \in V,
                    WalkInv(deps, memo, open), Above(deps, rank, open, t),
                    t \in memo.visited \/ Cardinality(V \ memo.visited) <= n + 1
             PROVE  LET after == Call(deps, calculate)[memo][t]
                    IN  /\ WalkInv(deps, after, open) /\ Grown(memo, after)
                        /\ t \in after.visited
  BY DEF Answers
<1> DEFINE after == Call(deps, calculate)[memo][t]
<1>1. CASE t \in memo.visited
  <2>1. CalculateDepth(deps, calculate, memo, t) = memo
    BY <1>1 DEF CalculateDepth
  <2>2. after = memo
    BY <2>1, CallTypes
  <2> QED
    BY <1>1, <2>2 DEF Grown
<1>2. CASE t \notin memo.visited
  <2> DEFINE N   == Len(deps[t])
             end == LookAtDeps(deps, calculate, memo, t)
             o   == open \cup {t}
  <2>1. after = [end.memo EXCEPT !.depths[t] = end.max + 1]
    BY <1>2, CallTypes DEF CalculateDepth
  <2>2. PICK look \in [0..N -> Looks(deps)] :
          /\ end = look[N]
          /\ look[0] = Start(memo, t)
          /\ \A i \in 1..N : look[i] = LookAt(calculate, look[i - 1], deps[t][i])
    BY LooksAtDeps, Zenon
  <2>3. N \in Nat /\ \A i \in 1..N : deps[t][i] \in V
    BY GraphTypes, LenProperties, ElementOfSeq
  <2> HIDE DEF N, after, end
  <2>4. LookInv(deps, memo, open, t, look[N], N)
    <3> DEFINE G == {i \in Nat : i <= N => LookInv(deps, memo, open, t, look[i], i)}
    <3>1. 0 \in G
      BY <1>2, <2>2, LookStart
    <3>2. ASSUME NEW i \in Nat, i \in G PROVE i + 1 \in G
      <4> SUFFICES ASSUME i + 1 <= N PROVE LookInv(deps, memo, open, t, look[i + 1], i + 1)
        OBVIOUS
      <4>1. /\ i + 1 \in 1..N /\ i + 1 - 1 = i /\ i \in 0..N
            /\ look[i] \in Looks(deps) /\ LookInv(deps, memo, open, t, look[i], i)
        BY <2>3, <3>2
      <4>2. look[i + 1] = LookAt(calculate, look[i], deps[t][i + 1])
        BY <2>2, <4>1
      <4>3. \A j \in 1..Len(deps[t]), l \in Looks(deps) :
              LookInv(deps, memo, open, t, l, j - 1)
                => LookInv(deps, memo, open, t, LookAt(calculate, l, deps[t][j]), j)
        BY <1>2, LookNext
      <4> QED
        BY <4>1, <4>2, <4>3 DEF N
    <3>3. Nat \subseteq G
      <4> HIDE DEF G
      <4> QED
        BY <3>1, <3>2, ByInduction
    <3> QED
      BY <2>3, <3>3
  <2>5. end \in Looks(deps) /\ LookInv(deps, memo, open, t, end, N)
    BY <2>2, <2>3, <2>4
  <2> DEFINE m == end.memo
             x == end.max + 1
  <2>6. m \in Memo(deps) /\ end.max \in Nat \cup {-1} /\ x \in Nat
    BY <2>5 DEF Looks
  <2>7. /\ WalkInv(deps, m, o) /\ Grown(memo, m) /\ t \in m.visited
        /\ end.max <= Cardinality(Finished(m, o))
    BY <2>5 DEF LookInv
  <2>8. open \in SUBSET memo.visited /\ t \notin open
    BY <1>2 DEF WalkInv
  <2>9. /\ after \in Memo(deps) /\ after.visited = m.visited
        /\ after.depths[t] = x
        /\ \A u \in V : u # t => after.depths[u] = m.depths[u]
    BY <2>1, <2>6, MemoTypes
  <2>10. Finished(after, open) = Finished(m, o) \cup {t} /\ t \notin Finished(m, o)
    BY <2>7, <2>8, <2>9 DEF Finished
  <2>11. Cardinality(Finished(m, o)) \in Nat /\ IsFiniteSet(Finished(m, o)) /\ Finished(m, o) \subseteq V
    BY <2>6, FinishedSizes
  <2>12. Cardinality(Finished(after, open)) = Cardinality(Finished(m, o)) + 1
    BY <2>10, <2>11, FS_AddElement
  <2>13. \A u \in V : m.depths[u] \in Nat /\ m.depths[u] <= Cardinality(Finished(m, o))
    <3>1. m.depths \in [V -> Nat]
      BY <2>6, MemoTypes
    <3>2. \A u \in V : m.depths[u] <= Cardinality(Finished(m, o))
      BY <2>7 DEF WalkInv
    <3> QED
      BY <3>1, <3>2
  <2>14. \A u \in V : after.depths[u] <= Cardinality(Finished(after, open))
    <3> TAKE u \in V
    <3>1. CASE u = t
      BY <2>6, <2>7, <2>9, <2>11, <2>12, <3>1
    <3>2. CASE u # t
      <4>1. after.depths[u] \in Nat /\ after.depths[u] <= Cardinality(Finished(m, o))
        BY <2>9, <2>13, <3>2
      <4> QED
        BY <2>11, <2>12, <4>1
    <3> QED
      BY <3>1, <3>2
  <2>15. ASSUME Acyclic(deps) PROVE Settled(deps, after, open)
    <3>1. Settled(deps, m, o)
      BY <2>7, <2>15 DEF WalkInv
    <3>2. /\ \A j \in 1..N : deps[t][j] \in Finished(m, o) /\ m.depths[deps[t][j]] <= end.max
          /\ end.max # -1 => \E j \in 1..N : m.depths[deps[t][j]] = end.max
      BY <2>5, <2>15 DEF LookInv
    <3>3. DependsOn(deps, t) = {deps[t][j] : j \in 1..N}
      BY GraphTypes, RangeOf DEF DependsOn, N
    <3>4. ASSUME NEW u \in Finished(m, o)
          PROVE  /\ after.depths[u] < Cardinality(Finished(after, open))
                 /\ \A d \in DependsOn(deps, u) :
                      d \in Finished(after, open) /\ after.depths[d] < after.depths[u]
                 /\ after.depths[u] # 0 =>
                      \E d \in DependsOn(deps, u) : after.depths[d] + 1 = after.depths[u]
      <4>1. /\ u \in V /\ after.depths[u] = m.depths[u]
            /\ \A d \in DependsOn(deps, u) : d \in V /\ d \in Finished(m, o) /\ after.depths[d] = m.depths[d]
        BY <2>9, <2>10, <2>11, <3>1 DEF Settled
      <4>2. /\ m.depths[u] < Cardinality(Finished(m, o))
            /\ \A d \in DependsOn(deps, u) : m.depths[d] < m.depths[u]
            /\ m.depths[u] # 0 => \E d \in DependsOn(deps, u) : m.depths[d] + 1 = m.depths[u]
        BY <3>1 DEF Settled
      <4>3. after.depths[u] < Cardinality(Finished(after, open))
        BY <2>11, <2>12, <2>13, <4>1, <4>2
      <4> QED
        BY <2>10, <4>1, <4>2, <4>3
    <3>5. /\ after.depths[t] < Cardinality(Finished(after, open))
          /\ \A d \in DependsOn(deps, t) :
               d \in Finished(after, open) /\ after.depths[d] < after.depths[t]
          /\ after.depths[t] # 0 =>
               \E d \in DependsOn(deps, t) : after.depths[d] + 1 = after.depths[t]
      <4>1. \A d \in DependsOn(deps, t) : /\ d \in V /\ d \in Finished(m, o)
                                          /\ after.depths[d] = m.depths[d] /\ m.depths[d] \in Nat
                                          /\ m.depths[d] <= end.max
        BY <2>9, <2>10, <2>11, <2>13, <3>2, <3>3
      <4>2. end.max # -1 => \E d \in DependsOn(deps, t) : m.depths[d] = end.max
        BY <3>2, <3>3
      <4>3. end.max < Cardinality(Finished(m, o))
        <5>1. CASE end.max = -1
          BY <2>11, <5>1
        <5>2. CASE end.max # -1
          BY <3>1, <4>1, <4>2, <5>2 DEF Settled
        <5> QED
          BY <5>1, <5>2
      <4>4. after.depths[t] < Cardinality(Finished(after, open))
        BY <2>6, <2>9, <2>11, <2>12, <4>3
      <4>5. \A d \in DependsOn(deps, t) : after.depths[d] < after.depths[t]
        BY <2>6, <2>9, <4>1
      <4>6. after.depths[t] # 0 => \E d \in DependsOn(deps, t) : after.depths[d] + 1 = after.depths[t]
        BY <2>6, <2>9, <4>1, <4>2
      <4> QED
        BY <2>10, <4>1, <4>4, <4>5, <4>6
    <3> QED
      BY <2>10, <3>4, <3>5 DEF Settled
  <2>16. WalkInv(deps, after, open)
    BY <2>7, <2>8, <2>9, <2>14, <2>15 DEF WalkInv, Grown
  <2>17. Grown(memo, after)
    BY <1>2, <2>7, <2>9, MemoTypes DEF Grown
  <2> QED
    BY <2>7, <2>9, <2>16, <2>17 DEF after
<1> QED
  BY <1>1, <1>2

(* So does a call of which as many can be nested as there are tasks. *)
LEMMA CalculationAnswers ==
  ASSUME NEW deps, IsGraph(deps), NEW rank, Ranks(deps, rank)
  PROVE  /\ Calculation(deps) \in Calls(deps)
         /\ Answers(deps, rank, Len(deps), Calculation(deps))
<1> DEFINE N == Len(deps)
<1>1. PICK calculate \in [0..N -> Calls(deps)] :
        /\ Calculation(deps) = calculate[N]
        /\ calculate[0] = [memo \in Memo(deps) |-> [t \in DOMAIN deps |-> memo]]
        /\ \A n \in 1..N : calculate[n] = Call(deps, calculate[n - 1])
  BY NestedCalls
<1>2. N \in Nat
  BY GraphTypes
<1> HIDE DEF N
<1> DEFINE G == {n \in Nat : n <= N => Answers(deps, rank, n, calculate[n])}
<1>3. Answers(deps, rank, 0, calculate[0])
  <2> SUFFICES ASSUME NEW memo \in Memo(deps), NEW open \in SUBSET DOMAIN deps, NEW t \in DOMAIN deps,
                      WalkInv(deps, memo, open),
                      t \in memo.visited \/ Cardinality(DOMAIN deps \ memo.visited) <= 0
               PROVE  /\ calculate[0][memo][t] = memo
                      /\ Grown(memo, memo) /\ t \in memo.visited
    BY DEF Answers
  <2>1. calculate[0][memo][t] = memo
    BY <1>1
  <2>2. IsFiniteSet(DOMAIN deps \ memo.visited)
    BY GraphTypes, FS_Subset
  <2>3. Cardinality(DOMAIN deps \ memo.visited) <= 0 => DOMAIN deps \ memo.visited = {}
    BY <2>2, FS_CardinalityType, FS_EmptySet
  <2> QED
    BY <2>1, <2>3 DEF Grown
<1>4. ASSUME NEW n \in Nat, n \in G PROVE n + 1 \in G
  <2> SUFFICES ASSUME n + 1 <= N PROVE Answers(deps, rank, n + 1, calculate[n + 1])
    OBVIOUS
  <2>1. /\ n \in 0..N /\ n + 1 \in 1..N /\ n + 1 - 1 = n
        /\ calculate[n] \in Calls(deps) /\ Answers(deps, rank, n, calculate[n])
    BY <1>2, <1>4
  <2>2. calculate[n + 1] = Call(deps, calculate[n])
    BY <1>1, <2>1
  <2> QED
    BY <2>1, <2>2, CallAnswers
<1>5. Nat \subseteq G
  <2>1. 0 \in G
    BY <1>3
  <2> HIDE DEF G
  <2> QED
    BY <1>4, <2>1, ByInduction
<1>6. Answers(deps, rank, N, calculate[N])
  BY <1>2, <1>5
<1> QED
  BY <1>1, <1>2, <1>6 DEF N

(* A rank: the place in the order of execution. *)
LEMMA Ranked ==
  ASSUME NEW deps, IsGraph(deps)
  PROVE  \E rank : Ranks(deps, rank)
<1> DEFINE order == TopologicalSort(deps)
           rank  == [t \in DOMAIN deps |-> CHOOSE i \in DOMAIN order : order[i] = t]
<1>1. /\ Range(order) = DOMAIN deps /\ IsInjective(order)
      /\ order \in Seq(DOMAIN deps) /\ (Acyclic(deps) => DependenciesFirst(deps, order))
  BY Topological
<1> HIDE DEF order
<1>2. DOMAIN order \subseteq Nat
  BY <1>1, LenProperties
<1>3. \A t \in DOMAIN deps : rank[t] \in DOMAIN order /\ order[rank[t]] = t
  BY <1>1 DEF Range
<1>4. DOMAIN rank = DOMAIN deps /\ rank \in [DOMAIN deps -> Nat]
  BY <1>2, <1>3
<1> HIDE DEF rank
<1>5. ASSUME Acyclic(deps), NEW t \in DOMAIN deps, NEW d \in DependsOn(deps, t)
      PROVE  rank[d] < rank[t]
  <2>1. PICK i \in DOMAIN order : i < rank[t] /\ order[i] = d
    BY <1>1, <1>3, <1>5 DEF DependenciesFirst
  <2>2. d \in DOMAIN deps
    BY GraphTypes
  <2>3. rank[d] = i
    BY <1>1, <1>3, <2>1, <2>2 DEF IsInjective
  <2> QED
    BY <2>1, <2>3
<1> QED
  BY <1>4, <1>5 DEF Ranks

(* What calculate_task_depths returns, for any graph. *)
THEOREM Depths ==
  ASSUME NEW deps, IsGraph(deps)
  PROVE  /\ TaskDepths(deps) \in [DOMAIN deps -> 0..Len(deps)]
         /\ Acyclic(deps) =>
              \A t \in DOMAIN deps :
                /\ TaskDepths(deps)[t] < Len(deps)
                /\ \A d \in DependsOn(deps, t) : TaskDepths(deps)[d] < TaskDepths(deps)[t]
                /\ TaskDepths(deps)[t] # 0 =>
                     \E d \in DependsOn(deps, t) : TaskDepths(deps)[d] + 1 = TaskDepths(deps)[t]
<1> DEFINE N == Len(deps)
           V == DOMAIN deps
<1>1. PICK rank : Ranks(deps, rank)
  BY Ranked
<1>2. Calculation(deps) \in Calls(deps) /\ Answers(deps, rank, N, Calculation(deps))
  BY <1>1, CalculationAnswers
<1>3. PICK memo : /\ TaskDepths(deps) = memo[N].depths
                  /\ memo[0] = [visited |-> {}, depths |-> [d \in V |-> 0]]
                  /\ \A t \in 1..N : memo[t] = Calculation(deps)[memo[t - 1]][t]
  BY <1>2, TasksLoop
<1>4. N \in Nat /\ V = 1..N /\ IsFiniteSet(V) /\ Cardinality(V) = N
  BY GraphTypes
<1> HIDE DEF N
<1> DEFINE G == {t \in Nat : t <= N => WalkInv(deps, memo[t], {}) /\ 1..t \subseteq memo[t].visited}
<1>5. 0 \in G
  <2>1. /\ memo[0].visited = {} /\ memo[0].depths = [d \in V |-> 0] /\ memo[0] \in Memo(deps)
    BY <1>3 DEF Memo
  <2>2. Finished(memo[0], {}) = {} /\ Cardinality({}) = 0
    BY <2>1, FS_EmptySet DEF Finished
  <2>3. WalkInv(deps, memo[0], {})
    BY <2>1, <2>2 DEF WalkInv, Settled
  <2> QED
    BY <2>3
<1>6. ASSUME NEW t \in Nat, t \in G PROVE t + 1 \in G
  <2> SUFFICES ASSUME t + 1 <= N
               PROVE  WalkInv(deps, memo[t + 1], {}) /\ 1..(t + 1) \subseteq memo[t + 1].visited
    OBVIOUS
  <2>1. /\ t + 1 \in 1..N /\ t + 1 - 1 = t /\ t + 1 \in V
        /\ WalkInv(deps, memo[t], {}) /\ 1..t \subseteq memo[t].visited
    BY <1>4, <1>6
  <2>2. memo[t + 1] = Calculation(deps)[memo[t]][t + 1]
    BY <1>3, <2>1
  <2>3. memo[t] \in Memo(deps) /\ Above(deps, rank, {}, t + 1) /\ {} \in SUBSET V
    BY <2>1 DEF WalkInv, Above
  <2>4. Cardinality(V \ memo[t].visited) <= N
    BY <1>4, FS_Subset
  <2>5. /\ WalkInv(deps, memo[t + 1], {}) /\ Grown(memo[t], memo[t + 1])
        /\ t + 1 \in memo[t + 1].visited
    BY <1>2, <2>1, <2>2, <2>3, <2>4 DEF Answers
  <2>6. \A u \in 1..(t + 1) : u \in 1..t \/ u = t + 1
    OBVIOUS
  <2> QED
    BY <2>1, <2>5, <2>6 DEF Grown
<1>7. WalkInv(deps, memo[N], {}) /\ V \subseteq memo[N].visited
  <2>1. Nat \subseteq G
    <3> HIDE DEF G
    <3> QED
      BY <1>5, <1>6, ByInduction
  <2> QED
    BY <1>4, <2>1
<1>8. memo[N] \in Memo(deps) /\ memo[N].visited = V /\ memo[N].depths \in [V -> Nat]
  BY <1>7, MemoTypes DEF WalkInv, Memo
<1>9. Finished(memo[N], {}) = V
  BY <1>8 DEF Finished
<1>10. \A t \in V : memo[N].depths[t] \in 0..N
  BY <1>4, <1>7, <1>8, <1>9 DEF WalkInv
<1>11. Acyclic(deps) => Settled(deps, memo[N], {})
  BY <1>7 DEF WalkInv
<1>12. TaskDepths(deps) \in [V -> 0..N]
  BY <1>3, <1>8, <1>10
<1> QED
  BY <1>3, <1>4, <1>9, <1>11, <1>12 DEF Settled, N

LEMMA LayeredIsAcyclic ==
  ASSUME NEW deps, IsGraph(deps), NEW depth \in [DOMAIN deps -> Nat], Layered(deps, depth)
  PROVE  Acyclic(deps)
<1> SUFFICES ASSUME NEW S \in SUBSET DOMAIN deps, S # {}
             PROVE  \E t \in S : DependsOn(deps, t) \cap S = {}
  BY DEF Acyclic
<1> DEFINE D == {depth[t] : t \in S}
<1>1. D \in SUBSET Nat /\ D # {}
  OBVIOUS
<1>2. PICK t \in S : \A u \in S : depth[t] <= depth[u]
  <2>1. PICK m \in D : \A k \in D : m <= k
    <3> HIDE DEF D
    <3> QED
      BY <1>1, LeastOf
  <2>2. PICK t \in S : depth[t] = m
    OBVIOUS
  <2> QED
    BY <2>1, <2>2
<1>3. ASSUME NEW d \in DependsOn(deps, t) \cap S PROVE FALSE
  <2>1. depth[d] < depth[t] /\ depth[t] <= depth[d] /\ depth[d] \in Nat /\ depth[t] \in Nat
    BY <1>2 DEF Layered
  <2> QED
    BY <2>1
<1> QED
  BY <1>3

(* The levels of a plan wait for every dependency if there is no cycle,    *)
(* and for not every one if there is.                                      *)
THEOREM PlansLayered == Spec => []LevelsSeparateIffAcyclic
<1>1. Made => LevelsSeparateIffAcyclic
  <2> SUFFICES ASSUME Made, NEW p \in Created
               PROVE  LET depth == TaskDepths(p.dependencies)
                      IN  /\ Layered(p.dependencies, depth) <=> Acyclic(p.dependencies)
                          /\ \A t \in DOMAIN depth : depth[t] \in 0..Len(depth)
    BY DEF LevelsSeparateIffAcyclic
  <2> DEFINE deps  == p.dependencies
             depth == TaskDepths(deps)
  <2>1. IsGraph(deps)
    BY CreatedAreMade, MadeOfGraph
  <2> HIDE DEF deps
  <2>2. Len(deps) \in Nat /\ DOMAIN deps = 1..Len(deps)
    BY <2>1, GraphTypes
  <2>3. depth \in [DOMAIN deps -> 0..Len(deps)]
    BY <2>1, Depths
  <2>4. Acyclic(deps) => Layered(deps, depth)
    BY <2>1, Depths DEF Layered
  <2> HIDE DEF depth
  <2>5. depth \in [DOMAIN deps -> Nat]
    BY <2>2, <2>3
  <2>6. Layered(deps, depth) => Acyclic(deps)
    BY <2>1, <2>5, LayeredIsAcyclic
  <2>7. depth \in Seq(Nat) /\ Len(depth) = Len(deps)
    <3>1. depth = [i \in 1..Len(deps) |-> depth[i]]
      BY <2>2, <2>5
    <3>2. depth \in Seq(Nat)
      BY <2>2, <2>5
    <3> QED
      BY <2>2, <2>5, <3>2, LenProperties
  <2> QED
    BY <2>3, <2>4, <2>6, <2>7 DEF deps, depth
<1> QED
  BY <1>1, PlansMade, PTL

-----------------------------------------------------------------------------
(* Depths and chains: as many steps below a task as its depth. *)

Chain(deps, c, k) ==
  /\ c \in [1..k -> DOMAIN deps]
  /\ \A i \in 1..(k - 1) : c[i] \in DependsOn(deps, c[i + 1])

LEMMA ChainsAre ==
  ASSUME NEW deps, NEW t, NEW c, Len(deps) \in Nat
  PROVE  c \in Chains(deps, t) <=> \E k \in 1..Len(deps) : Chain(deps, c, k) /\ c[k] = t
BY DEF Chains, Chain

LEMMA ChainClimbs ==
  ASSUME NEW deps, NEW depth \in [DOMAIN deps -> Nat], Layered(deps, depth),
         NEW k \in Nat \ {0}, NEW c, Chain(deps, c, k)
  PROVE  k - 1 <= depth[c[k]]
<1> DEFINE G == {i \in Nat : i + 1 <= k => i <= depth[c[i + 1]]}
<1>1. \A i \in 1..k : c[i] \in DOMAIN deps /\ depth[c[i]] \in Nat
  BY DEF Chain
<1>2. 0 \in G
  BY <1>1
<1>3. ASSUME NEW i \in Nat, i \in G PROVE i + 1 \in G
  <2> SUFFICES ASSUME i + 2 <= k PROVE i + 1 <= depth[c[i + 2]]
    OBVIOUS
  <2>1. i + 1 \in 1..(k - 1) /\ i + 1 \in 1..k /\ i + 2 \in 1..k /\ i + 1 + 1 = i + 2
    OBVIOUS
  <2>2. i <= depth[c[i + 1]]
    BY <1>3
  <2>3. c[i + 1] \in DependsOn(deps, c[i + 2])
    BY <2>1 DEF Chain
  <2>4. depth[c[i + 1]] < depth[c[i + 2]]
    BY <1>1, <2>1, <2>3 DEF Layered
  <2> QED
    BY <1>1, <2>1, <2>2, <2>4
<1>4. k - 1 \in G
  <2>1. Nat \subseteq G
    <3> HIDE DEF G
    <3> QED
      BY <1>2, <1>3, ByInduction
  <2> QED
    BY <2>1
<1> QED
  BY <1>4

LEMMA ChainOfDepth ==
  ASSUME NEW deps, IsGraph(deps), NEW depth \in [DOMAIN deps -> Nat],
         \A t \in DOMAIN deps : depth[t] # 0 => \E d \in DependsOn(deps, t) : depth[d] + 1 = depth[t]
  PROVE  \A t \in DOMAIN deps :
           \E c : Chain(deps, c, depth[t] + 1) /\ c[depth[t] + 1] = t
<1> DEFINE V == DOMAIN deps
           G == {n \in Nat : \A t \in V : depth[t] = n => \E c : Chain(deps, c, n + 1) /\ c[n + 1] = t}
<1>1. 0 \in G
  <2> SUFFICES ASSUME NEW t \in V PROVE \E c : Chain(deps, c, 1) /\ c[1] = t
    OBVIOUS
  <2> DEFINE c == [i \in 1..1 |-> t]
  <2>1. Chain(deps, c, 1) /\ c[1] = t
    BY DEF Chain
  <2> HIDE DEF c
  <2> QED
    BY <2>1
<1>2. ASSUME NEW n \in Nat, n \in G PROVE n + 1 \in G
  <2> SUFFICES ASSUME NEW t \in V, depth[t] = n + 1
               PROVE  \E c : Chain(deps, c, n + 2) /\ c[n + 2] = t
    OBVIOUS
  <2>1. PICK d \in DependsOn(deps, t) : depth[d] + 1 = depth[t]
    OBVIOUS
  <2>2. d \in V /\ depth[d] = n
    <3>1. d \in V
      BY GraphTypes
    <3>2. depth[d] \in Nat
      BY <3>1
    <3> QED
      BY <2>1, <3>1, <3>2
  <2>3. PICK b : Chain(deps, b, n + 1) /\ b[n + 1] = d
    BY <1>2, <2>2
  <2> DEFINE c == [i \in 1..(n + 2) |-> IF i = n + 2 THEN t ELSE b[i]]
  <2>4. \A i \in 1..(n + 1) : c[i] = b[i] /\ c[i] \in V
    BY <2>3 DEF Chain
  <2>5. c[n + 2] = t /\ c \in [1..(n + 2) -> V]
    BY <2>3 DEF Chain
  <2> HIDE DEF c
  <2>6. ASSUME NEW i \in 1..(n + 1) PROVE c[i] \in DependsOn(deps, c[i + 1])
    <3>1. CASE i = n + 1
      BY <2>1, <2>3, <2>4, <2>5, <3>1
    <3>2. CASE i # n + 1
      <4>1. i \in 1..n /\ i + 1 \in 1..(n + 1)
        BY <3>2
      <4>2. b[i] \in DependsOn(deps, b[i + 1])
        BY <2>3, <4>1 DEF Chain
      <4> QED
        BY <2>4, <4>1, <4>2
    <3> QED
      BY <3>1, <3>2
  <2>7. Chain(deps, c, n + 2)
    BY <2>5, <2>6 DEF Chain
  <2> QED
    BY <2>5, <2>7
<1>3. Nat \subseteq G
  <2> HIDE DEF G
  <2> QED
    BY <1>1, <1>2, ByInduction
<1> QED
  BY <1>3

(* On a graph without cycles the depth is the length of the longest chain. *)
THEOREM DepthOfChain ==
  ASSUME NEW deps, IsGraph(deps), Acyclic(deps), NEW t \in DOMAIN deps
  PROVE  TaskDepths(deps)[t] = LongestChain(deps, t)
<1> DEFINE depth   == TaskDepths(deps)
           lengths == {Len(c) : c \in Chains(deps, t)}
           N       == Len(deps)
<1>1. N \in Nat
  BY GraphTypes
<1>2. /\ depth \in [DOMAIN deps -> 0..N] /\ depth[t] < N
      /\ Layered(deps, depth)
      /\ \A u \in DOMAIN deps : depth[u] # 0 => \E d \in DependsOn(deps, u) : depth[d] + 1 = depth[u]
  BY Depths DEF Layered
<1> HIDE DEF depth, N
<1>3. depth \in [DOMAIN deps -> Nat]
  BY <1>1, <1>2
<1>4. ASSUME NEW k \in Nat, NEW c, Chain(deps, c, k) PROVE Len(c) = k
  <2>1. c \in [1..k -> DOMAIN deps]
    BY <1>4 DEF Chain
  <2> QED
    BY <2>1
<1>5. ASSUME NEW l \in lengths PROVE l \in 1..N /\ l <= depth[t] + 1
  <2>1. PICK c \in Chains(deps, t) : l = Len(c)
    OBVIOUS
  <2>2. PICK k \in 1..N : Chain(deps, c, k) /\ c[k] = t
    BY <1>1, <2>1, ChainsAre DEF N
  <2>3. k \in Nat \ {0} /\ l = k
    BY <1>1, <1>4, <2>1, <2>2
  <2>4. k - 1 <= depth[t]
    BY <1>2, <1>3, <2>2, <2>3, ChainClimbs
  <2> QED
    BY <1>1, <1>3, <2>2, <2>3, <2>4
<1>6. depth[t] + 1 \in lengths
  <2>1. PICK c : Chain(deps, c, depth[t] + 1) /\ c[depth[t] + 1] = t
    BY <1>2, <1>3, ChainOfDepth
  <2>2. depth[t] + 1 \in 1..N
    BY <1>1, <1>2, <1>3
  <2>3. c \in Chains(deps, t)
    BY <1>1, <2>1, <2>2, ChainsAre DEF N
  <2>4. Len(c) = depth[t] + 1
    BY <1>1, <1>4, <2>1, <2>2
  <2> QED
    BY <2>3, <2>4
<1>7. lengths \in SUBSET Int /\ lengths # {} /\ IsFiniteSet(lengths)
  <2> HIDE DEF lengths
  <2>1. lengths \subseteq 1..N
    BY <1>5
  <2>2. IsFiniteSet(1..N)
    BY <1>1, FS_Interval
  <2>3. IsFiniteSet(lengths)
    BY <2>1, <2>2, FS_Subset
  <2>4. 1..N \subseteq Int
    BY <1>1
  <2> QED
    BY <1>6, <2>1, <2>3, <2>4
<1>8. LongestChain(deps, t) = Max(lengths) - 1
  BY DEF LongestChain
<1> HIDE DEF lengths
<1>9. Max(lengths) \in lengths /\ depth[t] + 1 <= Max(lengths)
  BY <1>6, <1>7, MaxOf
<1>10. Max(lengths) = depth[t] + 1
  BY <1>1, <1>3, <1>5, <1>9
<1> QED
  BY <1>3, <1>8, <1>10 DEF depth

(* The levels of a plan without cycles are the chains below its tasks.     *)
THEOREM PlansDeepAsChains == Spec => []DepthIsLongestChain
<1>1. Made => DepthIsLongestChain
  <2> SUFFICES ASSUME Made, NEW p \in Created, Acyclic(p.dependencies), NEW t \in DOMAIN p.dependencies
               PROVE  TaskDepths(p.dependencies)[t] = LongestChain(p.dependencies, t)
    BY DEF DepthIsLongestChain
  <2>1. IsGraph(p.dependencies)
    BY CreatedAreMade, MadeOfGraph
  <2> QED
    BY <2>1, DepthOfChain
<1> QED
  BY <1>1, PlansMade, PTL
=============================================================================
