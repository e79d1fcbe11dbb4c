----------------------------- MODULE SumTheorems -----------------------------
(***************************************************************************)
(* What MapThenSumSet computes, for every finite set: the laws of sums     *)
(* that the memory bound of the load controller rests on.  A sum is shown  *)
(* to be a number of elements, and induction over sets is done by looking  *)
(* at a smallest counterexample.                                           *)
(***************************************************************************)
EXTENDS Integers, FiniteSets, FiniteSetsExt, FiniteSetTheorems, WellFoundedInduction, TLAPS

(* Among subsets of a finite set there is always a smallest one: induction over sets. *)
LEMMA SmallestSet ==
  ASSUME NEW S, IsFiniteSet(S), NEW T, T \subseteq SUBSET S, T # {}
  PROVE  \E s \in T : \A u \in T : u \subseteq s => u = s
  <1>1. IsWellFoundedOn(StrictSubsetOrdering(S), SUBSET S)
    BY FS_StrictSubsetOrderingWellFounded, FS_FiniteSubsetsOfFinite
  <1>2. PICK s \in T : \A u \in T : ~(<<u, s>> \in StrictSubsetOrdering(S))
    BY <1>1, WFMin
  <1>3. ASSUME NEW u \in T, u \subseteq s, u # s
        PROVE  <<u, s>> \in StrictSubsetOrdering(S)
    BY <1>3 DEF StrictSubsetOrdering
  <1>4. \A u \in T : u \subseteq s => u = s
    BY <1>2, <1>3
  <1> QED
    BY <1>4

(* f[x] units for each x of S: their number is the sum of f over S. *)
Units(f, S) == UNION {{x} \X (1..f[x]) : x \in S}

(* The recursion of MapThenSumSet: g computes the sums over the subsets of S. *)
SumsUp(g, f, S) ==
    g = [s \in SUBSET S |->
            IF s = {} THEN 0
            ELSE f[CHOOSE x \in s : TRUE] + g[s \ {CHOOSE x \in s : TRUE}]]

(* The sum of f over S, as the modules write it. *)
Sum(f, S) == MapThenSumSet(LAMBDA x : f[x], S)

(* MapThenSumSet is defined by that recursion, if a function satisfies it. *)
LEMMA SumUnfold ==
  ASSUME NEW f, NEW S, \E g : SumsUp(g, f, S)
  PROVE  \E g : SumsUp(g, f, S) /\ Sum(f, S) = g[S]
  BY DEF Sum, SumsUp, MapThenSumSet, MapThenFoldSet

(* One more element x adds its f[x] units. *)
LEMMA UnitsAdd ==
  ASSUME NEW f, NEW S, NEW x, x \notin S, f[x] \in Nat, IsFiniteSet(Units(f, S))
  PROVE  /\ IsFiniteSet(Units(f, S \cup {x}))
         /\ Cardinality(Units(f, S \cup {x})) = f[x] + Cardinality(Units(f, S))
  <1> DEFINE new == {x} \X (1..f[x])
  <1>1. Units(f, S \cup {x}) = Units(f, S) \cup new
    BY DEF Units
  <1>2. Units(f, S) \cap new = {}
    BY DEF Units
  <1>3. IsFiniteSet(new) /\ Cardinality(new) = f[x]
    <2>1. IsFiniteSet({x}) /\ Cardinality({x}) = 1
      BY FS_Singleton
    <2>2. IsFiniteSet(1..f[x]) /\ Cardinality(1..f[x]) = f[x]
      BY FS_Interval
    <2> DEFINE ids == 1..f[x]
    <2> HIDE DEF ids
    <2>3. /\ IsFiniteSet({x} \X ids)
          /\ Cardinality({x} \X ids) = Cardinality({x}) * Cardinality(ids)
      BY <2>1, <2>2, FS_Product DEF ids
    <2> QED
      BY <2>1, <2>2, <2>3 DEF ids
  <1> HIDE DEF new
  <1>4. Cardinality(Units(f, S) \cup new) = Cardinality(Units(f, S)) + Cardinality(new) - 0
    BY <1>2, <1>3, FS_Union, FS_EmptySet
  <1>5. Cardinality(Units(f, S)) \in Nat /\ IsFiniteSet(Units(f, S) \cup new)
    BY <1>3, FS_CardinalityType, FS_Union
  <1>6. Cardinality(Units(f, S) \cup new) = f[x] + Cardinality(Units(f, S))
    BY <1>3, <1>4, <1>5
  <1> QED
    BY <1>1, <1>5, <1>6

(* There are finitely many units, and none for no element. *)
LEMMA UnitsFinite ==
  ASSUME NEW f, NEW S, IsFiniteSet(S), \A x \in S : f[x] \in Nat
  PROVE  IsFiniteSet(Units(f, S)) /\ Cardinality(Units(f, S)) \in Nat /\ Units(f, {}) = {}
  <1>1. Units(f, {}) = {}
    BY DEF Units
  <1> DEFINE Bad == {s \in SUBSET S : ~IsFiniteSet(Units(f, s))}
  <1>2. ASSUME Bad # {} PROVE FALSE
    <2>0. Bad \subseteq SUBSET S
      OBVIOUS
    <2> HIDE DEF Bad
    <2>1. PICK s \in Bad : \A u \in Bad : u \subseteq s => u = s
      BY <1>2, <2>0, SmallestSet
    <2> USE DEF Bad
    <2>2. s # {}
      BY <1>1, FS_EmptySet
    <2>3. PICK x \in s : TRUE
      BY <2>2
    <2>4. s \ {x} \notin Bad
      BY <2>1, <2>3
    <2>5. IsFiniteSet(Units(f, s \ {x})) /\ f[x] \in Nat /\ (s \ {x}) \cup {x} = s
      BY <2>4, <2>3
    <2> QED
      BY <2>5, UnitsAdd
  <1>3. IsFiniteSet(Units(f, S))
    BY <1>2
  <1> QED
    BY <1>1, <1>3, FS_CardinalityType

(* One such function exists: the one that counts units. *)
LEMMA SumExists ==
  ASSUME NEW f, NEW S, IsFiniteSet(S), \A x \in S : f[x] \in Nat
  PROVE  SumsUp([s \in SUBSET S |-> Cardinality(Units(f, s))], f, S)
  <1> DEFINE g == [s \in SUBSET S |-> Cardinality(Units(f, s))]
             first(s) == CHOOSE x \in s : TRUE
  <1>1. ASSUME NEW s \in SUBSET S
        PROVE  g[s] = IF s = {} THEN 0 ELSE f[first(s)] + g[s \ {first(s)}]
    <2>1. CASE s = {}
      BY <2>1, UnitsFinite, FS_EmptySet
    <2>2. CASE s # {}
      <3>1. first(s) \in s
        BY <2>2
      <3> HIDE DEF first
      <3>2. IsFiniteSet(s \ {first(s)}) /\ s \ {first(s)} \in SUBSET S
        BY FS_Subset
      <3>3. IsFiniteSet(Units(f, s \ {first(s)})) /\ f[first(s)] \in Nat
        BY <3>1, <3>2, UnitsFinite
      <3>4. (s \ {first(s)}) \cup {first(s)} = s
        BY <3>1
      <3>5. Cardinality(Units(f, s)) = f[first(s)] + Cardinality(Units(f, s \ {first(s)}))
        BY <3>3, <3>4, UnitsAdd
      <3> QED
        BY <2>2, <3>2, <3>5
    <2> QED
      BY <2>1, <2>2
  <1> QED
    BY <1>1 DEF SumsUp

(* And only one: two that agree on all smaller sets agree on a set. *)
LEMMA SumUnique ==
  ASSUME NEW f, NEW S, IsFiniteSet(S), NEW g, NEW h, SumsUp(g, f, S), SumsUp(h, f, S)
  PROVE  g[S] = h[S]
  <1> DEFINE Bad == {s \in SUBSET S : g[s] # h[s]}
             first(s) == CHOOSE x \in s : TRUE
  <1>1. ASSUME Bad # {} PROVE FALSE
    <2>0. Bad \subseteq SUBSET S
      OBVIOUS
    <2> HIDE DEF Bad
    <2>1. PICK s \in Bad : \A u \in Bad : u \subseteq s => u = s
      BY <1>1, <2>0, SmallestSet
    <2> USE DEF Bad
    <2>2. CASE s = {}
      BY <2>2 DEF SumsUp
    <2>3. CASE s # {}
      <3>1. first(s) \in s
        BY <2>3
      <3>2. /\ g[s] = f[first(s)] + g[s \ {first(s)}]
            /\ h[s] = f[first(s)] + h[s \ {first(s)}]
        BY <2>3 DEF SumsUp
      <3> HIDE DEF first
      <3>3. g[s \ {first(s)}] = h[s \ {first(s)}]
        BY <2>1, <3>1
      <3> QED
        BY <3>2, <3>3
    <2> QED
      BY <2>2, <2>3
  <1> QED
    BY <1>1

(* The sum over a finite set is the number of its units. *)
LEMMA SumIsCount ==
  ASSUME NEW f, NEW S, IsFiniteSet(S), \A x \in S : f[x] \in Nat
  PROVE  Sum(f, S) = Cardinality(Units(f, S)) /\ Sum(f, S) \in Nat
  <1> DEFINE c == [s \in SUBSET S |-> Cardinality(Units(f, s))]
  <1>1. SumsUp(c, f, S)
    BY SumExists
  <1> HIDE DEF c
  <1>2. PICK g : SumsUp(g, f, S) /\ Sum(f, S) = g[S]
    BY <1>1, SumUnfold
  <1>3. Sum(f, S) = c[S]
    BY <1>1, <1>2, SumUnique
  <1> QED
    BY <1>3, UnitsFinite DEF c

(* The sum over no element is 0. *)
LEMMA SumEmpty == ASSUME NEW f PROVE Sum(f, {}) = 0
  BY SumIsCount, UnitsFinite, FS_EmptySet

(* One more element adds its term. *)
LEMMA SumAdd ==
  ASSUME NEW f, NEW S, NEW x, IsFiniteSet(S), x \notin S, \A y \in S \cup {x} : f[y] \in Nat
  PROVE  Sum(f, S \cup {x}) = Sum(f, S) + f[x]
  <1>1. IsFiniteSet(S \cup {x})
    BY FS_AddElement
  <1>2. IsFiniteSet(Units(f, S)) /\ f[x] \in Nat
    BY UnitsFinite
  <1>3. Sum(f, S \cup {x}) = Cardinality(Units(f, S \cup {x}))
    BY <1>1, SumIsCount
  <1>4. Sum(f, S) = Cardinality(Units(f, S)) /\ Sum(f, S) \in Nat
    BY SumIsCount
  <1> QED
    BY <1>2, <1>3, <1>4, UnitsAdd

(* A sum looks at f on the set only. *)
LEMMA SumSame ==
  ASSUME NEW f, NEW g, NEW S, IsFiniteSet(S), \A x \in S : f[x] \in Nat /\ g[x] = f[x]
  PROVE  Sum(f, S) = Sum(g, S)
  <1>1. Units(f, S) = Units(g, S)
    BY DEF Units
  <1> QED
    BY <1>1, SumIsCount

(* A sum is bounded by the number of its terms. *)
LEMMA SumBound ==
  ASSUME NEW f, NEW S, IsFiniteSet(S), NEW m \in Nat, \A x \in S : f[x] \in 0..m
  PROVE  Sum(f, S) <= Cardinality(S) * m
  <1>1. Units(f, S) \subseteq S \X (1..m)
    BY DEF Units
  <1>2. IsFiniteSet(1..m) /\ Cardinality(1..m) = m
    BY FS_Interval
  <1>3. IsFiniteSet(S \X (1..m)) /\ Cardinality(S \X (1..m)) = Cardinality(S) * m
    BY <1>2, FS_Product
  <1>4. Cardinality(Units(f, S)) <= Cardinality(S \X (1..m))
    BY <1>1, <1>3, FS_Subset
  <1> QED
    BY <1>3, <1>4, SumIsCount

(* Fewer terms make no larger sum. *)
LEMMA SumSubset ==
  ASSUME NEW f, NEW g, NEW S, IsFiniteSet(S), NEW T, T \subseteq S,
         \A x \in S : f[x] \in Nat, \A x \in T : g[x] = f[x]
  PROVE  Sum(g, T) <= Sum(f, S)
  <1>1. IsFiniteSet(T)
    BY FS_Subset
  <1>2. Units(g, T) \subseteq Units(f, S)
    BY DEF Units
  <1>3. Cardinality(Units(g, T)) <= Cardinality(Units(f, S))
    BY <1>2, UnitsFinite, FS_Subset
  <1> QED
    BY <1>1, <1>3, SumIsCount

(* Multiplication is monotone. *)
LEMMA MulMonotone ==
  ASSUME NEW a \in Nat, NEW b \in Nat, NEW m \in Nat
  PROVE  a * m \in Nat /\ (a <= b => a * m <= b * m)
  OBVIOUS

(* A finite set of numbers that is not empty has a greatest one. *)
LEMMA MaxExists ==
  ASSUME NEW S, IsFiniteSet(S)
  PROVE  S \subseteq Nat /\ S # {} => Max(S) \in S /\ \A x \in S : x <= Max(S)
  <1>0. \A T \in SUBSET SUBSET S : T # {} => \E s \in T : \A u \in T : u \subseteq s => u = s
    BY SmallestSet
  <1> HAVE S \subseteq Nat /\ S # {}
  <1> DEFINE Bad == {s \in SUBSET S : s # {} /\ ~(\E m \in s : \A x \in s : x <= m)}
  <1>1. ASSUME Bad # {} PROVE FALSE
    <2>0. Bad \subseteq SUBSET S
      OBVIOUS
    <2> HIDE DEF Bad
    <2>1. PICK s \in Bad : \A u \in Bad : u \subseteq s => u = s
      BY <1>0, <1>1, <2>0
    <2> USE DEF Bad
    <2>2. PICK x \in s : TRUE
      OBVIOUS
    <2>3. s \ {x} \notin Bad
      BY <2>1, <2>2
    <2>4. CASE s \ {x} = {}
      BY <2>4, <2>2
    <2>5. CASE s \ {x} # {}
      <3>1. PICK m \in s \ {x} : \A y \in s \ {x} : y <= m
        BY <2>3, <2>5
      <3> QED
        BY <2>2, <3>1
    <2> QED
      BY <2>4, <2>5
  <1>2. \E m \in S : \A x \in S : m >= x
    BY <1>1
  <1> QED
    BY <1>2 DEF Max
=============================================================================
