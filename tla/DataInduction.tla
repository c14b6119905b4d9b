---------------------------- MODULE DataInduction ----------------------------
(* Induction and recursion over natural numbers, stated with sets and      *)
(* functions, so that the proofs about sequences, ways and rounds can cite *)
(* them for one formula or one recursive definition at a time.             *)
EXTENDS Integers, FiniteSets, FiniteSetTheorems, WellFoundedInduction, TLAPS

(* Every set of natural numbers that is not empty has a least member.      *)
LEMMA NatMinimum ==
  ASSUME NEW T \in SUBSET Nat, T # {}
  PROVE  \E x \in T : \A y \in T : x <= y
  <1>1. PICK x \in T : \A y \in T : ~(<< y, x >> \in OpToRel(<, Nat))
    BY WFMin, NatLessThanWellFounded
  <1>2. \A y \in T : ~(y < x)
    BY <1>1 DEF OpToRel
  <1> QED BY <1>2

(* A set that holds 0, and with every number below n the next one, holds   *)
(* the numbers up to n.                                                    *)
LEMMA UpTo ==
  ASSUME NEW n \in Nat, NEW T, 0 \in T,
         \A i \in 0 .. n - 1 : i \in T => i + 1 \in T
  PROVE  0 .. n \subseteq T
  <1> DEFINE F == {i \in 0 .. n : i \notin T}
  <1> SUFFICES ASSUME F # {} PROVE FALSE
    OBVIOUS
  <1>1. F \in SUBSET Nat
    OBVIOUS
  <1>2. PICK i \in F : \A j \in F : i <= j
    BY <1>1, NatMinimum
  <1>3. i # 0 /\ i \in 0 .. n
    BY <1>2
  <1>4. i - 1 \in 0 .. n - 1 /\ i - 1 \notin F
    BY <1>2, <1>3
  <1>5. (i - 1) + 1 \in T
    BY <1>4
  <1> QED BY <1>2, <1>3, <1>5

(* A recursion over numbers: how each value follows from the one before.   *)
StepRules(V) == [Nat -> [V -> V]]

(* f is what base and step define on 0 .. n.                               *)
Stepwise(f, V, base, step, n) ==
    /\ f \in [0 .. n -> V] /\ f[0] = base
    /\ \A i \in 1 .. n : f[i] = step[i][f[i - 1]]

(* Such a function exists on 0 .. n.                                       *)
LEMMA StepwiseFunction ==
  ASSUME NEW V, NEW base \in V, NEW step \in StepRules(V), NEW n \in Nat
  PROVE  \E f : Stepwise(f, V, base, step, n)
  <1> USE DEF StepRules
  <1> DEFINE Good(f, m) == /\ f \in [0 .. m -> V] /\ f[0] = base
                           /\ \A i \in 1 .. m : f[i] = step[i][f[i - 1]]
             T == {m \in Nat : \E f : Good(f, m)}
  <1>1. 0 \in T
    <2>1. Good([i \in 0 .. 0 |-> base], 0)
      OBVIOUS
    <2> QED BY <2>1
  <1>2. ASSUME NEW m \in 0 .. n - 1, m \in T PROVE m + 1 \in T
    <2>1. PICK f : Good(f, m)
      BY <1>2
    <2> DEFINE g == [i \in 0 .. m + 1 |->
                        IF i = m + 1 THEN step[m + 1][f[m]] ELSE f[i]]
    <2>2. g \in [0 .. m + 1 -> V] /\ g[0] = base
      BY <2>1
    <2>3. ASSUME NEW i \in 1 .. m + 1 PROVE g[i] = step[i][g[i - 1]]
      <3>1. CASE i = m + 1
        BY <3>1
      <3>2. CASE i # m + 1
        <4>1. i \in 1 .. m /\ g[i] = f[i] /\ g[i - 1] = f[i - 1]
          BY <3>2
        <4> QED BY <2>1, <4>1
      <3> QED BY <3>1, <3>2
    <2>4. Good(g, m + 1)
      <3> HIDE DEF g
      <3> QED BY <2>2, <2>3
    <2>5. m + 1 \in Nat /\ \E h : Good(h, m + 1)
      <3> HIDE DEF g, Good
      <3> QED BY <2>4
    <2> QED BY <2>5
  <1>3. 0 .. n \subseteq T
    <2> HIDE DEF T
    <2> QED BY <1>1, <1>2, UpTo
  <1> QED BY <1>3 DEF Stepwise
-----------------------------------------------------------------------------
(* The same over the subsets of a finite set, from smaller to larger ones. *)

(* A family that holds every subset when it holds those with one member    *)
(* less holds all subsets.                                                 *)
LEMMA SubsetsUpTo ==
  ASSUME NEW S, IsFiniteSet(S), NEW G,
         \A T \in SUBSET S : (\A x \in T : T \ {x} \in G) => T \in G
  PROVE  SUBSET S \subseteq G
  <1> DEFINE F == {T \in SUBSET S : T \notin G}
             N == {Cardinality(T) : T \in F}
  <1> SUFFICES ASSUME F # {} PROVE FALSE
    OBVIOUS
  <1>1. \A T \in SUBSET S : IsFiniteSet(T) /\ Cardinality(T) \in Nat
    BY FS_Subset, FS_CardinalityType
  <1>2. N \in SUBSET Nat /\ N # {}
    BY <1>1
  <1>3. PICK n \in N : \A m \in N : n <= m
    <2> HIDE DEF N
    <2> QED BY <1>2, NatMinimum
  <1>4. PICK T \in F : Cardinality(T) = n
    BY <1>3
  <1>5. ASSUME NEW x \in T PROVE T \ {x} \in G
    <2>1. Cardinality(T \ {x}) = Cardinality(T) - 1 /\ T \ {x} \in SUBSET S
      BY <1>1, <1>4, FS_RemoveElement
    <2>2. Cardinality(T) \in Nat /\ Cardinality(T \ {x}) \in Nat
      BY <1>1, <1>4, <2>1
    <2>3. ~(n <= Cardinality(T \ {x}))
      BY <1>4, <2>1, <2>2
    <2> QED BY <1>3, <2>1, <2>3
  <1> QED BY <1>4, <1>5

(* A recursion over subsets: how the value for T follows from the values   *)
(* for T without one of its members.                                       *)
SubsetRules(step, S, V) == \A T \in SUBSET S : \A g \in [T -> V] : step[T][g] \in V

Subsetwise(f, S, V, step) ==
    /\ f \in [SUBSET S -> V]
    /\ \A T \in SUBSET S : f[T] = step[T][[x \in T |-> f[T \ {x}]]]

(* Such a function exists on the subsets of S.                             *)
LEMMA SubsetFunction ==
  ASSUME NEW S, IsFiniteSet(S), NEW V, NEW step, SubsetRules(step, S, V)
  PROVE  \E f : Subsetwise(f, S, V, step)
  <1> DEFINE Small(n) == {T \in SUBSET S : Cardinality(T) <= n}
             Good(f, n) == /\ f \in [Small(n) -> V]
                           /\ \A T \in Small(n) : f[T] = step[T][[x \in T |-> f[T \ {x}]]]
             A == {n \in Nat : \E f : Good(f, n)}
  <1>0. \A T \in SUBSET S : /\ IsFiniteSet(T) /\ Cardinality(T) \in Nat
                            /\ Cardinality(T) <= Cardinality(S)
    BY FS_Subset, FS_CardinalityType
  <1>1. ASSUME NEW T \in SUBSET S, NEW x \in T
        PROVE  T \ {x} \in SUBSET S /\ Cardinality(T \ {x}) = Cardinality(T) - 1
    BY <1>0, FS_RemoveElement
  <1>2. 0 \in A
    <2> DEFINE f == [T \in Small(0) |-> step[T][[x \in T |-> S]]]
    <2>1. \A T \in Small(0) : T = {} /\ T \in SUBSET S
      BY <1>0, FS_EmptySet
    <2>2. ASSUME NEW T \in Small(0)
          PROVE  f[T] \in V /\ f[T] = step[T][[x \in T |-> f[T \ {x}]]]
      <3>1. f[T] = step[T][[x \in T |-> S]] /\ T = {} /\ T \in SUBSET S
        BY <2>1
      <3>2. [x \in T |-> S] \in [T -> V] /\ [x \in T |-> S] = [x \in T |-> f[T \ {x}]]
        BY <3>1
      <3>3. step[T][[x \in T |-> S]] \in V
        BY <3>1, <3>2 DEF SubsetRules
      <3> HIDE DEF f
      <3> QED BY <3>1, <3>2, <3>3
    <2>3. Good(f, 0)
      <3>1. f = [T \in Small(0) |-> f[T]]
        OBVIOUS
      <3> HIDE DEF f, Small
      <3> QED BY <2>2, <3>1
    <2> HIDE DEF Good, f
    <2> QED BY <2>3
  <1>3. ASSUME NEW n \in 0 .. Cardinality(S) - 1, n \in A PROVE n + 1 \in A
    <2>0. n \in Nat
      OBVIOUS
    <2>1. PICK f : Good(f, n)
      BY <1>3
    <2> DEFINE g == [T \in Small(n + 1) |->
                       IF T \in Small(n) THEN f[T]
                       ELSE step[T][[x \in T |-> f[T \ {x}]]]]
    <2>2. ASSUME NEW T \in Small(n + 1), NEW x \in T
          PROVE  T \ {x} \in Small(n) /\ T \ {x} \in Small(n + 1)
      <3>1. T \ {x} \in SUBSET S /\ Cardinality(T \ {x}) = Cardinality(T) - 1
        BY <1>1
      <3>2. Cardinality(T) \in Nat /\ Cardinality(T) <= n + 1
        BY <1>0
      <3> QED BY <2>0, <3>1, <3>2
    <2>3. \A T \in Small(n) : f[T] \in V
      <3> HIDE DEF Small
      <3> QED BY <2>1
    <2>4. ASSUME NEW T \in Small(n + 1)
          PROVE  g[T] \in V /\ g[T] = step[T][[x \in T |-> g[T \ {x}]]]
      <3>0. T \in SUBSET S
        OBVIOUS
      <3> HIDE DEF Small, Good
      <3>1. \A x \in T : g[T \ {x}] = f[T \ {x}] /\ f[T \ {x}] \in V
        BY <2>2, <2>3
      <3>2. g[T] = IF T \in Small(n) THEN f[T] ELSE step[T][[x \in T |-> f[T \ {x}]]]
        OBVIOUS
      <3> HIDE DEF g
      <3>3. [x \in T |-> g[T \ {x}]] = [x \in T |-> f[T \ {x}]]
        BY <3>1
      <3>4. [x \in T |-> f[T \ {x}]] \in [T -> V]
        BY <3>1
      <3>5. step[T][[x \in T |-> f[T \ {x}]]] \in V
        BY <3>0, <3>4 DEF SubsetRules
      <3>6. T \in Small(n) => f[T] = step[T][[x \in T |-> f[T \ {x}]]]
        BY <2>1 DEF Good
      <3> QED BY <3>2, <3>3, <3>5, <3>6
    <2>5. Good(g, n + 1)
      <3>1. g = [T \in Small(n + 1) |-> g[T]]
        <4> HIDE DEF Small
        <4> QED OBVIOUS
      <3> HIDE DEF g, Small
      <3> QED BY <2>4, <3>1
    <2>6. n + 1 \in Nat /\ \E h : Good(h, n + 1)
      <3> HIDE DEF g, Good
      <3> QED BY <2>0, <2>5
    <2> QED BY <2>6
  <1>4. Cardinality(S) \in A
    <2>1. Cardinality(S) \in Nat
      BY <1>0
    <2> HIDE DEF A
    <2>2. 0 .. Cardinality(S) \subseteq A
      BY <1>2, <1>3, <2>1, UpTo
    <2> QED BY <2>1, <2>2
  <1>5. PICK f : Good(f, Cardinality(S))
    BY <1>4
  <1>6. Small(Cardinality(S)) = SUBSET S
    BY <1>0
  <1>7. Subsetwise(f, S, V, step)
    <2> HIDE DEF Small
    <2> QED BY <1>5, <1>6 DEF Subsetwise
  <1> QED BY <1>7
==============================================================================
