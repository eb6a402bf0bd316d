-------------------------- MODULE FleetPlanProofs --------------------------
(***************************************************************************)
(* Theorems about Horizon and FleetPlan, for days and steps of any length, *)
(* fleets, timetables and prices of any size.  What the programs return is *)
(* a recursion over the steps of the day: what holds of it in every step   *)
(* is proved with Induction, which speaks of a set of numbers.             *)
(***************************************************************************)
EXTENDS FleetPlan, FiniteSetTheorems, SequenceTheorems, TLAPS

-----------------------------------------------------------------------------
(* Induction over numbers and finite sets, stated about sets of numbers   *)
(* and of sets, and what sums over finite sets are.                       *)

LEMMA Induction ==
    ASSUME NEW S \in SUBSET Nat, 0 \in S, \A n \in S : n + 1 \in S
    PROVE  S = Nat
<1> SUFFICES ASSUME Nat \ S # {} PROVE FALSE
  OBVIOUS
<1> DEFINE R == OpToRel(<, Nat)
<1>1. PICK x \in Nat \ S : \A y \in Nat \ S : <<y, x>> \notin R
  <2>1. IsWellFoundedOn(R, Nat)
    BY NatLessThanWellFounded
  <2> HIDE DEF R
  <2> QED
    BY <2>1, WFMin
<1>2. x # 0 /\ x - 1 \in Nat
  OBVIOUS
<1>3. <<x - 1, x>> \in R
  BY <1>2 DEF OpToRel
<1>4. x - 1 \in S
  BY <1>1, <1>2, <1>3
<1> QED
  BY <1>2, <1>4

(* Up to a number n. *)
LEMMA BoundedInduction ==
    ASSUME NEW n \in Nat, NEW S \in SUBSET (0 .. n), 0 \in S,
           \A i \in S : i < n => i + 1 \in S
    PROVE  S = 0 .. n
<1> DEFINE U == {i \in Nat : i <= n => i \in S}
<1>1. 0 \in U
  OBVIOUS
<1>2. ASSUME NEW i \in U PROVE i + 1 \in U
  OBVIOUS
<1>3. U = Nat
  <2> HIDE DEF U
  <2>1. U \in SUBSET Nat
    BY DEF U
  <2> QED
    BY <1>1, <1>2, <2>1, Induction
<1>4. \A i \in 0 .. n : i \in Nat /\ i <= n
  OBVIOUS
<1>5. \A i \in U : i <= n => i \in S
  OBVIOUS
<1> HIDE DEF U
<1>6. \A i \in 0 .. n : i \in S
  BY <1>3, <1>4, <1>5
<1> QED
  BY <1>6

(* A family that has a subset of S whenever it has all that lack one       *)
(* element of it has S.                                                    *)
LEMMA SetDescent ==
    ASSUME NEW S, IsFiniteSet(S), NEW C,
           \A T \in SUBSET S : (\A x \in T : T \ {x} \in C) => T \in C
    PROVE  S \in C
<1> DEFINE N == {n \in Nat : \A T \in SUBSET S : Cardinality(T) = n => T \in C}
<1>1. 0 \in N
  <2>1. ASSUME NEW T \in SUBSET S, Cardinality(T) = 0 PROVE T \in C
    BY <2>1, FS_Subset, FS_EmptySet
  <2> QED
    BY <2>1
<1>2. ASSUME NEW n \in N PROVE n + 1 \in N
  <2>1. ASSUME NEW T \in SUBSET S, Cardinality(T) = n + 1 PROVE T \in C
    <3>1. IsFiniteSet(T)
      BY FS_Subset
    <3>2. ASSUME NEW x \in T PROVE T \ {x} \in C
      <4>1. Cardinality(T \ {x}) = Cardinality(T) - 1
        BY <3>1, FS_RemoveElement
      <4>2. n \in Nat
        OBVIOUS
      <4>3. Cardinality(T \ {x}) = n
        BY <2>1, <4>1, <4>2
      <4> QED
        BY <1>2, <4>3
    <3> QED
      BY <3>2
  <2> QED
    BY <2>1
<1>3. N = Nat
  <2> HIDE DEF N
  <2>1. N \in SUBSET Nat
    BY DEF N
  <2> QED
    BY <1>1, <1>2, <2>1, Induction
<1>4. Cardinality(S) \in N
  BY <1>3, FS_CardinalityType
<1> QED
  BY <1>4

-----------------------------------------------------------------------------
(* SumOver unfolds to a function on the subsets, which takes out the       *)
(* element that CHOOSE gives.                                              *)
Some(S) == CHOOSE x \in S : TRUE
Adding(f, S) == CHOOSE iter : iter = [s \in SUBSET S |->
    IF s = {} THEN 0 ELSE f[Some(s)] + iter[s \ {Some(s)}]]

(* A function that adds f over the subsets in D. *)
Adds(f, D, sum) ==
    sum = [s \in D |-> IF s = {} THEN 0 ELSE f[Some(s)] + sum[s \ {Some(s)}]]

LEMMA SumUnfolds == \A f, S : SumOver(f, S) = Adding(f, S)[S]
BY DEF SumOver, MapThenSumSet, MapThenFoldSet, Adding, Some

LEMMA SumExists ==
    ASSUME NEW f, NEW S, IsFiniteSet(S)
    PROVE  \E sum : Adds(f, SUBSET S, sum)
<1> DEFINE Small(n) == {s \in SUBSET S : Cardinality(s) <= n}
           N == {n \in Nat : \E sum : Adds(f, Small(n), sum)}
<1>0. \A s \in SUBSET S : IsFiniteSet(s) /\ Cardinality(s) \in Nat
  BY FS_Subset, FS_CardinalityType
<1>1. 0 \in N
  <2>1. PICK sum : sum = [s \in Small(0) |-> 0]
    OBVIOUS
  <2>2. \A s \in Small(0) : s = {}
    BY <1>0, FS_EmptySet
  <2>3. Adds(f, Small(0), sum)
    BY <2>1, <2>2 DEF Adds
  <2> QED
    BY <2>3
<1>2. ASSUME NEW n \in N PROVE n + 1 \in N
  <2>1. PICK sum : Adds(f, Small(n), sum)
    OBVIOUS
  <2> DEFINE V(s) == IF s = {} THEN 0 ELSE f[Some(s)] + sum[s \ {Some(s)}]
  <2>2. PICK next : next = [s \in Small(n + 1) |-> V(s)]
    OBVIOUS
  <2>3. ASSUME NEW s \in Small(n + 1), s # {}
        PROVE  s \ {Some(s)} \in Small(n) /\ s \ {Some(s)} \in Small(n + 1)
    <3>1. Some(s) \in s
      BY <2>3 DEF Some
    <3>2. Cardinality(s \ {Some(s)}) = Cardinality(s) - 1
      BY <1>0, <3>1, FS_RemoveElement
    <3>3. s \ {Some(s)} \in SUBSET S /\ Cardinality(s) \in Nat
      BY <1>0
    <3> QED
      BY <3>2, <3>3
  <2>4. \A s \in Small(n) : next[s] = sum[s]
    <3>1. \A s \in Small(n) : s \in Small(n + 1)
      BY <1>0
    <3>2. \A s \in Small(n) : sum[s] = V(s)
      BY <2>1 DEF Adds
    <3> HIDE DEF V, Small
    <3> QED
      BY <2>2, <3>1, <3>2
  <2>5. Adds(f, Small(n + 1), next)
    <3>1. ASSUME NEW s \in Small(n + 1)
          PROVE  next[s] = IF s = {} THEN 0 ELSE f[Some(s)] + next[s \ {Some(s)}]
      <4>1. next[s] = V(s)
        BY <2>2
      <4>2. CASE s = {}
        BY <4>1, <4>2
      <4>3. CASE s # {}
        <5>1. next[s \ {Some(s)}] = sum[s \ {Some(s)}]
          BY <2>3, <2>4, <4>3
        <5> QED
          BY <4>1, <4>3, <5>1
      <4> QED
        BY <4>2, <4>3
    <3> HIDE DEF Small
    <3> QED
      BY <2>2, <3>1 DEF Adds
  <2> QED
    BY <2>5
<1>3. N = Nat
  <2> HIDE DEF N
  <2>1. N \in SUBSET Nat
    BY DEF N
  <2> QED
    BY <1>1, <1>2, <2>1, Induction
<1>4. Cardinality(S) \in N
  BY <1>3, FS_CardinalityType
<1>5. Small(Cardinality(S)) = SUBSET S
  BY FS_Subset
<1> QED
  BY <1>4, <1>5

LEMMA SumAdds ==
    ASSUME NEW f, NEW S, IsFiniteSet(S)
    PROVE  Adds(f, SUBSET S, Adding(f, S))
<1>1. PICK sum : Adds(f, SUBSET S, sum)
  BY SumExists
<1>2. \E iter : iter = [s \in SUBSET S |->
        IF s = {} THEN 0 ELSE f[Some(s)] + iter[s \ {Some(s)}]]
  BY <1>1 DEF Adds
<1> QED
  BY <1>2, Zenon DEF Adds, Adding

(* The sum over a set does not depend on the sets around it. *)
LEMMA SumIsLocal ==
    ASSUME NEW f, NEW S, IsFiniteSet(S), NEW T \in SUBSET S
    PROVE  Adding(f, S)[T] = SumOver(f, T)
<1> DEFINE C == {U \in SUBSET T : Adding(f, S)[U] = Adding(f, T)[U]}
           N == {n \in Nat : \A U \in SUBSET T : Cardinality(U) = n => U \in C}
<1>1. \A U \in SUBSET T : IsFiniteSet(U) /\ Cardinality(U) \in Nat
  BY FS_Subset, FS_CardinalityType
<1>2. PICK a : a = Adding(f, S)
  OBVIOUS
<1>3. PICK b : b = Adding(f, T)
  OBVIOUS
<1>4. \A U \in SUBSET T :
        /\ a[U] = IF U = {} THEN 0 ELSE f[Some(U)] + a[U \ {Some(U)}]
        /\ b[U] = IF U = {} THEN 0 ELSE f[Some(U)] + b[U \ {Some(U)}]
  <2>1. Adds(f, SUBSET S, a) /\ Adds(f, SUBSET T, b)
    BY <1>1, <1>2, <1>3, SumAdds
  <2>2. \A U \in SUBSET S : a[U] = IF U = {} THEN 0 ELSE f[Some(U)] + a[U \ {Some(U)}]
    BY <2>1 DEF Adds
  <2>3. \A U \in SUBSET T : b[U] = IF U = {} THEN 0 ELSE f[Some(U)] + b[U \ {Some(U)}]
    BY <2>1 DEF Adds
  <2> QED
    BY <2>2, <2>3
<1>5. 0 \in N
  <2>1. ASSUME NEW U \in SUBSET T, Cardinality(U) = 0 PROVE a[U] = b[U]
    BY <1>1, <1>4, <2>1, FS_EmptySet
  <2> QED
    BY <1>2, <1>3, <2>1
<1>6. ASSUME NEW n \in N PROVE n + 1 \in N
  <2>1. ASSUME NEW U \in SUBSET T, Cardinality(U) = n + 1 PROVE a[U] = b[U]
    <3>1. U # {} /\ Some(U) \in U
      BY <1>1, <2>1, FS_EmptySet DEF Some
    <3>2. Cardinality(U \ {Some(U)}) = n
      <4>1. Cardinality(U \ {Some(U)}) = Cardinality(U) - 1
        BY <1>1, <3>1, FS_RemoveElement
      <4>2. n \in Nat
        OBVIOUS
      <4> QED
        BY <2>1, <4>1, <4>2
    <3>3. a[U \ {Some(U)}] = b[U \ {Some(U)}]
      BY <1>2, <1>3, <1>6, <3>2
    <3> QED
      BY <1>4, <3>1, <3>3
  <2> QED
    BY <1>2, <1>3, <2>1
<1>7. N = Nat
  <2> HIDE DEF N
  <2>1. N \in SUBSET Nat
    BY DEF N
  <2> QED
    BY <1>5, <1>6, <2>1, Induction
<1> QED
  BY <1>1, <1>7, SumUnfolds

(* The empty sum, and one element taken out. *)
LEMMA SumOfNone == \A f : SumOver(f, {}) = 0
<1> TAKE f
<1>1. IsFiniteSet({})
  BY FS_EmptySet
<1>2. Adds(f, SUBSET {}, Adding(f, {}))
  BY <1>1, SumAdds
<1>3. Adding(f, {})[{}] = 0
  <2>1. PICK a : a = Adding(f, {})
    OBVIOUS
  <2>2. \A s \in SUBSET {} : a[s] = IF s = {} THEN 0 ELSE f[Some(s)] + a[s \ {Some(s)}]
    BY <1>2, <2>1 DEF Adds
  <2> QED
    BY <2>1, <2>2
<1> QED
  BY <1>3, SumUnfolds

LEMMA SumTakesOne ==
    ASSUME NEW f, NEW S, IsFiniteSet(S), S # {}
    PROVE  /\ Some(S) \in S
           /\ SumOver(f, S) = f[Some(S)] + SumOver(f, S \ {Some(S)})
<1>1. Some(S) \in S
  BY DEF Some
<1>2. PICK a : a = Adding(f, S)
  OBVIOUS
<1>3. a[S] = f[Some(S)] + a[S \ {Some(S)}]
  <2>1. Adds(f, SUBSET S, a)
    BY <1>2, SumAdds
  <2>2. \A s \in SUBSET S : a[s] = IF s = {} THEN 0 ELSE f[Some(s)] + a[s \ {Some(s)}]
    BY <2>1 DEF Adds
  <2> QED
    BY <2>2
<1>4. a[S] = SumOver(f, S) /\ a[S \ {Some(S)}] = SumOver(f, S \ {Some(S)})
  BY <1>2, SumIsLocal
<1> QED
  BY <1>1, <1>3, <1>4

LEMMA SumIsInteger ==
    ASSUME NEW f, NEW S, IsFiniteSet(S), \A x \in S : f[x] \in Int
    PROVE  SumOver(f, S) \in Int
<1> DEFINE C == {T \in SUBSET S : SumOver(f, T) \in Int}
<1>1. ASSUME NEW T \in SUBSET S, \A x \in T : T \ {x} \in C PROVE T \in C
  <2>1. CASE T = {}
    BY <2>1, SumOfNone
  <2>2. CASE T # {}
    <3>1. IsFiniteSet(T)
      BY FS_Subset
    <3>2. Some(T) \in T /\ SumOver(f, T) = f[Some(T)] + SumOver(f, T \ {Some(T)})
      BY <2>2, <3>1, SumTakesOne
    <3> QED
      BY <1>1, <3>2
  <2> QED
    BY <2>1, <2>2
<1>2. S \in C
  <2> HIDE DEF C
  <2> QED
    BY <1>1, SetDescent
<1> QED
  BY <1>2

(* Any element may be taken out. *)
LEMMA SumTakesAny ==
    ASSUME NEW f, NEW S, IsFiniteSet(S), \A x \in S : f[x] \in Int, NEW y \in S
    PROVE  SumOver(f, S) = f[y] + SumOver(f, S \ {y})
<1> DEFINE C == {T \in SUBSET S : \A x \in T :
                    SumOver(f, T) = f[x] + SumOver(f, T \ {x})}
<1>1. ASSUME NEW T \in SUBSET S, \A x \in T : T \ {x} \in C, NEW x \in T
      PROVE  SumOver(f, T) = f[x] + SumOver(f, T \ {x})
  <2>1. IsFiniteSet(T) /\ \A U \in SUBSET T : IsFiniteSet(U)
    BY FS_Subset
  <2>2. PICK c : c = Some(T)
    OBVIOUS
  <2>3. c \in T /\ SumOver(f, T) = f[c] + SumOver(f, T \ {c})
    BY <2>1, <2>2, SumTakesOne
  <2>4. CASE x = c
    BY <2>3, <2>4
  <2>5. CASE x # c
    <3>1. SumOver(f, T \ {c}) = f[x] + SumOver(f, (T \ {c}) \ {x})
      BY <1>1, <2>3, <2>5
    <3>2. SumOver(f, T \ {x}) = f[c] + SumOver(f, (T \ {x}) \ {c})
      BY <1>1, <2>3, <2>5
    <3>3. (T \ {x}) \ {c} = (T \ {c}) \ {x}
      OBVIOUS
    <3>4. SumOver(f, (T \ {c}) \ {x}) \in Int
      <4>1. IsFiniteSet((T \ {c}) \ {x})
        BY <2>1
      <4> QED
        BY <4>1, SumIsInteger
    <3>5. f[x] \in Int /\ f[c] \in Int
      BY <2>3
    <3>6. PICK m \in Int, i \in Int, j \in Int :
            m = SumOver(f, (T \ {c}) \ {x}) /\ i = f[x] /\ j = f[c]
      BY <3>4, <3>5
    <3>7. SumOver(f, T) = j + (i + m) /\ SumOver(f, T \ {x}) = j + m
      BY <2>3, <3>1, <3>2, <3>3, <3>6
    <3> QED
      BY <3>6, <3>7
  <2> QED
    BY <2>4, <2>5
<1>2. ASSUME NEW T \in SUBSET S, \A x \in T : T \ {x} \in C PROVE T \in C
  BY <1>1, <1>2
<1>3. S \in C
  <2> HIDE DEF C
  <2> QED
    BY <1>2, SetDescent
<1> QED
  BY <1>3

(* Sums are compared element by element. *)
LEMMA SumsAreEqual ==
    ASSUME NEW f, NEW g, NEW S, IsFiniteSet(S),
           \A x \in S : f[x] \in Int /\ g[x] = f[x]
    PROVE  SumOver(f, S) = SumOver(g, S)
<1> DEFINE C == {T \in SUBSET S : SumOver(f, T) = SumOver(g, T)}
<1>1. ASSUME NEW T \in SUBSET S, \A x \in T : T \ {x} \in C PROVE T \in C
  <2>1. CASE T = {}
    BY <2>1, SumOfNone
  <2>2. CASE T # {}
    <3>1. IsFiniteSet(T)
      BY FS_Subset
    <3>2. /\ Some(T) \in T
          /\ SumOver(f, T) = f[Some(T)] + SumOver(f, T \ {Some(T)})
          /\ SumOver(g, T) = g[Some(T)] + SumOver(g, T \ {Some(T)})
      BY <2>2, <3>1, SumTakesOne
    <3> QED
      BY <1>1, <3>2
  <2> QED
    BY <2>1, <2>2
<1>2. S \in C
  <2> HIDE DEF C
  <2> QED
    BY <1>1, SetDescent
<1> QED
  BY <1>2

LEMMA SumIsMonotonic ==
    ASSUME NEW f, NEW g, NEW S, IsFiniteSet(S),
           \A x \in S : f[x] \in Int /\ g[x] \in Int /\ f[x] <= g[x]
    PROVE  SumOver(f, S) <= SumOver(g, S)
<1> DEFINE C == {T \in SUBSET S : SumOver(f, T) <= SumOver(g, T)}
<1>1. ASSUME NEW T \in SUBSET S, \A x \in T : T \ {x} \in C PROVE T \in C
  <2>1. CASE T = {}
    BY <2>1, SumOfNone
  <2>2. CASE T # {}
    <3>1. IsFiniteSet(T) /\ IsFiniteSet(T \ {Some(T)})
      BY FS_Subset
    <3>2. /\ Some(T) \in T
          /\ SumOver(f, T) = f[Some(T)] + SumOver(f, T \ {Some(T)})
          /\ SumOver(g, T) = g[Some(T)] + SumOver(g, T \ {Some(T)})
      BY <2>2, <3>1, SumTakesOne
    <3>3. SumOver(f, T \ {Some(T)}) <= SumOver(g, T \ {Some(T)})
      BY <1>1, <3>2
    <3>4. /\ SumOver(f, T \ {Some(T)}) \in Int
          /\ SumOver(g, T \ {Some(T)}) \in Int
      BY <3>1, SumIsInteger
    <3>5. f[Some(T)] \in Int /\ g[Some(T)] \in Int /\ f[Some(T)] <= g[Some(T)]
      BY <3>2
    <3> QED
      BY <3>2, <3>3, <3>4, <3>5
  <2> QED
    BY <2>1, <2>2
<1>2. S \in C
  <2> HIDE DEF C
  <2> QED
    BY <1>1, SetDescent
<1> QED
  BY <1>2

(* The sum over two disjoint sets. *)
LEMMA SumSplits ==
    ASSUME NEW f, NEW S, IsFiniteSet(S), NEW U, IsFiniteSet(U), S \cap U = {},
           \A x \in S \cup U : f[x] \in Int
    PROVE  SumOver(f, S \cup U) = SumOver(f, S) + SumOver(f, U)
<1> DEFINE C == {T \in SUBSET S : SumOver(f, T \cup U) = SumOver(f, T) + SumOver(f, U)}
<1>0. SumOver(f, U) \in Int
  BY SumIsInteger
<1>1. ASSUME NEW T \in SUBSET S, \A x \in T : T \ {x} \in C PROVE T \in C
  <2>1. CASE T = {}
    <3>1. T \cup U = U
      BY <2>1
    <3> QED
      BY <1>0, <2>1, <3>1, SumOfNone
  <2>2. CASE T # {}
    <3>1. PICK x \in T : TRUE
      BY <2>2
    <3>2. IsFiniteSet(T) /\ IsFiniteSet(T \ {x})
      BY FS_Subset
    <3>3. IsFiniteSet(T \cup U)
      BY <3>2, FS_Union
    <3>4. SumOver(f, T) = f[x] + SumOver(f, T \ {x})
      BY <3>2, SumTakesAny
    <3>5. SumOver(f, T \cup U) = f[x] + SumOver(f, (T \cup U) \ {x})
      BY <3>3, SumTakesAny
    <3>6. (T \cup U) \ {x} = (T \ {x}) \cup U
      OBVIOUS
    <3>7. SumOver(f, (T \ {x}) \cup U) = SumOver(f, T \ {x}) + SumOver(f, U)
      BY <1>1
    <3>8. SumOver(f, T \ {x}) \in Int /\ f[x] \in Int
      BY <3>2, SumIsInteger
    <3>9. PICK m \in Int, i \in Int, j \in Int :
            m = SumOver(f, T \ {x}) /\ i = f[x] /\ j = SumOver(f, U)
      BY <1>0, <3>8
    <3>10. SumOver(f, T) = i + m /\ SumOver(f, T \cup U) = i + (m + j)
      BY <3>4, <3>5, <3>6, <3>7, <3>9
    <3> QED
      BY <3>9, <3>10
  <2> QED
    BY <2>1, <2>2
<1>2. S \in C
  <2> HIDE DEF C
  <2> QED
    BY <1>1, SetDescent
<1> QED
  BY <1>2

ImageOf(h, S) == {h[x] : x \in S}

Renames(h, f, g, S) ==
    /\ \A x, y \in S : h[x] = h[y] => x = y
    /\ \A x \in S : f[x] \in Int /\ f[x] = g[h[x]]

(* A sum over other names of the same elements. *)
LEMMA SumIsReindexed ==
    ASSUME NEW f, NEW g, NEW S, IsFiniteSet(S), NEW h, Renames(h, f, g, S)
    PROVE  /\ IsFiniteSet(ImageOf(h, S))
           /\ SumOver(f, S) = SumOver(g, ImageOf(h, S))
<1> DEFINE I(T) == {h[x] : x \in T}
           C == {T \in SUBSET S : /\ IsFiniteSet(I(T))
                                  /\ SumOver(f, T) = SumOver(g, I(T))}
<1>0. /\ \A x, y \in S : h[x] = h[y] => x = y
      /\ \A x \in S : f[x] \in Int /\ f[x] = g[h[x]]
  BY DEF Renames
<1>1. ASSUME NEW T \in SUBSET S, \A x \in T : T \ {x} \in C PROVE T \in C
  <2>1. CASE T = {}
    <3>1. I(T) = {}
      BY <2>1
    <3> QED
      BY <2>1, <3>1, SumOfNone, FS_EmptySet
  <2>2. CASE T # {}
    <3>1. PICK x \in T : TRUE
      BY <2>2
    <3>2. IsFiniteSet(T)
      BY FS_Subset
    <3>3. SumOver(f, T) = f[x] + SumOver(f, T \ {x})
      BY <1>0, <3>2, SumTakesAny
    <3>4. /\ I(T \ {x}) = I(T) \ {h[x]}
          /\ I(T) = I(T \ {x}) \cup {h[x]}
      BY <1>0
    <3>5. /\ IsFiniteSet(I(T \ {x}))
          /\ SumOver(f, T \ {x}) = SumOver(g, I(T \ {x}))
      BY <1>1
    <3>6. IsFiniteSet(I(T))
      <4>1. PICK J : J = I(T \ {x})
        OBVIOUS
      <4>2. IsFiniteSet(J \cup {h[x]})
        BY <3>5, <4>1, FS_AddElement
      <4> QED
        BY <3>4, <4>1, <4>2
    <3>7. h[x] \in I(T) /\ \A z \in I(T) : g[z] \in Int
      BY <1>0
    <3>8. SumOver(g, I(T)) = g[h[x]] + SumOver(g, I(T) \ {h[x]})
      <4> HIDE DEF I
      <4> QED
        BY <3>6, <3>7, SumTakesAny
    <3>9. f[x] = g[h[x]]
      BY <1>0
    <3>10. SumOver(f, T) = SumOver(g, I(T))
      <4> HIDE DEF I, C
      <4> QED
        BY <3>3, <3>4, <3>5, <3>8, <3>9
    <3> QED
      BY <3>6, <3>10
  <2> QED
    BY <2>1, <2>2
<1>2. S \in C
  <2> HIDE DEF C
  <2> QED
    BY <1>1, SetDescent
<1> QED
  BY <1>2 DEF ImageOf
-----------------------------------------------------------------------------
(* What one step of either program adds to a plan.                        *)

(* What the moves of a step have in common in both programs: every bus     *)
(* idles, drives a trip with a draw, or is at a charger with a rate.       *)
LegalMove(move, buses, rate, draw) ==
    /\ DOMAIN move = buses
    /\ \A k \in buses :
        \/ move[k] = Idle
        \/ \E i \in DOMAIN draw : move[k] = Drive(i)
        \/ \E n \in DOMAIN rate : move[k] \in {Op("charge", n), Op("discharge", n)}
    /\ Exclusive(move)

(* Energies are whole numbers. *)
WholeEnergies(rate, draw) ==
    /\ \A n \in DOMAIN rate : rate[n] \in Int
    /\ \A i \in DOMAIN draw : draw[i] \in Int

LEMMA MovesAreOps ==
    ASSUME NEW ops, NEW move \in Moves(ops)
    PROVE  /\ DOMAIN move = DOMAIN ops
           /\ \A k \in DOMAIN ops : move[k] \in ops[k]
           /\ Exclusive(move)
BY DEF Moves

LEMMA DayMovesAreLegal ==
    ASSUME NEW day, NEW s, NEW move \in DayMoves(day, s),
           DOMAIN day.window = DOMAIN day.draw
    PROVE  LegalMove(move, DOMAIN day.capacity, day.rate, day.draw)
<1>1. PICK ops : ops = [k \in DOMAIN day.capacity |-> DayOps(day, k, s)]
  OBVIOUS
<1>2. move \in Moves(ops)
  BY <1>1 DEF DayMoves
<1>3. /\ DOMAIN move = DOMAIN day.capacity
      /\ \A k \in DOMAIN day.capacity : move[k] \in DayOps(day, k, s)
      /\ Exclusive(move)
  BY <1>1, <1>2, MovesAreOps
<1>4. ASSUME NEW k \in DOMAIN day.capacity
      PROVE  \/ move[k] = Idle
             \/ \E i \in DOMAIN day.draw : move[k] = Drive(i)
             \/ \E n \in DOMAIN day.rate : move[k] \in {Op("charge", n), Op("discharge", n)}
  <2>1. move[k] \in DayOps(day, k, s)
    BY <1>3
  <2>2. CASE \E i \in {k} \cap DOMAIN day.window : Driven(day.window[i], s)
    BY <2>1, <2>2 DEF DayOps
  <2>3. CASE ~\E i \in {k} \cap DOMAIN day.window : Driven(day.window[i], s)
    <3>1. move[k] \in {Idle} \cup {Drive(i) : i \in {k} \cap DOMAIN day.window}
                \cup {Op("charge", n) : n \in DOMAIN day.rate}
                \cup {Op("discharge", n) : n \in
                        {m \in DOMAIN day.rate : day.v2g /\ s > 1}}
      BY <2>1, <2>3 DEF DayOps
    <3> QED
      BY <3>1
  <2> QED
    BY <2>2, <2>3
<1> QED
  BY <1>3, <1>4 DEF LegalMove

LEMMA RtMovesAreLegal ==
    ASSUME NEW ctx, NEW s, NEW move \in RtMoves(ctx, s),
           ctx.trips = DOMAIN ctx.draw
    PROVE  LegalMove(move, DOMAIN ctx.capacity, ctx.rate[s], ctx.draw)
<1>1. PICK ops : ops = [k \in DOMAIN ctx.capacity |-> RtOps(ctx, s)]
  OBVIOUS
<1>2. move \in Moves(ops)
  BY <1>1 DEF RtMoves
<1>3. /\ DOMAIN move = DOMAIN ctx.capacity
      /\ \A k \in DOMAIN ctx.capacity : move[k] \in RtOps(ctx, s)
      /\ Exclusive(move)
  BY <1>1, <1>2, MovesAreOps
<1>4. ASSUME NEW k \in DOMAIN ctx.capacity
      PROVE  \/ move[k] = Idle
             \/ \E i \in DOMAIN ctx.draw : move[k] = Drive(i)
             \/ \E n \in DOMAIN ctx.rate[s] :
                    move[k] \in {Op("charge", n), Op("discharge", n)}
  BY <1>3 DEF RtOps, Active
<1> QED
  BY <1>3, <1>4 DEF LegalMove

LEMMA KindsOfOps ==
    /\ Idle.kind = "idle"
    /\ \A i : Drive(i).kind = "drive" /\ Drive(i).on = i
    /\ \A kind, n : Op(kind, n).kind = kind /\ Op(kind, n).on = n
BY DEF Idle, Drive, Op

(* A bus at a charger or on a trip is at one that there is. *)
LEMMA PlacesOfOps ==
    ASSUME NEW move, NEW buses, NEW rate, NEW draw,
           LegalMove(move, buses, rate, draw), NEW k \in buses
    PROVE  /\ move[k].kind \in {"idle", "drive", "charge", "discharge"}
           /\ move[k].kind \in {"charge", "discharge"} => move[k].on \in DOMAIN rate
           /\ move[k].kind = "drive" => /\ move[k].on \in DOMAIN draw
                                        /\ move[k] = Drive(move[k].on)
<1>1. CASE move[k] = Idle
  BY <1>1, KindsOfOps
<1>2. ASSUME NEW i \in DOMAIN draw, move[k] = Drive(i)
      PROVE  move[k].kind = "drive" /\ move[k].on = i
  BY <1>2, KindsOfOps
<1>3. ASSUME NEW n \in DOMAIN rate, move[k] \in {Op("charge", n), Op("discharge", n)}
      PROVE  move[k].kind \in {"charge", "discharge"} /\ move[k].on = n
  BY <1>3, KindsOfOps
<1> QED
  BY <1>1, <1>2, <1>3 DEF LegalMove

LEMMA ChangeIsInteger ==
    ASSUME NEW move, NEW buses, NEW rate, NEW draw,
           LegalMove(move, buses, rate, draw), WholeEnergies(rate, draw),
           NEW k \in buses
    PROVE  Change(move[k], rate, draw) \in Int
<1>1. \A e \in Int : Gain(e) \in Int /\ Drain(e) \in Int
  BY DEF Gain, Drain
<1>2. /\ move[k].kind \in {"idle", "drive", "charge", "discharge"}
      /\ move[k].kind \in {"charge", "discharge"} => rate[move[k].on] \in Int
      /\ move[k].kind = "drive" => draw[move[k].on] \in Int
  BY PlacesOfOps DEF WholeEnergies
<1>3. CASE move[k].kind = "charge"
  BY <1>1, <1>2, <1>3 DEF Change
<1>4. CASE move[k].kind = "discharge"
  <2>1. -Drain(rate[move[k].on]) \in Int
    BY <1>1, <1>2, <1>4
  <2> QED
    BY <2>1, <1>4 DEF Change
<1>5. CASE move[k].kind = "drive"
  <2>1. -draw[move[k].on] \in Int
    BY <1>2, <1>5
  <2> QED
    BY <2>1, <1>5 DEF Change
<1>6. CASE move[k].kind = "idle"
  BY <1>6 DEF Change
<1> QED
  BY <1>2, <1>3, <1>4, <1>5, <1>6

LEMMA ExchangedIsInteger ==
    ASSUME NEW move, NEW buses, IsFiniteSet(buses), NEW rate, NEW draw,
           LegalMove(move, buses, rate, draw), WholeEnergies(rate, draw),
           NEW kind \in {"charge", "discharge"}
    PROVE  Exchanged(move, kind, rate) \in Int
<1>1. PICK doing : doing = {k \in DOMAIN move : move[k].kind = kind}
  OBVIOUS
<1>2. PICK f : f = [k \in doing |-> rate[move[k].on]]
  OBVIOUS
<1>3. doing \in SUBSET buses
  BY <1>1 DEF LegalMove
<1>4. IsFiniteSet(doing)
  BY <1>3, FS_Subset
<1>5. \A k \in doing : f[k] \in Int
  BY <1>1, <1>2, <1>3, PlacesOfOps DEF WholeEnergies
<1>6. SumOver(f, doing) \in Int
  BY <1>4, <1>5, SumIsInteger
<1> QED
  BY <1>1, <1>2, <1>6 DEF Exchanged

-----------------------------------------------------------------------------
(* The feasible plans up to a step extend those up to the step before.     *)

LEMMA DayUnfolds ==
    ASSUME NEW day, day.T \in Nat
    PROVE  /\ DayUpTo(day)[0] = {Unwritten}
           /\ \A s \in 1 .. day.T :
                DayUpTo(day)[s] = DayExtended(day, DayUpTo(day)[s - 1], s)
<1> DEFINE Value(u, s) ==
                IF s = 0 THEN {Unwritten} ELSE DayExtended(day, u[s - 1], s)
           N == {n \in 0 .. day.T : \E u : u = [s \in 0 .. n |-> Value(u, s)]}
<1>1. 0 \in N
  <2>1. PICK u : u = [s \in 0 .. 0 |-> {Unwritten}]
    OBVIOUS
  <2>2. u = [s \in 0 .. 0 |-> Value(u, s)]
    BY <2>1
  <2> QED
    BY <2>2
<1>2. ASSUME NEW n \in N, n < day.T PROVE n + 1 \in N
  <2>1. PICK u : u = [s \in 0 .. n |-> Value(u, s)]
    OBVIOUS
  <2>2. PICK v : v = [s \in 0 .. n + 1 |-> Value(u, s)]
    OBVIOUS
  <2>3. \A s \in 0 .. n : v[s] = u[s]
    <3>1. \A s \in 0 .. n : u[s] = Value(u, s)
      BY <2>1
    <3>2. \A s \in 0 .. n : s \in 0 .. n + 1
      OBVIOUS
    <3> HIDE DEF Value
    <3> QED
      BY <2>2, <3>1, <3>2
  <2>4. \A s \in 0 .. n + 1 : Value(u, s) = Value(v, s)
    <3>1. \A s \in 0 .. n + 1 : s # 0 => s - 1 \in 0 .. n
      OBVIOUS
    <3> QED
      BY <2>3, <3>1
  <2>5. v = [s \in 0 .. n + 1 |-> Value(v, s)]
    <3> HIDE DEF Value
    <3> QED
      BY <2>2, <2>4
  <2> QED
    BY <1>2, <2>5
<1>3. N = 0 .. day.T
  <2> HIDE DEF N
  <2>1. N \in SUBSET (0 .. day.T)
    BY DEF N
  <2> QED
    BY <1>1, <1>2, <2>1, BoundedInduction
<1>4. PICK u : u = DayUpTo(day)
  OBVIOUS
<1>5. u = [s \in 0 .. day.T |-> Value(u, s)]
  <2>1. day.T \in N
    <3> HIDE DEF N
    <3> QED
      BY <1>3
  <2>2. \E w : w = [s \in 0 .. day.T |->
                IF s = 0 THEN {Unwritten} ELSE DayExtended(day, w[s - 1], s)]
    BY <2>1
  <2> QED
    BY <1>4, <2>2, Zenon DEF DayUpTo
<1>6. u[0] = Value(u, 0) /\ \A s \in 1 .. day.T : u[s] = Value(u, s)
  <2> HIDE DEF Value
  <2> QED
    BY <1>5
<1> QED
  BY <1>4, <1>6

LEMMA RtUnfolds ==
    ASSUME NEW ctx, ctx.T \in Nat, NEW spotless
    PROVE  /\ RtUpTo(ctx, spotless)[0] = {RtUnwritten}
           /\ \A s \in 1 .. ctx.T :
                RtUpTo(ctx, spotless)[s] = RtExtended(ctx, spotless, RtUpTo(ctx, spotless)[s - 1], s)
<1> DEFINE Value(u, s) ==
                IF s = 0 THEN {RtUnwritten} ELSE RtExtended(ctx, spotless, u[s - 1], s)
           N == {n \in 0 .. ctx.T : \E u : u = [s \in 0 .. n |-> Value(u, s)]}
<1>1. 0 \in N
  <2>1. PICK u : u = [s \in 0 .. 0 |-> {RtUnwritten}]
    OBVIOUS
  <2>2. u = [s \in 0 .. 0 |-> Value(u, s)]
    BY <2>1
  <2> QED
    BY <2>2
<1>2. ASSUME NEW n \in N, n < ctx.T PROVE n + 1 \in N
  <2>1. PICK u : u = [s \in 0 .. n |-> Value(u, s)]
    OBVIOUS
  <2>2. PICK v : v = [s \in 0 .. n + 1 |-> Value(u, s)]
    OBVIOUS
  <2>3. \A s \in 0 .. n : v[s] = u[s]
    <3>1. \A s \in 0 .. n : u[s] = Value(u, s)
      BY <2>1
    <3>2. \A s \in 0 .. n : s \in 0 .. n + 1
      OBVIOUS
    <3> HIDE DEF Value
    <3> QED
      BY <2>2, <3>1, <3>2
  <2>4. \A s \in 0 .. n + 1 : Value(u, s) = Value(v, s)
    <3>1. \A s \in 0 .. n + 1 : s # 0 => s - 1 \in 0 .. n
      OBVIOUS
    <3> QED
      BY <2>3, <3>1
  <2>5. v = [s \in 0 .. n + 1 |-> Value(v, s)]
    <3> HIDE DEF Value
    <3> QED
      BY <2>2, <2>4
  <2> QED
    BY <1>2, <2>5
<1>3. N = 0 .. ctx.T
  <2> HIDE DEF N
  <2>1. N \in SUBSET (0 .. ctx.T)
    BY DEF N
  <2> QED
    BY <1>1, <1>2, <2>1, BoundedInduction
<1>4. PICK u : u = RtUpTo(ctx, spotless)
  OBVIOUS
<1>5. u = [s \in 0 .. ctx.T |-> Value(u, s)]
  <2>1. ctx.T \in N
    <3> HIDE DEF N
    <3> QED
      BY <1>3
  <2>2. \E w : w = [s \in 0 .. ctx.T |->
                IF s = 0 THEN {RtUnwritten} ELSE RtExtended(ctx, spotless, w[s - 1], s)]
    BY <2>1
  <2> QED
    BY <1>4, <2>2, Zenon DEF RtUpTo
<1>6. u[0] = Value(u, 0) /\ \A s \in 1 .. ctx.T : u[s] = Value(u, s)
  <2> HIDE DEF Value
  <2> QED
    BY <1>5
<1> QED
  BY <1>4, <1>6

(* The inputs of the two programs. *)
DayWell(day) ==
    /\ day.T \in Nat
    /\ DOMAIN day.window = DOMAIN day.draw
    /\ WholeEnergies(day.rate, day.draw)
    /\ IsFiniteSet(DOMAIN day.capacity)
    /\ \A k \in DOMAIN day.capacity : day.energy[k] \in Int

(* What step s of a day-ahead plan is. *)
DayTook(day, plan, move, s) ==
    /\ plan.buy[s] = Exchanged(move, "charge", day.rate)
    /\ plan.sell[s] = Exchanged(move, "discharge", day.rate)
    /\ \A k \in DOMAIN day.capacity : plan.energy[s][k] =
            IF s = 1 THEN day.energy[k]
            ELSE plan.energy[s - 1][k] + Change(move[k], day.rate, day.draw)

DayBuilt(day, plan, n) ==
    /\ plan.buy \in Seq(Int) /\ Len(plan.buy) = n
    /\ plan.sell \in Seq(Int) /\ Len(plan.sell) = n
    /\ plan.energy \in Seq([DOMAIN day.capacity -> Int]) /\ Len(plan.energy) = n
    /\ \A s \in 1 .. n : /\ \E move \in DayMoves(day, s) : DayTook(day, plan, move, s)
                        /\ DayWithin(day, plan, s)

AppendedTo(q, p, n, e, S) ==
    /\ p \in Seq(S) /\ Len(p) = n + 1
    /\ \A s \in 1 .. n : p[s] = q[s]
    /\ p[n + 1] = e

LEMMA Appended ==
    ASSUME NEW S, NEW q \in Seq(S), NEW e \in S, NEW n \in Nat, Len(q) = n,
           NEW p, p = Append(q, e)
    PROVE  AppendedTo(q, p, n, e, S)
BY AppendProperties DEF AppendedTo

EnergyAfter(day, q, move, n) ==
    [k \in DOMAIN day.capacity |->
        IF n + 1 = 1 THEN day.energy[k]
        ELSE q.energy[n][k] + Change(move[k], day.rate, day.draw)]

LEMMA StepOfADay ==
    ASSUME NEW day, NEW q, NEW move, NEW n \in Nat, NEW m, m = n + 1
    PROVE  DayStep(day, q, move, m) =
               [buy |-> Append(q.buy, Exchanged(move, "charge", day.rate)),
                sell |-> Append(q.sell, Exchanged(move, "discharge", day.rate)),
                energy |-> Append(q.energy, EnergyAfter(day, q, move, n))]
<1>1. PICK f : f = [k \in DOMAIN day.capacity |->
                     IF m = 1 THEN day.energy[k]
                     ELSE q.energy[m - 1][k] + Change(move[k], day.rate, day.draw)]
  OBVIOUS
<1>2. f = EnergyAfter(day, q, move, n)
  <2>1. m - 1 = n
    OBVIOUS
  <2> QED
    BY <1>1, <2>1 DEF EnergyAfter
<1>3. DayStep(day, q, move, m) =
          [buy |-> Append(q.buy, Exchanged(move, "charge", day.rate)),
           sell |-> Append(q.sell, Exchanged(move, "discharge", day.rate)),
           energy |-> Append(q.energy, f)]
  BY <1>1, Zenon DEF DayStep
<1> QED
  BY <1>2, <1>3, Zenon

LEMMA DayStepBuilds ==
    ASSUME NEW day, DayWell(day), NEW n \in Nat, NEW q, DayBuilt(day, q, n),
           NEW move \in DayMoves(day, n + 1), NEW p, p = DayStep(day, q, move, n + 1),
           DayWithin(day, p, n + 1)
    PROVE  DayBuilt(day, p, n + 1)
<1>0. PICK e : e = EnergyAfter(day, q, move, n)
  OBVIOUS
<1>1. e = [k \in DOMAIN day.capacity |->
              IF n + 1 = 1 THEN day.energy[k]
              ELSE q.energy[n][k] + Change(move[k], day.rate, day.draw)]
  BY <1>0 DEF EnergyAfter
<1>2. /\ p.buy = Append(q.buy, Exchanged(move, "charge", day.rate))
      /\ p.sell = Append(q.sell, Exchanged(move, "discharge", day.rate))
      /\ p.energy = Append(q.energy, e)
  <2>1. PICK m : m = n + 1
    OBVIOUS
  <2>2. p = DayStep(day, q, move, m)
    BY <2>1
  <2>3. p = [buy |-> Append(q.buy, Exchanged(move, "charge", day.rate)),
             sell |-> Append(q.sell, Exchanged(move, "discharge", day.rate)),
             energy |-> Append(q.energy, e)]
    BY <1>0, <2>1, <2>2, StepOfADay, Zenon
  <2> QED
    BY <2>3
<1>3. LegalMove(move, DOMAIN day.capacity, day.rate, day.draw)
  BY DayMovesAreLegal DEF DayWell
<1>4. /\ Exchanged(move, "charge", day.rate) \in Int
      /\ Exchanged(move, "discharge", day.rate) \in Int
  BY <1>3, ExchangedIsInteger DEF DayWell
<1>5. e \in [DOMAIN day.capacity -> Int]
  <2>1. ASSUME NEW k \in DOMAIN day.capacity PROVE e[k] \in Int
    <3>1. CASE n + 1 = 1
      BY <1>1, <3>1 DEF DayWell
    <3>2. CASE n + 1 # 1
      <4>1. q.energy[n] \in [DOMAIN day.capacity -> Int]
        BY <3>2 DEF DayBuilt
      <4>2. q.energy[n][k] \in Int
        BY <4>1
      <4>3. Change(move[k], day.rate, day.draw) \in Int
        BY <1>3, ChangeIsInteger DEF DayWell
      <4> QED
        BY <1>1, <3>2, <4>2, <4>3
    <3> QED
      BY <3>1, <3>2
  <2> QED
    BY <1>1, <2>1
<1>a. /\ q.buy \in Seq(Int) /\ Len(q.buy) = n
      /\ q.sell \in Seq(Int) /\ Len(q.sell) = n
      /\ q.energy \in Seq([DOMAIN day.capacity -> Int]) /\ Len(q.energy) = n
  BY DEF DayBuilt
<1>6. /\ p.buy \in Seq(Int) /\ Len(p.buy) = n + 1
      /\ \A s \in 1 .. n : p.buy[s] = q.buy[s]
      /\ p.buy[n + 1] = Exchanged(move, "charge", day.rate)
  <2>1. AppendedTo(q.buy, p.buy, n, Exchanged(move, "charge", day.rate), Int)
    BY <1>a, <1>2, <1>4, Appended
  <2> QED
    BY <2>1 DEF AppendedTo
<1>7. /\ p.sell \in Seq(Int) /\ Len(p.sell) = n + 1
      /\ \A s \in 1 .. n : p.sell[s] = q.sell[s]
      /\ p.sell[n + 1] = Exchanged(move, "discharge", day.rate)
  <2>1. AppendedTo(q.sell, p.sell, n, Exchanged(move, "discharge", day.rate), Int)
    BY <1>a, <1>2, <1>4, Appended
  <2> QED
    BY <2>1 DEF AppendedTo
<1>8. /\ p.energy \in Seq([DOMAIN day.capacity -> Int]) /\ Len(p.energy) = n + 1
      /\ \A s \in 1 .. n : p.energy[s] = q.energy[s]
      /\ p.energy[n + 1] = e
  <2>1. AppendedTo(q.energy, p.energy, n, e, [DOMAIN day.capacity -> Int])
    BY <1>a, <1>2, <1>5, Appended
  <2> QED
    BY <2>1 DEF AppendedTo
<1>9. ASSUME NEW s \in 1 .. n
      PROVE  /\ \E m \in DayMoves(day, s) : DayTook(day, p, m, s)
             /\ DayWithin(day, p, s)
  <2>1. PICK m \in DayMoves(day, s) : DayTook(day, q, m, s)
    BY Zenon DEF DayBuilt
  <2>2. p.buy[s] = q.buy[s] /\ p.sell[s] = q.sell[s] /\ p.energy[s] = q.energy[s]
    BY <1>6, <1>7, <1>8
  <2>3. s # 1 => p.energy[s - 1] = q.energy[s - 1]
    <3>1. s # 1 => s - 1 \in 1 .. n
      OBVIOUS
    <3> QED
      BY <1>8, <3>1
  <2>4. DayTook(day, p, m, s)
    <3>1. /\ q.buy[s] = Exchanged(m, "charge", day.rate)
          /\ q.sell[s] = Exchanged(m, "discharge", day.rate)
          /\ \A k \in DOMAIN day.capacity : q.energy[s][k] =
                IF s = 1 THEN day.energy[k]
                ELSE q.energy[s - 1][k] + Change(m[k], day.rate, day.draw)
      BY <2>1, Zenon DEF DayTook
    <3>2. \A k \in DOMAIN day.capacity : p.energy[s][k] =
                IF s = 1 THEN day.energy[k]
                ELSE p.energy[s - 1][k] + Change(m[k], day.rate, day.draw)
      BY <2>2, <2>3, <3>1
    <3> QED
      BY <2>2, <3>1, <3>2 DEF DayTook
  <2>5. DayWithin(day, q, s)
    BY DEF DayBuilt
  <2>6. DayWithin(day, p, s)
    BY <2>2, <2>5 DEF DayWithin
  <2> QED
    BY <2>4, <2>6
<1>10. DayTook(day, p, move, n + 1)
  <2>1. n + 1 - 1 = n
    OBVIOUS
  <2>2. n + 1 # 1 => p.energy[n] = q.energy[n]
    BY <1>8
  <2>3. \A k \in DOMAIN day.capacity : e[k] =
                     IF n + 1 = 1 THEN day.energy[k]
                     ELSE q.energy[n][k] + Change(move[k], day.rate, day.draw)
    BY <1>1
  <2> QED
    BY <1>6, <1>7, <1>8, <2>1, <2>2, <2>3 DEF DayTook
<1>11. \A s \in 1 .. n + 1 : s \in 1 .. n \/ s = n + 1
  OBVIOUS
<1> QED
  BY <1>6, <1>7, <1>8, <1>9, <1>10, <1>11 DEF DayBuilt

LEMMA DayPlansAreBuilt ==
    ASSUME NEW day, DayWell(day), NEW plan \in DayPlans(day)
    PROVE  DayBuilt(day, plan, day.T)
<1> DEFINE N == {n \in 0 .. day.T : \A p \in DayUpTo(day)[n] : DayBuilt(day, p, n)}
<1>0. day.T \in Nat
  BY DEF DayWell
<1>1. 0 \in N
  <2>1. DayUpTo(day)[0] = {Unwritten}
    BY <1>0, DayUnfolds
  <2>2. /\ Unwritten.buy = <<>> /\ Unwritten.sell = <<>> /\ Unwritten.energy = <<>>
    BY DEF Unwritten
  <2>3. DayBuilt(day, Unwritten, 0)
    BY <2>2 DEF DayBuilt
  <2> QED
    BY <1>0, <2>1, <2>3
<1>2. ASSUME NEW n \in N, n < day.T PROVE n + 1 \in N
  <2>1. n \in Nat /\ n + 1 \in 1 .. day.T /\ n + 1 - 1 = n
    BY <1>0, <1>2
  <2>2. DayUpTo(day)[n + 1] = DayExtended(day, DayUpTo(day)[n], n + 1)
    BY <1>0, <2>1, DayUnfolds
  <2>3. ASSUME NEW p \in DayUpTo(day)[n + 1] PROVE DayBuilt(day, p, n + 1)
    <3>1. p \in DayExtended(day, DayUpTo(day)[n], n + 1)
      BY <2>2
    <3>2. PICK q \in DayUpTo(day)[n], move \in DayMoves(day, n + 1) :
            p = DayStep(day, q, move, n + 1) /\ DayWithin(day, p, n + 1)
      BY <3>1 DEF DayExtended
    <3>3. DayBuilt(day, q, n)
      BY <1>2
    <3> QED
      BY <2>1, <3>2, <3>3, DayStepBuilds
  <2> QED
    BY <2>1, <2>3
<1>3. N = 0 .. day.T
  <2> HIDE DEF N
  <2>1. N \in SUBSET (0 .. day.T)
    BY DEF N
  <2> QED
    BY <1>0, <1>1, <1>2, <2>1, BoundedInduction
<1>4. day.T \in N
  <2> HIDE DEF N
  <2> QED
    BY <1>0, <1>3
<1> QED
  BY <1>4 DEF DayPlans

(* What step s of a remaining-horizon plan is. *)
RtWell(ctx) ==
    /\ ctx.T \in Nat
    /\ ctx.trips = DOMAIN ctx.draw
    /\ \A s \in 1 .. ctx.T : WholeEnergies(ctx.rate[s], ctx.draw)
    /\ IsFiniteSet(DOMAIN ctx.capacity)
    /\ \A k \in DOMAIN ctx.capacity : ctx.energy[k] \in Int

Drivers(ctx) ==
    UNION {[trips -> DOMAIN ctx.capacity \cup {None}] : trips \in SUBSET ctx.trips}

EnergyBefore(ctx, plan, k, s) ==
    IF s = 1 THEN ctx.energy[k] ELSE plan.energy[s - 1][k]

RtTook(ctx, plan, move, s) ==
    /\ plan.buy[s] = Exchanged(move, "charge", ctx.rate[s])
    /\ plan.sell[s] = Exchanged(move, "discharge", ctx.rate[s])
    /\ \A k \in DOMAIN ctx.capacity : plan.energy[s][k] =
            EnergyBefore(ctx, plan, k, s) + Change(move[k], ctx.rate[s], ctx.draw)
    /\ plan.driver[s] = [i \in Active(ctx, s) |-> DriverOf(move, i)]

RtBuilt(ctx, plan, n) ==
    /\ plan.buy \in Seq(Int) /\ Len(plan.buy) = n
    /\ plan.sell \in Seq(Int) /\ Len(plan.sell) = n
    /\ plan.energy \in Seq([DOMAIN ctx.capacity -> Int]) /\ Len(plan.energy) = n
    /\ plan.driver \in Seq(Drivers(ctx)) /\ Len(plan.driver) = n
    /\ \A s \in 1 .. n : /\ \E move \in RtMoves(ctx, s) : RtTook(ctx, plan, move, s)
                        /\ Within(ctx, plan, s)

LEMMA DriversAreBuses ==
    ASSUME NEW ctx, NEW s, NEW move \in RtMoves(ctx, s)
    PROVE  [i \in Active(ctx, s) |-> DriverOf(move, i)] \in Drivers(ctx)
<1>1. Active(ctx, s) \in SUBSET ctx.trips
  BY DEF Active
<1>2. DOMAIN move = DOMAIN ctx.capacity
  BY MovesAreOps DEF RtMoves
<1>3. \A i : DriverOf(move, i) \in DOMAIN move \cup {None}
  BY DEF DriverOf
<1>4. [i \in Active(ctx, s) |-> DriverOf(move, i)]
        \in [Active(ctx, s) -> DOMAIN ctx.capacity \cup {None}]
  BY <1>2, <1>3
<1> QED
  BY <1>1, <1>4 DEF Drivers

(* The fields of a plan extended by one step. *)
RtFields(ctx, q, move, p, s, e, d) ==
    /\ p.buy = Append(q.buy, Exchanged(move, "charge", ctx.rate[s]))
    /\ p.sell = Append(q.sell, Exchanged(move, "discharge", ctx.rate[s]))
    /\ p.energy = Append(q.energy, e)
    /\ p.driver = Append(q.driver, d)

LEMMA RtStepFields ==
    ASSUME NEW ctx, NEW q, NEW move, NEW s, NEW p, p = RtStep(ctx, q, move, s),
           NEW e, e = [k \in DOMAIN ctx.capacity |->
                        EnergyBefore(ctx, q, k, s) + Change(move[k], ctx.rate[s], ctx.draw)],
           NEW d, d = [i \in Active(ctx, s) |-> DriverOf(move, i)]
    PROVE  RtFields(ctx, q, move, p, s, e, d)
<1>1. p.buy = Append(q.buy, Exchanged(move, "charge", ctx.rate[s]))
  BY DEF RtStep
<1>2. p.sell = Append(q.sell, Exchanged(move, "discharge", ctx.rate[s]))
  BY DEF RtStep
<1>3. p.energy = Append(q.energy, e)
  <2>1. p.energy = Append(q.energy, [k \in DOMAIN ctx.capacity |->
                (IF s = 1 THEN ctx.energy[k] ELSE q.energy[s - 1][k])
                    + Change(move[k], ctx.rate[s], ctx.draw)])
    BY DEF RtStep
  <2>2. e = [k \in DOMAIN ctx.capacity |->
                (IF s = 1 THEN ctx.energy[k] ELSE q.energy[s - 1][k])
                    + Change(move[k], ctx.rate[s], ctx.draw)]
    BY Zenon DEF EnergyBefore
  <2> QED
    BY <2>1, <2>2, Zenon
<1>4. p.driver = Append(q.driver, d)
  <2>1. p.driver = Append(q.driver, [i \in Active(ctx, s) |-> DriverOf(move, i)])
    BY DEF RtStep
  <2> QED
    BY <2>1, Zenon
<1> QED
  BY <1>1, <1>2, <1>3, <1>4 DEF RtFields

LEMMA RtStepBuilds ==
    ASSUME NEW ctx, RtWell(ctx), NEW n \in Nat, n + 1 \in 1 .. ctx.T, NEW q, RtBuilt(ctx, q, n),
           NEW move \in RtMoves(ctx, n + 1), NEW p, p = RtStep(ctx, q, move, n + 1),
           Within(ctx, p, n + 1)
    PROVE  RtBuilt(ctx, p, n + 1)
<1>1. PICK e : e = [k \in DOMAIN ctx.capacity |->
                     EnergyBefore(ctx, q, k, n + 1)
                        + Change(move[k], ctx.rate[n + 1], ctx.draw)]
  OBVIOUS
<1>b. PICK d : d = [i \in Active(ctx, n + 1) |-> DriverOf(move, i)]
  OBVIOUS
<1>c. d \in Drivers(ctx)
  BY <1>b, DriversAreBuses
<1>2. /\ p.buy = Append(q.buy, Exchanged(move, "charge", ctx.rate[n + 1]))
      /\ p.sell = Append(q.sell, Exchanged(move, "discharge", ctx.rate[n + 1]))
      /\ p.energy = Append(q.energy, e)
      /\ p.driver = Append(q.driver, d)
  <2>1. RtFields(ctx, q, move, p, n + 1, e, d)
    BY <1>1, <1>b, RtStepFields, Zenon
  <2> QED
    BY <2>1 DEF RtFields
<1>3. LegalMove(move, DOMAIN ctx.capacity, ctx.rate[n + 1], ctx.draw)
  BY RtMovesAreLegal DEF RtWell
<1>4. /\ Exchanged(move, "charge", ctx.rate[n + 1]) \in Int
      /\ Exchanged(move, "discharge", ctx.rate[n + 1]) \in Int
  BY <1>3, ExchangedIsInteger DEF RtWell
<1>5. e \in [DOMAIN ctx.capacity -> Int]
  <2>1. ASSUME NEW k \in DOMAIN ctx.capacity PROVE e[k] \in Int
    <3>1. EnergyBefore(ctx, q, k, n + 1) \in Int
      <4>1. CASE n + 1 = 1
        BY <4>1 DEF RtWell, EnergyBefore
      <4>2. CASE n + 1 # 1
        <5>1. n + 1 - 1 \in 1 .. n
          BY <4>2
        <5>2. q.energy[n + 1 - 1] \in [DOMAIN ctx.capacity -> Int]
          BY <5>1 DEF RtBuilt
        <5> QED
          BY <4>2, <5>2 DEF EnergyBefore
      <4> QED
        BY <4>1, <4>2
    <3>2. Change(move[k], ctx.rate[n + 1], ctx.draw) \in Int
      BY <1>3, ChangeIsInteger DEF RtWell
    <3> QED
      BY <1>1, <3>1, <3>2
  <2> QED
    BY <1>1, <2>1
<1>a. /\ q.buy \in Seq(Int) /\ Len(q.buy) = n
      /\ q.sell \in Seq(Int) /\ Len(q.sell) = n
      /\ q.energy \in Seq([DOMAIN ctx.capacity -> Int]) /\ Len(q.energy) = n
      /\ q.driver \in Seq(Drivers(ctx)) /\ Len(q.driver) = n
  BY DEF RtBuilt
<1>6. /\ p.buy \in Seq(Int) /\ Len(p.buy) = n + 1
      /\ \A s \in 1 .. n : p.buy[s] = q.buy[s]
      /\ p.buy[n + 1] = Exchanged(move, "charge", ctx.rate[n + 1])
  <2>1. AppendedTo(q.buy, p.buy, n, Exchanged(move, "charge", ctx.rate[n + 1]), Int)
    BY <1>a, <1>2, <1>4, Appended
  <2> QED
    BY <2>1 DEF AppendedTo
<1>7. /\ p.sell \in Seq(Int) /\ Len(p.sell) = n + 1
      /\ \A s \in 1 .. n : p.sell[s] = q.sell[s]
      /\ p.sell[n + 1] = Exchanged(move, "discharge", ctx.rate[n + 1])
  <2>1. AppendedTo(q.sell, p.sell, n, Exchanged(move, "discharge", ctx.rate[n + 1]), Int)
    BY <1>a, <1>2, <1>4, Appended
  <2> QED
    BY <2>1 DEF AppendedTo
<1>8. /\ p.energy \in Seq([DOMAIN ctx.capacity -> Int]) /\ Len(p.energy) = n + 1
      /\ \A s \in 1 .. n : p.energy[s] = q.energy[s]
      /\ p.energy[n + 1] = e
  <2>1. AppendedTo(q.energy, p.energy, n, e, [DOMAIN ctx.capacity -> Int])
    BY <1>a, <1>2, <1>5, Appended
  <2> QED
    BY <2>1 DEF AppendedTo
<1>d. /\ p.driver \in Seq(Drivers(ctx)) /\ Len(p.driver) = n + 1
      /\ \A s \in 1 .. n : p.driver[s] = q.driver[s]
      /\ p.driver[n + 1] = d
  <2>1. AppendedTo(q.driver, p.driver, n, d, Drivers(ctx))
    BY <1>a, <1>2, <1>c, Appended
  <2> QED
    BY <2>1 DEF AppendedTo
<1>9. ASSUME NEW s \in 1 .. n
      PROVE  /\ \E m \in RtMoves(ctx, s) : RtTook(ctx, p, m, s)
             /\ Within(ctx, p, s)
  <2>1. PICK m \in RtMoves(ctx, s) : RtTook(ctx, q, m, s)
    BY Zenon DEF RtBuilt
  <2>2. p.buy[s] = q.buy[s] /\ p.sell[s] = q.sell[s] /\ p.energy[s] = q.energy[s]
        /\ p.driver[s] = q.driver[s]
    BY <1>6, <1>7, <1>8, <1>d
  <2>3. s # 1 => p.energy[s - 1] = q.energy[s - 1]
    <3>1. s # 1 => s - 1 \in 1 .. n
      OBVIOUS
    <3> QED
      BY <1>8, <3>1
  <2>4. RtTook(ctx, p, m, s)
    <3>1. /\ q.buy[s] = Exchanged(m, "charge", ctx.rate[s])
          /\ q.sell[s] = Exchanged(m, "discharge", ctx.rate[s])
          /\ \A k \in DOMAIN ctx.capacity : q.energy[s][k] =
                EnergyBefore(ctx, q, k, s) + Change(m[k], ctx.rate[s], ctx.draw)
          /\ q.driver[s] = [i \in Active(ctx, s) |-> DriverOf(m, i)]
      BY <2>1, Zenon DEF RtTook
    <3>2. \A k \in DOMAIN ctx.capacity :
            EnergyBefore(ctx, q, k, s) = EnergyBefore(ctx, p, k, s)
      BY <2>3 DEF EnergyBefore
    <3>3. \A k \in DOMAIN ctx.capacity : p.energy[s][k] =
                EnergyBefore(ctx, p, k, s) + Change(m[k], ctx.rate[s], ctx.draw)
      BY <2>2, <3>1, <3>2
    <3> QED
      BY <2>2, <3>1, <3>3, Zenon DEF RtTook
  <2>5. Within(ctx, q, s)
    BY DEF RtBuilt
  <2>6. Within(ctx, p, s)
    BY <2>2, <2>5 DEF Within
  <2> QED
    BY <2>4, <2>6
<1>10. RtTook(ctx, p, move, n + 1)
  <2>1. n + 1 # 1 => n + 1 - 1 \in 1 .. n
    OBVIOUS
  <2>2. n + 1 # 1 => p.energy[n + 1 - 1] = q.energy[n + 1 - 1]
    BY <1>8, <2>1
  <2>3. \A k \in DOMAIN ctx.capacity :
            EnergyBefore(ctx, q, k, n + 1) = EnergyBefore(ctx, p, k, n + 1)
    BY <2>2 DEF EnergyBefore
  <2>4. \A k \in DOMAIN ctx.capacity : p.energy[n + 1][k] =
            EnergyBefore(ctx, p, k, n + 1)
                + Change(move[k], ctx.rate[n + 1], ctx.draw)
    BY <1>1, <1>8, <2>3
  <2> QED
    BY <1>6, <1>7, <1>b, <1>d, <2>4, Zenon DEF RtTook
<1>11. \A s \in 1 .. n + 1 : s \in 1 .. n \/ s = n + 1
  OBVIOUS
<1> QED
  BY <1>6, <1>7, <1>8, <1>9, <1>10, <1>11, <1>d DEF RtBuilt

LEMMA RtPlansAreBuilt ==
    ASSUME NEW ctx, RtWell(ctx), NEW spotless,
           NEW plan \in RtUpTo(ctx, spotless)[ctx.T]
    PROVE  RtBuilt(ctx, plan, ctx.T)
<1> DEFINE N == {n \in 0 .. ctx.T : \A p \in RtUpTo(ctx, spotless)[n] : RtBuilt(ctx, p, n)}
<1>0. ctx.T \in Nat
  BY DEF RtWell
<1>1. 0 \in N
  <2>1. RtUpTo(ctx, spotless)[0] = {RtUnwritten}
    BY <1>0, RtUnfolds
  <2>2. /\ RtUnwritten.buy = <<>> /\ RtUnwritten.sell = <<>> /\ RtUnwritten.energy = <<>>
        /\ RtUnwritten.driver = <<>>
    BY DEF RtUnwritten
  <2>3. RtBuilt(ctx, RtUnwritten, 0)
    BY <2>2 DEF RtBuilt
  <2> QED
    BY <1>0, <2>1, <2>3
<1>2. ASSUME NEW n \in N, n < ctx.T PROVE n + 1 \in N
  <2>1. n \in Nat /\ n + 1 \in 1 .. ctx.T /\ n + 1 - 1 = n
    BY <1>0, <1>2
  <2>2. RtUpTo(ctx, spotless)[n + 1] = RtExtended(ctx, spotless, RtUpTo(ctx, spotless)[n], n + 1)
    BY <1>0, <2>1, RtUnfolds
  <2>3. ASSUME NEW p \in RtUpTo(ctx, spotless)[n + 1] PROVE RtBuilt(ctx, p, n + 1)
    <3>1. p \in RtExtended(ctx, spotless, RtUpTo(ctx, spotless)[n], n + 1)
      BY <2>2
    <3>2. PICK q \in RtUpTo(ctx, spotless)[n], move \in RtMoves(ctx, n + 1) :
            p = RtStep(ctx, q, move, n + 1) /\ Within(ctx, p, n + 1)
      BY <3>1 DEF RtExtended
    <3>3. RtBuilt(ctx, q, n)
      BY <1>2
    <3> QED
      BY <2>1, <3>2, <3>3, RtStepBuilds
  <2> QED
    BY <2>1, <2>3
<1>3. N = 0 .. ctx.T
  <2> HIDE DEF N
  <2>1. N \in SUBSET (0 .. ctx.T)
    BY DEF N
  <2> QED
    BY <1>0, <1>1, <1>2, <2>1, BoundedInduction
<1>4. ctx.T \in N
  <2> HIDE DEF N
  <2> QED
    BY <1>0, <1>3
<1> QED
  BY <1>4
-----------------------------------------------------------------------------
(* The windows of a trip in both programs, for steps of any length.       *)

LEMMA MaxOfTwo ==
    ASSUME NEW a \in Int, NEW b \in Int
    PROVE  Max({a, b}) = IF a >= b THEN a ELSE b
BY DEF Max

LEMMA MinOfTwo ==
    ASSUME NEW a \in Int, NEW b \in Int
    PROVE  Min({a, b}) = IF a <= b THEN a ELSE b
BY DEF Min

LEMMA Clamped ==
    ASSUME NEW v \in Int, NEW lo \in Int, NEW hi \in Int
    PROVE  Clamp(v, lo, hi) = IF hi < lo \/ v < lo THEN lo
                              ELSE IF v > hi THEN hi ELSE v
<1>1. PICK m \in Int : m = IF hi <= v THEN hi ELSE v
  OBVIOUS
<1>a. Min({hi, v}) = m
  BY <1>1, MinOfTwo
<1>2. Clamp(v, lo, hi) = Max({lo, m})
  BY <1>a DEF Clamp
<1>3. Max({lo, m}) = IF lo >= m THEN lo ELSE m
  BY MaxOfTwo
<1> QED
  BY <1>1, <1>2, <1>3

LEMMA RoundDivType ==
    ASSUME NEW a \in Int, NEW b \in Nat \ {0}
    PROVE  RoundDiv(a, b) \in Int
<1>1. a \div b \in Int /\ a % b \in Int
  OBVIOUS
<1> QED
  BY <1>1 DEF RoundDiv

(* Every time becomes a step of the day. *)
LEMMA ParsedIsAStep ==
    ASSUME NEW M \in Nat \ {0}, NEW F \in Nat \ {0}, NEW v \in Time,
           NEW isEnd \in BOOLEAN
    PROVE  ParseTime(v, M, F, isEnd) \in 1 .. F
<1>1. v.n \in Nat /\ v.n * 30 \in Nat
  BY DEF Time
<1>2. \A n \in Nat : ClockStep(n, M, isEnd) \in Int
  <2>1. \A n \in Nat : n \div M \in Int
    OBVIOUS
  <2> QED
    BY <2>1 DEF ClockStep
<1>3. RawStep(v, M, F, isEnd) \in Int
  <2>1. v.n \div 2 \in Int /\ RoundDiv(v.n, 2) \in Int
    BY <1>1, RoundDivType
  <2> QED
    BY <1>1, <1>2, <2>1 DEF RawStep
<1>4. PICK r \in Int : r = RawStep(v, M, F, isEnd)
  BY <1>3
<1> QED
  BY <1>4, Clamped DEF ParseTime

(* The steps a trip begins in and ends before. *)
FromTo(trip, M, F, b, e) ==
    /\ ParseTime(trip.begin, M, F, FALSE) = b
    /\ ParseTime(trip.end, M, F, TRUE) = e

(* The windows of both optimizers by those steps. *)
LEMMA WindowsOfSteps ==
    ASSUME NEW M \in Nat \ {0}, NEW F \in Nat, NEW trip,
           NEW b \in Int, 1 <= b, NEW e \in Int, b + 1 <= e, e <= F
    PROVE  FromTo(trip, M, F, b, e)
           => /\ DayWindow(trip, M, F) = [start |-> b, end |-> e]
              /\ RtWindow(trip, 0, M, F) = [start |-> b, end |-> e]
<1>0. /\ F \in Int /\ F - 1 \in Int /\ b + 1 \in Int
      /\ b <= F - 1
      /\ b + 0 = b
      /\ e + 0 = e
  OBVIOUS
<1>1. RoundDiv(0, M) = 0
  <2>1. 0 \div M = 0 /\ 0 % M = 0
    OBVIOUS
  <2> QED
    BY <2>1 DEF RoundDiv
<1>2. Clamp(b, 1, F - 1) = b
  <2>1. Clamp(b, 1, F - 1) = IF F - 1 < 1 \/ b < 1 THEN 1
                             ELSE IF b > F - 1 THEN F - 1 ELSE b
    BY <1>0, Clamped
  <2> QED
    BY <1>0, <2>1
<1>3. Clamp(e, b + 1, F) = e
  <2>1. Clamp(e, b + 1, F) = IF F < b + 1 \/ e < b + 1 THEN b + 1
                             ELSE IF e > F THEN F ELSE e
    BY <1>0, Clamped
  <2> QED
    BY <1>0, <2>1
<1>4. Min({F, Max({1, b + 0})}) = b
  <2>1. Max({1, b}) = b
    BY <1>0, MaxOfTwo
  <2>2. Min({F, b}) = b
    BY <1>0, MinOfTwo
  <2> QED
    BY <1>0, <2>1, <2>2
<1>5. Min({F, Max({b + 1, e + 0})}) = e
  <2>1. Max({b + 1, e}) = e
    BY <1>0, MaxOfTwo
  <2>2. Min({F, e}) = e
    BY <1>0, MinOfTwo
  <2> QED
    BY <1>0, <2>1, <2>2
<1>6. SUFFICES ASSUME ParseTime(trip.begin, M, F, FALSE) = b,
                      ParseTime(trip.end, M, F, TRUE) = e
               PROVE  /\ DayWindow(trip, M, F) = [start |-> b, end |-> e]
                      /\ RtWindow(trip, 0, M, F) = [start |-> b, end |-> e]
  BY DEF FromTo
<1>7. DayWindow(trip, M, F) = [start |-> b, end |-> e]
  BY <1>2, <1>3, <1>6, Zenon DEF DayWindow
<1>8. RtWindow(trip, 0, M, F) = [start |-> b, end |-> e]
  BY <1>1, <1>4, <1>5, <1>6, Zenon DEF RtWindow
<1> QED
  BY <1>7, <1>8

(* A trip the day-ahead optimizer accepts has one window, the same in both *)
(* optimizers and as long as the timetable says, whatever the times are    *)
(* written in (validate_timestep_consistency, extract_scalars,             *)
(* build_rt_context).                                                      *)
THEOREM OneWindowPerTrip ==
    ASSUME NEW M \in Nat \ {0}, NEW F \in Nat \ {0},
           NEW trip \in [begin : Time, end : Time, draw : Int]
    PROVE  /\ Accepted(trip, M, F)
           /\ DurationSteps(trip.begin, trip.end, M) # 0
           => /\ RtWindow(trip, 0, M, F) = DayWindow(trip, M, F)
              /\ DayWindow(trip, M, F).end - DayWindow(trip, M, F).start
                   = DurationSteps(trip.begin, trip.end, M)
              /\ 1 <= DayWindow(trip, M, F).start
              /\ DayWindow(trip, M, F).end <= F
<1>0. trip.begin \in Time /\ trip.end \in Time
  OBVIOUS
<1>1. PICK b \in 1 .. F : ParseTime(trip.begin, M, F, FALSE) = b
  BY <1>0, ParsedIsAStep
<1>2. PICK e \in 1 .. F : ParseTime(trip.end, M, F, TRUE) = e
  BY <1>0, ParsedIsAStep
<1>3. PICK d : d = DurationSteps(trip.begin, trip.end, M)
  OBVIOUS
<1>4. d = NoDuration \/ d \in Nat
  <2>1. \A n \in Int, u \in Nat \ {0} : n >= 0 => n \div u \in Nat
    OBVIOUS
  <2>2. PICK unit \in Nat \ {0} : unit = IF trip.begin.clock THEN M ELSE 2
    OBVIOUS
  <2>3. PICK length \in Int : length = trip.end.n - trip.begin.n
    BY <1>0 DEF Time
  <2>4. length >= 0 => length \div unit \in Nat
    BY <2>1
  <2> QED
    BY <1>3, <2>2, <2>3, <2>4 DEF DurationSteps
<1>5. SUFFICES ASSUME Accepted(trip, M, F), d # 0
               PROVE  /\ RtWindow(trip, 0, M, F) = DayWindow(trip, M, F)
                      /\ DayWindow(trip, M, F).end
                           - DayWindow(trip, M, F).start = d
                      /\ 1 <= DayWindow(trip, M, F).start
                      /\ DayWindow(trip, M, F).end <= F
  BY <1>3
<1>6. d = e - b /\ d # NoDuration
  BY <1>1, <1>2, <1>3, <1>5, Zenon DEF Accepted
<1>7. /\ b \in Int /\ e \in Int
      /\ 1 <= b
      /\ b + 1 <= e
      /\ e <= F
  BY <1>4, <1>5, <1>6
<1>8. /\ DayWindow(trip, M, F) = [start |-> b, end |-> e]
      /\ RtWindow(trip, 0, M, F) = [start |-> b, end |-> e]
  <2>1. FromTo(trip, M, F, b, e)
    BY <1>1, <1>2 DEF FromTo
  <2> QED
    BY <1>7, <2>1, WindowsOfSteps
<1> QED
  BY <1>6, <1>7, <1>8

(* A clock time at the beginning of a step, and the step it becomes. *)
Aligned(v, k, M) == v = [clock |-> TRUE, n |-> k * M]
Becomes(v, M, F, s) ==
    /\ ParseTime(v, M, F, FALSE) = s
    /\ ParseTime(v, M, F, TRUE) = s

(* A multiple of the step's length is the beginning of a step, and ends    *)
(* the one before it.                                                      *)
LEMMA AlignedTime ==
    ASSUME NEW M \in Nat \ {0}, NEW F \in Nat, NEW k \in Nat, k < F, NEW v,
           Aligned(v, k, M)
    PROVE  Becomes(v, M, F, k + 1)
<1>1. /\ (k * M) \div M = k
      /\ (k * M) % M = 0
  OBVIOUS
<1>2. PICK n \in Nat : n = k * M
  OBVIOUS
<1>3. v.clock = TRUE /\ v.n = n
  BY <1>2 DEF Aligned
<1>4. n \div M = k /\ n % M = 0
  BY <1>1, <1>2
<1>5. /\ RawStep(v, M, F, FALSE) = k + 1
      /\ RawStep(v, M, F, TRUE) = k + 1
  <2>1. /\ ClockStep(n, M, FALSE) = k + 1
        /\ ClockStep(n, M, TRUE) = k + 1
    BY <1>4 DEF ClockStep
  <2> QED
    BY <1>3, <2>1 DEF RawStep
<1>6. Clamp(k + 1, 1, F) = k + 1
  <2>1. k + 1 \in Int /\ F \in Int
    OBVIOUS
  <2>2. Clamp(k + 1, 1, F) = IF F < 1 \/ k + 1 < 1 THEN 1
                             ELSE IF k + 1 > F THEN F ELSE k + 1
    BY <2>1, Clamped
  <2> QED
    BY <2>2
<1> QED
  BY <1>5, <1>6 DEF ParseTime, Becomes

(* A trip with aligned clock times is driven in exactly the steps of the   *)
(* day that lie within it (parse_time_to_step).                            *)
THEOREM TimetableIsKept ==
    ASSUME NEW M \in Nat \ {0}, NEW F \in Nat, NEW a \in Nat, NEW z \in Nat,
           a < z, z < F, NEW trip,
           Aligned(trip.begin, a, M), Aligned(trip.end, z, M)
    PROVE  \A s \in 1 .. F :
              Driven(DayWindow(trip, M, F), s) <=> During(trip, s, 0, M)
<1>1. FromTo(trip, M, F, a + 1, z + 1)
  <2>1. a < F
    OBVIOUS
  <2>2. Becomes(trip.begin, M, F, a + 1)
    BY <2>1, AlignedTime
  <2>3. Becomes(trip.end, M, F, z + 1)
    BY AlignedTime
  <2> QED
    BY <2>2, <2>3 DEF Becomes, FromTo
<1>2. DayWindow(trip, M, F) = [start |-> a + 1, end |-> z + 1]
  <2>1. PICK b \in Int : b = a + 1
    OBVIOUS
  <2>2. PICK e \in Int : e = z + 1
    OBVIOUS
  <2>3. 1 <= b /\ b + 1 <= e /\ e <= F
    BY <2>1, <2>2
  <2>4. FromTo(trip, M, F, b, e)
    BY <1>1, <2>1, <2>2
  <2>5. DayWindow(trip, M, F) = [start |-> b, end |-> e]
    BY <2>3, <2>4, WindowsOfSteps
  <2> QED
    BY <2>1, <2>2, <2>5
<1>3. ASSUME NEW s \in 1 .. F
      PROVE  Driven(DayWindow(trip, M, F), s) <=> (a <= s - 1 /\ s <= z)
  BY <1>2 DEF Driven
<1>4. \A i, j \in Int : (i * M <= j * M) <=> (i <= j)
  <2>1. ASSUME NEW i \in Int, NEW j \in Int, i <= j PROVE i * M <= j * M
    BY <2>1
  <2>2. ASSUME NEW i \in Int, NEW j \in Int, i > j PROVE i * M > j * M
    <3>1. (i - j) * M > 0 /\ (i - j) * M = i * M - j * M
      BY <2>2
    <3>2. i * M \in Int /\ j * M \in Int
      OBVIOUS
    <3> QED
      BY <3>1, <3>2
  <2> QED
    BY <2>1, <2>2
<1>5. ASSUME NEW s \in 1 .. F
      PROVE  During(trip, s, 0, M) <=> (a * M + 0 <= (s - 1) * M /\ s * M <= z * M + 0)
  BY DEF During, Aligned
<1>6. a * M \in Int /\ z * M \in Int
  OBVIOUS
<1> QED
  BY <1>3, <1>4, <1>5, <1>6

(* A result belongs to a notice and an approved plan, and its outcome says *)
(* whether it passed (optimize_day_ahead, optimize_real_time).             *)
THEOREM TypeCorrect ==
    ASSUME None \notin Inputs
    PROVE  Spec => []TypeOK
<1> DEFINE Inv == TypeOK /\ (baseline = None => candidate = None /\ notice = None)
<1>1. Init => Inv
  BY DEF Init, TypeOK
<1>2. Inv /\ [Next]_vars => Inv'
  <2> SUFFICES ASSUME Inv, [Next]_vars PROVE Inv'
    OBVIOUS
  <2>1. ASSUME NEW i \in Inputs, RefuseDay(i) PROVE Inv'
    BY <2>1 DEF RefuseDay, TypeOK
  <2>2. ASSUME NEW i \in Inputs, NoDayPlan(i) PROVE Inv'
    BY <2>2 DEF NoDayPlan, TypeOK
  <2>3. ASSUME NEW i \in Inputs, PlanDay(i) PROVE Inv'
    BY <2>3 DEF PlanDay, TypeOK
  <2>4. ASSUME NEW n \in Notices, Notify(n) PROVE Inv'
    BY <2>4 DEF Notify, TypeOK
  <2>5. ASSUME NEW limited \in BOOLEAN, Replan(limited) PROVE Inv'
    BY <2>5 DEF Replan, TypeOK
  <2>6. CASE NoReplan
    BY <2>6 DEF NoReplan, TypeOK
  <2>7. CASE UNCHANGED vars
    BY <2>7 DEF vars, TypeOK
  <2> QED
    BY <2>1, <2>2, <2>3, <2>4, <2>5, <2>6, <2>7 DEF Next
<1>3. Inv => TypeOK
  OBVIOUS
<1> QED
  BY <1>1, <1>2, <1>3, PTL DEF Spec
-----------------------------------------------------------------------------
(* The programs of registered inputs and reportable notices.              *)

LEMMA StepsOfADay ==
    ASSUME NEW M \in Nat \ {0}
    PROVE  Steps(M) \in Nat \ {0}
<1>1. Day \in Int
  BY DEF Day
<1>2. PICK r \in Int : r = RoundDiv(Day, M)
  BY <1>1, RoundDivType
<1>3. Steps(M) = IF 1 >= r THEN 1 ELSE r
  BY <1>2, MaxOfTwo DEF Steps
<1> QED
  BY <1>3

(* A registered input is solved for the steps of the day. *)
LEMMA DayInputIsWell ==
    ASSUME NEW in, Registered(in)
    PROVE  /\ DayWell(DayInput(in))
           /\ DayInput(in).T = Steps(in.minutes)
           /\ DayInput(in).rate = in.rate
           /\ DayInput(in).capacity = in.capacity
           /\ DOMAIN DayInput(in).window = DOMAIN in.trips
           /\ DOMAIN DayInput(in).draw = DOMAIN in.trips
           /\ \A i \in DOMAIN in.trips : DayInput(in).draw[i] = in.trips[i].draw
<1>1. PICK M \in Nat \ {0} : M = in.minutes
  BY DEF Registered
<1>2. PICK F \in Nat \ {0} : F = Steps(in.minutes)
  BY <1>1, StepsOfADay
<1>3. DaySteps(in.minutes, Len(in.spot)) = F
  <2>1. Len(in.spot) = F
    BY <1>2 DEF Registered
  <2>2. F % F = 0
    OBVIOUS
  <2> QED
    BY <1>2, <2>1, <2>2 DEF DaySteps
<1>4. PICK day : day = DayInput(in)
  OBVIOUS
<1>5. /\ day.T = F
      /\ day.rate = in.rate
      /\ day.capacity = in.capacity
      /\ DOMAIN day.window = DOMAIN in.trips
      /\ day.draw = [i \in DOMAIN in.trips |-> in.trips[i].draw]
      /\ day.energy = [k \in DOMAIN in.capacity |->
                            (in.soc[k] * in.capacity[k]) \div 100]
  BY <1>3, <1>4 DEF DayInput
<1>6. WholeEnergies(day.rate, day.draw)
  <2>1. in.rate \in Seq(Nat) /\ in.trips \in Seq([begin : Time, end : Time, draw : Nat])
    BY DEF Registered
  <2>2. \A i \in DOMAIN in.rate : in.rate[i] \in Int
    BY <2>1
  <2>3. \A i \in DOMAIN in.trips : in.trips[i].draw \in Int
    <3>1. PICK R : R = [begin : Time, end : Time, draw : Nat]
      OBVIOUS
    <3>2. \A i \in DOMAIN in.trips : in.trips[i] \in R
      <4>1. in.trips \in Seq(R)
        BY <2>1, <3>1, Zenon
      <4> QED
        BY <4>1
    <3>3. \A r \in R : r.draw \in Nat
      BY <3>1
    <3> QED
      BY <3>2, <3>3
  <2> QED
    BY <1>5, <2>2, <2>3 DEF WholeEnergies
<1>7. /\ IsFiniteSet(DOMAIN day.capacity)
      /\ \A k \in DOMAIN day.capacity : day.energy[k] \in Int
  <2>1. in.capacity \in Seq(Nat) /\ in.soc \in [DOMAIN in.capacity -> Nat]
    BY DEF Registered
  <2>2. DOMAIN in.capacity = 1 .. Len(in.capacity) /\ Len(in.capacity) \in Nat
    BY <2>1
  <2>3. IsFiniteSet(DOMAIN in.capacity)
    BY <2>2, FS_Interval
  <2>4. ASSUME NEW k \in DOMAIN in.capacity
        PROVE  (in.soc[k] * in.capacity[k]) \div 100 \in Int
    <3>1. PICK a \in Nat, b \in Nat : a = in.soc[k] /\ b = in.capacity[k]
      BY <2>1
    <3>2. a * b \in Nat
      OBVIOUS
    <3> QED
      BY <3>1, <3>2
  <2> QED
    BY <1>5, <2>3, <2>4
<1>8. DayWell(day)
  BY <1>5, <1>6, <1>7 DEF DayWell
<1> QED
  BY <1>2, <1>4, <1>5, <1>8

(* The part of a day a notice leaves to plan. *)
LEMMA RestOfTheDay ==
    ASSUME NEW in, Registered(in), NEW base, NEW n, Reportable(n, in)
    PROVE  /\ Context(in, base, n).cur = n.from
           /\ Context(in, base, n).T = Steps(in.minutes) - n.from + 1
           /\ n.from \in 2 .. Steps(in.minutes)
           /\ Steps(in.minutes) \in Nat
<1>1. in.minutes \in Nat \ {0}
  BY DEF Registered
<1>2. PICK F \in Nat \ {0} : F = Steps(in.minutes)
  BY <1>1, StepsOfADay
<1>3. PICK from \in 2 .. F : from = n.from
  BY <1>2 DEF Reportable
<1>4. Clamp(from, 1, F) = from
  <2>1. Clamp(from, 1, F) = IF F < 1 \/ from < 1 THEN 1
                            ELSE IF from > F THEN F ELSE from
    BY Clamped
  <2> QED
    BY <2>1
<1> QED
  BY <1>2, <1>3, <1>4 DEF Context

(* The energy handed over is the energy the approved plan ended with. *)
LEMMA EnergyIsHandedOver ==
    ASSUME NEW in, Registered(in), NEW base, NEW n, Reportable(n, in),
           DayBuilt(DayInput(in), base, Steps(in.minutes)),
           NEW k \in DOMAIN in.capacity
    PROVE  /\ HandedOver(in, base, n.from)[k] = base.energy[n.from - 1][k]
           /\ HandedOver(in, base, n.from)[k] \in Int
<1>1. PICK F \in Nat : F = Steps(in.minutes)
  BY RestOfTheDay
<1>2. PICK from \in 2 .. F : from = n.from
  BY <1>1, RestOfTheDay
<1>3. StateIndex(from) = from - 1
  <2>1. Max({0, from - 2}) = from - 2
    BY MaxOfTwo
  <2> QED
    BY <2>1 DEF StateIndex
<1>4. /\ Len(base.energy) = F
      /\ base.energy \in Seq([DOMAIN in.capacity -> Int])
      /\ from - 1 \in 1 .. F
      /\ DayWithin(DayInput(in), base, from - 1)
  BY <1>1, DayInputIsWell DEF DayBuilt
<1>5. PICK e \in Int : e = base.energy[from - 1][k]
  BY <1>4
<1>6. PICK c \in Nat : c = in.capacity[k]
  BY DEF Registered
<1>7. 0 <= e /\ e <= c
  <2>1. e \in Reserve(c) .. c
    BY <1>4, <1>5, <1>6, DayInputIsWell DEF DayWithin
  <2>2. Reserve(c) \in Nat
    BY DEF Reserve
  <2> QED
    BY <2>1, <2>2
<1>8. Clamp(e, 0, c) = e
  <2>1. Clamp(e, 0, c) = IF c < 0 \/ e < 0 THEN 0 ELSE IF e > c THEN c ELSE e
    BY Clamped
  <2> QED
    BY <1>7, <2>1
<1>9. from - 1 <= F
  BY <1>4
<1> QED
  BY <1>2, <1>3, <1>4, <1>5, <1>6, <1>8, <1>9 DEF HandedOver

(* Maximum and minimum of the indices of a finite sequence. *)
LEMMA MaxIsReached ==
    ASSUME NEW S, S \subseteq Int, IsFiniteSet(S), S # {}
    PROVE  Max(S) \in S /\ \A x \in S : x <= Max(S)
<1>1. \E m \in S : \A x \in S : m >= x
  <2> DEFINE C == {T \in SUBSET S : T # {} => \E m \in T : \A x \in T : m >= x}
  <2>1. ASSUME NEW T \in SUBSET S, \A x \in T : T \ {x} \in C PROVE T \in C
    <3>1. ASSUME NEW y \in T PROVE \E m \in T : \A x \in T : m >= x
      <4>1. CASE T \ {y} = {}
        BY <4>1
      <4>2. CASE T \ {y} # {}
        <5>1. PICK m \in T \ {y} : \A x \in T \ {y} : m >= x
          BY <2>1, <4>2
        <5>2. m \in Int /\ y \in Int /\ \A x \in T : x \in Int
          OBVIOUS
        <5>3. CASE m >= y
          BY <5>1, <5>3
        <5>4. CASE y > m
          <6>1. \A x \in T : y >= x
            BY <5>1, <5>2, <5>4
          <6> QED
            BY <6>1
        <5> QED
          BY <5>2, <5>3, <5>4
      <4> QED
        BY <4>1, <4>2
    <3> QED
      BY <3>1
  <2>2. S \in C
    <3> HIDE DEF C
    <3> QED
      BY <2>1, SetDescent
  <2> QED
    BY <2>2
<1>2. Max(S) \in S /\ \A x \in S : Max(S) >= x
  BY <1>1 DEF Max
<1> QED
  BY <1>2

LEMMA MinIsReached ==
    ASSUME NEW S, S \subseteq Int, IsFiniteSet(S), S # {}
    PROVE  Min(S) \in S /\ \A x \in S : Min(S) <= x
<1>1. PICK N : N = {-x : x \in S}
  OBVIOUS
<1>2. IsFiniteSet(N)
  <2>1. PICK h : h = [x \in S |-> -x]
    OBVIOUS
  <2>2. PICK z : z = [x \in Int |-> 0]
    OBVIOUS
  <2>3. \A x \in S : h[x] \in Int /\ z[x] = 0 /\ z[h[x]] = 0
    BY <2>1, <2>2
  <2>4. \A x, y \in S : h[x] = h[y] => x = y
    BY <2>1
  <2>5. IsFiniteSet(ImageOf(h, S)) /\ SumOver(z, S) = SumOver(z, ImageOf(h, S))
    <3>1. Renames(h, z, z, S)
      BY <2>3, <2>4 DEF Renames
    <3> QED
      BY <3>1, SumIsReindexed
  <2>6. ImageOf(h, S) = N
    <3>1. \A x \in S : h[x] = -x
      BY <2>1
    <3>2. \A y : y \in ImageOf(h, S) <=> \E x \in S : y = h[x]
      BY DEF ImageOf
    <3>3. \A y : y \in N <=> \E x \in S : y = -x
      BY <1>1
    <3> QED
      BY <3>1, <3>2, <3>3
  <2> QED
    BY <2>5, <2>6
<1>3. N \subseteq Int /\ N # {}
  <2>1. \A x \in S : -x \in Int
    OBVIOUS
  <2> QED
    BY <1>1, <2>1
<1>4. PICK m \in N : \A x \in N : x <= m
  BY <1>2, <1>3, MaxIsReached
<1>5. PICK y \in S : m = -y
  BY <1>1
<1>6. \A x \in S : y <= x
  <2>1. ASSUME NEW x \in S PROVE y <= x
    <3>1. -x \in N
      BY <1>1
    <3>2. -x <= m
      BY <1>4, <3>1
    <3> QED
      BY <1>5, <3>2
  <2> QED
    BY <2>1
<1> QED
  BY <1>6 DEF Min

(* The rate of a charger is what the notice leaves of its nominal rate. *)
LEMMA RateIsDerated ==
    ASSUME NEW in, Registered(in), NEW n, Reportable(n, in),
           NEW c \in DOMAIN in.rate, NEW s \in 1 .. Steps(in.minutes)
    PROVE  LET r == RateAt(in, n.deratings, c, s)
           IN  /\ r \in Nat /\ r % 90 = 0
               /\ r <= in.rate[c]
               /\ \A i \in DOMAIN n.deratings :
                    /\ n.deratings[i].charger = c
                    /\ s \in n.deratings[i].first .. n.deratings[i].last
                    => r <= n.deratings[i].rate
<1>1. PICK r : r = RateAt(in, n.deratings, c, s)
  OBVIOUS
<1>2. PICK ds : ds = n.deratings
  OBVIOUS
<1>3. PICK R : R = [charger : Nat, rate : Nat, first : Int, last : Int]
  OBVIOUS
<1>4. /\ ds \in Seq(R)
      /\ \A i, j \in DOMAIN ds : ds[i].charger = ds[j].charger => i = j
      /\ \A i \in DOMAIN ds :
            /\ ds[i].rate % 90 = 0
            /\ ds[i].charger \in DOMAIN in.rate => ds[i].rate <= in.rate[ds[i].charger]
  BY <1>2, <1>3 DEF Reportable
<1>5. \A i \in DOMAIN ds : ds[i] \in R
  BY <1>4
<1>6. \A d \in R : d.rate \in Nat /\ d.first \in Int /\ d.last \in Int
  BY <1>3
<1>7. PICK rate \in Nat : rate = in.rate[c] /\ rate % 90 = 0
  BY DEF Registered
<1>8. PICK F \in Nat : F = Steps(in.minutes) /\ Len(in.spot) = F
  BY RestOfTheDay DEF Registered
<1>9. PICK naming : naming = {i \in DOMAIN ds : ds[i].charger = c}
  OBVIOUS
<1>10. r = IF /\ naming # {}
              /\ s \in Max({1, ds[Max(naming)].first}) .. Min({F, ds[Max(naming)].last})
           THEN ds[Max(naming)].rate ELSE rate
  BY <1>1, <1>2, <1>7, <1>8, <1>9 DEF RateAt
<1>11. CASE naming = {}
  <2>1. r = rate
    BY <1>10, <1>11
  <2>2. \A i \in DOMAIN ds : ds[i].charger # c
    BY <1>9, <1>11
  <2> QED
    BY <1>1, <1>2, <1>7, <2>1, <2>2
<1>12. CASE naming # {}
  <2>1. PICK i \in naming : TRUE
    BY <1>12
  <2>2. i \in DOMAIN ds /\ ds[i].charger = c
    BY <1>9, <2>1
  <2>3. naming = {i}
    BY <1>4, <1>9, <2>2
  <2>4. i \in Int
    BY <1>4, <2>2
  <2>5. Max(naming) = i
    BY <2>3, <2>4 DEF Max
  <2>6. /\ ds[i].rate \in Nat /\ ds[i].rate % 90 = 0 /\ ds[i].rate <= rate
        /\ ds[i].first \in Int /\ ds[i].last \in Int
    BY <1>4, <1>5, <1>6, <1>7, <2>2
  <2>7. \A j \in DOMAIN ds : ds[j].charger = c => j = i
    BY <1>9, <2>3
  <2>8. PICK first \in Int, last \in Int : first = ds[i].first /\ last = ds[i].last
    BY <2>6
  <2>9. s \in Max({1, first}) .. Min({F, last}) <=> s \in first .. last
    <3>1. Max({1, first}) = IF 1 >= first THEN 1 ELSE first
      BY MaxOfTwo
    <3>2. Min({F, last}) = IF F <= last THEN F ELSE last
      BY MinOfTwo
    <3> QED
      BY <1>8, <3>1, <3>2
  <2>10. r = IF s \in first .. last THEN ds[i].rate ELSE rate
    BY <1>10, <1>12, <2>5, <2>8, <2>9
  <2>11. \A j \in DOMAIN ds :
            ds[j].charger = c /\ s \in ds[j].first .. ds[j].last => r <= ds[j].rate
    BY <2>6, <2>7, <2>8, <2>10
  <2> QED
    BY <1>1, <1>2, <1>7, <2>6, <2>10, <2>11
<1> QED
  BY <1>11, <1>12

LEMMA ContextIsWell ==
    ASSUME NEW in, Registered(in), NEW base, NEW n, Reportable(n, in),
           DayBuilt(DayInput(in), base, Steps(in.minutes))
    PROVE  /\ RtWell(Context(in, base, n))
           /\ Context(in, base, n).capacity = in.capacity
           /\ Context(in, base, n).trips \subseteq DOMAIN in.trips
           /\ \A i \in Context(in, base, n).trips :
                Context(in, base, n).draw[i] = in.trips[i].draw
           /\ \A s \in 1 .. Context(in, base, n).T :
                /\ DOMAIN Context(in, base, n).rate[s] = DOMAIN in.rate
                /\ \A c \in DOMAIN in.rate :
                    /\ n.from + s - 1 \in 1 .. Steps(in.minutes)
                    /\ Context(in, base, n).rate[s][c]
                        = RateAt(in, n.deratings, c, n.from + s - 1)
           /\ \A k \in DOMAIN in.capacity :
                Context(in, base, n).energy[k] = base.energy[n.from - 1][k]
<1>1. PICK ctx : ctx = Context(in, base, n)
  OBVIOUS
<1>2. PICK F \in Nat : F = Steps(in.minutes)
  BY RestOfTheDay
<1>3. PICK from \in 2 .. F : from = n.from
  BY <1>2, RestOfTheDay
<1>4. ctx.cur = from /\ ctx.T = F - from + 1
  BY <1>1, <1>2, <1>3, RestOfTheDay
<1>5. /\ ctx.rate = RatesFrom(in, n.deratings, ctx.cur)
      /\ ctx.capacity = in.capacity
      /\ ctx.energy = HandedOver(in, base, n.from)
      /\ ctx.draw = [i \in ctx.trips |-> in.trips[i].draw]
      /\ ctx.trips \subseteq DOMAIN in.trips
  BY <1>1 DEF Context
<1>6. ASSUME NEW s \in 1 .. ctx.T
      PROVE  /\ DOMAIN ctx.rate[s] = DOMAIN in.rate
             /\ from + s - 1 \in 1 .. F
             /\ \A c \in DOMAIN in.rate :
                    ctx.rate[s][c] = RateAt(in, n.deratings, c, from + s - 1)
  <2>1. s \in 1 .. Steps(in.minutes) - from + 1 /\ from + s - 1 \in 1 .. F
    BY <1>2, <1>4
  <2>2. ctx.rate[s] = [c \in DOMAIN in.rate |-> RateAt(in, n.deratings, c, from + s - 1)]
    BY <1>4, <1>5, <2>1 DEF RatesFrom
  <2> QED
    BY <2>1, <2>2
<1>7. \A s \in 1 .. ctx.T : WholeEnergies(ctx.rate[s], ctx.draw)
  <2>1. ASSUME NEW s \in 1 .. ctx.T, NEW c \in DOMAIN in.rate
        PROVE  ctx.rate[s][c] \in Int
    <3>1. RateAt(in, n.deratings, c, from + s - 1) \in Nat
      BY <1>2, <1>6, RateIsDerated
    <3> QED
      BY <1>6, <3>1
  <2>2. WholeEnergies(DayInput(in).rate, DayInput(in).draw)
    BY DayInputIsWell DEF DayWell
  <2>3. \A i \in DOMAIN in.trips : in.trips[i].draw \in Int
    BY <2>2, DayInputIsWell DEF WholeEnergies
  <2> QED
    BY <1>5, <1>6, <2>1, <2>3 DEF WholeEnergies
<1>8. IsFiniteSet(DOMAIN ctx.capacity)
  BY <1>5, DayInputIsWell DEF DayWell
<1>9. \A k \in DOMAIN in.capacity :
            ctx.energy[k] = base.energy[n.from - 1][k] /\ ctx.energy[k] \in Int
  BY <1>5, EnergyIsHandedOver
<1>10. RtWell(ctx)
  BY <1>4, <1>5, <1>7, <1>8, <1>9 DEF RtWell
<1> QED
  BY <1>1, <1>2, <1>3, <1>5, <1>6, <1>9, <1>10
-----------------------------------------------------------------------------
(* The approved plan and the candidate are plans of their programs.       *)

(* The approved plan and the candidate are plans of their programs. *)
Planned ==
    /\ notice # None => baseline # None /\ notice \in Notices
    /\ baseline # None => /\ input \in Inputs
                          /\ DayInput(input).valid
                          /\ baseline \in DayPlans(DayInput(input))
    /\ candidate # None =>
        /\ notice # None
        /\ \E plan \in RtPlans(Context(input, baseline, notice)), limited \in BOOLEAN :
            candidate = Result(baseline, Context(input, baseline, notice), plan, limited)

LEMMA ResultsArePlans ==
    ASSUME NEW day, NEW plan \in DayResults(day)
    PROVE  plan \in DayPlans(day)
BY DEF DayResults, NearOptimal

LEMMA OptimizedArePlans ==
    ASSUME NEW ctx, NEW plans, NEW plan \in Optimized(ctx, plans)
    PROVE  plan \in plans
BY DEF Optimized, NearOptimal

LEMMA PlannedIsInductive == Planned /\ [Next]_vars => Planned'
<1> SUFFICES ASSUME Planned, [Next]_vars PROVE Planned'
  OBVIOUS
<1>0. baseline = None => notice = None /\ candidate = None
  BY DEF Planned
<1>1. ASSUME NEW i \in Inputs, RefuseDay(i) PROVE Planned'
  BY <1>0, <1>1 DEF RefuseDay, Planned
<1>2. ASSUME NEW i \in Inputs, NoDayPlan(i) PROVE Planned'
  BY <1>0, <1>2 DEF NoDayPlan, Planned
<1>3. ASSUME NEW i \in Inputs, PlanDay(i) PROVE Planned'
  <2>1. baseline = None /\ DayInput(i).valid /\ input' = i
    BY <1>3 DEF PlanDay
  <2>2. notice' = None /\ candidate' = None
    BY <1>0, <1>3 DEF PlanDay
  <2>3. baseline' \in DayPlans(DayInput(i))
    BY <1>3, ResultsArePlans DEF PlanDay
  <2> QED
    BY <2>1, <2>2, <2>3 DEF Planned
<1>4. ASSUME NEW n \in Notices, Notify(n) PROVE Planned'
  BY <1>4 DEF Notify, Planned
<1>5. ASSUME NEW limited \in BOOLEAN, Replan(limited) PROVE Planned'
  <2>1. PICK ctx : ctx = Context(input, baseline, notice)
    OBVIOUS
  <2>2. PICK plan \in IF limited THEN RtPlans(ctx) ELSE Optimized(ctx, RtPlans(ctx)) :
            candidate' = Result(baseline, ctx, plan, limited)
    BY <1>5, <2>1, Zenon DEF Replan
  <2>3. plan \in RtPlans(ctx)
    BY <2>2, OptimizedArePlans
  <2>4. notice # None /\ UNCHANGED <<input, baseline, notice>>
    BY <1>5 DEF Replan
  <2>5. ctx = Context(input, baseline, notice)'
    BY <2>1, <2>4
  <2>6. \E p \in RtPlans(ctx), l \in BOOLEAN : candidate' = Result(baseline', ctx, p, l)
    BY <2>2, <2>3, <2>4
  <2> QED
    BY <2>4, <2>5, <2>6 DEF Planned
<1>6. CASE NoReplan
  BY <1>6 DEF NoReplan, Planned
<1>7. CASE UNCHANGED vars
  BY <1>7 DEF vars, Planned
<1> QED
  BY <1>1, <1>2, <1>3, <1>4, <1>5, <1>6, <1>7 DEF Next

(* In every reachable state the approved plan and the candidate are plans  *)
(* of the day-ahead and the remaining-horizon program.                     *)
THEOREM PlansAreFeasible == Spec => []Planned
<1>1. Init => Planned
  BY DEF Init, Planned
<1> QED
  BY <1>1, PlannedIsInductive, PTL DEF Spec

LEMMA BaselineIsBuilt ==
    ASSUME Planned, baseline # None
    PROVE  /\ Registered(input)
           /\ DayInput(input).valid
           /\ DayBuilt(DayInput(input), baseline, Steps(input.minutes))
<1>1. input \in Inputs /\ baseline \in DayPlans(DayInput(input)) /\ DayInput(input).valid
  BY DEF Planned
<1>2. Registered(input)
  BY <1>1, InputsAssumption
<1>3. /\ DayWell(DayInput(input))
      /\ DayInput(input).T = Steps(input.minutes)
  BY <1>2, DayInputIsWell
<1>4. DayBuilt(DayInput(input), baseline, DayInput(input).T)
  BY <1>1, <1>3, DayPlansAreBuilt
<1> QED
  BY <1>1, <1>2, <1>3, <1>4

(* What a replan is made of. *)
Replanned(ctx, plan, limited) ==
    /\ ctx = Context(input, baseline, notice)
    /\ RtBuilt(ctx, plan, ctx.T)
    /\ candidate = Result(baseline, ctx, plan, limited)

LEMMA CandidateIsBuilt ==
    ASSUME Planned, candidate # None
    PROVE  /\ baseline # None
           /\ Registered(input)
           /\ DayBuilt(DayInput(input), baseline, Steps(input.minutes))
           /\ Reportable(notice, input)
           /\ \E ctx, plan, limited : Replanned(ctx, plan, limited)
<1>1. baseline # None /\ notice \in Notices /\ input \in Inputs
  BY DEF Planned
<1>2. /\ Registered(input)
      /\ DayBuilt(DayInput(input), baseline, Steps(input.minutes))
  BY <1>1, BaselineIsBuilt
<1>3. Reportable(notice, input)
  BY <1>1, InputsAssumption
<1>4. PICK ctx : ctx = Context(input, baseline, notice)
  OBVIOUS
<1>5. PICK plan \in RtPlans(ctx), limited \in BOOLEAN :
            candidate = Result(baseline, ctx, plan, limited)
  BY <1>4 DEF Planned
<1>6. RtWell(ctx)
  BY <1>2, <1>3, <1>4, ContextIsWell
<1>7. \E spotless : RtPlans(ctx) = RtUpTo(ctx, spotless)[ctx.T]
  BY DEF RtPlans
<1>8. RtBuilt(ctx, plan, ctx.T)
  BY <1>5, <1>6, <1>7, RtPlansAreBuilt
<1>9. Replanned(ctx, plan, limited)
  BY <1>4, <1>5, <1>8 DEF Replanned
<1> QED
  BY <1>1, <1>2, <1>3, <1>9
-----------------------------------------------------------------------------
(* What the events of a result count in the steps before one.             *)

(* The events of trip i in the first n steps of a replan. *)
Told(events, i, cur, n) == {e \in events : e.trip = i /\ e.step < cur + n}

EventsAt(at, cur) == {[trip |-> p[1], step |-> cur + p[2] - 1] : p \in at}

Grows(events, at, i, cur, n) ==
    /\ Told(events, i, cur, 0) = {}
    /\ \E e : /\ e \notin Told(events, i, cur, n)
              /\ Told(events, i, cur, n + 1) =
                    Told(events, i, cur, n) \cup (IF <<i, n + 1>> \in at THEN {e} ELSE {})

LEMMA ToldGrows ==
    ASSUME NEW cur \in Int, NEW T \in Nat, NEW X, NEW at \in SUBSET (X \X (1 .. T)),
           NEW i, NEW n \in 0 .. T - 1
    PROVE  Grows(EventsAt(at, cur), at, i, cur, n)
<1>1. PICK E : E = EventsAt(at, cur)
  OBVIOUS
<1>2. ASSUME NEW e \in E
      PROVE  \E s \in 1 .. T : e.step = cur + s - 1 /\ e = [trip |-> e.trip, step |-> cur + s - 1]
                            /\ <<e.trip, s>> \in at
  <2>1. PICK p \in at : e = [trip |-> p[1], step |-> cur + p[2] - 1]
    BY <1>1 DEF EventsAt
  <2>2. p[2] \in 1 .. T /\ p = <<p[1], p[2]>>
    OBVIOUS
  <2> QED
    BY <2>1, <2>2
<1>3. ASSUME NEW s \in 1 .. T, <<i, s>> \in at
      PROVE  [trip |-> i, step |-> cur + s - 1] \in E
  BY <1>1, <1>3 DEF EventsAt
<1>4. PICK e : e = [trip |-> i, step |-> cur + n]
  OBVIOUS
<1>5. e.trip = i /\ e.step = cur + n
  BY <1>4
<1>6. Told(E, i, cur, 0) = {}
  <2>1. ASSUME NEW d \in Told(E, i, cur, 0) PROVE FALSE
    <3>1. d \in E /\ d.step < cur + 0
      BY DEF Told
    <3>2. PICK s \in 1 .. T : d.step = cur + s - 1
      BY <1>2, <3>1
    <3> QED
      BY <3>1, <3>2
  <2> QED
    BY <2>1
<1>7. e \notin Told(E, i, cur, n)
  <2>1. ~(cur + n < cur + n)
    OBVIOUS
  <2> QED
    BY <1>5, <2>1 DEF Told
<1>8. ASSUME NEW d \in Told(E, i, cur, n + 1)
      PROVE  d \in Told(E, i, cur, n) \/ (<<i, n + 1>> \in at /\ d = e)
  <2>1. d \in E /\ d.trip = i /\ d.step < cur + (n + 1)
    BY <1>8 DEF Told
  <2>2. PICK s \in 1 .. T : /\ d.step = cur + s - 1
                            /\ d = [trip |-> d.trip, step |-> cur + s - 1]
                            /\ <<d.trip, s>> \in at
    BY <1>2, <2>1
  <2>3. CASE s = n + 1
    <3>1. cur + s - 1 = cur + n
      BY <2>3
    <3> QED
      BY <1>4, <2>1, <2>2, <2>3, <3>1
  <2>4. CASE s # n + 1
    <3>1. d.step < cur + n
      BY <2>1, <2>2, <2>4
    <3> QED
      BY <2>1, <3>1 DEF Told
  <2> QED
    BY <2>3, <2>4
<1>9. ASSUME NEW d \in Told(E, i, cur, n) PROVE d \in Told(E, i, cur, n + 1)
  <2>1. d \in E /\ d.trip = i /\ d.step < cur + n
    BY <1>9 DEF Told
  <2>2. d.step \in Int
    <3>1. PICK s \in 1 .. T : d.step = cur + s - 1
      BY <1>2, <2>1
    <3> QED
      BY <3>1
  <2>3. d.step < cur + (n + 1)
    <3>1. PICK x \in Int : x = d.step
      BY <2>2
    <3>2. x < cur + n
      BY <2>1, <3>1
    <3>3. x < cur + (n + 1)
      BY <3>2
    <3> QED
      BY <3>1, <3>3
  <2> QED
    BY <2>1, <2>3 DEF Told
<1>10. ASSUME <<i, n + 1>> \in at PROVE e \in Told(E, i, cur, n + 1)
  <2>1. n + 1 \in 1 .. T /\ cur + (n + 1) - 1 = cur + n /\ cur + n < cur + (n + 1)
    OBVIOUS
  <2>2. e \in E
    <3>1. [trip |-> i, step |-> cur + (n + 1) - 1] \in E
      BY <1>3, <1>10, <2>1
    <3> QED
      BY <1>4, <2>1, <3>1
  <2> QED
    BY <1>5, <2>1, <2>2 DEF Told
<1>11. CASE <<i, n + 1>> \in at
  <2>1. Told(E, i, cur, n + 1) = Told(E, i, cur, n) \cup {e}
    BY <1>8, <1>9, <1>10, <1>11
  <2> QED
    BY <1>1, <1>6, <1>7, <1>11, <2>1 DEF Grows
<1>12. CASE <<i, n + 1>> \notin at
  <2>1. Told(E, i, cur, n + 1) = Told(E, i, cur, n)
    BY <1>8, <1>9, <1>12
  <2> QED
    BY <1>1, <1>6, <1>7, <1>12, <2>1 DEF Grows
<1> QED
  BY <1>11, <1>12

(* The steps of a trip follow one another. *)
LEMMA ActiveIsContiguous ==
    ASSUME NEW ctx, NEW i \in ctx.trips, ctx.window[i].start \in Int,
           ctx.window[i].end \in Int,
           NEW s \in Int, NEW t \in Int, NEW u \in Int, s <= t, t <= u,
           i \in Active(ctx, s), i \in Active(ctx, u)
    PROVE  i \in Active(ctx, t)
BY DEF Active, Driven

LEMMA DelayIsANumber ==
    ASSUME NEW delays, IsFiniteSet(delays), delays \subseteq [bus : Nat, minutes : Nat],
           NEW bus
    PROVE  DelayOf(delays, bus) \in Int
<1>1. PICK late : late = {d \in delays : d.bus = bus}
  OBVIOUS
<1>2. PICK f : f = [d \in late |-> d.minutes]
  OBVIOUS
<1>3. \A d \in late : f[d] \in Int
  BY <1>1, <1>2
<1>4. late \in SUBSET delays
  BY <1>1
<1>5. IsFiniteSet(late)
  BY <1>4, FS_Subset
<1>6. SumOver(f, late) \in Int
  BY <1>3, <1>5, SumIsInteger
<1> QED
  BY <1>1, <1>2, <1>6 DEF DelayOf

(* The real-time window of a trip that parses as b to e, moved by d steps. *)
MovesTo(w, b, e, d, F) ==
    /\ d \in Int
    /\ w.start \in Int
    /\ w.end \in Int
    /\ w.start = IF b + d >= F THEN F ELSE IF b + d <= 1 THEN 1 ELSE b + d
    /\ w.end = IF w.start + 1 >= F \/ e + d >= F THEN F
               ELSE IF e + d <= w.start + 1 THEN w.start + 1 ELSE e + d

LEMMA MovedWindow ==
    ASSUME NEW M \in Nat \ {0}, NEW F \in Nat \ {0}, NEW trip, NEW delay \in Int,
           NEW b \in 1 .. F, NEW e \in 1 .. F, FromTo(trip, M, F, b, e)
    PROVE  MovesTo(RtWindow(trip, delay, M, F), b, e, RoundDiv(delay, M), F)
<1>1. PICK d \in Int : d = RoundDiv(delay, M)
  BY RoundDivType
<1>2. ParseTime(trip.begin, M, F, FALSE) = b /\ ParseTime(trip.end, M, F, TRUE) = e
  BY DEF FromTo
<1>3. PICK x \in Int : x = IF 1 >= b + d THEN 1 ELSE b + d
  OBVIOUS
<1>4. Max({1, b + d}) = x
  BY <1>3, MaxOfTwo
<1>5. PICK start \in Int : start = IF F <= x THEN F ELSE x
  OBVIOUS
<1>6. Min({F, x}) = start
  BY <1>5, MinOfTwo
<1>7. PICK y \in Int : y = IF start + 1 >= e + d THEN start + 1 ELSE e + d
  OBVIOUS
<1>8. Max({start + 1, e + d}) = y
  BY <1>7, MaxOfTwo
<1>9. PICK end \in Int : end = IF F <= y THEN F ELSE y
  OBVIOUS
<1>10. Min({F, y}) = end
  BY <1>9, MinOfTwo
<1>11. RtWindow(trip, delay, M, F) = [start |-> start, end |-> end]
  BY <1>1, <1>2, <1>4, <1>6, <1>8, <1>10, Zenon DEF RtWindow
<1>12. start = IF b + d >= F THEN F ELSE IF b + d <= 1 THEN 1 ELSE b + d
  BY <1>3, <1>5
<1>13. end = IF start + 1 >= F \/ e + d >= F THEN F
            ELSE IF e + d <= start + 1 THEN start + 1 ELSE e + d
  BY <1>7, <1>9
<1> QED
  BY <1>1, <1>11, <1>12, <1>13 DEF MovesTo

LEMMA TripsAreTrips ==
    ASSUME NEW in, Registered(in), NEW i \in DOMAIN in.trips
    PROVE  /\ in.trips[i].begin \in Time /\ in.trips[i].end \in Time
           /\ in.trips[i].draw \in Nat
           /\ in.trips[i].begin.clock \/ in.trips[i].begin.n % 2 = 0
           /\ in.trips[i].end.clock \/ in.trips[i].end.n % 2 = 0
<1>1. PICK R : R = [begin : Time, end : Time, draw : Nat]
  OBVIOUS
<1>2. in.trips \in Seq(R)
  BY <1>1, Zenon DEF Registered
<1>3. in.trips[i] \in R
  BY <1>2
<1>4. \A r \in R : r.begin \in Time /\ r.end \in Time /\ r.draw \in Nat
  BY <1>1
<1>5. \A v \in {in.trips[i].begin, in.trips[i].end} : v.clock \/ v.n % 2 = 0
  BY DEF Registered
<1> QED
  BY <1>3, <1>4, <1>5

(* The steps of the day a trip is left with after a notice. *)
LEMMA WindowsOfTheRest ==
    ASSUME NEW in, Registered(in), NEW base, NEW n, Reportable(n, in),
           NEW i \in DOMAIN in.trips
    PROVE  LET ctx == Context(in, base, n)
               w == RtWindow(in.trips[i], DelayOf(n.delays, i), in.minutes,
                             Steps(in.minutes))
           IN  /\ DelayOf(n.delays, i) \in Int
               /\ w.start \in Int /\ w.end \in Int
               /\ w.end <= Steps(in.minutes)
               /\ i \in ctx.trips <=> w.end > n.from
               /\ i \in ctx.trips =>
                    /\ ctx.window[i].start \in Int /\ ctx.window[i].end \in Int
                    /\ ctx.window[i].start =
                            IF w.start - n.from + 1 <= 1 THEN 1 ELSE w.start - n.from + 1
                    /\ ctx.window[i].end = w.end - n.from + 1
<1>1. PICK M \in Nat \ {0} : M = in.minutes
  BY DEF Registered
<1>2. PICK F \in Nat \ {0} : F = Steps(in.minutes)
  BY <1>1, StepsOfADay
<1>3. PICK from \in 2 .. F : from = n.from
  BY <1>2 DEF Reportable
<1>4. PICK trip : trip = in.trips[i]
  OBVIOUS
<1>5. PICK b \in 1 .. F : ParseTime(trip.begin, M, F, FALSE) = b
  BY <1>4, TripsAreTrips, ParsedIsAStep
<1>6. PICK e \in 1 .. F : ParseTime(trip.end, M, F, TRUE) = e
  BY <1>4, TripsAreTrips, ParsedIsAStep
<1>7. PICK delay \in Int : delay = DelayOf(n.delays, i)
  BY DelayIsANumber DEF Reportable
<1>8. PICK w : w = RtWindow(trip, delay, M, F)
  OBVIOUS
<1>9. /\ w.start \in Int /\ w.end \in Int
      /\ w.end <= F
  <2>1. FromTo(trip, M, F, b, e)
    BY <1>5, <1>6 DEF FromTo
  <2>2. PICK d : MovesTo(w, b, e, d, F)
    BY <1>8, <2>1, MovedWindow
  <2> QED
    BY <2>2 DEF MovesTo
<1>10. PICK start \in Int, end \in Int : start = w.start /\ end = w.end
  BY <1>9
<1>11. PICK ctx : ctx = Context(in, base, n)
  OBVIOUS
<1>12. ctx.cur = from
  BY <1>3, <1>11, RestOfTheDay
<1>13. PICK all : all = [j \in DOMAIN in.trips |->
                            RtWindow(in.trips[j], DelayOf(n.delays, j), in.minutes, F)]
  OBVIOUS
<1>14. all[i] = w
  BY <1>1, <1>4, <1>7, <1>8, <1>13
<1>15. /\ ctx.trips = {j \in DOMAIN in.trips : all[j].end > from}
       /\ ctx.window = [j \in ctx.trips |-> Local(all[j], F, from)]
  <2>1. PICK cur : cur = Clamp(n.from, 1, Steps(in.minutes))
    OBVIOUS
  <2>2. cur = from
    BY <1>11, <1>12, <2>1 DEF Context
  <2>3. PICK left : left = {j \in DOMAIN in.trips : all[j].end > cur}
    OBVIOUS
  <2>4. ctx.trips = left
    BY <1>2, <1>11, <1>13, <2>1, <2>3 DEF Context
  <2>5. ctx.window = [j \in left |-> Local(all[j], F, cur)]
    BY <1>2, <1>11, <1>13, <2>1, <2>3 DEF Context
  <2> QED
    BY <2>2, <2>3, <2>4, <2>5
<1>16. i \in ctx.trips <=> end > from
  BY <1>10, <1>14, <1>15
<1>17. Local(w, F, from) =
            [start |-> IF start - from + 1 <= 1 THEN 1 ELSE start - from + 1,
             end |-> end - from + 1]
  <2>1. Max({1, start - from + 1}) = IF start - from + 1 <= 1 THEN 1 ELSE start - from + 1
    BY MaxOfTwo
  <2>2. Min({F - from + 1, end - from + 1}) = end - from + 1
    BY <1>9, <1>10, MinOfTwo
  <2> QED
    BY <1>10, <2>1, <2>2 DEF Local
<1>18. i \in ctx.trips =>
            /\ ctx.window[i].start = IF start - from + 1 <= 1 THEN 1 ELSE start - from + 1
            /\ ctx.window[i].end = end - from + 1
  BY <1>14, <1>15, <1>17
<1> QED
  BY <1>1, <1>2, <1>3, <1>4, <1>7, <1>8, <1>9, <1>10, <1>11, <1>16, <1>18
-----------------------------------------------------------------------------
(* The events of a result tell the coverage of its trips.                 *)

(* Interruptions and restorations happen between two steps of a trip. *)
Lost(A, covered) ==
    {s \in A : s - 1 \in A /\ covered[s - 1] = 1 /\ covered[s] = 0}
Won(A, covered) ==
    {s \in A : s - 1 \in A /\ covered[s - 1] = 0 /\ covered[s] = 1}

EventsOf(at, i, S) == \A s : <<i, s>> \in at <=> s \in S

(* Steps that follow one another from m on. *)
Begins(A, m) ==
    /\ \A s \in A : m <= s
    /\ \A s, u \in A : \A t \in s .. u : t \in A

Told01(A, covered) == \A s \in A : covered[s] \in {0, 1}

(* The events won and lost of trip i tell its coverage in the steps of A.  *)
Account(won, lost, i, T, A, m, covered) ==
    /\ \E X : won \in SUBSET (X \X (1 .. T)) /\ lost \in SUBSET (X \X (1 .. T))
    /\ A \in SUBSET (1 .. T) /\ m \in A
    /\ Begins(A, m)
    /\ Told01(A, covered)
    /\ EventsOf(won, i, Won(A, covered))
    /\ EventsOf(lost, i, Lost(A, covered))

Balanced(won, lost, i, cur, covered, m, t) ==
    Cardinality(Told(won, i, cur, t)) - Cardinality(Told(lost, i, cur, t))
        = covered[t] - covered[m]

LEMMA CoverageIsTold ==
    ASSUME NEW cur \in Int, NEW T \in Nat, NEW i, NEW won, NEW lost, NEW A, NEW m,
           NEW covered, Account(won, lost, i, T, A, m, covered), NEW t \in A
    PROVE  Balanced(EventsAt(won, cur), EventsAt(lost, cur), i, cur, covered, m, t)
<1>a. /\ A \in SUBSET (1 .. T) /\ m \in A
      /\ EventsOf(won, i, Won(A, covered))
      /\ EventsOf(lost, i, Lost(A, covered))
  BY DEF Account
<1> A \in SUBSET (1 .. T) /\ m \in A
  BY <1>a
<1>b. PICK X : won \in SUBSET (X \X (1 .. T)) /\ lost \in SUBSET (X \X (1 .. T))
  BY DEF Account
<1>0. /\ \A s \in A : m <= s
      /\ \A s, u \in A : \A v \in s .. u : v \in A
      /\ \A s \in A : covered[s] \in {0, 1}
  BY DEF Account, Begins, Told01
<1> DEFINE W(n) == Told(EventsAt(won, cur), i, cur, n)
           L(n) == Told(EventsAt(lost, cur), i, cur, n)
           Counted(n, a, b) ==
                /\ IsFiniteSet(W(n)) /\ IsFiniteSet(L(n))
                /\ Cardinality(W(n)) = a /\ Cardinality(L(n)) = b
                /\ n < m => a = 0 /\ b = 0
                /\ n \in A => a - b = covered[n] - covered[m]
           N == {n \in 0 .. T : \E a, b \in Nat : Counted(n, a, b)}
<1>1. 0 \in N
  <2>1. W(0) = {} /\ L(0) = {}
    <3>1. 0 \in 0 .. T - 1
      <4>1. m \in 1 .. T
        BY <1>a
      <4> QED
        BY <4>1
    <3> QED
      BY <1>b, <3>1, ToldGrows DEF Grows
  <2>2. IsFiniteSet({}) /\ Cardinality({}) = 0
    BY FS_EmptySet
  <2>3. 0 \notin A
    BY <1>a
  <2>4. Counted(0, 0, 0)
    BY <2>1, <2>2, <2>3
  <2> QED
    BY <2>4
<1>2. ASSUME NEW n \in N, n < T PROVE n + 1 \in N
  <2>1. PICK a \in Nat, b \in Nat : Counted(n, a, b)
    OBVIOUS
  <2>2. n \in 0 .. T - 1
    BY <1>2
  <2>3. /\ <<i, n + 1>> \in won <=> n + 1 \in Won(A, covered)
        /\ <<i, n + 1>> \in lost <=> n + 1 \in Lost(A, covered)
    BY <1>a DEF EventsOf
  <2>4. PICK x \in {0, 1} : x = IF n + 1 \in Won(A, covered) THEN 1 ELSE 0
    OBVIOUS
  <2>5. PICK y \in {0, 1} : y = IF n + 1 \in Lost(A, covered) THEN 1 ELSE 0
    OBVIOUS
  <2>6. IsFiniteSet(W(n + 1)) /\ Cardinality(W(n + 1)) = a + x
    <3>0. Grows(EventsAt(won, cur), won, i, cur, n)
      BY <1>b, <2>2, ToldGrows
    <3>1. PICK e : /\ e \notin W(n)
                   /\ W(n + 1) = W(n) \cup (IF <<i, n + 1>> \in won THEN {e} ELSE {})
      BY <3>0 DEF Grows
    <3>2. IsFiniteSet(W(n)) /\ Cardinality(W(n)) = a
      BY <2>1
    <3>3. CASE n + 1 \in Won(A, covered)
      <4>1. W(n + 1) = W(n) \cup {e} /\ x = 1
        BY <2>3, <2>4, <3>1, <3>3
      <4> HIDE DEF W
      <4>2. /\ IsFiniteSet(W(n) \cup {e})
            /\ Cardinality(W(n) \cup {e}) = Cardinality(W(n)) + 1
        BY <3>1, <3>2, FS_AddElement
      <4> QED
        BY <3>2, <4>1, <4>2
    <3>4. CASE n + 1 \notin Won(A, covered)
      <4>1. W(n + 1) = W(n) /\ x = 0
        BY <2>3, <2>4, <3>1, <3>4
      <4> HIDE DEF W
      <4> QED
        BY <3>2, <4>1
    <3> QED
      BY <3>3, <3>4
  <2>7. IsFiniteSet(L(n + 1)) /\ Cardinality(L(n + 1)) = b + y
    <3>0. Grows(EventsAt(lost, cur), lost, i, cur, n)
      BY <1>b, <2>2, ToldGrows
    <3>1. PICK e : /\ e \notin L(n)
                   /\ L(n + 1) = L(n) \cup (IF <<i, n + 1>> \in lost THEN {e} ELSE {})
      BY <3>0 DEF Grows
    <3>2. IsFiniteSet(L(n)) /\ Cardinality(L(n)) = b
      BY <2>1
    <3>3. CASE n + 1 \in Lost(A, covered)
      <4>1. L(n + 1) = L(n) \cup {e} /\ y = 1
        BY <2>3, <2>5, <3>1, <3>3
      <4> HIDE DEF L
      <4>2. /\ IsFiniteSet(L(n) \cup {e})
            /\ Cardinality(L(n) \cup {e}) = Cardinality(L(n)) + 1
        BY <3>1, <3>2, FS_AddElement
      <4> QED
        BY <3>2, <4>1, <4>2
    <3>4. CASE n + 1 \notin Lost(A, covered)
      <4>1. L(n + 1) = L(n) /\ y = 0
        BY <2>3, <2>5, <3>1, <3>4
      <4> HIDE DEF L
      <4> QED
        BY <3>2, <4>1
    <3> QED
      BY <3>3, <3>4
  <2>8. /\ n + 1 < m => a + x = 0 /\ b + y = 0
        /\ n + 1 \in A => (a + x) - (b + y) = covered[n + 1] - covered[m]
    <3>0. /\ n + 1 - 1 = n
          /\ n < m => a = 0 /\ b = 0
          /\ n \in A => a - b = covered[n] - covered[m]
          /\ \A s \in A : m <= s /\ s \in Int
          /\ \A s \in A : covered[s] \in {0, 1}
      BY <1>0, <1>a, <2>1
    <3>1. CASE n + 1 < m
      <4>1. n + 1 \notin A /\ n < m
        BY <3>0, <3>1
      <4>2. x = 0 /\ y = 0
        BY <2>4, <2>5, <4>1 DEF Won, Lost
      <4> QED
        BY <3>0, <4>1, <4>2
    <3>2. CASE n + 1 = m
      <4>1. n \notin A /\ n < m
        BY <3>0, <3>2
      <4>2. x = 0 /\ y = 0
        BY <2>4, <2>5, <3>0, <4>1 DEF Won, Lost
      <4>3. covered[m] - covered[m] = 0
        BY <3>0
      <4> QED
        BY <3>0, <3>2, <4>1, <4>2, <4>3
    <3>3. CASE n + 1 > m /\ n + 1 \in A
      <4>1. n \in A
        <5>1. n \in m .. n + 1
          BY <1>a, <3>3
        <5> QED
          BY <1>0, <1>a, <3>3, <5>1
      <4>2. /\ n + 1 \in Won(A, covered) <=> covered[n] = 0 /\ covered[n + 1] = 1
            /\ n + 1 \in Lost(A, covered) <=> covered[n] = 1 /\ covered[n + 1] = 0
        BY <3>0, <3>3, <4>1 DEF Won, Lost
      <4>3. covered[n] \in {0, 1} /\ covered[n + 1] \in {0, 1} /\ covered[m] \in {0, 1}
        BY <3>0, <3>3, <4>1
      <4>4. PICK p \in {0, 1}, q \in {0, 1}, r \in {0, 1} :
                p = covered[n] /\ q = covered[n + 1] /\ r = covered[m]
        BY <4>3
      <4>5. a - b = p - r
        BY <3>0, <4>1, <4>4
      <4>6. x - y = q - p
        BY <2>4, <2>5, <4>2, <4>4
      <4>7. (a + x) - (b + y) = q - r
        BY <4>5, <4>6
      <4> QED
        BY <3>3, <4>4, <4>7
    <3>4. CASE n + 1 > m /\ n + 1 \notin A
      BY <3>4
    <3> QED
      BY <3>1, <3>2, <3>3, <3>4
  <2>9. Counted(n + 1, a + x, b + y)
    <3> HIDE DEF W, L
    <3> QED
      BY <2>6, <2>7, <2>8
  <2> QED
    <3> HIDE DEF Counted
    <3> QED
      BY <1>2, <2>9
<1>3. N = 0 .. T
  <2> HIDE DEF N
  <2>1. N \in SUBSET (0 .. T)
    BY DEF N
  <2> QED
    BY <1>1, <1>2, <2>1, BoundedInduction
<1>4. t \in N
  <2>1. t \in 0 .. T
    BY <1>a
  <2> HIDE DEF N
  <2> QED
    BY <1>3, <2>1
<1> QED
  BY <1>4, <1>a DEF Balanced

(* What the parts of a candidate are. *)
LEMMA CandidateParts ==
    ASSUME NEW ctx, NEW plan, NEW limited, Replanned(ctx, plan, limited)
    PROVE  /\ candidate.first = ctx.cur
           /\ candidate.steps = ctx.T
           /\ candidate.plan = plan
           /\ candidate.interruptions = Interruptions(ctx, plan)
           /\ candidate.restorations = Restorations(ctx, plan)
           /\ candidate.comparison = Compare(baseline, ctx, plan)
           /\ candidate.passed <=>
                /\ UNION {Unserved(plan, s) : s \in 1 .. ctx.T} = {}
                /\ {s \in 1 .. ctx.T : Short(ctx, plan, s) # {}} = {}
                /\ ~limited
BY DEF Replanned, Result

LEMMA DriversOfAPlan ==
    ASSUME NEW ctx, NEW plan, ctx.T \in Nat, RtBuilt(ctx, plan, ctx.T)
    PROVE  /\ DOMAIN plan.driver = 1 .. ctx.T
           /\ \A s \in 1 .. ctx.T : DOMAIN plan.driver[s] = Active(ctx, s)
<1>1. DOMAIN plan.driver = 1 .. ctx.T
  BY DEF RtBuilt
<1>2. ASSUME NEW s \in 1 .. ctx.T PROVE DOMAIN plan.driver[s] = Active(ctx, s)
  <2>1. PICK move \in RtMoves(ctx, s) : RtTook(ctx, plan, move, s)
    BY DEF RtBuilt
  <2>2. plan.driver[s] = [i \in Active(ctx, s) |-> DriverOf(move, i)]
    BY <2>1 DEF RtTook
  <2> QED
    BY <2>2
<1> QED
  BY <1>1, <1>2

(* The events of a trip are those of the function that says when it is     *)
(* covered.                                                                *)
StepsOf(ctx, i) == {s \in 1 .. ctx.T : i \in Active(ctx, s)}
CoverOf(ctx, plan, i) ==
    [s \in 1 .. ctx.T |-> IF plan.driver[s][i] = None THEN 0 ELSE 1]

Tells(ctx, plan, i) ==
    /\ \E lost \in SUBSET (ctx.trips \X (1 .. ctx.T)) :
         /\ Interruptions(ctx, plan) = EventsAt(lost, ctx.cur)
         /\ EventsOf(lost, i, Lost(StepsOf(ctx, i), CoverOf(ctx, plan, i)))
    /\ \E won \in SUBSET (ctx.trips \X (1 .. ctx.T)) :
         /\ Restorations(ctx, plan) = EventsAt(won, ctx.cur)
         /\ EventsOf(won, i, Won(StepsOf(ctx, i), CoverOf(ctx, plan, i)))

LEMMA EventsOfAPlan ==
    ASSUME NEW ctx, NEW plan, ctx.T \in Nat, RtBuilt(ctx, plan, ctx.T), NEW i
    PROVE  Tells(ctx, plan, i)
<1>a. PICK A : A = StepsOf(ctx, i)
  OBVIOUS
<1>b. A = {s \in 1 .. ctx.T : i \in Active(ctx, s)}
  BY <1>a DEF StepsOf
<1>c. PICK covered : covered = CoverOf(ctx, plan, i)
  OBVIOUS
<1>d. \A s \in 1 .. ctx.T : covered[s] = IF plan.driver[s][i] = None THEN 0 ELSE 1
  BY <1>c DEF CoverOf
<1>1. PICK lost : lost = {q \in ctx.trips \X (1 .. ctx.T) :
            /\ q[1] \in Active(ctx, q[2])
            /\ WasCovered(plan, q[1], q[2]) /\ ~CoveredAt(plan, q[1], q[2])}
  OBVIOUS
<1>2. PICK won : won = {q \in ctx.trips \X (1 .. ctx.T) :
            /\ q[1] \in Active(ctx, q[2])
            /\ WasUncovered(plan, q[1], q[2]) /\ CoveredAt(plan, q[1], q[2])}
  OBVIOUS
<1>3. /\ Interruptions(ctx, plan) = EventsAt(lost, ctx.cur)
      /\ Restorations(ctx, plan) = EventsAt(won, ctx.cur)
  BY <1>1, <1>2, Zenon DEF Interruptions, Restorations, EventsAt
<1>4. \A s : i \in Active(ctx, s) => i \in ctx.trips
  BY DEF Active
<1>5. \A s \in 1 .. ctx.T : /\ CoveredAt(plan, i, s) <=> covered[s] = 1
                           /\ ~CoveredAt(plan, i, s) <=> covered[s] = 0
  BY <1>d DEF CoveredAt
<1>6. \A s \in 1 .. ctx.T : DOMAIN plan.driver[s] = Active(ctx, s)
  BY DriversOfAPlan
<1>7. ASSUME NEW s
      PROVE  /\ <<i, s>> \in lost <=> s \in Lost(A, covered)
             /\ <<i, s>> \in won <=> s \in Won(A, covered)
  <2>1. CASE s \notin A
    <3>1. <<i, s>> \notin lost /\ <<i, s>> \notin won
      BY <1>1, <1>2, <1>b, <2>1
    <3> QED
      BY <2>1, <3>1 DEF Lost, Won
  <2>2. CASE s \in A
    <3>1. /\ s \in 1 .. ctx.T /\ i \in Active(ctx, s) /\ i \in ctx.trips
          /\ <<i, s>> \in ctx.trips \X (1 .. ctx.T)
      BY <1>4, <1>b, <2>2
    <3>2. /\ <<i, s>> \in lost <=> WasCovered(plan, i, s) /\ ~CoveredAt(plan, i, s)
          /\ <<i, s>> \in won <=> WasUncovered(plan, i, s) /\ CoveredAt(plan, i, s)
      BY <1>1, <1>2, <3>1
    <3>3. CASE s = 1
      <4>1. s - 1 \notin A
        BY <1>b, <3>3
      <4>2. WasCovered(plan, i, s) <=> CoveredAt(plan, i, s)
        BY <3>3 DEF WasCovered
      <4>3. ~WasUncovered(plan, i, s)
        BY <3>3 DEF WasUncovered
      <4> QED
        BY <3>2, <4>1, <4>2, <4>3 DEF Lost, Won
    <3>4. CASE s # 1
      <4>1. s - 1 \in 1 .. ctx.T /\ s > 1
        BY <3>1, <3>4
      <4>2. s - 1 \in A <=> i \in DOMAIN plan.driver[s - 1]
        BY <1>6, <1>b, <4>1
      <4>3. /\ WasCovered(plan, i, s) <=> s - 1 \in A /\ covered[s - 1] = 1
            /\ WasUncovered(plan, i, s) <=> s - 1 \in A /\ covered[s - 1] = 0
        <5>1. /\ CoveredAt(plan, i, s - 1) <=> covered[s - 1] = 1
              /\ ~CoveredAt(plan, i, s - 1) <=> covered[s - 1] = 0
          BY <1>d, <4>1 DEF CoveredAt
        <5> QED
          BY <3>4, <4>1, <4>2, <5>1 DEF WasCovered, WasUncovered
      <4>4. /\ CoveredAt(plan, i, s) <=> covered[s] = 1
            /\ ~CoveredAt(plan, i, s) <=> covered[s] = 0
        BY <1>d, <3>1 DEF CoveredAt
      <4> QED
        BY <2>2, <3>2, <4>3, <4>4 DEF Lost, Won
    <3> QED
      BY <3>3, <3>4
  <2> QED
    BY <2>1, <2>2
<1>8. /\ lost \in SUBSET (ctx.trips \X (1 .. ctx.T))
      /\ won \in SUBSET (ctx.trips \X (1 .. ctx.T))
  BY <1>1, <1>2
<1>9. EventsOf(lost, i, Lost(A, covered)) /\ EventsOf(won, i, Won(A, covered))
  BY <1>7 DEF EventsOf
<1> QED
  BY <1>3, <1>8, <1>9, <1>a, <1>c DEF Tells

LEMMA PlannedTells == Planned => EventsTellTheCoverage
<1> SUFFICES ASSUME Planned, candidate # None, NEW i \in DOMAIN input.trips
             PROVE  LET driver == candidate.plan.driver
                        steps == {t \in DOMAIN driver : i \in DOMAIN driver[t]}
                        upTo(events, t) == Cardinality({e \in events :
                            e.trip = i /\ e.step < candidate.first + t})
                        balance(t) == upTo(candidate.restorations, t)
                                        - upTo(candidate.interruptions, t)
                        value(t) == IF driver[t][i] = None THEN 0 ELSE 1
                    IN  \A t \in steps : balance(t) = value(t) - value(Min(steps))
  BY DEF EventsTellTheCoverage
<1>1. PICK ctx, plan, limited : Replanned(ctx, plan, limited)
  BY CandidateIsBuilt
<1>2. /\ Registered(input) /\ Reportable(notice, input)
      /\ ctx = Context(input, baseline, notice)
      /\ RtBuilt(ctx, plan, ctx.T)
  BY <1>1, CandidateIsBuilt DEF Replanned
<1>3. PICK cur \in Int, T \in Nat : cur = ctx.cur /\ T = ctx.T
  BY <1>2, RestOfTheDay
<1>4. /\ candidate.plan = plan /\ candidate.first = cur
      /\ candidate.interruptions = Interruptions(ctx, plan)
      /\ candidate.restorations = Restorations(ctx, plan)
  BY <1>1, <1>3, CandidateParts
<1>a. PICK A : A = StepsOf(ctx, i)
  OBVIOUS
<1>5. A = {s \in 1 .. T : i \in Active(ctx, s)}
  BY <1>3, <1>a DEF StepsOf
<1>6. A = {t \in DOMAIN plan.driver : i \in DOMAIN plan.driver[t]}
  <2>1. RtBuilt(ctx, plan, ctx.T) /\ ctx.T \in Nat
    BY <1>2, <1>3
  <2>2. DOMAIN plan.driver = 1 .. ctx.T
    BY <2>1, DriversOfAPlan
  <2>3. \A s \in 1 .. ctx.T : DOMAIN plan.driver[s] = Active(ctx, s)
    BY <2>1, DriversOfAPlan
  <2>4. {t \in DOMAIN plan.driver : i \in DOMAIN plan.driver[t]}
            = {s \in 1 .. ctx.T : i \in Active(ctx, s)}
    BY <2>2, <2>3, Zenon
  <2> QED
    BY <1>3, <1>5, <2>4, Zenon
<1>b. PICK covered : covered = CoverOf(ctx, plan, i)
  OBVIOUS
<1>7. covered = [s \in 1 .. T |-> IF plan.driver[s][i] = None THEN 0 ELSE 1]
  BY <1>3, <1>b DEF CoverOf
<1>8. ASSUME NEW t \in A
      PROVE  Cardinality(Told(Restorations(ctx, plan), i, cur, t))
                - Cardinality(Told(Interruptions(ctx, plan), i, cur, t))
              = covered[t] - covered[Min(A)]
  <2>1. PICK m : m = Min(A)
    OBVIOUS
  <2>2. m \in A /\ \A s \in A : m <= s
    <3>1. A \subseteq Int /\ A # {} /\ A \in SUBSET (1 .. T)
      BY <1>5
    <3>2. IsFiniteSet(1 .. T)
      BY FS_Interval
    <3>3. IsFiniteSet(A)
      BY <3>1, <3>2, FS_Subset
    <3> QED
      BY <2>1, <3>1, <3>3, MinIsReached
  <2>3. i \in ctx.trips
    BY <1>5 DEF Active
  <2>4. ctx.window[i].start \in Int /\ ctx.window[i].end \in Int
    BY <1>2, <2>3, WindowsOfTheRest
  <2>5. ASSUME NEW s \in A, NEW u \in A, NEW v \in s .. u PROVE v \in A
    <3>1. /\ s \in Int /\ u \in Int /\ v \in Int /\ s <= v /\ v <= u
          /\ i \in Active(ctx, s) /\ i \in Active(ctx, u) /\ v \in 1 .. T
      BY <1>5
    <3>2. i \in Active(ctx, v)
      BY <2>3, <2>4, <3>1, ActiveIsContiguous
    <3> QED
      BY <1>5, <3>1, <3>2
  <2>c. Begins(A, m)
    BY <2>2, <2>5 DEF Begins
  <2>d. Tells(ctx, plan, i)
    BY <1>2, <1>3, EventsOfAPlan
  <2>6. PICK lost \in SUBSET (ctx.trips \X (1 .. T)) :
                /\ Interruptions(ctx, plan) = EventsAt(lost, cur)
                /\ EventsOf(lost, i, Lost(A, covered))
    BY <1>3, <1>a, <1>b, <2>d DEF Tells
  <2>7. PICK won \in SUBSET (ctx.trips \X (1 .. T)) :
                /\ Restorations(ctx, plan) = EventsAt(won, cur)
                /\ EventsOf(won, i, Won(A, covered))
    BY <1>3, <1>a, <1>b, <2>d DEF Tells
  <2>8. A \in SUBSET (1 .. T) /\ Told01(A, covered)
    BY <1>5, <1>7 DEF Told01
  <2>9. Account(won, lost, i, T, A, m, covered)
    BY <2>2, <2>6, <2>7, <2>8, <2>c DEF Account
  <2>10. Balanced(EventsAt(won, cur), EventsAt(lost, cur), i, cur, covered, m, t)
    BY <1>3, <2>9, CoverageIsTold
  <2> QED
    BY <2>1, <2>6, <2>7, <2>10 DEF Balanced
<1>9. ASSUME NEW t \in A
      PROVE  Min(A) \in A
  <2>1. A \subseteq Int /\ A # {} /\ A \in SUBSET (1 .. T)
    BY <1>5
  <2>2. IsFiniteSet(1 .. T)
    BY FS_Interval
  <2>3. IsFiniteSet(A)
    BY <2>1, <2>2, FS_Subset
  <2> QED
    BY <2>1, <2>3, MinIsReached
<1>10. ASSUME NEW t \in A
       PROVE  covered[t] = IF plan.driver[t][i] = None THEN 0 ELSE 1
  BY <1>5, <1>7
<1>11. ASSUME NEW t \in A
       PROVE  covered[Min(A)] = IF plan.driver[Min(A)][i] = None THEN 0 ELSE 1
  BY <1>9, <1>10
<1>12. ASSUME NEW t \in A
       PROVE  Cardinality({e \in candidate.restorations :
                            e.trip = i /\ e.step < candidate.first + t})
                - Cardinality({e \in candidate.interruptions :
                            e.trip = i /\ e.step < candidate.first + t})
              = (IF plan.driver[t][i] = None THEN 0 ELSE 1)
                - (IF plan.driver[Min(A)][i] = None THEN 0 ELSE 1)
  BY <1>4, <1>8, <1>10, <1>11, Zenon DEF Told
<1> QED
  BY <1>4, <1>6, <1>12, Zenon

(* The interruptions and restorations of every result alternate with the   *)
(* gaps of its trips (extract_time_series_results).                        *)
THEOREM EventsTell == Spec => []EventsTellTheCoverage
BY PlansAreFeasible, PlannedTells, PTL
-----------------------------------------------------------------------------
(* The window of a day-ahead trip has the steps the timetable pays for.   *)

LEMMA Divided ==
    ASSUME NEW n \in Int, NEW M \in Nat \ {0}
    PROVE  /\ n \div M \in Int /\ n % M \in Int
           /\ n = (n \div M) * M + (n % M)
           /\ 0 <= n % M /\ n % M < M
OBVIOUS

LEMMA Strides ==
    ASSUME NEW N \in Nat \ {0}, NEW i \in Int, NEW j \in Int, NEW c \in Int,
           c < N, i * N <= j * N + c
    PROVE  i <= j
<1> SUFFICES ASSUME i >= j + 1 PROVE FALSE
  OBVIOUS
<1>1. PICK k \in Nat : i = j + 1 + k
  <2>1. i - (j + 1) \in Nat /\ i = j + 1 + (i - (j + 1))
    OBVIOUS
  <2> QED
    BY <2>1
<1>2. i * N = j * N + N + k * N
  BY <1>1
<1>3. k * N >= 0
  OBVIOUS
<1>4. j * N \in Int /\ k * N \in Int
  OBVIOUS
<1> QED
  BY <1>2, <1>3, <1>4

(* RoundDiv rounds to the nearest. *)
LEMMA RoundIsNear ==
    ASSUME NEW a \in Int, NEW M \in Nat \ {0}
    PROVE  /\ RoundDiv(a, M) \in Int
           /\ 2 * (RoundDiv(a, M) * M) - M <= 2 * a
           /\ 2 * a <= 2 * (RoundDiv(a, M) * M) + M
           /\ a >= 0 => RoundDiv(a, M) >= 0
<1>1. PICK q \in Int, r \in Int : q = a \div M /\ r = a % M
  BY Divided
<1>2. a = q * M + r /\ 0 <= r /\ r < M
  BY <1>1, Divided
<1>3. PICK d \in Int : d = RoundDiv(a, M)
  BY RoundDivType
<1>4. (d = q /\ 2 * r <= M) \/ (d = q + 1 /\ 2 * r >= M)
  <2>1. d = IF 2 * r < M \/ (2 * r = M /\ q % 2 = 0) THEN q ELSE q + 1
    BY <1>1, <1>3 DEF RoundDiv
  <2> QED
    BY <2>1
<1>5. (q + 1) * M = q * M + M
  OBVIOUS
<1>6. PICK p \in Int : p = q * M
  OBVIOUS
<1>7. 2 * (d * M) - M <= 2 * a /\ 2 * a <= 2 * (d * M) + M
  <2>1. CASE d = q /\ 2 * r <= M
    <3>1. d * M = p
      BY <1>6, <2>1
    <3> QED
      BY <1>2, <1>6, <2>1, <3>1
  <2>2. CASE d = q + 1 /\ 2 * r >= M
    <3>1. d * M = p + M
      BY <1>5, <1>6, <2>2
    <3> QED
      BY <1>2, <1>6, <2>2, <3>1
  <2> QED
    BY <1>4, <2>1, <2>2
<1>8. a >= 0 => d >= 0
  <2> SUFFICES ASSUME a >= 0 PROVE q >= 0
    BY <1>4
  <2>1. 0 * M <= q * M + r
    BY <1>2
  <2> QED
    BY <1>2, <2>1, Strides
<1> QED
  BY <1>3, <1>7, <1>8

(* A clock time q steps and r minutes into the day. *)
ClockAt(v, M, F, q, r) ==
    /\ v.n = q * M + r
    /\ r < M
    /\ ParseTime(v, M, F, FALSE) = IF q + 1 > F THEN F ELSE q + 1
    /\ r = 0 => ParseTime(v, M, F, TRUE) = IF q + 1 > F THEN F ELSE q + 1
    /\ r # 0 => ParseTime(v, M, F, TRUE) = IF q + 2 > F THEN F ELSE q + 2

LEMMA ClockTimes ==
    ASSUME NEW M \in Nat \ {0}, NEW F \in Nat \ {0}, NEW v \in Time, v.clock
    PROVE  \E q, r \in Nat : ClockAt(v, M, F, q, r)
<1>1. PICK n \in Nat : n = v.n
  BY DEF Time
<1>2. PICK q \in Int, r \in Int : q = n \div M /\ r = n % M
  BY Divided
<1>3. n = q * M + r /\ 0 <= r /\ r < M
  BY <1>2, Divided
<1>4. q \in Nat /\ r \in Nat
  <2>1. 0 * M <= q * M + r
    BY <1>3
  <2>2. 0 <= q
    BY <1>3, <2>1, Strides
  <2> QED
    BY <1>3, <2>2
<1>5. \A k \in Nat : Clamp(k + 1, 1, F) = IF k + 1 > F THEN F ELSE k + 1
  <2>1. ASSUME NEW k \in Nat
        PROVE  Clamp(k + 1, 1, F) = IF k + 1 > F THEN F ELSE k + 1
    <3>1. Clamp(k + 1, 1, F) = IF F < 1 \/ k + 1 < 1 THEN 1
                               ELSE IF k + 1 > F THEN F ELSE k + 1
      BY Clamped
    <3> QED
      BY <3>1
  <2> QED
    BY <2>1
<1>6. RawStep(v, M, F, FALSE) = q + 1
  <2>1. ClockStep(n, M, FALSE) = q + 1
    BY <1>2 DEF ClockStep
  <2> QED
    BY <1>1, <2>1 DEF RawStep
<1>7. /\ r = 0 => RawStep(v, M, F, TRUE) = q + 1
      /\ r # 0 => RawStep(v, M, F, TRUE) = q + 1 + 1
  <2>1. /\ r = 0 => ClockStep(n, M, TRUE) = q + 1
        /\ r # 0 => ClockStep(n, M, TRUE) = q + 1 + 1
    BY <1>2 DEF ClockStep
  <2> QED
    BY <1>1, <2>1 DEF RawStep
<1>8. ParseTime(v, M, F, FALSE) = IF q + 1 > F THEN F ELSE q + 1
  BY <1>4, <1>5, <1>6 DEF ParseTime
<1>9. r = 0 => ParseTime(v, M, F, TRUE) = IF q + 1 > F THEN F ELSE q + 1
  BY <1>4, <1>5, <1>7 DEF ParseTime
<1>10. r # 0 => ParseTime(v, M, F, TRUE) = IF q + 2 > F THEN F ELSE q + 2
  <2>1. q + 1 \in Nat /\ q + 1 + 1 = q + 2
    BY <1>4
  <2>2. Clamp(q + 1 + 1, 1, F) = IF q + 1 + 1 > F THEN F ELSE q + 1 + 1
    BY <1>5, <2>1
  <2> QED
    BY <1>7, <2>1, <2>2 DEF ParseTime
<1> QED
  BY <1>1, <1>3, <1>4, <1>8, <1>9, <1>10 DEF ClockAt

(* A whole number of steps within the day is that step. *)
NumberAt(v, M, F, x) ==
    /\ v.n = 2 * x
    /\ x <= F => /\ ParseTime(v, M, F, FALSE) = IF x = 0 THEN 1 ELSE x
                 /\ ParseTime(v, M, F, TRUE) = IF x = 0 THEN 1 ELSE x

LEMMA NumberTimes ==
    ASSUME NEW M \in Nat \ {0}, NEW F \in Nat \ {0}, NEW v \in Time,
           ~v.clock, v.n % 2 = 0
    PROVE  \E x \in Nat : NumberAt(v, M, F, x)
<1>1. PICK n \in Nat : n = v.n
  BY DEF Time
<1>2. PICK x \in Nat : n = 2 * x /\ n \div 2 = x /\ n % 2 = 0
  <2>1. n % 2 = 0
    BY <1>1
  <2>2. n \div 2 \in Nat /\ n = 2 * (n \div 2)
    BY <2>1
  <2> QED
    BY <2>1, <2>2
<1>3. ASSUME x <= F, NEW isEnd \in BOOLEAN
      PROVE  ParseTime(v, M, F, isEnd) = IF x = 0 THEN 1 ELSE x
  <2>1. n <= 2 * F
    BY <1>2, <1>3
  <2>2. RawStep(v, M, F, isEnd) = x
    BY <1>1, <1>2, <2>1 DEF RawStep
  <2>3. Clamp(x, 1, F) = IF F < 1 \/ x < 1 THEN 1 ELSE IF x > F THEN F ELSE x
    BY Clamped
  <2>4. Clamp(x, 1, F) = IF x = 0 THEN 1 ELSE x
    BY <1>3, <2>3
  <2> QED
    BY <2>2, <2>4 DEF ParseTime
<1>4. x <= F => /\ ParseTime(v, M, F, FALSE) = IF x = 0 THEN 1 ELSE x
                /\ ParseTime(v, M, F, TRUE) = IF x = 0 THEN 1 ELSE x
  BY <1>3
<1> QED
  BY <1>1, <1>2, <1>4 DEF NumberAt

Timely(v) == v \in Time /\ (v.clock \/ v.n % 2 = 0)

(* An accepted trip parses as b to e and takes e - b steps. *)
Fits(trip, M, F, b, e) ==
    /\ FromTo(trip, M, F, b, e)
    /\ trip.begin.clock = trip.end.clock
    /\ b <= e
    /\ trip.begin.clock => trip.end.n = trip.begin.n + (e - b) * M
    /\ ~trip.begin.clock => trip.end.n = trip.begin.n + 2 * (e - b)
    /\ DurationSteps(trip.begin, trip.end, M) = e - b

LEMMA AcceptedFits ==
    ASSUME NEW M \in Nat \ {0}, NEW F \in Nat \ {0}, NEW trip,
           Timely(trip.begin), Timely(trip.end), Accepted(trip, M, F)
    PROVE  \E b, e \in 1 .. F : Fits(trip, M, F, b, e)
<1>1. trip.begin \in Time /\ trip.end \in Time
  BY DEF Timely
<1>2. PICK b \in 1 .. F : ParseTime(trip.begin, M, F, FALSE) = b
  BY <1>1, ParsedIsAStep
<1>3. PICK e \in 1 .. F : ParseTime(trip.end, M, F, TRUE) = e
  BY <1>1, ParsedIsAStep
<1>4. PICK m \in Nat, n \in Nat : m = trip.begin.n /\ n = trip.end.n
  BY <1>1 DEF Time
<1>5. PICK unit \in Nat \ {0} : unit = IF trip.begin.clock THEN M ELSE 2
  OBVIOUS
<1>6. PICK d : d = DurationSteps(trip.begin, trip.end, M)
  OBVIOUS
<1>7. d = e - b /\ d # NoDuration
  BY <1>2, <1>3, <1>6, Zenon DEF Accepted
<1>8. d = IF trip.begin.clock = trip.end.clock /\ n - m >= 0 /\ (n - m) % unit = 0
          THEN (n - m) \div unit ELSE NoDuration
  BY <1>4, <1>5, <1>6 DEF DurationSteps
<1>9. /\ trip.begin.clock = trip.end.clock
      /\ n - m >= 0 /\ (n - m) % unit = 0 /\ d = (n - m) \div unit
  BY <1>7, <1>8
<1>10. n - m = d * unit + 0 /\ d \in Int
  <2>1. PICK k \in Int : k = n - m
    OBVIOUS
  <2>2. k = (k \div unit) * unit + (k % unit)
    BY Divided
  <2> QED
    BY <1>7, <1>9, <2>1, <2>2
<1>11. 0 <= d
  <2>1. 0 * unit <= d * unit + 0
    BY <1>9, <1>10
  <2> QED
    BY <1>10, <2>1, Strides
<1>12. n = m + (e - b) * unit
  BY <1>7, <1>10
<1>13. /\ trip.begin.clock => n = m + (e - b) * M
       /\ ~trip.begin.clock => n = m + 2 * (e - b)
  <2>1. trip.begin.clock => unit = M
    BY <1>5
  <2>2. ~trip.begin.clock => unit = 2
    BY <1>5
  <2>3. (e - b) * 2 = 2 * (e - b)
    OBVIOUS
  <2> QED
    BY <1>12, <2>1, <2>2, <2>3
<1>14. FromTo(trip, M, F, b, e)
  BY <1>2, <1>3 DEF FromTo
<1>15. b <= e
  BY <1>7, <1>11
<1>16. DurationSteps(trip.begin, trip.end, M) = e - b
  BY <1>6, <1>7
<1>17. /\ trip.begin.clock => trip.end.n = trip.begin.n + (e - b) * M
       /\ ~trip.begin.clock => trip.end.n = trip.begin.n + 2 * (e - b)
  BY <1>4, <1>13
<1>18. Fits(trip, M, F, b, e)
  BY <1>9, <1>14, <1>15, <1>16, <1>17 DEF Fits
<1> QED
  BY <1>18

(* In steps: a trip that lasts through step s when it is moved by d steps  *)
(* has it in its window.                                                   *)
LEMMA ClockWindow ==
    ASSUME NEW M \in Nat \ {0}, NEW F \in Nat \ {0}, NEW trip,
           Timely(trip.begin), Timely(trip.end), Accepted(trip, M, F),
           trip.begin.clock, NEW delay \in Nat, NEW s \in 1 .. F,
           During(trip, s, delay, M)
    PROVE  \E b, e \in 1 .. F, d \in Nat :
              /\ Fits(trip, M, F, b, e) /\ d = RoundDiv(delay, M)
              /\ b + d <= s
              /\ e = F \/ s + 1 <= e + d
              /\ delay = 0 => e # F \/ s < F
<1>1. PICK b \in 1 .. F, e \in 1 .. F : Fits(trip, M, F, b, e)
  BY AcceptedFits
<1>2. /\ ParseTime(trip.begin, M, F, FALSE) = b
      /\ ParseTime(trip.end, M, F, TRUE) = e
      /\ trip.end.clock = trip.begin.clock
      /\ trip.end.n = trip.begin.n + (e - b) * M
      /\ b <= e
  BY <1>1 DEF Fits, FromTo
<1>3. trip.begin \in Time /\ trip.end \in Time /\ trip.end.clock
  BY <1>2 DEF Timely
<1>4. PICK q \in Nat, r \in Nat : ClockAt(trip.begin, M, F, q, r)
  BY <1>3, ClockTimes
<1>5. PICK q2 \in Nat, r2 \in Nat : ClockAt(trip.end, M, F, q2, r2)
  BY <1>3, ClockTimes
<1>6. PICK m \in Int, n \in Int : m = trip.begin.n /\ n = trip.end.n
  BY <1>3 DEF Time
<1>7. /\ m = q * M + r /\ r < M
      /\ b = IF q + 1 > F THEN F ELSE q + 1
  BY <1>2, <1>4, <1>6 DEF ClockAt
<1>8. /\ n = q2 * M + r2 /\ r2 < M
      /\ r2 = 0 => e = IF q2 + 1 > F THEN F ELSE q2 + 1
      /\ r2 # 0 => e = IF q2 + 2 > F THEN F ELSE q2 + 2
  BY <1>2, <1>5, <1>6 DEF ClockAt
<1>9. PICK d \in Nat : /\ d = RoundDiv(delay, M)
                        /\ 2 * (d * M) - M <= 2 * delay
                        /\ 2 * delay <= 2 * (d * M) + M
  <2>1. PICK x \in Int : x = RoundDiv(delay, M)
    BY RoundIsNear
  <2>2. 2 * (x * M) - M <= 2 * delay /\ 2 * delay <= 2 * (x * M) + M /\ x >= 0
    BY <2>1, RoundIsNear
  <2> QED
    BY <2>1, <2>2
<1>10. m + delay <= (s - 1) * M /\ s * M <= n + delay
  BY <1>6 DEF During
<1>11. PICK N \in Nat \ {0} : N = 2 * M
  <2>1. 2 * M \in Nat \ {0}
    OBVIOUS
  <2> QED
    BY <2>1
<1>12. b + d <= s
  <2>1. (q + d) * N = 2 * (q * M) + 2 * (d * M)
    BY <1>11
  <2>2. (s - 1) * N = 2 * ((s - 1) * M)
    BY <1>11
  <2>3. q * M \in Int /\ d * M \in Int /\ (s - 1) * M \in Int
    OBVIOUS
  <2>4. (q + d) * N <= (s - 1) * N + M
    BY <1>7, <1>9, <1>10, <2>1, <2>2, <2>3
  <2>5. M < N /\ q + d \in Int /\ s - 1 \in Int /\ M \in Int
    BY <1>11
  <2>6. q + d <= s - 1
    BY <2>4, <2>5, Strides
  <2> QED
    BY <1>7, <2>6
<1>13. e = F \/ s + 1 <= e + d
  <2>1. (q2 + d) * N = 2 * (q2 * M) + 2 * (d * M)
    BY <1>11
  <2>2. s * N = 2 * (s * M)
    BY <1>11
  <2>3. q2 * M \in Int /\ d * M \in Int /\ s * M \in Int
    OBVIOUS
  <2>4. s * N <= (q2 + d) * N + (2 * r2 + M)
    BY <1>8, <1>9, <1>10, <2>1, <2>2, <2>3
  <2>5. CASE r2 = 0
    <3>1. s * N <= (q2 + d) * N + M
      BY <2>4, <2>5
    <3>2. M < N /\ q2 + d \in Int /\ M \in Int
      BY <1>11
    <3>3. s <= q2 + d
      BY <3>1, <3>2, Strides
    <3> QED
      BY <1>8, <2>5, <3>3
  <2>6. CASE r2 # 0
    <3>1. (q2 + d + 1) * N = (q2 + d) * N + N
      OBVIOUS
    <3>2. (q2 + d) * N \in Int /\ (q2 + d + 1) * N \in Int /\ s * N \in Int
      OBVIOUS
    <3>3. s * N <= (q2 + d + 1) * N + M
      BY <1>8, <1>11, <2>4, <3>1, <3>2
    <3>4. M < N /\ q2 + d + 1 \in Int /\ M \in Int
      BY <1>11
    <3>5. s <= q2 + d + 1
      BY <3>3, <3>4, Strides
    <3> QED
      BY <1>8, <2>6, <3>5
  <2> QED
    BY <2>5, <2>6
<1>14. ASSUME delay = 0, e = F, s = F PROVE FALSE
  <2>1. m <= (F - 1) * M /\ F * M <= n
    BY <1>10, <1>14
  <2>2. n = m + (F - b) * M
    BY <1>2, <1>6, <1>14
  <2>3. CASE q + 1 > F
    <3>1. F * M <= q * M
      <4>1. q * M = F * M + (q - F) * M /\ (q - F) * M >= 0
        BY <2>3
      <4>2. q * M \in Int /\ F * M \in Int /\ (q - F) * M \in Int
        OBVIOUS
      <4> QED
        BY <4>1, <4>2
    <3>2. (F - 1) * M = F * M - M /\ F * M \in Int /\ q * M \in Int
      OBVIOUS
    <3> QED
      BY <1>7, <2>1, <3>1, <3>2
  <2>4. CASE q + 1 <= F
    <3>1. (F - b) * M = F * M - q * M - M
      BY <1>7, <2>4
    <3>2. F * M \in Int /\ q * M \in Int
      OBVIOUS
    <3> QED
      BY <1>7, <2>1, <2>2, <3>1, <3>2
  <2> QED
    BY <2>3, <2>4
<1>15. delay = 0 => e # F \/ s < F
  BY <1>14
<1> QED
  BY <1>1, <1>9, <1>12, <1>13, <1>15

LEMMA NumberWindow ==
    ASSUME NEW M \in Nat \ {0}, NEW F \in Nat \ {0}, NEW trip,
           Timely(trip.begin), Timely(trip.end), Accepted(trip, M, F),
           ~trip.begin.clock, NEW delay \in Nat, NEW s \in 1 .. F,
           During(trip, s, delay, M)
    PROVE  \E b, e \in 1 .. F, d \in Nat :
              /\ Fits(trip, M, F, b, e) /\ d = RoundDiv(delay, M)
              /\ b + d <= s
              /\ s + 1 <= e + d
<1>1. PICK b \in 1 .. F, e \in 1 .. F : Fits(trip, M, F, b, e)
  BY AcceptedFits
<1>2. /\ ParseTime(trip.begin, M, F, FALSE) = b
      /\ ParseTime(trip.end, M, F, TRUE) = e
      /\ trip.end.clock = trip.begin.clock
      /\ trip.end.n = trip.begin.n + 2 * (e - b)
      /\ b <= e
  BY <1>1 DEF Fits, FromTo
<1>3. /\ trip.begin \in Time /\ trip.end \in Time /\ ~trip.end.clock
      /\ trip.begin.n % 2 = 0 /\ trip.end.n % 2 = 0
  BY <1>2 DEF Timely
<1>4. PICK x \in Nat : NumberAt(trip.begin, M, F, x)
  BY <1>3, NumberTimes
<1>5. PICK y \in Nat : NumberAt(trip.end, M, F, y)
  BY <1>3, NumberTimes
<1>6. /\ trip.begin.n = 2 * x /\ trip.end.n = 2 * y
      /\ x <= F => b = IF x = 0 THEN 1 ELSE x
      /\ y <= F => e = IF y = 0 THEN 1 ELSE y
  BY <1>2, <1>4, <1>5 DEF NumberAt
<1>7. y - x = e - b
  BY <1>2, <1>6
<1>8. PICK d \in Nat : /\ d = RoundDiv(delay, M)
                        /\ 2 * (d * M) - M <= 2 * delay
                        /\ 2 * delay <= 2 * (d * M) + M
  <2>1. PICK z \in Int : z = RoundDiv(delay, M)
    BY RoundIsNear
  <2>2. 2 * (z * M) - M <= 2 * delay /\ 2 * delay <= 2 * (z * M) + M /\ z >= 0
    BY <2>1, RoundIsNear
  <2> QED
    BY <2>1, <2>2
<1>9. /\ 2 * (x * M) + 2 * delay <= 2 * (s * M)
      /\ 2 * ((s + 1) * M) <= 2 * (y * M) + 2 * delay
  <2>1. /\ (2 * x) * M + 2 * delay <= 2 * s * M
        /\ 2 * (s + 1) * M <= (2 * y) * M + 2 * delay
    BY <1>6 DEF During
  <2>2. /\ (2 * x) * M = 2 * (x * M) /\ 2 * s * M = 2 * (s * M)
        /\ 2 * (s + 1) * M = 2 * ((s + 1) * M) /\ (2 * y) * M = 2 * (y * M)
    OBVIOUS
  <2> QED
    BY <2>1, <2>2
<1>10. PICK N \in Nat \ {0} : N = 2 * M
  <2>1. 2 * M \in Nat \ {0}
    OBVIOUS
  <2> QED
    BY <2>1
<1>11. /\ (x + d) * N = 2 * (x * M) + 2 * (d * M)
       /\ (y + d) * N = 2 * (y * M) + 2 * (d * M)
       /\ s * N = 2 * (s * M) /\ (s + 1) * N = 2 * ((s + 1) * M)
       /\ x * M \in Int /\ y * M \in Int /\ d * M \in Int
       /\ s * M \in Int /\ (s + 1) * M \in Int
  BY <1>10
<1>12. x + d <= s
  <2>1. (x + d) * N <= s * N + M
    BY <1>8, <1>9, <1>11
  <2>2. M < N /\ x + d \in Int /\ s \in Int /\ M \in Int
    BY <1>10
  <2> QED
    BY <2>1, <2>2, Strides
<1>13. s + 1 <= y + d
  <2>1. (s + 1) * N <= (y + d) * N + M
    BY <1>8, <1>9, <1>11
  <2>2. M < N /\ y + d \in Int /\ s + 1 \in Int /\ M \in Int
    BY <1>10
  <2> QED
    BY <2>1, <2>2, Strides
<1>14. b = IF x = 0 THEN 1 ELSE x
  BY <1>6, <1>12
<1>15. y <= F
  <2> SUFFICES ASSUME y > F PROVE FALSE
    OBVIOUS
  <2>1. e - b <= F - x
    BY <1>14
  <2> QED
    BY <1>7, <2>1
<1>16. b + d <= s /\ s + 1 <= e + d
  BY <1>6, <1>7, <1>12, <1>13, <1>14, <1>15
<1> QED
  BY <1>1, <1>8, <1>16

(* A step that lies within an accepted trip is in its windows, the step    *)
(* the day ends with aside when the trip is moved.                         *)
LEMMA WindowsHold ==
    ASSUME NEW M \in Nat \ {0}, NEW F \in Nat \ {0}, NEW trip,
           Timely(trip.begin), Timely(trip.end), Accepted(trip, M, F),
           NEW delay \in Nat, NEW s \in 1 .. F, During(trip, s, delay, M)
    PROVE  /\ s < F => Driven(RtWindow(trip, delay, M, F), s)
           /\ delay = 0 => Driven(DayWindow(trip, M, F), s)
<1>1. RoundDiv(0, M) = 0
  <2>1. 0 \div M = 0 /\ 0 % M = 0
    OBVIOUS
  <2> QED
    BY <2>1 DEF RoundDiv
<1>2. PICK b \in 1 .. F, e \in 1 .. F, d \in Nat :
              /\ Fits(trip, M, F, b, e) /\ d = RoundDiv(delay, M)
              /\ b + d <= s
              /\ e = F \/ s + 1 <= e + d
              /\ delay = 0 => e # F \/ s < F
  <2>1. CASE trip.begin.clock
    BY <2>1, ClockWindow
  <2>2. CASE ~trip.begin.clock
    <3>1. PICK b \in 1 .. F, e \in 1 .. F, d \in Nat :
              /\ Fits(trip, M, F, b, e) /\ d = RoundDiv(delay, M)
              /\ b + d <= s
              /\ s + 1 <= e + d
      BY <2>2, NumberWindow
    <3>2. delay = 0 => e # F \/ s < F
      BY <1>1, <3>1
    <3> QED
      BY <3>1, <3>2
  <2> QED
    BY <2>1, <2>2
<1>3. FromTo(trip, M, F, b, e)
  BY <1>2 DEF Fits
<1>4. ASSUME s < F PROVE Driven(RtWindow(trip, delay, M, F), s)
  <2>1. PICK w : w = RtWindow(trip, delay, M, F)
    OBVIOUS
  <2>2. MovesTo(w, b, e, d, F)
    BY <1>2, <1>3, <2>1, MovedWindow
  <2>3. PICK x \in Int, y \in Int : x = w.start /\ y = w.end
    BY <2>2 DEF MovesTo
  <2>4. /\ x = IF b + d >= F THEN F ELSE IF b + d <= 1 THEN 1 ELSE b + d
        /\ y = IF x + 1 >= F \/ e + d >= F THEN F
               ELSE IF e + d <= x + 1 THEN x + 1 ELSE e + d
    BY <2>2, <2>3 DEF MovesTo
  <2>5. x <= s /\ s <= y - 1
    BY <1>2, <1>4, <2>4
  <2> QED
    BY <2>1, <2>3, <2>5 DEF Driven
<1>5. ASSUME delay = 0 PROVE Driven(DayWindow(trip, M, F), s)
  <2>1. b <= s /\ s + 1 <= e
    BY <1>1, <1>2, <1>5
  <2>2. DayWindow(trip, M, F) = [start |-> b, end |-> e]
    <3>1. PICK b1 \in Int, e1 \in Int : b1 = b /\ e1 = e
      OBVIOUS
    <3>2. 1 <= b1 /\ b1 + 1 <= e1 /\ e1 <= F
      BY <2>1, <3>1
    <3>3. FromTo(trip, M, F, b1, e1)
      BY <1>3, <3>1
    <3>4. DayWindow(trip, M, F) = [start |-> b1, end |-> e1]
      BY <3>2, <3>3, WindowsOfSteps
    <3> QED
      BY <3>1, <3>4
  <2> QED
    BY <2>1, <2>2 DEF Driven
<1> QED
  BY <1>4, <1>5

LEMMA TripsAreTimely ==
    ASSUME NEW in, Registered(in), NEW i \in DOMAIN in.trips
    PROVE  Timely(in.trips[i].begin) /\ Timely(in.trips[i].end)
BY TripsAreTrips DEF Timely

LEMMA AcceptedInputs ==
    ASSUME NEW in, Registered(in), DayInput(in).valid, NEW i \in DOMAIN in.trips
    PROVE  /\ Accepted(in.trips[i], in.minutes, Steps(in.minutes))
           /\ DayInput(in).window[i] = DayWindow(in.trips[i], in.minutes, Steps(in.minutes))
<1>1. DayInput(in).T = DaySteps(in.minutes, Len(in.spot))
  BY DEF DayInput
<1>2. DaySteps(in.minutes, Len(in.spot)) = Steps(in.minutes)
  BY <1>1, DayInputIsWell
<1> QED
  BY <1>2 DEF DayInput

LEMMA PlannedIsDriven == Planned => TimetableIsDriven
<1> SUFFICES ASSUME Planned, baseline # None, NEW i \in DOMAIN input.trips,
                    NEW s \in Days \ {1},
                    During(input.trips[i], s, 0, input.minutes)
             PROVE  baseline.energy[s][i] = baseline.energy[s - 1][i] - input.trips[i].draw
  BY DEF TimetableIsDriven
<1>1. /\ Registered(input) /\ DayInput(input).valid
      /\ DayBuilt(DayInput(input), baseline, Steps(input.minutes))
  BY BaselineIsBuilt
<1>2. PICK M \in Nat \ {0}, F \in Nat \ {0} :
            M = input.minutes /\ F = Steps(input.minutes)
  BY <1>1, StepsOfADay DEF Registered
<1>3. s \in 1 .. F /\ s # 1
  BY <1>2 DEF Days
<1>4. PICK day : day = DayInput(input)
  OBVIOUS
<1>5. PICK move \in DayMoves(day, s) : DayTook(day, baseline, move, s)
  BY <1>1, <1>2, <1>3, <1>4 DEF DayBuilt
<1>6. /\ day.capacity = input.capacity
      /\ DOMAIN day.window = DOMAIN input.trips
      /\ day.draw[i] = input.trips[i].draw
  BY <1>1, <1>4, DayInputIsWell
<1>7. i \in DOMAIN day.capacity
  <2>1. /\ Len(input.trips) <= Len(input.capacity)
        /\ input.capacity \in Seq(Nat)
    BY <1>1 DEF Registered
  <2>2. PICK R : input.trips \in Seq(R)
    BY <1>1, Zenon DEF Registered
  <2> QED
    BY <1>6, <2>1, <2>2
<1>8. Driven(day.window[i], s)
  <2>1. /\ Accepted(input.trips[i], M, F)
        /\ day.window[i] = DayWindow(input.trips[i], M, F)
    BY <1>1, <1>2, <1>4, AcceptedInputs
  <2>2. Timely(input.trips[i].begin) /\ Timely(input.trips[i].end)
    BY <1>1, TripsAreTimely
  <2> QED
    BY <1>2, <1>3, <2>1, <2>2, WindowsHold
<1>9. move[i] = Drive(i)
  <2>1. PICK ops : ops = [k \in DOMAIN day.capacity |-> DayOps(day, k, s)]
    OBVIOUS
  <2>2. move[i] \in DayOps(day, i, s)
    BY <1>5, <1>7, <2>1, MovesAreOps DEF DayMoves
  <2>3. \E j \in {i} \cap DOMAIN day.window : Driven(day.window[j], s)
    BY <1>6, <1>8
  <2>4. DayOps(day, i, s) = {Drive(i)}
    BY <2>3 DEF DayOps
  <2> QED
    BY <2>2, <2>4
<1>10. Change(move[i], day.rate, day.draw) = -day.draw[i]
  <2>1. move[i].kind = "drive" /\ move[i].on = i
    BY <1>9, KindsOfOps
  <2> QED
    BY <2>1 DEF Change
<1>11. baseline.energy[s][i] = baseline.energy[s - 1][i] + (-day.draw[i])
  BY <1>3, <1>5, <1>7, <1>10 DEF DayTook
<1>12. baseline.energy[s - 1][i] \in Int /\ day.draw[i] \in Int
  <2>1. baseline.energy \in Seq([DOMAIN day.capacity -> Int]) /\ Len(baseline.energy) = F
    BY <1>1, <1>2, <1>4 DEF DayBuilt
  <2>2. s - 1 \in 1 .. F
    BY <1>3
  <2>3. baseline.energy[s - 1] \in [DOMAIN day.capacity -> Int]
    BY <2>1, <2>2, ElementOfSeq
  <2>4. day.draw[i] \in Int
    BY <1>1, <1>6, TripsAreTrips
  <2> QED
    BY <1>7, <2>3, <2>4
<1> QED
  BY <1>6, <1>11, <1>12

(* Every approved plan pays for its timetable, whatever the times are      *)
(* written in (parse_time_to_step, get_duration_steps, extract_scalars).   *)
THEOREM TimetablePaid == Spec => []TimetableIsDriven
BY PlansAreFeasible, PlannedIsDriven, PTL
-----------------------------------------------------------------------------
(* A result that passed validation drives every trip in its minutes.      *)

LEMMA SumIsNatural ==
    ASSUME NEW f, NEW S, IsFiniteSet(S), \A x \in S : f[x] \in Nat
    PROVE  SumOver(f, S) \in Nat
<1> DEFINE C == {T \in SUBSET S : SumOver(f, T) \in Nat}
<1>1. ASSUME NEW T \in SUBSET S, \A x \in T : T \ {x} \in C PROVE T \in C
  <2>1. CASE T = {}
    BY <2>1, SumOfNone
  <2>2. CASE T # {}
    <3>1. IsFiniteSet(T)
      BY FS_Subset
    <3>2. Some(T) \in T /\ SumOver(f, T) = f[Some(T)] + SumOver(f, T \ {Some(T)})
      BY <2>2, <3>1, SumTakesOne
    <3> QED
      BY <1>1, <3>2
  <2> QED
    BY <2>1, <2>2
<1>2. S \in C
  <2> HIDE DEF C
  <2> QED
    BY <1>1, SetDescent
<1> QED
  BY <1>2

LEMMA DelayIsNatural ==
    ASSUME NEW delays, IsFiniteSet(delays), delays \subseteq [bus : Nat, minutes : Nat],
           NEW bus
    PROVE  DelayOf(delays, bus) \in Nat
<1>1. PICK late : late = {d \in delays : d.bus = bus}
  OBVIOUS
<1>2. PICK f : f = [d \in late |-> d.minutes]
  OBVIOUS
<1>3. \A d \in late : f[d] \in Nat
  BY <1>1, <1>2
<1>4. late \in SUBSET delays
  BY <1>1
<1>5. IsFiniteSet(late)
  BY <1>4, FS_Subset
<1>6. SumOver(f, late) \in Nat
  BY <1>3, <1>5, SumIsNatural
<1> QED
  BY <1>1, <1>2, <1>6 DEF DelayOf

(* What validation leaves of a step. *)
Served(ctx, plan, t, i) ==
    /\ i \in DOMAIN plan.driver[t]
    /\ plan.driver[t][i] \in DOMAIN ctx.capacity
    /\ \A k \in DOMAIN ctx.capacity : 5 * plan.energy[t][k] >= ctx.capacity[k]

LEMMA PassedStepIsServed ==
    ASSUME NEW ctx, NEW plan, ctx.T \in Nat, RtBuilt(ctx, plan, ctx.T),
           NEW t \in 1 .. ctx.T, Unserved(plan, t) = {}, Short(ctx, plan, t) = {},
           \A k \in DOMAIN ctx.capacity : ctx.capacity[k] \in Nat /\ ctx.capacity[k] % 5 = 0,
           NEW i \in Active(ctx, t)
    PROVE  Served(ctx, plan, t, i)
<1>1. i \in DOMAIN plan.driver[t]
  BY DriversOfAPlan
<1>2. plan.driver[t] \in Drivers(ctx)
  BY DEF RtBuilt
<1>3. plan.driver[t][i] \in DOMAIN ctx.capacity \cup {None}
  BY <1>1, <1>2 DEF Drivers
<1>4. plan.driver[t][i] # None
  BY <1>1 DEF Unserved
<1>5. ASSUME NEW k \in DOMAIN ctx.capacity
      PROVE  5 * plan.energy[t][k] >= ctx.capacity[k]
  <2>1. PICK c \in Nat : c = ctx.capacity[k] /\ c % 5 = 0
    OBVIOUS
  <2>2. plan.energy[t] \in [DOMAIN ctx.capacity -> Int]
    <3>1. plan.energy \in Seq([DOMAIN ctx.capacity -> Int])
      BY DEF RtBuilt
    <3>2. t \in 1 .. Len(plan.energy)
      BY DEF RtBuilt
    <3> QED
      BY <3>1, <3>2, ElementOfSeq
  <2>3. PICK e \in Int : e = plan.energy[t][k]
    BY <2>2
  <2>4. ~(Shortfall(e, c) > 0)
    BY <2>1, <2>3 DEF Short
  <2>5. PICK r \in Nat : r = Reserve(c) /\ c = 5 * r
    <3>1. c \div 5 \in Nat /\ c = 5 * (c \div 5)
      BY <2>1
    <3> QED
      BY <3>1 DEF Reserve
  <2>6. Shortfall(e, c) = IF 0 >= r - e THEN 0 ELSE r - e
    <3>1. r - e \in Int
      OBVIOUS
    <3>2. Max({0, r - e}) = IF 0 >= r - e THEN 0 ELSE r - e
      BY <3>1, MaxOfTwo
    <3> QED
      BY <2>5, <3>2 DEF Shortfall
  <2>7. r <= e
    BY <2>4, <2>6
  <2> QED
    BY <2>1, <2>3, <2>5, <2>7
<1> QED
  BY <1>1, <1>3, <1>4, <1>5 DEF Served

(* A step of the timetable left to a replan is a step of the replan's trip. *)
LEMMA DuringIsActive ==
    ASSUME NEW in, Registered(in), DayInput(in).valid, NEW base, NEW n,
           Reportable(n, in), NEW i \in DOMAIN in.trips,
           NEW s \in n.from .. Steps(in.minutes) - 1,
           During(in.trips[i], s, DelayOf(n.delays, i), in.minutes)
    PROVE  /\ s - n.from + 1 \in 1 .. Context(in, base, n).T
           /\ i \in Active(Context(in, base, n), s - n.from + 1)
<1>1. PICK M \in Nat \ {0}, F \in Nat \ {0} : M = in.minutes /\ F = Steps(in.minutes)
  BY StepsOfADay DEF Registered
<1>2. PICK from \in 2 .. F : from = n.from
  BY <1>1, RestOfTheDay
<1>3. s \in 1 .. F /\ s < F /\ from <= s
  BY <1>1, <1>2
<1>4. PICK delay \in Nat : delay = DelayOf(n.delays, i)
  BY DelayIsNatural DEF Reportable
<1>5. PICK w : w = RtWindow(in.trips[i], delay, M, F)
  OBVIOUS
<1>6. Driven(w, s)
  <2>1. Accepted(in.trips[i], M, F)
    BY <1>1, AcceptedInputs
  <2>2. PICK trip : trip = in.trips[i]
    OBVIOUS
  <2>3. Timely(trip.begin) /\ Timely(trip.end)
    BY <2>2, TripsAreTimely
  <2>4. Accepted(trip, M, F) /\ w = RtWindow(trip, delay, M, F)
    BY <1>5, <2>1, <2>2
  <2>5. During(trip, s, delay, M)
    BY <1>1, <1>4, <2>2
  <2> QED
    BY <1>3, <2>3, <2>4, <2>5, WindowsHold
<1>7. PICK ctx : ctx = Context(in, base, n)
  OBVIOUS
<1>8. /\ w.start \in Int /\ w.end \in Int
      /\ i \in ctx.trips <=> w.end > from
      /\ i \in ctx.trips =>
            /\ ctx.window[i].start \in Int /\ ctx.window[i].end \in Int
            /\ ctx.window[i].start =
                    IF w.start - from + 1 <= 1 THEN 1 ELSE w.start - from + 1
            /\ ctx.window[i].end = w.end - from + 1
  <2>1. w = RtWindow(in.trips[i], DelayOf(n.delays, i), in.minutes, Steps(in.minutes))
    BY <1>1, <1>4, <1>5
  <2> QED
    BY <1>2, <1>7, <2>1, WindowsOfTheRest
<1>9. PICK x \in Int, y \in Int : x = w.start /\ y = w.end
  BY <1>8
<1>10. x <= s /\ s <= y - 1
  BY <1>3, <1>6, <1>9 DEF Driven
<1>11. i \in ctx.trips
  BY <1>3, <1>8, <1>9, <1>10
<1>12. /\ ctx.window[i].start = IF x - from + 1 <= 1 THEN 1 ELSE x - from + 1
       /\ ctx.window[i].end = y - from + 1
  BY <1>8, <1>9, <1>11
<1>13. s - from + 1 \in ctx.window[i].start .. ctx.window[i].end - 1
  BY <1>3, <1>10, <1>12
<1>14. i \in Active(ctx, s - from + 1)
  BY <1>11, <1>13 DEF Active, Driven
<1>15. ctx.T = F - from + 1
  BY <1>1, <1>2, <1>7, RestOfTheDay
<1> QED
  BY <1>2, <1>3, <1>7, <1>14, <1>15

LEMMA PlannedPasses == Planned => PassedMeansEveryTripDriven
<1> SUFFICES ASSUME Planned, candidate # None, candidate.passed,
                    NEW i \in DOMAIN input.trips,
                    NEW s \in notice.from .. Steps(input.minutes) - 1,
                    During(input.trips[i], s, DelayOf(notice.delays, i), input.minutes)
             PROVE  LET t == s - candidate.first + 1
                    IN  /\ i \in DOMAIN candidate.plan.driver[t]
                        /\ candidate.plan.driver[t][i] \in DOMAIN input.capacity
                        /\ \A k \in DOMAIN input.capacity :
                            5 * candidate.plan.energy[t][k] >= input.capacity[k]
  BY DEF PassedMeansEveryTripDriven
<1>1. PICK ctx, plan, limited : Replanned(ctx, plan, limited)
  BY CandidateIsBuilt
<1>2. /\ Registered(input) /\ Reportable(notice, input) /\ DayInput(input).valid
      /\ ctx = Context(input, baseline, notice)
      /\ RtBuilt(ctx, plan, ctx.T)
  BY <1>1, CandidateIsBuilt, BaselineIsBuilt DEF Replanned
<1>3. ctx.T \in Nat /\ ctx.cur = notice.from /\ ctx.capacity = input.capacity
  <2>1. RtWell(ctx) /\ ctx.capacity = input.capacity
    BY <1>2, CandidateIsBuilt, ContextIsWell
  <2> QED
    BY <1>2, <2>1, RestOfTheDay DEF RtWell
<1>4. /\ candidate.plan = plan /\ candidate.first = ctx.cur
      /\ UNION {Unserved(plan, u) : u \in 1 .. ctx.T} = {}
      /\ {u \in 1 .. ctx.T : Short(ctx, plan, u) # {}} = {}
  BY <1>1, CandidateParts
<1>5. PICK t : t = s - notice.from + 1
  OBVIOUS
<1>6. t \in 1 .. ctx.T /\ i \in Active(ctx, t)
  BY <1>2, <1>5, DuringIsActive
<1>7. Unserved(plan, t) = {} /\ Short(ctx, plan, t) = {}
  BY <1>4, <1>6
<1>8. \A k \in DOMAIN ctx.capacity : ctx.capacity[k] \in Nat /\ ctx.capacity[k] % 5 = 0
  <2>1. /\ input.capacity \in Seq(Nat)
        /\ \A k \in DOMAIN input.capacity : input.capacity[k] % 5 = 0
    BY <1>2 DEF Registered
  <2>2. \A k \in DOMAIN input.capacity : input.capacity[k] \in Nat
    BY <2>1
  <2> QED
    BY <1>3, <2>1, <2>2
<1>9. Served(ctx, plan, t, i)
  BY <1>2, <1>3, <1>6, <1>7, <1>8, PassedStepIsServed
<1> QED
  BY <1>3, <1>4, <1>5, <1>9 DEF Served

(* A replan that passed its validation has a bus on every trip, and no bus *)
(* below its reserve, in every step the moved timetable says it is driven  *)
(* (optimize_real_time's validation).                                      *)
THEOREM PassedIsDriven == Spec => []PassedMeansEveryTripDriven
BY PlansAreFeasible, PlannedPasses, PTL
-----------------------------------------------------------------------------
(* Period ends, scaled to the day.                                        *)

(* A function of the number before it. *)
Climbs(f, n, next) ==
    f = [i \in 0 .. n |-> IF i = 0 THEN 0 ELSE next[i][f[i - 1]]]

(* The last step of a period that ends in step y, after one that ends in x. *)
After(T, x, y) == Min({T, Max({x + 1, y})})

LEMMA AfterIsInteger ==
    ASSUME NEW T \in Int, NEW x \in Int, NEW y \in Int
    PROVE  After(T, x, y) \in Int
<1>1. PICK m \in Int : m = IF x + 1 >= y THEN x + 1 ELSE y
  OBVIOUS
<1>2. Max({x + 1, y}) = m
  BY <1>1, MaxOfTwo
<1>3. Min({T, m}) = IF T <= m THEN T ELSE m
  BY MinOfTwo
<1> QED
  BY <1>2, <1>3 DEF After

LEMMA ThreeSteps ==
    ASSUME NEW next \in [1 .. 3 -> [Int -> Int]]
    PROVE  \E f \in [0 .. 3 -> Int] : Climbs(f, 3, next)
<1>1. PICK a \in Int : a = next[1][0]
  OBVIOUS
<1>2. PICK b \in Int : b = next[2][a]
  OBVIOUS
<1>3. PICK c \in Int : c = next[3][b]
  OBVIOUS
<1>4. PICK f : f = [i \in 0 .. 3 |-> IF i = 0 THEN 0 ELSE IF i = 1 THEN a
                                     ELSE IF i = 2 THEN b ELSE c]
  OBVIOUS
<1>5. f[0] = 0 /\ f[1] = a /\ f[2] = b /\ f[3] = c /\ f \in [0 .. 3 -> Int]
  BY <1>4
<1>6. ASSUME NEW i \in 0 .. 3
      PROVE  f[i] = IF i = 0 THEN 0 ELSE next[i][f[i - 1]]
  <2>1. i = 0 \/ i = 1 \/ i = 2 \/ i = 3
    OBVIOUS
  <2>2. 1 - 1 = 0 /\ 2 - 1 = 1 /\ 3 - 1 = 2
    OBVIOUS
  <2> QED
    BY <1>1, <1>2, <1>3, <1>5, <2>1, <2>2
<1>7. Climbs(f, 3, next)
  BY <1>4, <1>6 DEF Climbs
<1> QED
  BY <1>5, <1>7

(* The last steps of three periods are numbers, and the third is the       *)
(* horizon.                                                                *)
LEMMA ScaledEnds ==
    ASSUME NEW ends \in Seq(Int), Len(ends) = 3, ends[3] \in Nat \ {0}, NEW T \in Nat \ {0}
    PROVE  /\ \A i \in 1 .. 3 : ScaleBoundaries(ends, T)[i] \in Int
           /\ ScaleBoundaries(ends, T)[3] = T
<1> DEFINE sc == [i \in 1 .. Len(ends) |->
                    IF ends[Len(ends)] = T THEN ends[i]
                    ELSE Clamp(RoundDiv(ends[i] * T, ends[Len(ends)]), 1, T)]
           up == CHOOSE r : r = [i \in 0 .. Len(ends) |->
                    IF i = 0 THEN 0 ELSE After(T, r[i - 1], sc[i])]
<1>0. ScaleBoundaries(ends, T) = [i \in 1 .. Len(ends) |-> IF i = Len(ends) THEN T ELSE up[i]]
  BY Zenon DEF ScaleBoundaries, After
<1>1. PICK scaled : scaled = sc
  OBVIOUS
<1>2. ASSUME NEW i \in 1 .. 3 PROVE scaled[i] \in Int
  <2>1. PICK a \in Int : a = ends[i]
    <3>1. ends[i] \in Int
      BY ElementOfSeq
    <3> QED
      BY <3>1
  <2>2. PICK d \in Int : d = RoundDiv(a * T, ends[3])
    <3>1. a * T \in Int
      OBVIOUS
    <3> QED
      BY <3>1, RoundDivType
  <2>3. Clamp(d, 1, T) \in Int
    <3>1. Clamp(d, 1, T) = IF T < 1 \/ d < 1 THEN 1 ELSE IF d > T THEN T ELSE d
      BY Clamped
    <3> QED
      BY <3>1
  <2>4. scaled[i] = IF ends[3] = T THEN ends[i] ELSE Clamp(RoundDiv(ends[i] * T, ends[3]), 1, T)
    BY <1>1
  <2> QED
    BY <2>1, <2>2, <2>3, <2>4
<1>3. PICK next : next = [i \in 1 .. 3 |-> [x \in Int |-> After(T, x, scaled[i])]]
  OBVIOUS
<1>4. ASSUME NEW x \in Int, NEW i \in 1 .. 3
      PROVE  /\ next[i][x] = After(T, x, scaled[i])
             /\ next[i][x] \in Int
  <2>1. next[i][x] = After(T, x, scaled[i])
    BY <1>3
  <2>2. PICK y \in Int, z \in Int : y = scaled[i] /\ z = T
    BY <1>2
  <2>3. After(z, x, y) \in Int
    BY AfterIsInteger
  <2> QED
    BY <2>1, <2>2, <2>3
<1>5. next \in [1 .. 3 -> [Int -> Int]]
  <2>1. ASSUME NEW i \in 1 .. 3 PROVE next[i] \in [Int -> Int]
    <3>1. next[i] = [x \in Int |-> After(T, x, scaled[i])]
      BY <1>3
    <3>2. \A x \in Int : After(T, x, scaled[i]) \in Int
      BY <1>4
    <3> QED
      BY <3>1, <3>2
  <2> QED
    BY <1>3, <2>1
<1>6. PICK f \in [0 .. 3 -> Int] : Climbs(f, 3, next)
  BY <1>5, ThreeSteps
<1>7. PICK rising : rising = CHOOSE r : r = [i \in 0 .. Len(ends) |->
            IF i = 0 THEN 0 ELSE After(T, r[i - 1], scaled[i])]
  OBVIOUS
<1>a. rising = up
  <2> HIDE DEF sc
  <2> QED
    BY <1>1, <1>7, Zenon DEF up
<1> HIDE DEF sc, up
<1>8. f = [i \in 0 .. 3 |-> IF i = 0 THEN 0 ELSE After(T, f[i - 1], scaled[i])]
  <2>1. ASSUME NEW i \in 0 .. 3
        PROVE  f[i] = IF i = 0 THEN 0 ELSE After(T, f[i - 1], scaled[i])
    <3>1. f[i] = IF i = 0 THEN 0 ELSE next[i][f[i - 1]]
      BY <1>6 DEF Climbs
    <3>2. CASE i = 0
      BY <3>1, <3>2
    <3>3. CASE i # 0
      <4>1. i - 1 \in 0 .. 3 /\ i \in 1 .. 3
        BY <3>3
      <4>2. f[i - 1] \in Int
        BY <4>1
      <4> QED
        BY <1>4, <3>1, <3>3, <4>1, <4>2
    <3> QED
      BY <3>2, <3>3
  <2> QED
    BY <2>1
<1>9. rising = [i \in 0 .. 3 |->
            IF i = 0 THEN 0 ELSE After(T, rising[i - 1], scaled[i])]
  <2>1. \E r : r = [i \in 0 .. 3 |->
            IF i = 0 THEN 0 ELSE After(T, r[i - 1], scaled[i])]
    BY <1>8
  <2>2. rising = CHOOSE r : r = [i \in 0 .. 3 |->
            IF i = 0 THEN 0 ELSE After(T, r[i - 1], scaled[i])]
    BY <1>7, Zenon
  <2> QED
    BY <2>1, <2>2, Zenon
<1>10. \A x \in Int, i \in 1 .. 3 : After(T, x, scaled[i]) \in Int
  BY <1>4
<1>11. rising[0] \in Int
  <2>1. rising[0] = 0
    BY <1>9
  <2> QED
    BY <2>1
<1>12. ASSUME NEW i \in 1 .. 3, rising[i - 1] \in Int PROVE rising[i] \in Int
  <2>1. i \in 0 .. 3 /\ i # 0
    OBVIOUS
  <2>2. rising[i] = After(T, rising[i - 1], scaled[i])
    BY <1>9, <2>1
  <2> QED
    BY <1>10, <1>12, <2>2
<1>13. rising[1] \in Int /\ rising[2] \in Int
  <2>1. 1 - 1 = 0 /\ 2 - 1 = 1 /\ 1 \in 1 .. 3 /\ 2 \in 1 .. 3
    OBVIOUS
  <2> QED
    BY <1>11, <1>12, <2>1
<1>14. ScaleBoundaries(ends, T) = [i \in 1 .. Len(ends) |-> IF i = Len(ends) THEN T ELSE rising[i]]
  BY <1>0, <1>a, Zenon
<1>15. \A i \in 1 .. 3 : i = 1 \/ i = 2 \/ i = 3
  OBVIOUS
<1>16. PICK b : b = ScaleBoundaries(ends, T)
  OBVIOUS
<1>17. b = [i \in 1 .. 3 |-> IF i = 3 THEN T ELSE rising[i]]
  BY <1>14, <1>16
<1>18. b[1] = rising[1] /\ b[2] = rising[2] /\ b[3] = T
  BY <1>17
<1> QED
  BY <1>13, <1>15, <1>16, <1>18
-----------------------------------------------------------------------------
(* Prices and multipliers are whole numbers in every step.                *)

LEMMA SmallSets ==
    ASSUME NEW n \in Int, NEW S \in SUBSET (1 .. n), S # {}
    PROVE  /\ IsFiniteSet(S) /\ Max(S) \in S /\ Min(S) \in S
           /\ \A x \in S : x <= Max(S) /\ Min(S) <= x
<1>1. IsFiniteSet(1 .. n)
  BY FS_Interval
<1>2. IsFiniteSet(S) /\ S \subseteq Int
  <2>1. IsFiniteSet(S)
    BY <1>1, FS_Subset
  <2> QED
    BY <2>1
<1>3. Max(S) \in S /\ \A x \in S : x <= Max(S)
  BY <1>2, MaxIsReached
<1>4. Min(S) \in S /\ \A x \in S : Min(S) <= x
  BY <1>2, MinIsReached
<1> QED
  BY <1>2, <1>3, <1>4

LEMMA ThreeNumbers ==
    ASSUME NEW three \in Seq(Int), Len(three) = 3
    PROVE  \A i \in 1 .. 3 : three[i] \in Int
<1>1. \A i \in 1 .. Len(three) : three[i] \in Int
  BY ElementOfSeq
<1> QED
  BY <1>1

(* Three multipliers over the day are numbers in every step. *)
LEMMA ScheduleIsWhole ==
    ASSUME NEW three \in Seq(Int), Len(three) = 3, NEW ends \in Seq(Int), Len(ends) = 3,
           ends[3] \in Nat \ {0}, NEW T \in Nat \ {0}, NEW s \in 1 .. T
    PROVE  Schedule(three, ends, T)[s] \in Int
<1>0. Len(three) = Len(ends)
  OBVIOUS
<1>1. CASE T = 3
  <2>1. Schedule(three, ends, T) = three
    BY <1>1 DEF Schedule
  <2> QED
    BY <1>1, <2>1
<1>2. CASE T # 3
  <2> DEFINE sc == ScaleBoundaries(ends, T)
             up == CHOOSE r : r = [i \in 0 .. Len(three) |->
                    IF i = 0 THEN 0 ELSE Max({r[i - 1] + 1, Min({T, sc[i]})})]
  <2>0. Schedule(three, ends, T) =
            [t \in 1 .. T |-> three[Min({i \in 1 .. Len(three) : t <= up[i]})]]
    BY <1>0, <1>2, Zenon DEF Schedule
  <2>1. PICK scaled : scaled = sc
    OBVIOUS
  <2>2. \A i \in 1 .. 3 : scaled[i] \in Int
    BY <2>1, ScaledEnds
  <2>3. scaled[3] = T
    BY <2>1, ScaledEnds
  <2>4. PICK next : next = [i \in 1 .. 3 |-> [x \in Int |-> Max({x + 1, Min({T, scaled[i]})})]]
    OBVIOUS
  <2>5. ASSUME NEW x \in Int, NEW i \in 1 .. 3
        PROVE  /\ next[i][x] = Max({x + 1, Min({T, scaled[i]})})
               /\ next[i][x] \in Int
               /\ Min({T, scaled[i]}) <= next[i][x]
               /\ Min({T, scaled[i]}) \in Int
    <3>1. next[i][x] = Max({x + 1, Min({T, scaled[i]})})
      BY <2>4
    <3>2. PICK y \in Int, z \in Int : y = scaled[i] /\ z = T
      BY <2>2
    <3>3. PICK m \in Int : m = IF z <= y THEN z ELSE y
      OBVIOUS
    <3>4. Min({z, y}) = m
      BY <3>3, MinOfTwo
    <3>5. Max({x + 1, m}) = IF x + 1 >= m THEN x + 1 ELSE m
      <4>1. PICK u \in Int : u = x + 1
        OBVIOUS
      <4>2. Max({u, m}) = IF u >= m THEN u ELSE m
        BY MaxOfTwo
      <4> QED
        BY <4>1, <4>2, Zenon
    <3>6. Min({T, scaled[i]}) = m
      BY <3>2, <3>4
    <3>7. next[i][x] = Max({x + 1, m})
      BY <3>1, <3>6
    <3>8. next[i][x] \in Int /\ m <= next[i][x]
      <4>1. PICK v \in Int : v = (IF x + 1 >= m THEN x + 1 ELSE m) /\ m <= v
        OBVIOUS
      <4>2. next[i][x] = v
        BY <3>5, <3>7, <4>1
      <4> QED
        BY <4>1, <4>2, Zenon
    <3> QED
      BY <3>1, <3>6, <3>8
  <2>6. next \in [1 .. 3 -> [Int -> Int]]
    <3>1. ASSUME NEW i \in 1 .. 3 PROVE next[i] \in [Int -> Int]
      <4>1. next[i] = [x \in Int |-> next[i][x]]
        BY <2>4
      <4>2. \A x \in Int : next[i][x] \in Int
        BY <2>5
      <4> QED
        BY <4>1, <4>2
    <3> QED
      BY <2>4, <3>1
  <2>7. PICK f \in [0 .. 3 -> Int] : Climbs(f, 3, next)
    BY <2>6, ThreeSteps
  <2>8. PICK g : g = [i \in 0 .. 3 |->
                    IF i = 0 THEN 0 ELSE Max({f[i - 1] + 1, Min({T, scaled[i]})})]
    OBVIOUS
  <2>9. f = g
    <3>1. ASSUME NEW i \in 0 .. 3 PROVE f[i] = g[i]
      <4>1. f[i] = IF i = 0 THEN 0 ELSE next[i][f[i - 1]]
        BY <2>7 DEF Climbs
      <4>2. g[i] = IF i = 0 THEN 0 ELSE Max({f[i - 1] + 1, Min({T, scaled[i]})})
        BY <2>8
      <4>3. CASE i = 0
        BY <4>1, <4>2, <4>3
      <4>4. CASE i # 0
        <5>1. i - 1 \in 0 .. 3 /\ i \in 1 .. 3
          BY <4>4
        <5>2. PICK x \in Int : x = f[i - 1]
          BY <5>1
        <5>3. next[i][x] = Max({x + 1, Min({T, scaled[i]})})
          BY <2>5, <5>1
        <5> QED
          BY <4>1, <4>2, <4>4, <5>2, <5>3
      <4> QED
        BY <4>3, <4>4
    <3>2. DOMAIN f = 0 .. 3 /\ DOMAIN g = 0 .. 3
      BY <2>8
    <3>3. f = [i \in 0 .. 3 |-> f[i]] /\ g = [i \in 0 .. 3 |-> g[i]]
      BY <2>8
    <3> QED
      BY <3>1, <3>3
  <2>10. PICK last : last = up
    OBVIOUS
  <2>11. last = [i \in 0 .. 3 |->
                    IF i = 0 THEN 0 ELSE Max({last[i - 1] + 1, Min({T, scaled[i]})})]
    <3>1. \E r : r = [i \in 0 .. 3 |->
                    IF i = 0 THEN 0 ELSE Max({r[i - 1] + 1, Min({T, scaled[i]})})]
      BY <2>8, <2>9, Zenon
    <3>2. last = CHOOSE r : r = [i \in 0 .. 3 |->
                    IF i = 0 THEN 0 ELSE Max({r[i - 1] + 1, Min({T, scaled[i]})})]
      <4> HIDE DEF sc
      <4>1. last = CHOOSE r : r = [i \in 0 .. Len(three) |->
                    IF i = 0 THEN 0 ELSE Max({r[i - 1] + 1, Min({T, sc[i]})})]
        BY <2>10, Zenon
      <4> QED
        BY <4>1, <2>1, Zenon
    <3> QED
      BY <3>1, <3>2, Zenon
  <2> HIDE DEF sc, up
  <2>12. last[0] = 0
    BY <2>11
  <2>13. ASSUME NEW i \in 1 .. 3, last[i - 1] \in Int
         PROVE  last[i] \in Int /\ Min({T, scaled[i]}) <= last[i]
    <3>1. i \in 0 .. 3 /\ i # 0
      OBVIOUS
    <3>2. last[i] = Max({last[i - 1] + 1, Min({T, scaled[i]})})
      BY <2>11, <3>1
    <3>3. PICK x \in Int : x = last[i - 1]
      BY <2>13
    <3>4. last[i] = next[i][x]
      BY <2>5, <3>2, <3>3
    <3> QED
      BY <2>5, <3>4
  <2>14. last[1] \in Int /\ last[2] \in Int
    <3>1. 1 - 1 = 0 /\ 2 - 1 = 1 /\ 1 \in 1 .. 3 /\ 2 \in 1 .. 3
      OBVIOUS
    <3> QED
      BY <2>12, <2>13, <3>1
  <2>15. T <= last[3]
    <3>1. 3 - 1 = 2 /\ 3 \in 1 .. 3
      OBVIOUS
    <3>2. Min({T, scaled[3]}) <= last[3]
      BY <2>13, <2>14, <3>1
    <3>3. Min({T, T}) = T
      BY MinOfTwo
    <3> QED
      BY <2>3, <3>2, <3>3
  <2>16. PICK period : period = {i \in 1 .. 3 : s <= last[i]}
    OBVIOUS
  <2>17. Schedule(three, ends, T)[s] = three[Min(period)]
    <3> DEFINE at(t) == three[Min({i \in 1 .. Len(three) : t <= up[i]})]
    <3>1. Schedule(three, ends, T) = [t \in 1 .. T |-> at(t)]
      BY <2>0
    <3>2. at(s) = three[Min(period)]
      <4>1. {i \in 1 .. Len(three) : s <= up[i]} = period
        BY <2>10, <2>16
      <4> QED
        BY <4>1, Zenon
    <3> HIDE DEF at
    <3> QED
      BY <3>1, <3>2
  <2>18. 3 \in period
    <3>1. last[3] \in Int
      <4>1. 3 - 1 = 2 /\ 3 \in 1 .. 3
        OBVIOUS
      <4> QED
        BY <2>13, <2>14, <4>1
    <3> QED
      BY <2>15, <2>16, <3>1
  <2>19. period \in SUBSET (1 .. 3) /\ period # {}
    BY <2>16, <2>18
  <2>20. PICK j \in 1 .. 3 : j = Min(period)
    <3>1. 3 \in Int
      OBVIOUS
    <3>2. Min(period) \in period
      BY <2>19, <3>1, SmallSets
    <3> QED
      BY <2>19, <3>2
  <2>21. three[j] \in Int
    BY ThreeNumbers
  <2> QED
    BY <2>17, <2>20, <2>21, Zenon
<1> QED
  BY <1>1, <1>2

(* Rows for the whole day, or for the rest of it, give every step of the   *)
(* day one of their values.                                                *)
LEMMA AlignedIsWhole ==
    ASSUME NEW rows, NEW T \in Nat \ {0}, NEW cur \in 1 .. T,
           rows \in Seq([step : Int, value : Int]),
           Len(rows) = T \/ Len(rows) = T - cur + 1,
           NEW s \in 1 .. T
    PROVE  Align(rows, T, cur)[s] \in Int
<1>1. PICK L \in Nat \ {0} : L = Len(rows)
  <2>1. Len(rows) \in Nat \ {0}
    OBVIOUS
  <2> QED
    BY <2>1
<1>2. \A i \in 1 .. L : rows[i].step \in Int /\ rows[i].value \in Int
  <2>1. PICK R : R = [step : Int, value : Int]
    OBVIOUS
  <2>2. rows \in Seq(R)
    BY <2>1, Zenon
  <2>3. \A i \in 1 .. L : rows[i] \in R
    BY <1>1, <2>2
  <2>4. \A r \in R : r.step \in Int /\ r.value \in Int
    BY <2>1
  <2> QED
    BY <2>3, <2>4
<1>3. PICK placed : placed = {i \in 1 .. Len(rows) : rows[i].step \in 1 .. T}
  OBVIOUS
<1>4. PICK values : values = [i \in 1 .. Len(rows) |-> rows[i].value]
  OBVIOUS
<1>5. CASE placed # {}
  <2> DEFINE steps == {rows[i].step : i \in placed}
             source(t) == IF \E p \in steps : p <= t
                          THEN Max({p \in steps : p <= t}) ELSE Min(steps)
             at(t) == rows[Max({i \in placed : rows[i].step = source(t)})].value
  <2>1. Align(rows, T, cur) = [t \in 1 .. T |-> at(t)]
    BY <1>3, <1>5, Zenon DEF Align
  <2>2. at(s) \in Int
    <3>1. PICK all : all = steps
      OBVIOUS
    <3>2. PICK early : early = {p \in all : p <= s}
      OBVIOUS
    <3>3. all \in SUBSET (1 .. T) /\ all # {} /\ early \in SUBSET (1 .. T)
      BY <1>3, <1>5, <3>1, <3>2
    <3>4. PICK from : from = source(s)
      OBVIOUS
    <3>5. from = IF \E p \in all : p <= s THEN Max(early) ELSE Min(all)
      <4> HIDE DEF steps
      <4> QED
        BY <3>1, <3>2, <3>4, Zenon
    <3>6. from \in all
      <4>1. T \in Int
        OBVIOUS
      <4>2. CASE \E p \in all : p <= s
        <5>1. early # {}
          BY <3>2, <4>2
        <5>2. Max(early) \in early
          BY <3>3, <4>1, <5>1, SmallSets
        <5> QED
          BY <3>2, <3>5, <4>2, <5>2
      <4>3. CASE ~\E p \in all : p <= s
        <5>1. Min(all) \in all
          BY <3>3, <4>1, SmallSets
        <5> QED
          BY <3>5, <4>3, <5>1
      <4> QED
        BY <4>2, <4>3
    <3>7. PICK here : here = {i \in placed : rows[i].step = from}
      OBVIOUS
    <3>8. here # {} /\ here \in SUBSET (1 .. L)
      BY <1>1, <1>3, <3>1, <3>6, <3>7
    <3>9. PICK i \in 1 .. L : i = Max(here)
      <4>1. L \in Int
        OBVIOUS
      <4>2. Max(here) \in here
        BY <3>8, <4>1, SmallSets
      <4> QED
        BY <3>8, <4>2
    <3>10. at(s) = rows[i].value
      <4> HIDE DEF source
      <4> QED
        BY <3>4, <3>7, <3>9, Zenon
    <3> QED
      BY <1>2, <3>9, <3>10
  <2> HIDE DEF at
  <2> QED
    BY <2>1, <2>2
<1>6. CASE placed = {} /\ L = T - cur + 1
  <2> DEFINE at(t) == values[Max({1, t - cur + 1})]
  <2>1. Align(rows, T, cur) = [t \in 1 .. T |-> at(t)]
    <3> DEFINE none == {i \in 1 .. Len(rows) : rows[i].step \in 1 .. T} = {}
               vs == [i \in 1 .. Len(rows) |-> rows[i].value]
    <3>1. ASSUME none, Len(rows) = T - cur + 1
          PROVE  Align(rows, T, cur) = [t \in 1 .. T |-> vs[Max({1, t - cur + 1})]]
      BY <3>1, Zenon DEF Align
    <3>2. none /\ Len(rows) = T - cur + 1
      BY <1>1, <1>3, <1>6
    <3>3. vs = values
      BY <1>4
    <3> HIDE DEF none, vs
    <3>4. Align(rows, T, cur) = [t \in 1 .. T |-> vs[Max({1, t - cur + 1})]]
      BY <3>1, <3>2
    <3> QED
      BY <3>3, <3>4, Zenon
  <2>2. at(s) \in Int
    <3>0. PICK d \in Int : d = s - cur + 1
      OBVIOUS
    <3>1. PICK m : m = Max({1, d})
      OBVIOUS
    <3>2. m = IF 1 >= d THEN 1 ELSE d
      BY <3>1, MaxOfTwo
    <3>3. m \in 1 .. L
      BY <1>6, <3>0, <3>2
    <3>4. values[m] \in Int
      BY <1>1, <1>2, <1>4, <3>3
    <3> QED
      BY <3>0, <3>1, <3>4
  <2> HIDE DEF at
  <2> QED
    BY <2>1, <2>2
<1>7. CASE placed = {} /\ L # T - cur + 1
  <2>1. Align(rows, T, cur) = Expand(values, T)
    BY <1>1, <1>3, <1>4, <1>7, Zenon DEF Align
  <2>2. Len(values) = T /\ L = T
    <3>1. L = T
      BY <1>1, <1>7
    <3>2. values \in Seq(Int) /\ Len(values) = L
      BY <1>1, <1>2, <1>4
    <3> QED
      BY <3>1, <3>2
  <2>3. ((s - 1) * T) \div T + 1 = s
    OBVIOUS
  <2>4. Expand(values, T)[s] = values[s]
    BY <2>2, <2>3 DEF Expand
  <2>5. values[s] \in Int
    BY <1>1, <1>2, <1>4, <2>2
  <2> QED
    BY <2>1, <2>4, <2>5
<1> QED
  BY <1>5, <1>6, <1>7

(* The multipliers over the day. *)
LEMMA MultipliersAreWhole ==
    ASSUME NEW three \in Seq(Int), Len(three) = 3, NEW F \in Nat \ {0},
           NEW cur \in 1 .. F, NEW s \in 1 .. F
    PROVE  MultipliersFrom(three, F, cur)[s] \in Int
<1>1. CASE F - cur + 1 = 3
  <2>1. PICK rows : rows = [i \in 1 .. 3 |-> [step |-> 0, value |-> three[i]]]
    OBVIOUS
  <2>2. rows \in Seq([step : Int, value : Int]) /\ Len(rows) = 3
    <3>1. \A i \in 1 .. 3 : three[i] \in Int
      BY ThreeNumbers
    <3>2. \A i \in 1 .. 3 : [step |-> 0, value |-> three[i]] \in [step : Int, value : Int]
      BY <3>1
    <3> QED
      BY <2>1, <3>2
  <2>3. Align(rows, F, cur)[s] \in Int
    BY <1>1, <2>2, AlignedIsWhole
  <2> QED
    BY <1>1, <2>1, <2>3, Zenon DEF MultipliersFrom
<1>2. CASE F - cur + 1 # 3
  <2>1. PICK ends : ends = <<1, 2, 3>>
    OBVIOUS
  <2>2. ends \in Seq(Int) /\ Len(ends) = 3 /\ ends[3] \in Nat \ {0}
    BY <2>1
  <2>3. Schedule(three, ends, F)[s] \in Int
    BY <2>2, ScheduleIsWhole
  <2> QED
    BY <1>2, <2>1, <2>3, Zenon DEF MultipliersFrom
<1> QED
  BY <1>1, <1>2

(* The prices of the rest of the day. *)
LEMMA PricesAreWhole ==
    ASSUME NEW in, Registered(in), NEW base, NEW n, Reportable(n, in)
    PROVE  LET ctx == Context(in, base, n)
           IN  /\ ctx.buy \in [1 .. ctx.T -> Int]
               /\ ctx.sell \in [1 .. ctx.T -> Int]
<1>1. PICK F \in Nat \ {0} : F = Steps(in.minutes)
  BY StepsOfADay DEF Registered
<1>2. PICK from \in 2 .. F : from = n.from
  BY <1>1, RestOfTheDay
<1>3. PICK ctx : ctx = Context(in, base, n)
  OBVIOUS
<1>4. ctx.cur = from /\ ctx.T = F - from + 1
  BY <1>1, <1>2, <1>3, RestOfTheDay
<1>5. PICK spot : spot = Align(in.spot, F, from)
  OBVIOUS
<1>6. PICK buys : buys = MultipliersFrom(BuyMultipliers, F, from)
  OBVIOUS
<1>7. PICK sells : sells = MultipliersFrom(SellMultipliers, F, from)
  OBVIOUS
<1>8. /\ ctx.buy = [s \in 1 .. F - from + 1 |-> spot[from + s - 1] * buys[from + s - 1]]
      /\ ctx.sell = [s \in 1 .. F - from + 1 |->
                        spot[from + s - 1] * Min({sells[from + s - 1], buys[from + s - 1] - 1})]
  <2>1. Clamp(n.from, 1, Steps(in.minutes)) = from
    BY <1>3, <1>4 DEF Context
  <2> QED
    BY <1>1, <1>3, <1>5, <1>6, <1>7, <2>1, Zenon DEF Context
<1>9. ASSUME NEW s \in 1 .. F
      PROVE  spot[s] \in Int /\ buys[s] \in Int /\ sells[s] \in Int
  <2>1. in.spot \in Seq([step : Int, value : Int]) /\ Len(in.spot) = F
    BY <1>1 DEF Registered
  <2>2. BuyMultipliers \in Seq(Int) /\ Len(BuyMultipliers) = 3
    BY DEF BuyMultipliers
  <2>3. SellMultipliers \in Seq(Int) /\ Len(SellMultipliers) = 3
    BY DEF SellMultipliers
  <2>4. from \in 1 .. F
    OBVIOUS
  <2>5. spot[s] \in Int
    BY <1>5, <2>1, <2>4, AlignedIsWhole
  <2>6. buys[s] \in Int
    BY <1>6, <2>2, <2>4, MultipliersAreWhole
  <2>7. sells[s] \in Int
    BY <1>7, <2>3, <2>4, MultipliersAreWhole
  <2> QED
    BY <2>5, <2>6, <2>7
<1>10. ASSUME NEW s \in 1 .. F - from + 1
       PROVE  ctx.buy[s] \in Int /\ ctx.sell[s] \in Int
  <2>1. PICK t \in 1 .. F : t = from + s - 1
    OBVIOUS
  <2>2. PICK p \in Int, b \in Int, c \in Int : p = spot[t] /\ b = buys[t] /\ c = sells[t]
    BY <1>9
  <2>3. PICK m \in Int : m = Min({c, b - 1})
    <3>1. PICK d \in Int : d = b - 1
      OBVIOUS
    <3>2. Min({c, d}) = IF c <= d THEN c ELSE d
      BY MinOfTwo
    <3>3. Min({c, d}) \in Int
      BY <3>2
    <3> QED
      BY <3>1, <3>3
  <2>4. p * b \in Int /\ p * m \in Int
    OBVIOUS
  <2>5. ctx.buy[s] = spot[from + s - 1] * buys[from + s - 1]
    BY <1>8
  <2>6. ctx.sell[s] = spot[from + s - 1] * Min({sells[from + s - 1], buys[from + s - 1] - 1})
    BY <1>8
  <2>7. ctx.buy[s] = p * b
    BY <2>1, <2>2, <2>5
  <2>8. ctx.sell[s] = p * m
    BY <2>1, <2>2, <2>3, <2>6, Zenon
  <2> QED
    BY <2>4, <2>7, <2>8
<1>11. DOMAIN ctx.buy = 1 .. ctx.T /\ DOMAIN ctx.sell = 1 .. ctx.T
  BY <1>4, <1>8
<1>12. ctx.buy = [s \in 1 .. ctx.T |-> ctx.buy[s]] /\ ctx.sell = [s \in 1 .. ctx.T |-> ctx.sell[s]]
  BY <1>4, <1>8
<1> QED
  BY <1>3, <1>4, <1>10, <1>12
-----------------------------------------------------------------------------
(* The comparison with the approved plan.                                 *)

LEMMA ImagesAreAsMany ==
    ASSUME NEW S, IsFiniteSet(S), NEW h, \A x, y \in S : h[x] = h[y] => x = y
    PROVE  Cardinality(ImageOf(h, S)) = Cardinality(S)
<1> DEFINE I(T) == {h[x] : x \in T}
           C == {T \in SUBSET S : IsFiniteSet(I(T)) /\ Cardinality(I(T)) = Cardinality(T)}
<1>1. ASSUME NEW T \in SUBSET S, \A x \in T : T \ {x} \in C PROVE T \in C
  <2>1. CASE T = {}
    <3>1. I(T) = {}
      BY <2>1
    <3> QED
      BY <2>1, <3>1, FS_EmptySet
  <2>2. CASE T # {}
    <3>1. PICK x \in T : TRUE
      BY <2>2
    <3>2. IsFiniteSet(T)
      BY FS_Subset
    <3>3. Cardinality(T \ {x}) = Cardinality(T) - 1 /\ Cardinality(T) \in Nat
      BY <3>2, FS_RemoveElement, FS_CardinalityType
    <3>4. I(T) = I(T \ {x}) \cup {h[x]} /\ h[x] \notin I(T \ {x})
      OBVIOUS
    <3>5. IsFiniteSet(I(T \ {x})) /\ Cardinality(I(T \ {x})) = Cardinality(T \ {x})
      BY <1>1
    <3>6. PICK J : J = I(T \ {x})
      OBVIOUS
    <3>7. /\ IsFiniteSet(J \cup {h[x]})
          /\ Cardinality(J \cup {h[x]}) = Cardinality(J) + 1
      BY <3>4, <3>5, <3>6, FS_AddElement
    <3>8. IsFiniteSet(I(T)) /\ Cardinality(I(T)) = Cardinality(T)
      <4> HIDE DEF I
      <4> QED
        BY <3>3, <3>4, <3>5, <3>6, <3>7
    <3> QED
      BY <3>8
  <2> QED
    BY <2>1, <2>2
<1>2. S \in C
  <2> HIDE DEF C
  <2> QED
    BY <1>1, SetDescent
<1> QED
  BY <1>2 DEF ImageOf

(* The rest of a day of F steps from step cur on has T steps. *)
Rest(F, cur, T) == F \in Nat /\ cur \in 1 .. F /\ T \in Nat /\ T = F - cur + 1

(* The steps of the rest of the day, counted from the day and from cur. *)
Shift(cur, T) == [t \in 1 .. T |-> cur + t - 1]

(* h takes the steps of the rest of the day to the steps of the day. *)
Shifts(h, F, cur, T) ==
    /\ \A t \in 1 .. T : h[t] = cur + t - 1
    /\ \A t \in 1 .. T : cur + t - 1 \in cur .. F
    /\ ImageOf(h, 1 .. T) = cur .. F
    /\ \A t, u \in 1 .. T : h[t] = h[u] => t = u

LEMMA Shifted ==
    ASSUME NEW F, NEW cur, NEW T, Rest(F, cur, T), NEW h, h = Shift(cur, T)
    PROVE  Shifts(h, F, cur, T)
<1> F \in Nat /\ cur \in 1 .. F /\ T \in Nat /\ T = F - cur + 1
  BY DEF Rest
<1>1. \A t \in 1 .. T : h[t] = cur + t - 1
  BY DEF Shift
<1>2. \A t \in 1 .. T : cur + t - 1 \in cur .. F
  OBVIOUS
<1>3. \A s \in cur .. F : s - cur + 1 \in 1 .. T /\ cur + (s - cur + 1) - 1 = s
  OBVIOUS
<1>4. ImageOf(h, 1 .. T) = cur .. F
  <2>1. ASSUME NEW t \in 1 .. T PROVE h[t] \in cur .. F
    <3>1. cur + t - 1 \in cur .. F
      OBVIOUS
    <3> QED
      BY <1>1, <3>1
  <2>2. ASSUME NEW s \in cur .. F PROVE \E t \in 1 .. T : s = h[t]
    <3>1. PICK t : t = s - cur + 1
      OBVIOUS
    <3>2. t \in 1 .. T /\ cur + t - 1 = s
      BY <1>3, <3>1
    <3> QED
      BY <1>1, <3>2
  <2> QED
    BY <2>1, <2>2 DEF ImageOf
<1>5. \A t, u \in 1 .. T : h[t] = h[u] => t = u
  <2>1. \A t, u \in 1 .. T : cur + t - 1 = cur + u - 1 => t = u
    OBVIOUS
  <2> QED
    BY <1>1, <2>1
<1> QED
  BY <1>1, <1>2, <1>4, <1>5 DEF Shifts

(* The part of a series from step cur on. *)
LEMMA PartOfADay ==
    ASSUME NEW S, NEW F, NEW cur, NEW T, Rest(F, cur, T),
           NEW series \in Seq(S), Len(series) = F
    PROVE  /\ SubSeq(series, cur, cur + T - 1) \in Seq(S)
           /\ Len(SubSeq(series, cur, cur + T - 1)) = T
           /\ \A t \in 1 .. T : SubSeq(series, cur, cur + T - 1)[t] = series[cur + t - 1]
<1> F \in Nat /\ cur \in 1 .. F /\ T \in Nat /\ T = F - cur + 1
  BY DEF Rest
<1>1. cur + T - 1 = F /\ cur \in Int /\ F \in Int /\ F - cur + 1 = T
  OBVIOUS
<1>2. \A i \in 1 .. Len(series) : series[i] \in S
  BY ElementOfSeq
<1>3. \A i \in cur .. F : series[i] \in S
  BY <1>2
<1>4. /\ SubSeq(series, cur, F) \in Seq(S)
      /\ Len(SubSeq(series, cur, F)) = IF cur <= F THEN F - cur + 1 ELSE 0
      /\ \A i \in 1 .. F - cur + 1 : SubSeq(series, cur, F)[i] = series[cur + i - 1]
  BY <1>1, <1>3, SubSeqProperties
<1>5. cur <= F
  OBVIOUS
<1> QED
  BY <1>1, <1>4, <1>5

(* A series of numbers summed over the day is its past and its part. *)
LEMMA PartAddsUp ==
    ASSUME NEW F, NEW cur, NEW T, Rest(F, cur, T),
           NEW series \in Seq(Int), Len(series) = F
    PROVE  LET past == SumOver(series, 1 .. cur - 1)
               part == SumOver(SubSeq(series, cur, cur + T - 1), 1 .. T)
           IN  /\ past \in Int /\ part \in Int
               /\ SumOver(series, 1 .. F) = past + part
<1> F \in Nat /\ cur \in 1 .. F /\ T \in Nat /\ T = F - cur + 1
  BY DEF Rest
<1>1. PICK sub : sub = SubSeq(series, cur, cur + T - 1)
  OBVIOUS
<1>2. \A t \in 1 .. T : sub[t] = series[cur + t - 1]
  BY <1>1, PartOfADay
<1>3. \A s \in 1 .. F : series[s] \in Int
  BY ElementOfSeq
<1>4. PICK h : h = Shift(cur, T)
  OBVIOUS
<1>5. /\ \A t \in 1 .. T : h[t] = cur + t - 1 /\ cur + t - 1 \in cur .. F
      /\ ImageOf(h, 1 .. T) = cur .. F
      /\ \A t, u \in 1 .. T : h[t] = h[u] => t = u
  <2>1. Shifts(h, F, cur, T)
    BY <1>4, Shifted
  <2> QED
    BY <2>1 DEF Shifts
<1>6. Renames(h, sub, series, 1 .. T)
  <2>1. ASSUME NEW t \in 1 .. T PROVE sub[t] \in Int /\ sub[t] = series[h[t]]
    <3>1. sub[t] = series[h[t]]
      BY <1>2, <1>5
    <3>2. cur + t - 1 \in 1 .. F
      OBVIOUS
    <3> QED
      BY <1>3, <1>2, <3>1, <3>2
  <2> QED
    BY <1>5, <2>1 DEF Renames
<1>7. IsFiniteSet(1 .. T) /\ IsFiniteSet(cur .. F) /\ IsFiniteSet(1 .. cur - 1)
  BY FS_Interval
<1>8. SumOver(sub, 1 .. T) = SumOver(series, cur .. F)
  BY <1>5, <1>6, <1>7, SumIsReindexed
<1>9. /\ (1 .. cur - 1) \cap (cur .. F) = {}
      /\ (1 .. cur - 1) \cup (cur .. F) = 1 .. F
  OBVIOUS
<1>10. SumOver(series, 1 .. F) = SumOver(series, 1 .. cur - 1) + SumOver(series, cur .. F)
  <2>1. \A x \in (1 .. cur - 1) \cup (cur .. F) : series[x] \in Int
    BY <1>3, <1>9
  <2>2. SumOver(series, (1 .. cur - 1) \cup (cur .. F))
            = SumOver(series, 1 .. cur - 1) + SumOver(series, cur .. F)
    BY <1>7, <1>9, <2>1, SumSplits
  <2> QED
    BY <1>9, <2>2
<1>11. SumOver(series, 1 .. cur - 1) \in Int /\ SumOver(series, cur .. F) \in Int
  <2>1. /\ \A x \in 1 .. cur - 1 : series[x] \in Int
        /\ \A x \in cur .. F : series[x] \in Int
    BY <1>3
  <2> QED
    BY <1>7, <2>1, SumIsInteger
<1> QED
  BY <1>1, <1>8, <1>10, <1>11

(* The steps in which a plan differs from the part of the day it replaces. *)
Differ(base, plan, s, t) ==
    \/ base.buy[s] - base.sell[s] # plan.buy[t] - plan.sell[t]
    \/ base.energy[s] # plan.energy[t]

LEMMA ChangesAreCounted ==
    ASSUME NEW F, NEW cur, NEW T, Rest(F, cur, T),
           NEW base, NEW plan
    PROVE  Cardinality({t \in 1 .. T : Differ(base, plan, cur + t - 1, t)})
            = Cardinality({s \in cur .. F : Differ(base, plan, s, s - cur + 1)})
<1> F \in Nat /\ cur \in 1 .. F /\ T \in Nat /\ T = F - cur + 1
  BY DEF Rest
<1>1. PICK A : A = {t \in 1 .. T : Differ(base, plan, cur + t - 1, t)}
  OBVIOUS
<1>2. PICK B : B = {s \in cur .. F : Differ(base, plan, s, s - cur + 1)}
  OBVIOUS
<1>3. PICK h : h = Shift(cur, T)
  OBVIOUS
<1>4. /\ \A t \in 1 .. T : h[t] = cur + t - 1 /\ cur + t - 1 \in cur .. F
      /\ ImageOf(h, 1 .. T) = cur .. F
      /\ \A t, u \in 1 .. T : h[t] = h[u] => t = u
  <2>1. Shifts(h, F, cur, T)
    BY <1>3, Shifted
  <2> QED
    BY <2>1 DEF Shifts
<1>5. A \in SUBSET (1 .. T)
  BY <1>1
<1>6. IsFiniteSet(1 .. T)
  BY FS_Interval
<1>7. IsFiniteSet(A)
  BY <1>5, <1>6, FS_Subset
<1>8. ImageOf(h, A) = B
  <2>1. ASSUME NEW t \in A PROVE h[t] \in B
    <3>1. PICK s : s = cur + t - 1
      OBVIOUS
    <3>2. s \in cur .. F /\ s - cur + 1 = t /\ h[t] = s
      BY <1>4, <1>5, <3>1
    <3>3. Differ(base, plan, s, t)
      BY <1>1, <3>1
    <3> QED
      BY <1>2, <3>2, <3>3
  <2>2. ASSUME NEW s \in B PROVE \E t \in A : s = h[t]
    <3>1. PICK t : t = s - cur + 1
      OBVIOUS
    <3>2. t \in 1 .. T /\ cur + t - 1 = s
      BY <1>2, <3>1
    <3>3. Differ(base, plan, s, t)
      BY <1>2, <3>1
    <3>4. t \in A /\ h[t] = s
      BY <1>1, <1>4, <3>2, <3>3
    <3> QED
      BY <3>4
  <2> QED
    BY <2>1, <2>2 DEF ImageOf
<1>9. \A x, y \in A : h[x] = h[y] => x = y
  BY <1>4, <1>5
<1>10. Cardinality(ImageOf(h, A)) = Cardinality(A)
  BY <1>7, <1>9, ImagesAreAsMany
<1> QED
  BY <1>1, <1>2, <1>8, <1>10

(* A plan with the same exchanges costs the same. *)
LEMMA SameBill ==
    ASSUME NEW T \in Nat, NEW buy \in [1 .. T -> Int], NEW sell \in [1 .. T -> Int],
           NEW p, NEW q,
           \A t \in 1 .. T : /\ p.buy[t] \in Int /\ p.sell[t] \in Int
                             /\ q.buy[t] = p.buy[t] /\ q.sell[t] = p.sell[t]
    PROVE  Bill(buy, sell, p) - Bill(buy, sell, q) = 0
<1>1. PICK f : f = [s \in 1 .. T |-> buy[s] * p.buy[s] - sell[s] * p.sell[s]]
  OBVIOUS
<1>2. PICK g : g = [s \in 1 .. T |-> buy[s] * q.buy[s] - sell[s] * q.sell[s]]
  OBVIOUS
<1>3. ASSUME NEW s \in 1 .. T PROVE f[s] \in Int /\ g[s] = f[s]
  <2>1. PICK a \in Int, b \in Int, c \in Int, d \in Int :
            a = buy[s] /\ b = sell[s] /\ c = p.buy[s] /\ d = p.sell[s]
    OBVIOUS
  <2>2. f[s] = a * c - b * d /\ g[s] = a * c - b * d
    BY <1>1, <1>2, <2>1
  <2>3. a * c - b * d \in Int
    OBVIOUS
  <2> QED
    BY <2>2, <2>3
<1>4. IsFiniteSet(1 .. T)
  BY FS_Interval
<1>5. SumOver(f, 1 .. T) = SumOver(g, 1 .. T) /\ SumOver(f, 1 .. T) \in Int
  BY <1>3, <1>4, SumsAreEqual, SumIsInteger
<1>6. DOMAIN buy = 1 .. T
  OBVIOUS
<1>7. Bill(buy, sell, p) = SumOver(f, 1 .. T) /\ Bill(buy, sell, q) = SumOver(g, 1 .. T)
  BY <1>1, <1>2, <1>6, Zenon DEF Bill
<1> QED
  BY <1>5, <1>7

LEMMA ComparisonOfPlans ==
    ASSUME Planned, candidate # None
    PROVE  \E ctx, plan, F, from, limited :
            /\ Replanned(ctx, plan, limited)
            /\ F = Steps(input.minutes) /\ F \in Nat
            /\ from = notice.from /\ from \in 2 .. F
            /\ ctx.cur = from /\ ctx.T = F - from + 1
            /\ ctx.buy \in [1 .. ctx.T -> Int] /\ ctx.sell \in [1 .. ctx.T -> Int]
            /\ baseline.buy \in Seq(Int) /\ Len(baseline.buy) = F
            /\ baseline.sell \in Seq(Int) /\ Len(baseline.sell) = F
            /\ \E S : baseline.energy \in Seq(S) /\ Len(baseline.energy) = F
            /\ plan.buy \in Seq(Int) /\ Len(plan.buy) = ctx.T
            /\ plan.sell \in Seq(Int) /\ Len(plan.sell) = ctx.T
<1>1. PICK ctx, plan, limited : Replanned(ctx, plan, limited)
  BY CandidateIsBuilt
<1>2. /\ Registered(input) /\ Reportable(notice, input)
      /\ DayBuilt(DayInput(input), baseline, Steps(input.minutes))
      /\ ctx = Context(input, baseline, notice)
      /\ RtBuilt(ctx, plan, ctx.T)
  BY <1>1, CandidateIsBuilt DEF Replanned
<1>3. PICK F : F = Steps(input.minutes) /\ F \in Nat
  BY <1>2, RestOfTheDay
<1>4. PICK from : from = notice.from /\ from \in 2 .. F
  BY <1>2, <1>3, RestOfTheDay
<1>5. ctx.cur = from /\ ctx.T = F - from + 1
  BY <1>2, <1>3, <1>4, RestOfTheDay
<1>6. ctx.buy \in [1 .. ctx.T -> Int] /\ ctx.sell \in [1 .. ctx.T -> Int]
  BY <1>2, PricesAreWhole
<1>7. /\ baseline.buy \in Seq(Int) /\ Len(baseline.buy) = F
      /\ baseline.sell \in Seq(Int) /\ Len(baseline.sell) = F
      /\ \E S : baseline.energy \in Seq(S) /\ Len(baseline.energy) = F
  BY <1>2, <1>3 DEF DayBuilt
<1>8. /\ plan.buy \in Seq(Int) /\ Len(plan.buy) = ctx.T
      /\ plan.sell \in Seq(Int) /\ Len(plan.sell) = ctx.T
  BY <1>2 DEF RtBuilt
<1> QED
  BY <1>1, <1>3, <1>4, <1>5, <1>6, <1>7, <1>8

LEMMA PlannedCompares == Planned => ComparisonSeesEveryChange
<1> SUFFICES ASSUME Planned, candidate # None
             PROVE  LET plan == candidate.plan
                        past == 1 .. candidate.first - 1
                        spliced(old, new) == SumOver(old, past) + SumOver(new, DOMAIN new)
                        differs(s) ==
                            LET t == s - candidate.first + 1
                            IN  \/ baseline.buy[s] - baseline.sell[s] # plan.buy[t] - plan.sell[t]
                                \/ baseline.energy[s] # plan.energy[t]
                        shown == candidate.comparison
                    IN  /\ shown.changed = Cardinality({s \in Days \ past : differs(s)})
                        /\ shown.purchase = spliced(baseline.buy, plan.buy)
                                                - SumOver(baseline.buy, Days)
                        /\ shown.export = spliced(baseline.sell, plan.sell)
                                                - SumOver(baseline.sell, Days)
                        /\ baseline.buy = SubSeq(baseline.buy, 1, candidate.first - 1) \o plan.buy
                           /\ baseline.sell = SubSeq(baseline.sell, 1, candidate.first - 1) \o plan.sell
                            => shown.cost = 0
  BY Zenon DEF ComparisonSeesEveryChange
<1>1. PICK ctx, plan, F, from, limited :
            /\ Replanned(ctx, plan, limited)
            /\ F = Steps(input.minutes) /\ F \in Nat
            /\ from = notice.from /\ from \in 2 .. F
            /\ ctx.cur = from /\ ctx.T = F - from + 1
            /\ ctx.buy \in [1 .. ctx.T -> Int] /\ ctx.sell \in [1 .. ctx.T -> Int]
            /\ baseline.buy \in Seq(Int) /\ Len(baseline.buy) = F
            /\ baseline.sell \in Seq(Int) /\ Len(baseline.sell) = F
            /\ \E S : baseline.energy \in Seq(S) /\ Len(baseline.energy) = F
            /\ plan.buy \in Seq(Int) /\ Len(plan.buy) = ctx.T
            /\ plan.sell \in Seq(Int) /\ Len(plan.sell) = ctx.T
  BY ComparisonOfPlans
<1>a. F \in Nat /\ from \in 2 .. F
  BY <1>1
<1>2. PICK T \in Nat : T = F - from + 1 /\ T = ctx.T /\ from \in 1 .. F
  <2>1. ctx.T = F - from + 1
    BY <1>1
  <2> QED
    BY <1>a, <2>1
<1>b. Rest(F, from, T)
  BY <1>a, <1>2 DEF Rest
<1>c. /\ baseline.buy \in Seq(Int) /\ Len(baseline.buy) = F
      /\ baseline.sell \in Seq(Int) /\ Len(baseline.sell) = F
  BY <1>1
<1>d. PICK S : baseline.energy \in Seq(S) /\ Len(baseline.energy) = F
  BY <1>1
<1>e. /\ plan.buy \in Seq(Int) /\ Len(plan.buy) = T
      /\ plan.sell \in Seq(Int) /\ Len(plan.sell) = T
  BY <1>1, <1>2
<1>f. ctx.buy \in [1 .. T -> Int] /\ ctx.sell \in [1 .. T -> Int]
  BY <1>1, <1>2
<1>3. /\ candidate.plan = plan /\ candidate.first = from
      /\ candidate.comparison = Compare(baseline, ctx, plan)
  BY <1>1, CandidateParts
<1>4. PICK buy : buy = SubSeq(baseline.buy, from, from + T - 1)
  OBVIOUS
<1>5. PICK sell : sell = SubSeq(baseline.sell, from, from + T - 1)
  OBVIOUS
<1>6. PICK energy : energy = SubSeq(baseline.energy, from, from + T - 1)
  OBVIOUS
<1>7. PICK part : part = [buy |-> buy, sell |-> sell, energy |-> energy]
  OBVIOUS
<1>8. /\ \A t \in 1 .. T : buy[t] = baseline.buy[from + t - 1]
      /\ \A t \in 1 .. T : sell[t] = baseline.sell[from + t - 1]
      /\ \A t \in 1 .. T : energy[t] = baseline.energy[from + t - 1]
  <2>1. \A t \in 1 .. T : buy[t] = baseline.buy[from + t - 1]
    BY <1>4, <1>b, <1>c, PartOfADay
  <2>2. \A t \in 1 .. T : sell[t] = baseline.sell[from + t - 1]
    BY <1>5, <1>b, <1>c, PartOfADay
  <2>3. \A t \in 1 .. T : energy[t] = baseline.energy[from + t - 1]
    BY <1>6, <1>b, <1>d, PartOfADay
  <2> QED
    BY <2>1, <2>2, <2>3
<1>9. /\ candidate.comparison.changed = Cardinality({t \in 1 .. T :
                                            \/ Net(plan, t) # Net(part, t)
                                            \/ plan.energy[t] # part.energy[t]})
      /\ candidate.comparison.cost = Bill(ctx.buy, ctx.sell, plan) - Bill(ctx.buy, ctx.sell, part)
      /\ candidate.comparison.purchase = SumOver(plan.buy, 1 .. T) - SumOver(buy, 1 .. T)
      /\ candidate.comparison.export = SumOver(plan.sell, 1 .. T) - SumOver(sell, 1 .. T)
  <2>1. PICK c : c = CompareFrom(from, baseline, ctx, plan)
    OBVIOUS
  <2>2. candidate.comparison = c
    BY <1>1, <1>3, <2>1 DEF Compare
  <2>3. c = [changed |-> Cardinality({t \in 1 .. T :
                                            \/ Net(plan, t) # Net(part, t)
                                            \/ plan.energy[t] # part.energy[t]}),
             cost |-> Bill(ctx.buy, ctx.sell, plan) - Bill(ctx.buy, ctx.sell, part),
             purchase |-> SumOver(plan.buy, 1 .. T) - SumOver(part.buy, 1 .. T),
             export |-> SumOver(plan.sell, 1 .. T) - SumOver(part.sell, 1 .. T)]
    BY <1>2, <1>4, <1>5, <1>6, <1>7, <2>1, Zenon DEF CompareFrom
  <2>4. part.buy = buy /\ part.sell = sell
    BY <1>7
  <2> QED
    BY <2>2, <2>3, <2>4
<1>10. candidate.comparison.changed
            = Cardinality({s \in from .. F : Differ(baseline, plan, s, s - from + 1)})
  <2>1. {t \in 1 .. T : \/ Net(plan, t) # Net(part, t)
                        \/ plan.energy[t] # part.energy[t]}
            = {t \in 1 .. T : Differ(baseline, plan, from + t - 1, t)}
    <3>1. ASSUME NEW t \in 1 .. T
          PROVE  (Net(plan, t) # Net(part, t) \/ plan.energy[t] # part.energy[t])
                    <=> Differ(baseline, plan, from + t - 1, t)
      <4>1. /\ part.buy[t] = baseline.buy[from + t - 1]
            /\ part.sell[t] = baseline.sell[from + t - 1]
            /\ part.energy[t] = baseline.energy[from + t - 1]
        BY <1>7, <1>8
      <4> QED
        BY <4>1, Zenon DEF Differ, Net
    <3> QED
      BY <3>1
  <2>2. Cardinality({t \in 1 .. T : Differ(baseline, plan, from + t - 1, t)})
            = Cardinality({s \in from .. F : Differ(baseline, plan, s, s - from + 1)})
    BY <1>b, ChangesAreCounted
  <2> QED
    BY <1>9, <2>1, <2>2, Zenon
<1>g. Days = 1 .. F
  BY <1>1 DEF Days
<1>11. Days \ (1 .. from - 1) = from .. F
  BY <1>a, <1>g
<1>12. candidate.comparison.changed
            = Cardinality({s \in Days \ (1 .. candidate.first - 1) :
                LET t == s - candidate.first + 1
                IN  \/ baseline.buy[s] - baseline.sell[s] # candidate.plan.buy[t] - candidate.plan.sell[t]
                    \/ baseline.energy[s] # candidate.plan.energy[t]})
  BY <1>3, <1>10, <1>11, Zenon DEF Differ
<1>13. DOMAIN plan.buy = 1 .. T /\ DOMAIN plan.sell = 1 .. T
  BY <1>e
<1>14. /\ \A t \in 1 .. T : plan.buy[t] \in Int /\ plan.sell[t] \in Int
  <2>1. /\ \A t \in 1 .. Len(plan.buy) : plan.buy[t] \in Int
        /\ \A t \in 1 .. Len(plan.sell) : plan.sell[t] \in Int
    BY <1>e, ElementOfSeq
  <2> QED
    BY <1>e, <2>1
<1>15. SumOver(plan.buy, 1 .. T) \in Int /\ SumOver(plan.sell, 1 .. T) \in Int
  <2>1. IsFiniteSet(1 .. T)
    BY FS_Interval
  <2> QED
    BY <1>14, <2>1, SumIsInteger
<1>16. candidate.comparison.purchase
            = (SumOver(baseline.buy, 1 .. from - 1) + SumOver(plan.buy, DOMAIN plan.buy))
                - SumOver(baseline.buy, Days)
  <2>1. PICK a \in Int, b \in Int :
            /\ a = SumOver(baseline.buy, 1 .. from - 1) /\ b = SumOver(buy, 1 .. T)
            /\ SumOver(baseline.buy, 1 .. F) = a + b
    BY <1>b, <1>c, <1>4, PartAddsUp
  <2>2. PICK c \in Int : c = SumOver(plan.buy, 1 .. T)
    BY <1>15
  <2>3. SumOver(baseline.buy, Days) = a + b
    BY <1>g, <2>1
  <2>4. candidate.comparison.purchase = c - b
    BY <1>9, <2>1, <2>2
  <2>5. c - b = (a + c) - (a + b)
    OBVIOUS
  <2> QED
    BY <1>13, <2>1, <2>2, <2>3, <2>4, <2>5
<1>17. candidate.comparison.export
            = (SumOver(baseline.sell, 1 .. from - 1) + SumOver(plan.sell, DOMAIN plan.sell))
                - SumOver(baseline.sell, Days)
  <2>1. PICK a \in Int, b \in Int :
            /\ a = SumOver(baseline.sell, 1 .. from - 1) /\ b = SumOver(sell, 1 .. T)
            /\ SumOver(baseline.sell, 1 .. F) = a + b
    BY <1>b, <1>c, <1>5, PartAddsUp
  <2>2. PICK c \in Int : c = SumOver(plan.sell, 1 .. T)
    BY <1>15
  <2>3. SumOver(baseline.sell, Days) = a + b
    BY <1>g, <2>1
  <2>4. candidate.comparison.export = c - b
    BY <1>9, <2>1, <2>2
  <2>5. c - b = (a + c) - (a + b)
    OBVIOUS
  <2> QED
    BY <1>13, <2>1, <2>2, <2>3, <2>4, <2>5
<1>18. ASSUME baseline.buy = SubSeq(baseline.buy, 1, from - 1) \o plan.buy,
              baseline.sell = SubSeq(baseline.sell, 1, from - 1) \o plan.sell
       PROVE  candidate.comparison.cost = 0
  <2>1. ASSUME NEW old \in Seq(Int), NEW new \in Seq(Int), Len(old) = F, Len(new) = T,
               old = SubSeq(old, 1, from - 1) \o new, NEW t \in 1 .. T
        PROVE  old[from + t - 1] = new[t]
    <3>1. PICK k \in Nat : k = from - 1
      BY <1>2
    <3>2. \A i \in 1 .. F : old[i] \in Int
      BY <2>1, ElementOfSeq
    <3>3. \A i \in 1 .. k : old[i] \in Int
      <4>1. \A i \in 1 .. k : i \in 1 .. F
        BY <1>a, <3>1
      <4> QED
        BY <3>2, <4>1
    <3>4. PICK head : head = SubSeq(old, 1, k)
      OBVIOUS
    <3>5. head \in Seq(Int) /\ Len(head) = k
      <4>1. /\ SubSeq(old, 1, k) \in Seq(Int)
            /\ Len(SubSeq(old, 1, k)) = IF 1 <= k THEN k - 1 + 1 ELSE 0
        BY <3>3, SubSeqProperties
      <4> QED
        BY <3>4, <4>1
    <3>6. PICK i \in 1 .. k + T : i = k + t
      <4>1. k + t \in 1 .. k + T
        OBVIOUS
      <4> QED
        BY <4>1
    <3>7. \A j \in 1 .. Len(head) + Len(new) : (head \o new)[j] =
                     IF j <= Len(head) THEN head[j] ELSE new[j - Len(head)]
      BY <3>5, ConcatProperties
    <3>8. (head \o new)[i] = IF i <= k THEN head[i] ELSE new[i - k]
      BY <2>1, <3>5, <3>6, <3>7
    <3>9. i - k = t /\ ~(i <= k) /\ from + t - 1 = i
      BY <1>2, <3>1, <3>6
    <3>10. old = head \o new
      BY <2>1, <3>1, <3>4
    <3> QED
      BY <3>8, <3>9, <3>10
  <2>2. \A t \in 1 .. T : baseline.buy[from + t - 1] = plan.buy[t]
    BY <1>18, <1>c, <1>e, <2>1
  <2>3. \A t \in 1 .. T : baseline.sell[from + t - 1] = plan.sell[t]
    BY <1>18, <1>c, <1>e, <2>1
  <2>4. \A t \in 1 .. T : /\ plan.buy[t] \in Int /\ plan.sell[t] \in Int
                          /\ part.buy[t] = plan.buy[t] /\ part.sell[t] = plan.sell[t]
    BY <1>7, <1>8, <1>14, <2>2, <2>3
  <2>5. Bill(ctx.buy, ctx.sell, plan) - Bill(ctx.buy, ctx.sell, part) = 0
    BY <1>f, <2>4, SameBill
  <2> QED
    BY <1>9, <2>5
<1> QED
  BY <1>3, <1>12, <1>16, <1>17, <1>18, Zenon

(* The comparison shown with every candidate counts the steps of the day   *)
(* it changes, and its differences of energy are those of the spliced day  *)
(* (_compare_with_baseline).                                               *)
THEOREM ComparedRight == Spec => []ComparisonSeesEveryChange
BY PlansAreFeasible, PlannedCompares, PTL
-----------------------------------------------------------------------------
(* The day spliced from both plans is physical.                           *)

(* h is f and g together. *)
AddUp(f, g, h, S) == \A x \in S : f[x] \in Int /\ g[x] \in Int /\ h[x] = f[x] + g[x]

LEMMA SumOfTwo ==
    ASSUME NEW f, NEW g, NEW h, NEW S, IsFiniteSet(S), AddUp(f, g, h, S)
    PROVE  SumOver(h, S) = SumOver(f, S) + SumOver(g, S)
<1> DEFINE C == {T \in SUBSET S : SumOver(h, T) = SumOver(f, T) + SumOver(g, T)}
<1>0. \A x \in S : f[x] \in Int /\ g[x] \in Int /\ h[x] = f[x] + g[x]
  BY DEF AddUp
<1>1. ASSUME NEW T \in SUBSET S, \A x \in T : T \ {x} \in C PROVE T \in C
  <2>1. CASE T = {}
    BY <2>1, SumOfNone
  <2>2. CASE T # {}
    <3>1. IsFiniteSet(T)
      BY FS_Subset
    <3>2. PICK x \in T : x = Some(T)
      BY <2>2, <3>1, SumTakesOne
    <3>3. /\ SumOver(f, T) = f[x] + SumOver(f, T \ {x})
          /\ SumOver(g, T) = g[x] + SumOver(g, T \ {x})
          /\ SumOver(h, T) = h[x] + SumOver(h, T \ {x})
      BY <2>2, <3>1, <3>2, SumTakesOne
    <3>4. IsFiniteSet(T \ {x})
      BY <3>1, FS_Subset
    <3>5. SumOver(f, T \ {x}) \in Int /\ SumOver(g, T \ {x}) \in Int
      <4>1. /\ \A y \in T \ {x} : f[y] \in Int
            /\ \A y \in T \ {x} : g[y] \in Int
        BY <1>0
      <4> QED
        BY <3>4, <4>1, SumIsInteger
    <3>6. PICK a \in Int, b \in Int, c \in Int, d \in Int :
            /\ a = f[x] /\ b = g[x] /\ h[x] = a + b
            /\ c = SumOver(f, T \ {x}) /\ d = SumOver(g, T \ {x})
      BY <1>0, <3>5
    <3>7. SumOver(h, T \ {x}) = c + d
      BY <1>1, <3>6
    <3> QED
      BY <3>3, <3>6, <3>7
  <2> QED
    BY <2>1, <2>2
<1>2. S \in C
  <2> HIDE DEF C
  <2> QED
    BY <1>1, SetDescent
<1> QED
  BY <1>2

(* f is u times m. *)
Scales(f, u, m, S) == \A x \in S : m[x] \in Int /\ f[x] = u * m[x]

LEMMA SumScaled ==
    ASSUME NEW f, NEW m, NEW u \in Int, NEW S, IsFiniteSet(S), Scales(f, u, m, S)
    PROVE  SumOver(m, S) \in Int /\ SumOver(f, S) = u * SumOver(m, S)
<1> DEFINE C == {T \in SUBSET S : SumOver(f, T) = u * SumOver(m, T)}
<1>0. \A x \in S : m[x] \in Int /\ f[x] = u * m[x]
  BY DEF Scales
<1>1. ASSUME NEW T \in SUBSET S, \A x \in T : T \ {x} \in C PROVE T \in C
  <2>1. CASE T = {}
    <3>1. SumOver(f, T) = 0 /\ SumOver(m, T) = 0
      BY <2>1, SumOfNone
    <3> QED
      BY <3>1
  <2>2. CASE T # {}
    <3>1. IsFiniteSet(T)
      BY FS_Subset
    <3>2. PICK x \in T : x = Some(T)
      BY <2>2, <3>1, SumTakesOne
    <3>3. /\ SumOver(f, T) = f[x] + SumOver(f, T \ {x})
          /\ SumOver(m, T) = m[x] + SumOver(m, T \ {x})
      BY <2>2, <3>1, <3>2, SumTakesOne
    <3>4. IsFiniteSet(T \ {x}) /\ \A y \in T \ {x} : m[y] \in Int
      BY <1>0, <3>1, FS_Subset
    <3>5. PICK a \in Int, c \in Int :
            a = m[x] /\ f[x] = u * a /\ c = SumOver(m, T \ {x})
      BY <1>0, <3>4, SumIsInteger
    <3>6. SumOver(f, T \ {x}) = u * c
      BY <1>1, <3>5
    <3>7. u * a + u * c = u * (a + c)
      OBVIOUS
    <3> QED
      BY <3>3, <3>5, <3>6, <3>7
  <2> QED
    BY <2>1, <2>2
<1>2. S \in C
  <2> HIDE DEF C
  <2> QED
    BY <1>1, SetDescent
<1>3. SumOver(m, S) \in Int
  BY <1>0, SumIsInteger
<1> QED
  BY <1>2, <1>3

-----------------------------------------------------------------------------
Nineties(rate) == \A n \in DOMAIN rate : rate[n] % 90 = 0

Doing(move, kind) == {k \in DOMAIN move : move[k].kind = kind}

LEMMA DoingIsFinite ==
    ASSUME NEW move, NEW buses, IsFiniteSet(buses), DOMAIN move = buses, NEW kind
    PROVE  IsFiniteSet(Doing(move, kind)) /\ Doing(move, kind) \in SUBSET buses
<1>1. Doing(move, kind) \in SUBSET buses
  BY DEF Doing
<1> QED
  BY <1>1, FS_Subset

Shares(f, u, move, rate, kind) ==
    \A k \in Doing(move, kind) : f[k] = u * (rate[move[k].on] \div 90)

(* What is exchanged is a multiple of 90, so that efficiencies are exact. *)
LEMMA ExchangedIsExact ==
    ASSUME NEW move, NEW buses, IsFiniteSet(buses), NEW rate, NEW draw,
           LegalMove(move, buses, rate, draw), WholeEnergies(rate, draw), Nineties(rate),
           NEW kind \in {"charge", "discharge"},
           NEW u \in Int, NEW f, Shares(f, u, move, rate, kind)
    PROVE  \E m \in Int : /\ Exchanged(move, kind, rate) = 90 * m
                          /\ SumOver(f, Doing(move, kind)) = u * m
<1>1. PICK doing : doing = Doing(move, kind)
  OBVIOUS
<1>2. DOMAIN move = buses
  BY DEF LegalMove
<1>3. IsFiniteSet(doing) /\ doing \in SUBSET buses
  BY <1>1, <1>2, DoingIsFinite
<1>4. PICK m : m = [k \in doing |-> rate[move[k].on] \div 90]
  OBVIOUS
<1>5. PICK e : e = [k \in doing |-> rate[move[k].on]]
  OBVIOUS
<1>6. ASSUME NEW k \in doing
      PROVE  m[k] \in Int /\ e[k] = 90 * m[k] /\ f[k] = u * m[k]
  <2>1. move[k].on \in DOMAIN rate
    <3>1. move[k].kind = kind /\ k \in buses
      BY <1>1, <1>3 DEF Doing
    <3> QED
      BY <3>1, PlacesOfOps
  <2>2. PICK r \in Int : r = rate[move[k].on] /\ r % 90 = 0
    BY <2>1 DEF WholeEnergies, Nineties
  <2>3. r \div 90 \in Int /\ r = 90 * (r \div 90)
    BY <2>2
  <2>4. f[k] = u * (r \div 90)
    BY <1>1, <2>2 DEF Shares
  <2> QED
    BY <1>4, <1>5, <2>2, <2>3, <2>4
<1>7. Scales(e, 90, m, doing) /\ Scales(f, u, m, doing)
  BY <1>6 DEF Scales
<1>8. PICK M \in Int : M = SumOver(m, doing)
  BY <1>3, <1>7, SumScaled
<1>9. SumOver(e, doing) = 90 * M
  BY <1>3, <1>7, <1>8, SumScaled
<1>10. SumOver(f, doing) = u * M
  BY <1>3, <1>7, <1>8, SumScaled
<1>11. Exchanged(move, kind, rate) = SumOver(e, doing)
  BY <1>1, <1>5 DEF Exchanged, Doing
<1> QED
  BY <1>1, <1>8, <1>9, <1>10, <1>11

Follows(before, after, change, move, buses, rate, draw) ==
    /\ \A k \in buses : before[k] \in Int /\ after[k] = before[k] + change[k]
    /\ \A k \in buses : change[k] = Change(move[k], rate, draw)

Serves(move, buses, served) ==
    \A i : i \in served <=> \E k \in buses : move[k] = Drive(i)

(* The trips driven in a step and their draws. *)
Draws(drawn, draw, served) ==
    \A i \in served : i \in DOMAIN draw /\ drawn[i] = draw[i]

(* What the buses on trips use is what the trips that are driven draw. *)
LEMMA DrawnByTrips ==
    ASSUME NEW move, NEW buses, IsFiniteSet(buses), NEW rate, NEW draw,
           LegalMove(move, buses, rate, draw), WholeEnergies(rate, draw),
           NEW change, \A k \in buses : change[k] = Change(move[k], rate, draw),
           NEW served, Serves(move, buses, served),
           NEW drawn, Draws(drawn, draw, served)
    PROVE  \E m \in Int : /\ SumOver(drawn, served) = m
                          /\ SumOver(change, Doing(move, "drive")) = -m
<1>1. PICK doing : doing = Doing(move, "drive")
  OBVIOUS
<1>2. DOMAIN move = buses /\ Exclusive(move)
  BY DEF LegalMove
<1>3. IsFiniteSet(doing) /\ doing \in SUBSET buses
  BY <1>1, <1>2, DoingIsFinite
<1>4. PICK h : h = [k \in doing |-> move[k].on]
  OBVIOUS
<1>5. PICK d : d = [k \in doing |-> draw[move[k].on]]
  OBVIOUS
<1>6. ASSUME NEW k \in doing
      PROVE  /\ move[k].kind = "drive" /\ move[k] = Drive(h[k])
             /\ h[k] \in DOMAIN draw /\ d[k] \in Int /\ d[k] = draw[h[k]]
             /\ h[k] \in served /\ drawn[h[k]] = d[k]
             /\ change[k] = (-1) * d[k]
  <2>1. move[k].kind = "drive" /\ k \in buses
    BY <1>1, <1>3 DEF Doing
  <2>2. h[k] \in DOMAIN draw /\ move[k] = Drive(h[k])
    BY <1>4, <2>1, PlacesOfOps
  <2>3. PICK e \in Int : e = draw[h[k]]
    BY <2>2 DEF WholeEnergies
  <2>4. d[k] = e
    BY <1>4, <1>5, <2>3
  <2>5. h[k] \in served /\ drawn[h[k]] = e
    BY <2>1, <2>2, <2>3 DEF Serves, Draws
  <2>6. change[k] = -e
    <3>1. Change(move[k], rate, draw) = -draw[move[k].on]
      BY <2>1 DEF Change
    <3> QED
      BY <1>4, <2>1, <2>3, <3>1
  <2> QED
    BY <2>1, <2>2, <2>3, <2>4, <2>5, <2>6
<1>7. Renames(h, d, drawn, doing)
  <2>1. ASSUME NEW j \in doing, NEW k \in doing, h[j] = h[k] PROVE j = k
    <3>1. /\ move[j].kind = "drive" /\ move[k].kind = "drive"
          /\ move[j].on = move[k].on
      BY <1>4, <1>6, <2>1
    <3>2. j \in DOMAIN move /\ k \in DOMAIN move
      BY <1>2, <1>3
    <3> QED
      BY <1>2, <3>1, <3>2 DEF Exclusive
  <2> QED
    BY <1>6, <2>1 DEF Renames
<1>8. ImageOf(h, doing) = served
  <2>1. ASSUME NEW i \in served PROVE \E k \in doing : i = h[k]
    <3>1. PICK k \in buses : move[k] = Drive(i)
      BY DEF Serves
    <3>2. move[k].kind = "drive" /\ move[k].on = i
      BY <3>1, KindsOfOps
    <3>3. k \in doing
      BY <1>1, <1>2, <3>2 DEF Doing
    <3> QED
      BY <1>4, <3>2, <3>3
  <2> QED
    BY <1>6, <2>1 DEF ImageOf
<1>9. SumOver(d, doing) = SumOver(drawn, served)
  BY <1>3, <1>7, <1>8, SumIsReindexed
<1>10. Scales(change, -1, d, doing)
  BY <1>6 DEF Scales
<1>11. PICK m \in Int : m = SumOver(d, doing)
  BY <1>3, <1>6, SumIsInteger
<1>12. SumOver(change, doing) = (-1) * m
  BY <1>3, <1>10, <1>11, SumScaled
<1> QED
  BY <1>1, <1>9, <1>11, <1>12

(* Every bus does one thing. *)
LEMMA EveryBusDoes ==
    ASSUME NEW move, NEW buses, NEW rate, NEW draw, LegalMove(move, buses, rate, draw)
    PROVE  /\ buses = ((Doing(move, "charge") \cup Doing(move, "discharge"))
                        \cup Doing(move, "drive")) \cup Doing(move, "idle")
           /\ Doing(move, "charge") \cap Doing(move, "discharge") = {}
           /\ (Doing(move, "charge") \cup Doing(move, "discharge"))
                \cap Doing(move, "drive") = {}
           /\ ((Doing(move, "charge") \cup Doing(move, "discharge"))
                \cup Doing(move, "drive")) \cap Doing(move, "idle") = {}
<1>1. DOMAIN move = buses
  BY DEF LegalMove
<1>2. \A k \in buses : move[k].kind \in {"idle", "drive", "charge", "discharge"}
  BY PlacesOfOps
<1> QED
  BY <1>1, <1>2 DEF Doing

LEMMA SumOfKinds ==
    ASSUME NEW move, NEW buses, IsFiniteSet(buses), NEW rate, NEW draw,
           LegalMove(move, buses, rate, draw),
           NEW f, \A k \in buses : f[k] \in Int
    PROVE  SumOver(f, buses) = SumOver(f, Doing(move, "charge"))
                                + SumOver(f, Doing(move, "discharge"))
                                + SumOver(f, Doing(move, "drive"))
                                + SumOver(f, Doing(move, "idle"))
<1>1. PICK A, B, C, D : /\ A = Doing(move, "charge") /\ B = Doing(move, "discharge")
                        /\ C = Doing(move, "drive") /\ D = Doing(move, "idle")
  OBVIOUS
<1>2. DOMAIN move = buses
  BY DEF LegalMove
<1>3. /\ IsFiniteSet(A) /\ A \in SUBSET buses
      /\ IsFiniteSet(B) /\ B \in SUBSET buses
      /\ IsFiniteSet(C) /\ C \in SUBSET buses
      /\ IsFiniteSet(D) /\ D \in SUBSET buses
  BY <1>1, <1>2, DoingIsFinite
<1>4. /\ buses = ((A \cup B) \cup C) \cup D
      /\ A \cap B = {} /\ (A \cup B) \cap C = {} /\ ((A \cup B) \cup C) \cap D = {}
  BY <1>1, EveryBusDoes
<1>5. IsFiniteSet(A \cup B) /\ IsFiniteSet((A \cup B) \cup C)
  <2>1. A \cup B \in SUBSET buses /\ (A \cup B) \cup C \in SUBSET buses
    BY <1>3
  <2> QED
    BY <2>1, FS_Subset
<1>6. SumOver(f, A \cup B) = SumOver(f, A) + SumOver(f, B)
  <2>1. \A x \in A \cup B : f[x] \in Int
    BY <1>3
  <2> QED
    BY <1>3, <1>4, <2>1, SumSplits
<1>7. SumOver(f, (A \cup B) \cup C) = SumOver(f, A \cup B) + SumOver(f, C)
  <2>1. \A x \in (A \cup B) \cup C : f[x] \in Int
    BY <1>3
  <2> QED
    BY <1>3, <1>4, <1>5, <2>1, SumSplits
<1>8. SumOver(f, ((A \cup B) \cup C) \cup D) = SumOver(f, (A \cup B) \cup C) + SumOver(f, D)
  <2>1. \A x \in ((A \cup B) \cup C) \cup D : f[x] \in Int
    BY <1>3
  <2> QED
    BY <1>3, <1>4, <1>5, <2>1, SumSplits
<1> QED
  BY <1>1, <1>4, <1>6, <1>7, <1>8

LEMMA Efficiencies ==
    /\ \A m \in Int : Gain(90 * m) = 81 * m
    /\ \A m \in Int : Drain(90 * m) = 100 * m
BY DEF Gain, Drain

(* The energy of the fleet changes by what is bought and sold, through the *)
(* efficiencies, and by what the trips draw.                               *)
LEMMA StepBalance ==
    ASSUME NEW move, NEW buses, IsFiniteSet(buses), NEW rate, NEW draw,
           LegalMove(move, buses, rate, draw), WholeEnergies(rate, draw), Nineties(rate),
           NEW before, NEW after, NEW change,
           Follows(before, after, change, move, buses, rate, draw),
           NEW served, Serves(move, buses, served),
           NEW drawn, Draws(drawn, draw, served)
    PROVE  SumOver(after, buses) - SumOver(before, buses)
            = Gain(Exchanged(move, "charge", rate))
                - Drain(Exchanged(move, "discharge", rate)) - SumOver(drawn, served)
<1>1. /\ \A k \in buses : before[k] \in Int /\ after[k] = before[k] + change[k]
      /\ \A k \in buses : change[k] = Change(move[k], rate, draw)
  BY DEF Follows
<1>2. \A k \in buses : change[k] \in Int
  BY <1>1, ChangeIsInteger
<1>3. SumOver(after, buses) = SumOver(before, buses) + SumOver(change, buses)
  <2>1. AddUp(before, change, after, buses)
    BY <1>1, <1>2 DEF AddUp
  <2> QED
    BY <2>1, SumOfTwo
<1>4. DOMAIN move = buses
  BY DEF LegalMove
<1>5. Shares(change, 81, move, rate, "charge")
  <2>1. ASSUME NEW k \in Doing(move, "charge")
        PROVE  change[k] = 81 * (rate[move[k].on] \div 90)
    <3>1. move[k].kind = "charge" /\ k \in buses
      BY <1>4 DEF Doing
    <3>2. move[k].on \in DOMAIN rate
      BY <3>1, PlacesOfOps
    <3>3. PICK r \in Int : r = rate[move[k].on] /\ r % 90 = 0
      BY <3>2 DEF WholeEnergies, Nineties
    <3>4. r \div 90 \in Int /\ r = 90 * (r \div 90)
      BY <3>3
    <3>5. Gain(r) = 81 * (r \div 90)
      BY <3>4, Efficiencies
    <3>6. Change(move[k], rate, draw) = Gain(rate[move[k].on])
      BY <3>1 DEF Change
    <3> QED
      BY <1>1, <3>1, <3>3, <3>5, <3>6
  <2> QED
    BY <2>1 DEF Shares
<1>6. Shares(change, -100, move, rate, "discharge")
  <2>1. ASSUME NEW k \in Doing(move, "discharge")
        PROVE  change[k] = (-100) * (rate[move[k].on] \div 90)
    <3>1. move[k].kind = "discharge" /\ k \in buses
      BY <1>4 DEF Doing
    <3>2. move[k].on \in DOMAIN rate
      BY <3>1, PlacesOfOps
    <3>3. PICK r \in Int : r = rate[move[k].on] /\ r % 90 = 0
      BY <3>2 DEF WholeEnergies, Nineties
    <3>4. PICK m \in Int : m = r \div 90 /\ r = 90 * m
      BY <3>3
    <3>5. Drain(r) = 100 * m
      BY <3>4, Efficiencies
    <3>6. Change(move[k], rate, draw) = -Drain(rate[move[k].on])
      BY <3>1 DEF Change
    <3>7. change[k] = -(100 * m)
      BY <1>1, <3>1, <3>3, <3>5, <3>6
    <3>8. -(100 * m) = (-100) * m
      OBVIOUS
    <3>9. rate[move[k].on] \div 90 = m
      BY <3>3, <3>4
    <3> QED
      BY <3>7, <3>8, <3>9
  <2> QED
    BY <2>1 DEF Shares
<1>7. PICK a \in Int : /\ Exchanged(move, "charge", rate) = 90 * a
                       /\ SumOver(change, Doing(move, "charge")) = 81 * a
  BY <1>5, ExchangedIsExact
<1>8. PICK b \in Int : /\ Exchanged(move, "discharge", rate) = 90 * b
                       /\ SumOver(change, Doing(move, "discharge")) = (-100) * b
  BY <1>6, ExchangedIsExact
<1>9. PICK c \in Int : /\ SumOver(drawn, served) = c
                       /\ SumOver(change, Doing(move, "drive")) = -c
  BY <1>1, DrawnByTrips
<1>10. SumOver(change, Doing(move, "idle")) = 0
  <2>1. PICK z : z = [k \in Doing(move, "idle") |-> 0]
    OBVIOUS
  <2>2. ASSUME NEW k \in Doing(move, "idle") PROVE z[k] \in Int /\ change[k] = 0 * z[k]
    <3>1. move[k].kind = "idle" /\ k \in buses
      BY <1>4 DEF Doing
    <3>2. Change(move[k], rate, draw) = 0
      BY <3>1 DEF Change
    <3> QED
      BY <1>1, <2>1, <3>1, <3>2
  <2>3. Scales(change, 0, z, Doing(move, "idle"))
    BY <2>2 DEF Scales
  <2>4. IsFiniteSet(Doing(move, "idle"))
    BY <1>4, DoingIsFinite
  <2>5. PICK m \in Int : m = SumOver(z, Doing(move, "idle"))
    BY <2>3, <2>4, SumScaled
  <2>6. SumOver(change, Doing(move, "idle")) = 0 * m
    BY <2>3, <2>4, <2>5, SumScaled
  <2> QED
    BY <2>6
<1>11. SumOver(change, buses) = 81 * a + (-100) * b + (-c) + 0
  BY <1>2, <1>7, <1>8, <1>9, <1>10, SumOfKinds
<1>12. PICK p \in Int : p = SumOver(before, buses)
  BY <1>1, SumIsInteger
<1>13. Gain(90 * a) = 81 * a /\ Drain(90 * b) = 100 * b
  BY Efficiencies
<1>14. SumOver(after, buses) = p + (81 * a + (-100) * b + (-c) + 0)
  BY <1>3, <1>11, <1>12
<1> QED
  BY <1>7, <1>8, <1>9, <1>12, <1>13, <1>14

(* What the chargers may do with a rate. *)
Allows(power, rate) ==
    \A n \in DOMAIN rate : rate[n] \in Nat /\ power[n] \in Int /\ rate[n] <= power[n]

(* A charger is at one bus, so no more is exchanged than they may.         *)
LEMMA ExchangeIsBounded ==
    ASSUME NEW move, NEW buses, IsFiniteSet(buses), NEW rate, NEW draw,
           LegalMove(move, buses, rate, draw), IsFiniteSet(DOMAIN rate),
           NEW power, Allows(power, rate)
    PROVE  Exchanged(move, "charge", rate) + Exchanged(move, "discharge", rate)
            <= SumOver(power, DOMAIN rate)
<1>0. \A n \in DOMAIN rate : rate[n] \in Nat /\ power[n] \in Int /\ rate[n] <= power[n]
  BY DEF Allows
<1>1. PICK A, B : A = Doing(move, "charge") /\ B = Doing(move, "discharge")
  OBVIOUS
<1>2. DOMAIN move = buses /\ Exclusive(move)
  BY DEF LegalMove
<1>3. /\ IsFiniteSet(A) /\ A \in SUBSET buses
      /\ IsFiniteSet(B) /\ B \in SUBSET buses
      /\ A \cap B = {}
  BY <1>1, <1>2, DoingIsFinite, EveryBusDoes
<1>4. PICK e : e = [k \in A \cup B |-> rate[move[k].on]]
  OBVIOUS
<1>5. PICK h : h = [k \in A \cup B |-> move[k].on]
  OBVIOUS
<1>6. ASSUME NEW k \in A \cup B
      PROVE  /\ k \in DOMAIN move /\ Plugged(move[k]) /\ h[k] = move[k].on
             /\ h[k] \in DOMAIN rate
             /\ e[k] \in Int /\ e[k] = rate[h[k]]
  <2>1. move[k].kind \in {"charge", "discharge"} /\ k \in buses
    BY <1>1, <1>3 DEF Doing
  <2>2. move[k].on \in DOMAIN rate
    BY <2>1, PlacesOfOps
  <2>3. e[k] = rate[move[k].on] /\ h[k] = move[k].on
    BY <1>4, <1>5
  <2>4. rate[move[k].on] \in Int
    BY <1>0, <2>2
  <2> QED
    BY <1>2, <2>1, <2>2, <2>3, <2>4 DEF Plugged
<1>7. Exchanged(move, "charge", rate) = SumOver(e, A)
  <2>1. PICK a : a = [k \in A |-> rate[move[k].on]]
    OBVIOUS
  <2>2. \A k \in A : e[k] \in Int /\ a[k] = e[k]
    BY <1>4, <1>6, <2>1
  <2>3. SumOver(e, A) = SumOver(a, A)
    BY <1>3, <2>2, SumsAreEqual
  <2> QED
    BY <1>1, <2>1, <2>3 DEF Exchanged, Doing
<1>8. Exchanged(move, "discharge", rate) = SumOver(e, B)
  <2>1. PICK a : a = [k \in B |-> rate[move[k].on]]
    OBVIOUS
  <2>2. \A k \in B : e[k] \in Int /\ a[k] = e[k]
    BY <1>4, <1>6, <2>1
  <2>3. SumOver(e, B) = SumOver(a, B)
    BY <1>3, <2>2, SumsAreEqual
  <2> QED
    BY <1>1, <2>1, <2>3 DEF Exchanged, Doing
<1>9. SumOver(e, A \cup B) = SumOver(e, A) + SumOver(e, B)
  <2>1. \A k \in A \cup B : e[k] \in Int
    BY <1>6
  <2> QED
    BY <1>3, <2>1, SumSplits
<1>10. IsFiniteSet(A \cup B)
  <2>1. A \cup B \in SUBSET buses
    BY <1>3
  <2> QED
    BY <2>1, FS_Subset
<1>11. Renames(h, e, rate, A \cup B)
  <2>1. ASSUME NEW j \in A \cup B, NEW k \in A \cup B, h[j] = h[k] PROVE j = k
    <3>1. /\ j \in DOMAIN move /\ k \in DOMAIN move
          /\ Plugged(move[j]) /\ Plugged(move[k]) /\ move[j].on = move[k].on
      BY <1>6, <2>1
    <3> QED
      BY <1>2, <3>1 DEF Exclusive
  <2>2. \A k \in A \cup B : e[k] \in Int /\ e[k] = rate[h[k]]
    BY <1>6
  <2> QED
    BY <2>1, <2>2 DEF Renames
<1>12. PICK used : used = ImageOf(h, A \cup B)
  OBVIOUS
<1>13. IsFiniteSet(used) /\ SumOver(e, A \cup B) = SumOver(rate, used)
  BY <1>10, <1>11, <1>12, SumIsReindexed
<1>14. used \in SUBSET DOMAIN rate
  BY <1>6, <1>12 DEF ImageOf
<1>15. PICK rest : rest = DOMAIN rate \ used
  OBVIOUS
<1>16. /\ IsFiniteSet(rest) /\ rest \in SUBSET DOMAIN rate
       /\ used \cap rest = {} /\ used \cup rest = DOMAIN rate
  <2>1. /\ rest \in SUBSET DOMAIN rate
        /\ used \cap rest = {} /\ used \cup rest = DOMAIN rate
    BY <1>14, <1>15
  <2> QED
    BY <2>1, FS_Subset
<1>17. SumOver(rate, DOMAIN rate) = SumOver(rate, used) + SumOver(rate, rest)
  <2>1. \A n \in used \cup rest : rate[n] \in Int
    BY <1>0, <1>16
  <2> QED
    BY <1>13, <1>16, <2>1, SumSplits
<1>18. SumOver(rate, rest) \in Nat
  <2>1. \A n \in rest : rate[n] \in Nat
    BY <1>0, <1>16
  <2> QED
    BY <1>16, <2>1, SumIsNatural
<1>19. SumOver(rate, used) \in Nat
  <2>1. \A n \in used : rate[n] \in Nat
    BY <1>0, <1>14
  <2> QED
    BY <1>13, <2>1, SumIsNatural
<1>20. SumOver(rate, DOMAIN rate) <= SumOver(power, DOMAIN rate)
  <2>1. \A n \in DOMAIN rate : rate[n] \in Int /\ power[n] \in Int /\ rate[n] <= power[n]
    BY <1>0
  <2> QED
    BY <2>1, SumIsMonotonic
<1>21. SumOver(power, DOMAIN rate) \in Int
  BY <1>0, SumIsInteger
<1>22. PICK u \in Nat, v \in Nat, w \in Int :
            u = SumOver(rate, used) /\ v = SumOver(rate, rest) /\ w = SumOver(power, DOMAIN rate)
  BY <1>18, <1>19, <1>21
<1>23. u + v <= w
  BY <1>17, <1>20, <1>22
<1>24. u <= w
  BY <1>23
<1> QED
  BY <1>7, <1>8, <1>9, <1>13, <1>22, <1>24

-----------------------------------------------------------------------------
Held(ds, c, s) ==
    {d \in {ds[i] : i \in DOMAIN ds} : d.charger = c /\ s \in d.first .. d.last}

(* No charger has more power in a step than its nominal rate and each      *)
(* derating that holds in the step leave it.                               *)
LEMMA RateIsAllowed ==
    ASSUME NEW in, Registered(in), NEW n, Reportable(n, in),
           NEW c \in DOMAIN in.rate, NEW s \in 1 .. Steps(in.minutes)
    PROVE  LET power == Min({in.rate[c]} \cup {d.rate : d \in Held(n.deratings, c, s)})
           IN  power \in Int /\ RateAt(in, n.deratings, c, s) <= power
<1>1. PICK ds : ds = n.deratings
  OBVIOUS
<1>2. PICK r \in Nat : r = RateAt(in, ds, c, s)
  <2>1. RateAt(in, n.deratings, c, s) \in Nat
    BY RateIsDerated
  <2> QED
    BY <1>1, <2>1
<1>3. PICK nominal \in Nat : nominal = in.rate[c]
  <2>1. in.rate \in Seq(Nat)
    BY DEF Registered
  <2>2. in.rate[c] \in Nat
    BY <2>1
  <2> QED
    BY <2>2
<1>4. /\ r <= nominal
      /\ \A i \in DOMAIN ds :
            ds[i].charger = c /\ s \in ds[i].first .. ds[i].last => r <= ds[i].rate
  BY <1>1, <1>2, <1>3, RateIsDerated
<1>5. PICK R : R = [charger : Nat, rate : Nat, first : Int, last : Int]
  OBVIOUS
<1>6. /\ ds \in Seq(R)
      /\ \A i, j \in DOMAIN ds : ds[i].charger = ds[j].charger => i = j
  BY <1>1, <1>5 DEF Reportable
<1>7. \A i \in DOMAIN ds : ds[i] \in R
  BY <1>6
<1>8. \A d \in R : d.rate \in Nat
  BY <1>5
<1>9. PICK held : held = Held(ds, c, s)
  OBVIOUS
<1>10. \A d : d \in held <=> /\ \E i \in DOMAIN ds : d = ds[i]
                             /\ d.charger = c /\ s \in d.first .. d.last
  BY <1>9 DEF Held
<1>11. CASE held = {}
  <2>1. {nominal} \cup {d.rate : d \in held} = {nominal}
    BY <1>11
  <2>2. Min({nominal}) = nominal
    BY DEF Min
  <2> QED
    BY <1>1, <1>2, <1>3, <1>4, <1>9, <2>1, <2>2
<1>12. CASE held # {}
  <2>1. PICK i \in DOMAIN ds :
            ds[i] \in held /\ ds[i].charger = c /\ s \in ds[i].first .. ds[i].last
    BY <1>10, <1>12
  <2>2. held = {ds[i]}
    <3>1. ASSUME NEW d \in held PROVE d = ds[i]
      <4>1. PICK j \in DOMAIN ds : d = ds[j] /\ ds[j].charger = c
        BY <1>10
      <4>2. j = i
        BY <1>6, <2>1, <4>1
      <4> QED
        BY <4>1, <4>2
    <3> QED
      BY <2>1, <3>1
  <2>3. PICK x \in Nat : x = ds[i].rate
    <3>1. ds[i] \in R
      BY <1>7
    <3> QED
      BY <1>8, <3>1
  <2>4. r <= x
    BY <1>4, <2>1, <2>3
  <2>5. {nominal} \cup {d.rate : d \in held} = {nominal, x}
    BY <2>2, <2>3
  <2>6. Min({nominal, x}) = IF nominal <= x THEN nominal ELSE x
    BY MinOfTwo
  <2>7. Min({nominal, x}) \in Int /\ r <= Min({nominal, x})
    <3>1. r <= nominal
      BY <1>4
    <3> QED
      BY <2>4, <2>6, <3>1
  <2>8. Min({nominal} \cup {d.rate : d \in held}) = Min({nominal, x})
    BY <2>5
  <2> QED
    BY <1>1, <1>2, <1>3, <1>9, <2>7, <2>8
<1> QED
  BY <1>11, <1>12

(* The trips with a driver are the trips the buses drive. *)
LEMMA DrivenTrips ==
    ASSUME NEW ctx, NEW s, NEW move \in RtMoves(ctx, s),
           None \notin DOMAIN ctx.capacity,
           NEW plan, plan.driver[s] = [i \in Active(ctx, s) |-> DriverOf(move, i)]
    PROVE  Serves(move, DOMAIN ctx.capacity, DOMAIN plan.driver[s] \ Unserved(plan, s))
<1>1. PICK ops : ops = [k \in DOMAIN ctx.capacity |-> RtOps(ctx, s)]
  OBVIOUS
<1>2. DOMAIN move = DOMAIN ctx.capacity /\ \A k \in DOMAIN move : move[k] \in RtOps(ctx, s)
  <2>1. move \in Moves(ops)
    BY <1>1 DEF RtMoves
  <2> QED
    BY <1>1, <2>1, MovesAreOps
<1>3. ASSUME NEW i PROVE i \in DOMAIN plan.driver[s] \ Unserved(plan, s)
                            <=> i \in Active(ctx, s) /\ DriverOf(move, i) # None
  BY DEF Unserved
<1>4. ASSUME NEW i, DriverOf(move, i) # None
      PROVE  \E k \in DOMAIN ctx.capacity : move[k] = Drive(i)
  BY <1>2, <1>4 DEF DriverOf
<1>5. ASSUME NEW i, NEW k \in DOMAIN ctx.capacity, move[k] = Drive(i)
      PROVE  i \in Active(ctx, s) /\ DriverOf(move, i) # None
  <2>1. DriverOf(move, i) \in DOMAIN move
    BY <1>2, <1>5 DEF DriverOf
  <2>2. i \in Active(ctx, s)
    <3>1. move[k] \in RtOps(ctx, s) /\ move[k].kind = "drive" /\ move[k].on = i
      BY <1>2, <1>5, KindsOfOps
    <3>2. PICK o : o = move[k]
      OBVIOUS
    <3>3. \/ o = Idle
          \/ \E j \in Active(ctx, s) : o = Drive(j)
          \/ \E n : o = Op("charge", n)
          \/ \E n : o = Op("discharge", n)
      BY <3>1, <3>2 DEF RtOps
    <3>4. \E j \in Active(ctx, s) : o = Drive(j)
      BY <3>1, <3>2, <3>3, KindsOfOps
    <3> QED
      BY <3>1, <3>2, <3>4, KindsOfOps
  <2> QED
    BY <1>2, <2>1, <2>2
<1> QED
  BY <1>3, <1>4, <1>5 DEF Serves

LEMMA RateIsWhole ==
    ASSUME NEW in, Registered(in), NEW n, Reportable(n, in),
           NEW c \in DOMAIN in.rate, NEW s \in 1 .. Steps(in.minutes)
    PROVE  RateAt(in, n.deratings, c, s) \in Nat /\ RateAt(in, n.deratings, c, s) % 90 = 0
BY RateIsDerated

(* A step of a replan, from the energy before it.                          *)
InBalance(in, base, first, plan, t) ==
    SumOver(plan.energy[t], DOMAIN in.capacity)
        - SumOver(IF t = 1 THEN base.energy[first - 1] ELSE plan.energy[t - 1],
                  DOMAIN in.capacity)
        = Gain(plan.buy[t]) - Drain(plan.sell[t])
            - SumOver([i \in DOMAIN plan.driver[t] \ Unserved(plan, t) |->
                            in.trips[i].draw],
                      DOMAIN plan.driver[t] \ Unserved(plan, t))

WithinPower(in, ds, first, plan, t) ==
    plan.buy[t] + plan.sell[t]
        <= SumOver([c \in DOMAIN in.rate |->
                        Min({in.rate[c]} \cup {d.rate : d \in Held(ds, c, first + t - 1)})],
                   DOMAIN in.rate)

LEMMA StepIsPhysical ==
    ASSUME NEW in, Registered(in), NEW base, NEW n, Reportable(n, in),
           DayBuilt(DayInput(in), base, Steps(in.minutes)),
           NEW ctx, ctx = Context(in, base, n),
           NEW plan, RtBuilt(ctx, plan, ctx.T), NEW t \in 1 .. ctx.T
    PROVE  InBalance(in, base, ctx.cur, plan, t) /\ WithinPower(in, n.deratings, ctx.cur, plan, t)
<1>1. PICK F \in Nat : F = Steps(in.minutes)
  BY RestOfTheDay
<1>2. PICK from \in 2 .. F : from = n.from
  BY <1>1, RestOfTheDay
<1>3. ctx.cur = from /\ ctx.T = F - from + 1 /\ from + t - 1 \in 1 .. F
  <2>1. ctx.cur = from /\ ctx.T = F - from + 1
    BY <1>1, <1>2, RestOfTheDay
  <2>2. t \in 1 .. F - from + 1
    BY <2>1
  <2> QED
    BY <2>1, <2>2
<1>4. /\ RtWell(ctx) /\ ctx.capacity = in.capacity
      /\ ctx.trips \subseteq DOMAIN in.trips
      /\ \A i \in ctx.trips : ctx.draw[i] = in.trips[i].draw
      /\ \A k \in DOMAIN in.capacity : ctx.energy[k] = base.energy[from - 1][k]
  BY <1>2, ContextIsWell
<1>5. PICK rate : rate = ctx.rate[t]
  OBVIOUS
<1>6. /\ DOMAIN rate = DOMAIN in.rate
      /\ \A c \in DOMAIN in.rate : rate[c] = RateAt(in, n.deratings, c, from + t - 1)
  BY <1>2, <1>5, ContextIsWell
<1>7. PICK move \in RtMoves(ctx, t) : RtTook(ctx, plan, move, t)
  BY Zenon DEF RtBuilt
<1>8. PICK buses : buses = DOMAIN in.capacity
  OBVIOUS
<1>9. IsFiniteSet(buses) /\ WholeEnergies(rate, ctx.draw)
      /\ LegalMove(move, buses, rate, ctx.draw)
  BY <1>4, <1>5, <1>8, RtMovesAreLegal DEF RtWell
<1>10. Nineties(rate)
  BY <1>1, <1>3, <1>6, RateIsWhole DEF Nineties
<1>11. /\ plan.buy[t] = Exchanged(move, "charge", rate)
       /\ plan.sell[t] = Exchanged(move, "discharge", rate)
       /\ \A k \in buses : plan.energy[t][k] =
                EnergyBefore(ctx, plan, k, t) + Change(move[k], rate, ctx.draw)
       /\ plan.driver[t] = [i \in Active(ctx, t) |-> DriverOf(move, i)]
  BY <1>4, <1>5, <1>7, <1>8 DEF RtTook
<1>12. PICK served : served = DOMAIN plan.driver[t] \ Unserved(plan, t)
  OBVIOUS
<1>13. Serves(move, buses, served)
  <2>1. None \notin DOMAIN ctx.capacity
    <3>1. DOMAIN in.capacity \subseteq Nat
      <4>1. in.capacity \in Seq(Nat)
        BY DEF Registered
      <4>2. DOMAIN in.capacity = 1 .. Len(in.capacity) /\ Len(in.capacity) \in Nat
        BY <4>1
      <4> QED
        BY <4>2
    <3> QED
      BY <1>4, <3>1, InputsAssumption
  <2> QED
    BY <1>4, <1>8, <1>11, <1>12, <2>1, DrivenTrips
<1>14. PICK drawn : drawn = [i \in served |-> in.trips[i].draw]
  OBVIOUS
<1>15. Draws(drawn, ctx.draw, served)
  <2>1. served \subseteq ctx.trips
    BY <1>11, <1>12 DEF Active
  <2> QED
    BY <1>4, <1>14, <2>1 DEF Draws, RtWell
<1>16. PICK before : before = IF t = 1 THEN base.energy[ctx.cur - 1] ELSE plan.energy[t - 1]
  OBVIOUS
<1>17. ASSUME NEW k \in buses
       PROVE  before[k] \in Int /\ before[k] = EnergyBefore(ctx, plan, k, t)
  <2>1. CASE t = 1
    BY <1>3, <1>4, <1>8, <1>16, <2>1 DEF EnergyBefore, RtWell
  <2>2. CASE t # 1
    <3>1. ctx.T \in Nat /\ t - 1 \in 1 .. ctx.T
      BY <1>3, <2>2
    <3>2. plan.energy[t - 1] \in [buses -> Int]
      <4>1. /\ plan.energy \in Seq([DOMAIN ctx.capacity -> Int])
            /\ Len(plan.energy) = ctx.T
        BY DEF RtBuilt
      <4>2. \A u \in 1 .. Len(plan.energy) : plan.energy[u] \in [DOMAIN ctx.capacity -> Int]
        BY <4>1, ElementOfSeq
      <4> QED
        BY <1>4, <1>8, <3>1, <4>1, <4>2
    <3> QED
      BY <1>16, <2>2, <3>2 DEF EnergyBefore
  <2> QED
    BY <2>1, <2>2
<1>18. PICK change : change = [k \in buses |-> Change(move[k], rate, ctx.draw)]
  OBVIOUS
<1>19. Follows(before, plan.energy[t], change, move, buses, rate, ctx.draw)
  BY <1>11, <1>17, <1>18 DEF Follows
<1>20. SumOver(plan.energy[t], buses) - SumOver(before, buses)
        = Gain(plan.buy[t]) - Drain(plan.sell[t]) - SumOver(drawn, served)
  BY <1>9, <1>10, <1>11, <1>13, <1>15, <1>19, StepBalance
<1>21. InBalance(in, base, ctx.cur, plan, t)
  BY <1>8, <1>12, <1>14, <1>16, <1>20, Zenon DEF InBalance
<1>22. PICK power : power =
            [c \in DOMAIN in.rate |->
                Min({in.rate[c]} \cup {d.rate : d \in Held(n.deratings, c, ctx.cur + t - 1)})]
  OBVIOUS
<1>23. Allows(power, rate)
  <2>1. ASSUME NEW c \in DOMAIN rate
        PROVE  rate[c] \in Nat /\ power[c] \in Int /\ rate[c] <= power[c]
    <3>1. PICK s \in 1 .. Steps(in.minutes) : s = ctx.cur + t - 1
      BY <1>1, <1>3
    <3>2. power[c] = Min({in.rate[c]} \cup {d.rate : d \in Held(n.deratings, c, s)})
      BY <1>6, <1>22, <3>1
    <3>3. /\ Min({in.rate[c]} \cup {d.rate : d \in Held(n.deratings, c, s)}) \in Int
          /\ RateAt(in, n.deratings, c, s)
                <= Min({in.rate[c]} \cup {d.rate : d \in Held(n.deratings, c, s)})
      BY <1>6, RateIsAllowed
    <3>4. rate[c] = RateAt(in, n.deratings, c, s) /\ RateAt(in, n.deratings, c, s) \in Nat
      BY <1>3, <1>6, <3>1, RateIsWhole
    <3> QED
      BY <3>2, <3>3, <3>4
  <2> QED
    BY <2>1 DEF Allows
<1>24. IsFiniteSet(DOMAIN rate)
  <2>1. in.rate \in Seq(Nat)
    BY DEF Registered
  <2>2. PICK N \in Nat : DOMAIN in.rate = 1 .. N
    BY <2>1
  <2>3. IsFiniteSet(1 .. N)
    BY FS_Interval
  <2> QED
    BY <1>6, <2>2, <2>3
<1>25. plan.buy[t] + plan.sell[t] <= SumOver(power, DOMAIN rate)
  BY <1>9, <1>11, <1>23, <1>24, ExchangeIsBounded
<1>26. WithinPower(in, n.deratings, ctx.cur, plan, t)
  BY <1>6, <1>22, <1>25, Zenon DEF WithinPower
<1> QED
  BY <1>21, <1>26

LEMMA PlannedIsPhysical == Planned => SplicedDayIsPhysical
<1> SUFFICES ASSUME Planned, candidate # None PROVE SplicedDayIsPhysical
  BY DEF SplicedDayIsPhysical
<1>1. PICK ctx, plan, limited : Replanned(ctx, plan, limited)
  BY CandidateIsBuilt
<1>2. /\ Registered(input) /\ Reportable(notice, input)
      /\ DayBuilt(DayInput(input), baseline, Steps(input.minutes))
      /\ ctx = Context(input, baseline, notice)
      /\ RtBuilt(ctx, plan, ctx.T)
  BY <1>1, CandidateIsBuilt DEF Replanned
<1>3. candidate.first = ctx.cur /\ candidate.steps = ctx.T /\ candidate.plan = plan
  BY <1>1, CandidateParts
<1>4. \A t \in 1 .. ctx.T : /\ InBalance(input, baseline, ctx.cur, plan, t)
                            /\ WithinPower(input, notice.deratings, ctx.cur, plan, t)
  BY <1>2, StepIsPhysical
<1>5. \A t \in 1 .. candidate.steps :
            /\ InBalance(input, baseline, candidate.first, candidate.plan, t)
            /\ WithinPower(input, notice.deratings, candidate.first, candidate.plan, t)
  BY <1>3, <1>4
<1>6. \A t \in 1 .. candidate.steps :
            /\ SumOver(candidate.plan.energy[t], DOMAIN input.capacity)
                - SumOver(IF t = 1 THEN baseline.energy[candidate.first - 1]
                          ELSE candidate.plan.energy[t - 1], DOMAIN input.capacity)
                = Gain(candidate.plan.buy[t]) - Drain(candidate.plan.sell[t])
                    - SumOver([i \in DOMAIN candidate.plan.driver[t]
                                        \ Unserved(candidate.plan, t) |->
                                    input.trips[i].draw],
                              DOMAIN candidate.plan.driver[t] \ Unserved(candidate.plan, t))
            /\ candidate.plan.buy[t] + candidate.plan.sell[t]
                <= SumOver([n \in DOMAIN input.rate |->
                        Min({input.rate[n]} \cup
                            {d.rate : d \in {e \in {notice.deratings[i] :
                                                    i \in DOMAIN notice.deratings} :
                                e.charger = n
                                /\ candidate.first + t - 1 \in e.first .. e.last}})],
                           DOMAIN input.rate)
  BY <1>5, Zenon DEF InBalance, WithinPower, Held
<1> QED
  BY <1>6, Zenon DEF SplicedDayIsPhysical

(* The day made of the approved plan before the notice and the candidate   *)
(* after it is physical: energy is neither made nor lost between the two,  *)
(* and no more is exchanged than the derated chargers may                  *)
(* (optimize_real_time, build_rt_context).                                 *)
THEOREM SplicedPhysical == Spec => []SplicedDayIsPhysical
BY PlansAreFeasible, PlannedIsPhysical, PTL
-----------------------------------------------------------------------------
(* An undisturbed day can be carried on from any of its steps.            *)

(* Without a delay the replan's window is within the day-ahead window, for *)
(* a trip without a duration too.                                          *)
LEMMA WindowIsKept ==
    ASSUME NEW M \in Nat \ {0}, NEW F \in Nat \ {0}, NEW trip,
           Timely(trip.begin), Timely(trip.end), Accepted(trip, M, F),
           NEW s \in Int, Driven(RtWindow(trip, 0, M, F), s)
    PROVE  Driven(DayWindow(trip, M, F), s)
<1>1. PICK b \in 1 .. F, e \in 1 .. F : Fits(trip, M, F, b, e)
  BY AcceptedFits
<1>2. FromTo(trip, M, F, b, e) /\ b <= e
  BY <1>1 DEF Fits
<1>3. RoundDiv(0, M) = 0
  <2>1. 0 \div M = 0 /\ 0 % M = 0
    OBVIOUS
  <2> QED
    BY <2>1 DEF RoundDiv
<1>4. PICK w : w = RtWindow(trip, 0, M, F)
  OBVIOUS
<1>5. MovesTo(w, b, e, 0, F)
  BY <1>2, <1>3, <1>4, MovedWindow
<1>6. PICK x \in Int, y \in Int : x = w.start /\ y = w.end
  BY <1>5 DEF MovesTo
<1>7. /\ x = IF b + 0 >= F THEN F ELSE IF b + 0 <= 1 THEN 1 ELSE b + 0
      /\ y = IF x + 1 >= F \/ e + 0 >= F THEN F
             ELSE IF e + 0 <= x + 1 THEN x + 1 ELSE e + 0
  BY <1>5, <1>6 DEF MovesTo
<1>8. x <= s /\ s <= y - 1
  BY <1>4, <1>6 DEF Driven
<1>9. x = b /\ b + 1 <= F /\ y = IF e <= b + 1 THEN b + 1 ELSE e
  BY <1>7, <1>8
<1>10. Clamp(b, 1, F - 1) = b
  BY <1>9, Clamped
<1>11. Clamp(e, b + 1, F) = IF e <= b + 1 THEN b + 1 ELSE e
  BY <1>9, Clamped
<1>12. DayWindow(trip, M, F).start = b /\ DayWindow(trip, M, F).end = y
  BY <1>2, <1>9, <1>10, <1>11 DEF DayWindow, FromTo
<1> QED
  BY <1>8, <1>9, <1>12 DEF Driven

(* A notice that reports nothing. *)
Quiet(from) == [from |-> from, delays |-> {}, deratings |-> <<>>]

LEMMA QuietIsReportable ==
    ASSUME NEW in, NEW from \in 2 .. Steps(in.minutes)
    PROVE  Reportable(Quiet(from), in)
<1>1. IsFiniteSet({})
  BY FS_EmptySet
<1>2. \A R : <<>> \in Seq(R) /\ DOMAIN <<>> = {}
  OBVIOUS
<1> QED
  BY <1>1, <1>2 DEF Quiet, Reportable

LEMMA QuietDelays == \A i : DelayOf({}, i) = 0
<1> TAKE i
<1>1. {d \in {} : d.bus = i} = {}
  OBVIOUS
<1> QED
  BY <1>1, SumOfNone DEF DelayOf

LEMMA QuietRates ==
    \A in, c, s : RateAt(in, <<>>, c, s) = in.rate[c]
<1> TAKE in, c, s
<1>1. {i \in DOMAIN <<>> : <<>>[i].charger = c} = {}
  OBVIOUS
<1> QED
  BY <1>1 DEF RateAt

(* In step t of the rest of the day, step s of the day, the replan has the *)
(* same buses, chargers and trips as the day-ahead program.                *)
SameStep(ctx, t, day, s) ==
    /\ ctx.capacity = day.capacity
    /\ ctx.v2g = day.v2g
    /\ ctx.trips = DOMAIN ctx.draw
    /\ ctx.rate[t] = day.rate
    /\ \A i \in ctx.trips : ctx.draw[i] = day.draw[i]
    /\ DOMAIN day.window \subseteq DOMAIN day.capacity
    /\ \A i \in Active(ctx, t) : i \in DOMAIN day.window /\ Driven(day.window[i], s)

OnlyDrives(ctx, t, move) ==
    \A k \in DOMAIN ctx.capacity : move[k].kind = "drive" => move[k].on \in Active(ctx, t)

(* A move of the day-ahead program that drives only what the replan knows  *)
(* of is a move of the replan with the same effect, and serves it all.     *)
LEMMA DayMovesCarry ==
    ASSUME NEW ctx, NEW t, NEW day, NEW s, SameStep(ctx, t, day, s),
           NEW move \in DayMoves(day, s), OnlyDrives(ctx, t, move)
    PROVE  /\ move \in RtMoves(ctx, t)
           /\ \A i \in Active(ctx, t) : i \in DOMAIN move /\ move[i] = Drive(i)
           /\ \A k \in DOMAIN ctx.capacity :
                Change(move[k], ctx.rate[t], ctx.draw)
                    = Change(move[k], day.rate, day.draw)
<1>1. PICK ops : ops = [k \in DOMAIN day.capacity |-> DayOps(day, k, s)]
  OBVIOUS
<1>2. /\ DOMAIN move = DOMAIN day.capacity
      /\ \A k \in DOMAIN day.capacity : move[k] \in DayOps(day, k, s)
      /\ Exclusive(move)
  BY <1>1, MovesAreOps DEF DayMoves
<1>3. ASSUME NEW i \in Active(ctx, t)
      PROVE  i \in DOMAIN move /\ move[i] = Drive(i)
  <2>1. i \in DOMAIN day.window /\ Driven(day.window[i], s) /\ i \in DOMAIN day.capacity
    BY DEF SameStep
  <2>2. DayOps(day, i, s) = {Drive(i)}
    BY <2>1 DEF DayOps
  <2> QED
    BY <1>2, <2>1, <2>2
<1>4. ASSUME NEW k \in DOMAIN ctx.capacity PROVE move[k] \in RtOps(ctx, t)
  <2>1. move[k] \in DayOps(day, k, s)
    BY <1>2 DEF SameStep
  <2>2. \/ move[k] = Idle
        \/ \E i : move[k] = Drive(i)
        \/ \E n \in DOMAIN day.rate : move[k] = Op("charge", n)
        \/ \E n \in DOMAIN day.rate : day.v2g /\ move[k] = Op("discharge", n)
    <3>1. CASE \E i \in {k} \cap DOMAIN day.window : Driven(day.window[i], s)
      BY <2>1, <3>1 DEF DayOps
    <3>2. CASE ~\E i \in {k} \cap DOMAIN day.window : Driven(day.window[i], s)
      <4>1. move[k] \in {Idle} \cup {Drive(i) : i \in {k} \cap DOMAIN day.window}
                \cup {Op("charge", n) : n \in DOMAIN day.rate}
                \cup {Op("discharge", n) : n \in
                        {m \in DOMAIN day.rate : day.v2g /\ s > 1}}
        BY <2>1, <3>2 DEF DayOps
      <4> QED
        BY <4>1
    <3> QED
      BY <3>1, <3>2
  <2>3. ASSUME NEW i, move[k] = Drive(i) PROVE move[k] \in RtOps(ctx, t)
    <3>1. i \in Active(ctx, t)
      BY <2>3, KindsOfOps DEF OnlyDrives
    <3> QED
      BY <2>3, <3>1 DEF RtOps
  <2>4. DOMAIN ctx.rate[t] = DOMAIN day.rate /\ ctx.v2g = day.v2g
    BY DEF SameStep
  <2> QED
    BY <2>2, <2>3, <2>4 DEF RtOps
<1>5. move \in RtMoves(ctx, t)
  <2>1. PICK rt : rt = [k \in DOMAIN ctx.capacity |-> RtOps(ctx, t)]
    OBVIOUS
  <2>2. DOMAIN move = DOMAIN rt /\ \A k \in DOMAIN rt : move[k] \in rt[k]
    BY <1>2, <1>4, <2>1 DEF SameStep
  <2>3. move \in [DOMAIN rt -> UNION {rt[k] : k \in DOMAIN rt}]
    <3>1. move = [k \in DOMAIN move |-> move[k]]
      <4>1. move \in [DOMAIN ops -> UNION {ops[k] : k \in DOMAIN ops}]
        BY <1>1 DEF DayMoves, Moves
      <4> QED
        BY <4>1
    <3>2. \A k \in DOMAIN rt : move[k] \in UNION {rt[j] : j \in DOMAIN rt}
      BY <2>2
    <3> QED
      BY <2>2, <3>1, <3>2
  <2>4. move \in Moves(rt)
    BY <1>2, <2>2, <2>3 DEF Moves
  <2> QED
    BY <2>1, <2>4 DEF RtMoves
<1>6. ASSUME NEW k \in DOMAIN ctx.capacity
      PROVE  Change(move[k], ctx.rate[t], ctx.draw) = Change(move[k], day.rate, day.draw)
  <2>1. ctx.rate[t] = day.rate
    BY DEF SameStep
  <2>2. move[k].kind = "drive" => ctx.draw[move[k].on] = day.draw[move[k].on]
    BY DEF OnlyDrives, SameStep, Active
  <2> QED
    BY <2>1, <2>2 DEF Change
<1> QED
  BY <1>3, <1>5, <1>6

(* A plan of n steps that has come where the baseline has. *)
Carried(ctx, base, from, plan, n) ==
    /\ RtBuilt(ctx, plan, n)
    /\ n # 0 => \A k \in DOMAIN ctx.capacity :
                    plan.energy[n][k] = base.energy[from + n - 1][k]

(* What a step has to come to: every bus has the energy of the baseline,   *)
(* which is within its battery and its reserve.                            *)
Arrives(ctx, base, s) ==
    \A k \in DOMAIN ctx.capacity :
        /\ ctx.capacity[k] \in Nat
        /\ base.energy[s][k] \in Reserve(ctx.capacity[k]) .. ctx.capacity[k]

LEMMA ArrivesSpotless ==
    ASSUME NEW ctx, NEW base, NEW s, Arrives(ctx, base, s), NEW p, NEW t,
           \A k \in DOMAIN ctx.capacity : p.energy[t][k] = base.energy[s][k]
    PROVE  Within(ctx, p, t) /\ Short(ctx, p, t) = {}
<1>1. ASSUME NEW k \in DOMAIN ctx.capacity
      PROVE  /\ p.energy[t][k] \in Reserve(ctx.capacity[k]) .. ctx.capacity[k]
             /\ p.energy[t][k] \in 0 .. ctx.capacity[k]
             /\ ~(Shortfall(p.energy[t][k], ctx.capacity[k]) > 0)
  <2>1. PICK c \in Nat : c = ctx.capacity[k]
    BY DEF Arrives
  <2>2. PICK r \in Nat : r = Reserve(c)
    <3>1. c \div 5 \in Nat
      OBVIOUS
    <3> QED
      BY <3>1 DEF Reserve
  <2>3. PICK e \in r .. c : e = p.energy[t][k]
    BY <2>1, <2>2 DEF Arrives
  <2>4. Shortfall(e, c) = 0
    <3>1. Max({0, r - e}) = IF 0 >= r - e THEN 0 ELSE r - e
      <4>1. r - e \in Int
        OBVIOUS
      <4> QED
        BY <4>1, MaxOfTwo
    <3>2. 0 >= r - e
      OBVIOUS
    <3> QED
      BY <2>2, <3>1, <3>2 DEF Shortfall
  <2> QED
    BY <2>1, <2>2, <2>3, <2>4
<1> QED
  BY <1>1 DEF Within, Short

(* With the drivers of a move that drives every active trip, none is       *)
(* unserved.                                                               *)
LEMMA DrivenAreServed ==
    ASSUME NEW ctx, NEW t, NEW move, None \notin DOMAIN move,
           \A i \in Active(ctx, t) : i \in DOMAIN move /\ move[i] = Drive(i),
           NEW p, p.driver[t] = [i \in Active(ctx, t) |-> DriverOf(move, i)]
    PROVE  Unserved(p, t) = {}
<1>1. ASSUME NEW i \in Active(ctx, t) PROVE DriverOf(move, i) # None
  <2>1. PICK at : at = {k \in DOMAIN move : move[k] = Drive(i)}
    OBVIOUS
  <2>2. i \in at
    BY <2>1
  <2>3. (CHOOSE k \in at : TRUE) \in at
    BY <2>2
  <2> QED
    BY <2>1, <2>2, <2>3 DEF DriverOf
<1> QED
  BY <1>1 DEF Unserved

(* A step of the baseline, taken by the replan. *)
Step(ctx, day, base, move, t, s) ==
    /\ SameStep(ctx, t, day, s)
    /\ move \in DayMoves(day, s)
    /\ OnlyDrives(ctx, t, move)
    /\ \A k \in DOMAIN ctx.capacity :
            base.energy[s][k] = base.energy[s - 1][k] + Change(move[k], day.rate, day.draw)
    /\ Arrives(ctx, base, s)
    /\ None \notin DOMAIN ctx.capacity

LEMMA StepCarries ==
    ASSUME NEW ctx, RtWell(ctx), NEW day, NEW base, NEW from \in Nat, NEW n \in Nat,
           n + 1 \in 1 .. ctx.T, NEW move, Step(ctx, day, base, move, n + 1, from + n),
           \A k \in DOMAIN ctx.capacity : ctx.energy[k] = base.energy[from - 1][k],
           NEW q, Carried(ctx, base, from, q, n),
           NEW p, p = RtStep(ctx, q, move, n + 1)
    PROVE  /\ Carried(ctx, base, from, p, n + 1)
           /\ move \in RtMoves(ctx, n + 1)
           /\ Within(ctx, p, n + 1) /\ Unserved(p, n + 1) = {} /\ Short(ctx, p, n + 1) = {}
<1>1. PICK t \in Nat, s \in Nat : t = n + 1 /\ s = from + n
  OBVIOUS
<1>2. Step(ctx, day, base, move, t, s)
  BY <1>1
<1>3. /\ move \in RtMoves(ctx, t)
      /\ \A i \in Active(ctx, t) : i \in DOMAIN move /\ move[i] = Drive(i)
      /\ \A k \in DOMAIN ctx.capacity :
            Change(move[k], ctx.rate[t], ctx.draw) = Change(move[k], day.rate, day.draw)
  BY <1>2, DayMovesCarry DEF Step
<1>4. RtBuilt(ctx, q, n)
  BY DEF Carried
<1>5. PICK e : e = [k \in DOMAIN ctx.capacity |->
                     EnergyBefore(ctx, q, k, t) + Change(move[k], ctx.rate[t], ctx.draw)]
  OBVIOUS
<1>6. PICK d : d = [i \in Active(ctx, t) |-> DriverOf(move, i)]
  OBVIOUS
<1>7. RtFields(ctx, q, move, p, t, e, d)
  <2>1. p = RtStep(ctx, q, move, t)
    BY <1>1
  <2> QED
    BY <1>5, <1>6, <2>1, RtStepFields, Zenon
<1>8. ASSUME NEW k \in DOMAIN ctx.capacity PROVE e[k] = base.energy[s][k]
  <2>1. EnergyBefore(ctx, q, k, t) = base.energy[s - 1][k]
    <3>1. CASE n = 0
      <4>1. t = 1 /\ s - 1 = from - 1
        BY <1>1, <3>1
      <4> QED
        BY <4>1 DEF EnergyBefore
    <3>2. CASE n # 0
      <4>1. t # 1 /\ t - 1 = n /\ s - 1 = from + n - 1
        BY <1>1, <3>2
      <4>2. q.energy[n][k] = base.energy[from + n - 1][k]
        BY <3>2 DEF Carried
      <4> QED
        BY <4>1, <4>2 DEF EnergyBefore
    <3> QED
      BY <3>1, <3>2
  <2>2. base.energy[s][k] = base.energy[s - 1][k] + Change(move[k], day.rate, day.draw)
    BY <1>2 DEF Step
  <2> QED
    BY <1>3, <1>5, <2>1, <2>2
<1>9. e \in [DOMAIN ctx.capacity -> Int]
  <2>1. ASSUME NEW k \in DOMAIN ctx.capacity PROVE base.energy[s][k] \in Int
    <3>1. Arrives(ctx, base, s)
      BY <1>2 DEF Step
    <3>2. PICK c \in Nat : c = ctx.capacity[k]
      BY <3>1 DEF Arrives
    <3> QED
      BY <3>1, <3>2 DEF Arrives
  <2> QED
    BY <1>5, <1>8, <2>1
<1>10. p.energy[t] = e
  <2>1. q.energy \in Seq([DOMAIN ctx.capacity -> Int]) /\ Len(q.energy) = n
    BY <1>4 DEF RtBuilt
  <2>2. p.energy = Append(q.energy, e)
    BY <1>7 DEF RtFields
  <2>3. AppendedTo(q.energy, p.energy, n, e, [DOMAIN ctx.capacity -> Int])
    BY <1>9, <2>1, <2>2, Appended
  <2> QED
    BY <1>1, <2>3 DEF AppendedTo
<1>11. p.driver[t] = d
  <2>1. q.driver \in Seq(Drivers(ctx)) /\ Len(q.driver) = n
    BY <1>4 DEF RtBuilt
  <2>2. p.driver = Append(q.driver, d)
    BY <1>7 DEF RtFields
  <2>3. d \in Drivers(ctx)
    BY <1>3, <1>6, DriversAreBuses
  <2>4. AppendedTo(q.driver, p.driver, n, d, Drivers(ctx))
    BY <2>1, <2>2, <2>3, Appended
  <2> QED
    BY <1>1, <2>4 DEF AppendedTo
<1>12. Within(ctx, p, t) /\ Short(ctx, p, t) = {}
  BY <1>2, <1>8, <1>10, ArrivesSpotless DEF Step
<1>13. Unserved(p, t) = {}
  <2>1. DOMAIN move = DOMAIN ctx.capacity
    BY <1>3, MovesAreOps DEF RtMoves
  <2>2. None \notin DOMAIN move
    BY <1>2, <2>1 DEF Step
  <2> QED
    BY <1>3, <1>6, <1>11, <2>2, DrivenAreServed
<1>14. RtBuilt(ctx, p, n + 1)
  BY <1>1, <1>3, <1>4, <1>12, RtStepBuilds
<1>15. \A k \in DOMAIN ctx.capacity : p.energy[n + 1][k] = base.energy[from + (n + 1) - 1][k]
  <2>1. from + (n + 1) - 1 = s
    BY <1>1
  <2> QED
    BY <1>1, <1>8, <1>10, <2>1
<1>16. Carried(ctx, base, from, p, n + 1)
  BY <1>14, <1>15 DEF Carried
<1> QED
  BY <1>1, <1>3, <1>12, <1>13, <1>16

(* The replan can take every step of the baseline. *)
Stepwise(ctx, day, base, from) ==
    /\ \A n \in 0 .. ctx.T - 1 : \E move : Step(ctx, day, base, move, n + 1, from + n)
    /\ \A k \in DOMAIN ctx.capacity : ctx.energy[k] = base.energy[from - 1][k]

(* A baseline each of whose steps the replan can take is carried to the    *)
(* end of the day.                                                         *)
LEMMA BaselineCarries ==
    ASSUME NEW ctx, RtWell(ctx), NEW day, NEW base, NEW from \in Nat,
           Stepwise(ctx, day, base, from), NEW spotless
    PROVE  RtUpTo(ctx, spotless)[ctx.T] # {}
<1> DEFINE N == {n \in 0 .. ctx.T :
                    \E p \in RtUpTo(ctx, spotless)[n] : Carried(ctx, base, from, p, n)}
<1>0. ctx.T \in Nat
  BY DEF RtWell
<1>1. 0 \in N
  <2>1. RtUpTo(ctx, spotless)[0] = {RtUnwritten}
    BY <1>0, RtUnfolds
  <2>2. /\ RtUnwritten.buy = <<>> /\ RtUnwritten.sell = <<>> /\ RtUnwritten.energy = <<>>
        /\ RtUnwritten.driver = <<>>
    BY DEF RtUnwritten
  <2>3. RtBuilt(ctx, RtUnwritten, 0)
    BY <2>2 DEF RtBuilt
  <2>4. Carried(ctx, base, from, RtUnwritten, 0)
    BY <2>3 DEF Carried
  <2> QED
    BY <1>0, <2>1, <2>4
<1>2. ASSUME NEW n \in N, n < ctx.T PROVE n + 1 \in N
  <2>1. n \in Nat /\ n + 1 \in 1 .. ctx.T /\ n + 1 - 1 = n /\ n \in 0 .. ctx.T - 1
    BY <1>0, <1>2
  <2>2. RtUpTo(ctx, spotless)[n + 1] = RtExtended(ctx, spotless, RtUpTo(ctx, spotless)[n], n + 1)
    BY <1>0, <2>1, RtUnfolds
  <2>3. PICK q \in RtUpTo(ctx, spotless)[n] : Carried(ctx, base, from, q, n)
    BY <1>2
  <2>4. PICK move : Step(ctx, day, base, move, n + 1, from + n)
    BY <2>1 DEF Stepwise
  <2>5. PICK p : p = RtStep(ctx, q, move, n + 1)
    OBVIOUS
  <2>6. /\ Carried(ctx, base, from, p, n + 1)
        /\ move \in RtMoves(ctx, n + 1)
        /\ Within(ctx, p, n + 1) /\ Unserved(p, n + 1) = {} /\ Short(ctx, p, n + 1) = {}
    <3>1. \A k \in DOMAIN ctx.capacity : ctx.energy[k] = base.energy[from - 1][k]
      BY DEF Stepwise
    <3> QED
      BY <2>1, <2>3, <2>4, <2>5, <3>1, StepCarries
  <2>7. p \in RtExtended(ctx, spotless, RtUpTo(ctx, spotless)[n], n + 1)
    BY <2>3, <2>5, <2>6 DEF RtExtended
  <2> QED
    BY <2>1, <2>2, <2>6, <2>7
<1>3. N = 0 .. ctx.T
  <2> HIDE DEF N
  <2>1. N \in SUBSET (0 .. ctx.T)
    BY DEF N
  <2> QED
    BY <1>0, <1>1, <1>2, <2>1, BoundedInduction
<1>4. ctx.T \in N
  <2> HIDE DEF N
  <2> QED
    BY <1>0, <1>3
<1> QED
  BY <1>4

(* The rest of an undisturbed day is the day's. *)
LEMMA QuietStep ==
    ASSUME NEW in, Registered(in), DayInput(in).valid, NEW base,
           DayBuilt(DayInput(in), base, Steps(in.minutes)),
           NEW from \in 2 .. Steps(in.minutes),
           NEW ctx, ctx = Context(in, base, Quiet(from)),
           NEW t \in 1 .. ctx.T
    PROVE  SameStep(ctx, t, DayInput(in), from + t - 1)
<1>1. PICK M \in Nat \ {0}, F \in Nat \ {0} : M = in.minutes /\ F = Steps(in.minutes)
  BY StepsOfADay DEF Registered
<1>2. Quiet(from).from = from /\ Quiet(from).delays = {} /\ Quiet(from).deratings = <<>>
  BY DEF Quiet
<1>3. Reportable(Quiet(from), in)
  BY QuietIsReportable
<1>4. PICK day : day = DayInput(in)
  OBVIOUS
<1>5. /\ day.capacity = in.capacity /\ day.rate = in.rate
      /\ DOMAIN day.window = DOMAIN in.trips
      /\ \A i \in DOMAIN in.trips : day.draw[i] = in.trips[i].draw
  BY <1>4, DayInputIsWell
<1>6. /\ RtWell(ctx) /\ ctx.capacity = in.capacity
      /\ ctx.trips \subseteq DOMAIN in.trips
      /\ \A i \in ctx.trips : ctx.draw[i] = in.trips[i].draw
      /\ DOMAIN ctx.rate[t] = DOMAIN in.rate
      /\ \A c \in DOMAIN in.rate :
            ctx.rate[t][c] = RateAt(in, Quiet(from).deratings, c, from + t - 1)
  BY <1>2, <1>3, ContextIsWell
<1>7. ctx.rate[t] = day.rate
  <2>1. \A c \in DOMAIN in.rate : ctx.rate[t][c] = in.rate[c]
    BY <1>2, <1>6, QuietRates
  <2>2. ctx.rate[t] = [c \in DOMAIN in.rate |->
                RateAt(in, Quiet(from).deratings, c, ctx.cur + t - 1)]
    <3>1. ctx.rate = RatesFrom(in, Quiet(from).deratings, ctx.cur)
      BY DEF Context
    <3>2. ctx.cur = from /\ ctx.T = Steps(in.minutes) - from + 1
      BY <1>2, <1>3, RestOfTheDay
    <3>3. t \in 1 .. Steps(in.minutes) - ctx.cur + 1
      BY <3>2
    <3> QED
      BY <3>1, <3>3 DEF RatesFrom
  <2>3. in.rate = [c \in DOMAIN in.rate |-> in.rate[c]]
    <3>1. in.rate \in Seq(Nat)
      BY DEF Registered
    <3> QED
      BY <3>1
  <2> QED
    BY <1>5, <2>1, <2>2, <2>3
<1>8. ctx.v2g = day.v2g
  BY <1>4 DEF Context, DayInput
<1>9. DOMAIN day.window \subseteq DOMAIN day.capacity
  <2>1. /\ Len(in.trips) <= Len(in.capacity)
        /\ in.capacity \in Seq(Nat)
    BY DEF Registered
  <2>2. PICK R : in.trips \in Seq(R)
    BY Zenon DEF Registered
  <2> QED
    BY <1>5, <2>1, <2>2
<1>10. ASSUME NEW i \in Active(ctx, t)
       PROVE  i \in DOMAIN day.window /\ Driven(day.window[i], from + t - 1)
  <2>1. i \in ctx.trips /\ Driven(ctx.window[i], t)
    BY DEF Active
  <2>2. i \in DOMAIN in.trips
    BY <1>6, <2>1
  <2>3. PICK w : w = RtWindow(in.trips[i], 0, M, F)
    OBVIOUS
  <2>4. PICK n : n = Quiet(from)
    OBVIOUS
  <2>a. w = RtWindow(in.trips[i], DelayOf(n.delays, i), in.minutes, Steps(in.minutes))
    BY <1>1, <1>2, <2>3, <2>4, QuietDelays
  <2>b. ctx = Context(in, base, n) /\ Reportable(n, in) /\ n.from = from
    BY <1>2, <1>3, <2>4
  <2>5. /\ w.start \in Int /\ w.end \in Int
        /\ ctx.window[i].start \in Int /\ ctx.window[i].end \in Int
        /\ ctx.window[i].start = IF w.start - from + 1 <= 1 THEN 1 ELSE w.start - from + 1
        /\ ctx.window[i].end = w.end - from + 1
    <3>1. i \in Context(in, base, n).trips
      BY <2>1, <2>b
    <3>2. RtWindow(in.trips[i], DelayOf(n.delays, i), in.minutes, Steps(in.minutes)) = w
      BY <2>a
    <3> QED
      BY <2>2, <2>b, <3>1, <3>2, WindowsOfTheRest
  <2>6. PICK x \in Int, y \in Int, a \in Int, b \in Int :
            /\ x = w.start /\ y = w.end
            /\ a = ctx.window[i].start /\ b = ctx.window[i].end
    BY <2>5
  <2>7. /\ a = IF x - from + 1 <= 1 THEN 1 ELSE x - from + 1
        /\ b = y - from + 1
    BY <2>5, <2>6
  <2>8. t \in Int /\ a <= t /\ t <= b - 1
    BY <1>6, <2>1, <2>6 DEF Driven, RtWell
  <2>9. x <= from + t - 1 /\ from + t - 1 <= y - 1 /\ from + t - 1 \in Int
    BY <2>7, <2>8
  <2>10. Driven(w, from + t - 1)
    BY <2>6, <2>9 DEF Driven
  <2>11. /\ Accepted(in.trips[i], M, F)
         /\ day.window[i] = DayWindow(in.trips[i], M, F)
    BY <1>1, <1>4, <2>2, AcceptedInputs
  <2>12. Timely(in.trips[i].begin) /\ Timely(in.trips[i].end)
    BY <2>2, TripsAreTimely
  <2>13. Driven(DayWindow(in.trips[i], M, F), from + t - 1)
    BY <2>3, <2>9, <2>10, <2>11, <2>12, WindowIsKept
  <2> QED
    BY <1>5, <2>2, <2>11, <2>13
<1> QED
  BY <1>4, <1>5, <1>6, <1>7, <1>8, <1>9, <1>10 DEF SameStep, RtWell

(* OnlyTheTimetableIsDriven, of a step of a plan. *)
DrivesItsTrips(in, base, s) ==
    \A i \in DOMAIN in.trips :
        ~During(in.trips[i], s, 0, in.minutes) =>
            base.energy[s][i] # base.energy[s - 1][i] - in.trips[i].draw

(* What a bus is seen to drive by its energy, the replan knows of. *)
LEMMA QuietMove ==
    ASSUME NEW in, Registered(in), DayInput(in).valid, NEW base,
           DayBuilt(DayInput(in), base, Steps(in.minutes)),
           NEW from \in 2 .. Steps(in.minutes),
           NEW ctx, ctx = Context(in, base, Quiet(from)),
           NEW t \in 1 .. ctx.T, NEW s, s = from + t - 1,
           DrivesItsTrips(in, base, s),
           NEW move \in DayMoves(DayInput(in), s), DayTook(DayInput(in), base, move, s)
    PROVE  OnlyDrives(ctx, t, move)
<1>1. PICK M \in Nat \ {0}, F \in Nat \ {0} : M = in.minutes /\ F = Steps(in.minutes)
  BY StepsOfADay DEF Registered
<1>2. Quiet(from).from = from /\ Quiet(from).delays = {}
  BY DEF Quiet
<1>3. Reportable(Quiet(from), in)
  BY QuietIsReportable
<1>4. ctx.T = F - from + 1
  BY <1>1, <1>2, <1>3, RestOfTheDay
<1>5. s \in from .. F /\ s # 1 /\ s - 1 \in 1 .. F
  BY <1>1, <1>4
<1>6. PICK day : day = DayInput(in)
  OBVIOUS
<1>7. /\ day.capacity = in.capacity
      /\ DOMAIN day.window = DOMAIN in.trips /\ DOMAIN day.draw = DOMAIN in.trips
      /\ \A i \in DOMAIN in.trips : day.draw[i] = in.trips[i].draw
      /\ ctx.capacity = in.capacity
  BY <1>3, <1>6, DayInputIsWell, ContextIsWell
<1>8. SUFFICES ASSUME NEW k \in DOMAIN day.capacity, move[k].kind = "drive"
               PROVE  move[k].on \in Active(ctx, t)
  BY <1>7 DEF OnlyDrives
<1>9. move[k].on = k /\ k \in DOMAIN day.window
  <2>1. PICK ops : ops = [j \in DOMAIN day.capacity |-> DayOps(day, j, s)]
    OBVIOUS
  <2>2. move[k] \in DayOps(day, k, s)
    BY <1>6, <1>8, <2>1, MovesAreOps DEF DayMoves
  <2>3. CASE \E i \in {k} \cap DOMAIN day.window : Driven(day.window[i], s)
    BY <2>2, <2>3, KindsOfOps DEF DayOps
  <2>4. CASE ~\E i \in {k} \cap DOMAIN day.window : Driven(day.window[i], s)
    <3>1. move[k] \in {Idle} \cup {Drive(i) : i \in {k} \cap DOMAIN day.window}
                \cup {Op("charge", n) : n \in DOMAIN day.rate}
                \cup {Op("discharge", n) : n \in
                        {m \in DOMAIN day.rate : day.v2g /\ s > 1}}
      BY <2>2, <2>4 DEF DayOps
    <3>2. \E i \in {k} \cap DOMAIN day.window : move[k] = Drive(i)
      BY <1>8, <3>1, KindsOfOps
    <3> QED
      BY <3>2, KindsOfOps
  <2> QED
    BY <2>3, <2>4
<1>10. base.energy[s][k] = base.energy[s - 1][k] - in.trips[k].draw
  <2>1. Change(move[k], day.rate, day.draw) = -day.draw[k]
    BY <1>8, <1>9 DEF Change
  <2>2. base.energy[s][k] = base.energy[s - 1][k] + (-day.draw[k])
    BY <1>5, <1>6, <1>8, <2>1 DEF DayTook
  <2>3. base.energy[s - 1][k] \in Int
    <3>1. base.energy \in Seq([DOMAIN day.capacity -> Int]) /\ Len(base.energy) = F
      BY <1>1, <1>6 DEF DayBuilt
    <3>2. PICK u \in 1 .. F : u = s - 1
      BY <1>5
    <3>3. \A v \in 1 .. Len(base.energy) :
                base.energy[v] \in [DOMAIN day.capacity -> Int]
      BY <3>1, ElementOfSeq
    <3>4. base.energy[s - 1] \in [DOMAIN day.capacity -> Int]
      BY <3>1, <3>2, <3>3
    <3> QED
      BY <1>8, <3>4
  <2>4. day.draw[k] \in Int /\ day.draw[k] = in.trips[k].draw
    BY <1>7, <1>9, TripsAreTrips
  <2> QED
    BY <2>2, <2>3, <2>4
<1>11. During(in.trips[k], s, 0, M)
  BY <1>1, <1>7, <1>9, <1>10 DEF DrivesItsTrips
<1>12. s < F
  <2>1. Accepted(in.trips[k], M, F)
    BY <1>1, <1>7, <1>9, AcceptedInputs
  <2>2. Timely(in.trips[k].begin) /\ Timely(in.trips[k].end)
    BY <1>7, <1>9, TripsAreTimely
  <2>3. s \in 1 .. F
    BY <1>5
  <2>4. Driven(DayWindow(in.trips[k], M, F), s)
    BY <1>11, <2>1, <2>2, <2>3, WindowsHold
  <2>5. PICK y \in 1 .. F : y = DayWindow(in.trips[k], M, F).end
    <3>1. PICK b \in 1 .. F, e \in 1 .. F : Fits(in.trips[k], M, F, b, e)
      BY <2>1, <2>2, AcceptedFits
    <3>2. FromTo(in.trips[k], M, F, b, e)
      BY <3>1 DEF Fits
    <3>3. F >= 2
      BY <1>1
    <3>4. PICK x \in 1 .. F - 1 : x = Clamp(b, 1, F - 1)
      BY <3>3, Clamped
    <3>5. PICK y \in 1 .. F : y = Clamp(e, x + 1, F)
      BY <3>4, Clamped
    <3>6. DayWindow(in.trips[k], M, F).end = y
      BY <3>2, <3>4, <3>5 DEF DayWindow, FromTo
    <3> QED
      BY <3>6
  <2> QED
    BY <2>3, <2>4, <2>5 DEF Driven
<1>13. k \in Active(ctx, s - from + 1)
  <2>1. s \in from .. F - 1
    BY <1>5, <1>12
  <2>2. During(in.trips[k], s, DelayOf(Quiet(from).delays, k), in.minutes)
    BY <1>1, <1>2, <1>11, QuietDelays
  <2> QED
    BY <1>1, <1>2, <1>3, <1>7, <1>9, <2>1, <2>2, DuringIsActive
<1>14. s - from + 1 = t
  BY <1>4
<1> QED
  BY <1>9, <1>13, <1>14

LEMMA PlannedIsServable == Planned => UndisturbedReplanIsServable
<1> SUFFICES ASSUME Planned, baseline # None, OnlyTheTimetableIsDriven,
                    NEW from \in 2 .. Steps(input.minutes)
             PROVE  RtUpTo(Context(input, baseline, Quiet(from)), TRUE)
                        [Context(input, baseline, Quiet(from)).T] # {}
  BY Zenon DEF UndisturbedReplanIsServable, Quiet
<1>1. /\ Registered(input) /\ DayInput(input).valid
      /\ DayBuilt(DayInput(input), baseline, Steps(input.minutes))
  BY BaselineIsBuilt
<1>2. PICK F \in Nat : F = Steps(input.minutes)
  BY <1>1, StepsOfADay DEF Registered
<1>3. PICK ctx : ctx = Context(input, baseline, Quiet(from))
  OBVIOUS
<1>4. PICK day : day = DayInput(input)
  OBVIOUS
<1>5. Reportable(Quiet(from), input) /\ Quiet(from).from = from
  BY QuietIsReportable DEF Quiet
<1>6. ctx.T = F - from + 1
  BY <1>1, <1>2, <1>3, <1>5, RestOfTheDay
<1>7. /\ RtWell(ctx) /\ ctx.capacity = input.capacity
      /\ day.capacity = input.capacity
      /\ \A k \in DOMAIN ctx.capacity : ctx.energy[k] = baseline.energy[from - 1][k]
  BY <1>1, <1>3, <1>4, <1>5, ContextIsWell, DayInputIsWell
<1>8. ASSUME NEW n \in 0 .. ctx.T - 1
      PROVE  \E move : Step(ctx, day, baseline, move, n + 1, from + n)
  <2>1. PICK t \in 1 .. ctx.T, s \in 2 .. F : t = n + 1 /\ s = from + n
    BY <1>2, <1>6
  <2>2. s = from + t - 1
    BY <2>1
  <2>3. SameStep(ctx, t, day, s)
    BY <1>1, <1>3, <1>4, <2>2, QuietStep
  <2>4. s \in 1 .. Steps(input.minutes) /\ s # 1
    BY <1>2, <2>1
  <2>5. PICK move \in DayMoves(day, s) : DayTook(day, baseline, move, s)
    BY <1>1, <1>4, <2>4, Zenon DEF DayBuilt
  <2>6. DayWithin(day, baseline, s)
    BY <1>1, <1>4, <2>4 DEF DayBuilt
  <2>7. DrivesItsTrips(input, baseline, s)
    BY <2>4 DEF OnlyTheTimetableIsDriven, Days, DrivesItsTrips
  <2>8. OnlyDrives(ctx, t, move)
    BY <1>1, <1>3, <1>4, <2>2, <2>5, <2>7, QuietMove
  <2>9. \A k \in DOMAIN ctx.capacity : baseline.energy[s][k]
            = baseline.energy[s - 1][k] + Change(move[k], day.rate, day.draw)
    BY <1>7, <2>4, <2>5 DEF DayTook
  <2>10. input.capacity \in Seq(Nat)
    BY <1>1 DEF Registered
  <2>11. Arrives(ctx, baseline, s)
    BY <1>7, <2>6, <2>10 DEF DayWithin, Arrives
  <2>12. None \notin DOMAIN ctx.capacity
    <3>1. DOMAIN input.capacity \subseteq Nat
      BY <2>10
    <3> QED
      BY <1>7, <3>1, InputsAssumption
  <2>13. Step(ctx, day, baseline, move, t, s)
    BY <2>3, <2>5, <2>8, <2>9, <2>11, <2>12 DEF Step
  <2> QED
    BY <2>1, <2>13
<1>9. \A spotless : RtUpTo(ctx, spotless)[ctx.T] # {}
  <2>1. from \in Nat
    BY <1>2
  <2>2. Stepwise(ctx, day, baseline, from)
    BY <1>7, <1>8 DEF Stepwise
  <2> QED
    BY <1>7, <2>1, <2>2, BaselineCarries
<1> QED
  BY <1>3, <1>9

(* An approved plan that drives its timetable and no more can be carried   *)
(* on from every step: the program of the rest of the day, undisturbed,    *)
(* has a plan that serves every trip and keeps every reserve               *)
(* (solvePTO against solve_rt_rescheduling).                               *)
THEOREM CanBeCarriedOn == Spec => []UndisturbedReplanIsServable
BY PlansAreFeasible, PlannedIsServable, PTL
=============================================================================
