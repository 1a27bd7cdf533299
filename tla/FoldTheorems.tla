------------------------------ MODULE FoldTheorems -----------------------------
(***************************************************************************)
(* Induction and recursion over finite sets and over an initial segment of *)
(* the naturals, stated over sets and functions so that they can be cited  *)
(* without an operator as an argument: the property is the set of the      *)
(* values that have it, the step of a fold is a function on pairs.  They   *)
(* give a value to the folds and the recursive functions of the models.    *)
(***************************************************************************)
EXTENDS Integers, FiniteSets, WellFoundedInduction, FiniteSetTheorems, TLAPS

(* Among subsets of a finite set there is a smallest one.                  *)
LEMMA SmallestSubset ==
  ASSUME NEW S, IsFiniteSet(S), NEW Bad \in SUBSET (SUBSET S), Bad # {}
  PROVE  \E T \in Bad : \A U \in Bad : U \subseteq T => U = T
<1>1. IsWellFoundedOn(StrictSubsetOrdering(S), SUBSET S)
  BY FS_StrictSubsetOrderingWellFounded, FS_FiniteSubsetsOfFinite
<1>2. PICK T \in Bad : \A U \in Bad : ~(<<U, T>> \in StrictSubsetOrdering(S))
  BY <1>1, WFMin, SMT
<1> QED BY <1>2 DEF StrictSubsetOrdering

(* What holds of {} and goes from each subset of a finite S to the subset  *)
(* with one more element holds of S.                                       *)
LEMMA SetInduction ==
  ASSUME NEW S, IsFiniteSet(S), NEW G, {} \in G,
         \A T \in SUBSET S : T \in G => \A x \in S \ T : T \cup {x} \in G
  PROVE  S \in G
<1> DEFINE Bad == (SUBSET S) \ G
<1>1. SUFFICES ASSUME S \notin G PROVE FALSE
  OBVIOUS
<1>2. Bad # {} /\ Bad \subseteq SUBSET S
  BY <1>1
<1>3. PICK T \in Bad : \A U \in Bad : U \subseteq T => U = T
  <2> HIDE DEF Bad
  <2> QED BY <1>2, SmallestSubset
<1>4. PICK x \in T : TRUE
  BY <1>3
<1>5. T \ {x} \in SUBSET S /\ T \ {x} # T
  BY <1>4, <1>3
<1>6. T \ {x} \in G
  BY <1>3, <1>5
<1>7. (T \ {x}) \cup {x} \in G
  BY <1>6, <1>5, <1>4, <1>3
<1>8. (T \ {x}) \cup {x} = T
  BY <1>4
<1> QED BY <1>7, <1>8, <1>3

(* What holds of 0 and goes from each natural to the next holds of all.    *)
LEMMA CountInduction ==
  ASSUME NEW G, 0 \in G, \A n \in Nat : n \in G => n + 1 \in G, NEW n \in Nat
  PROVE  n \in G
<1> DEFINE H == {T \in SUBSET (1 .. n) : Cardinality(T) \in G}
<1>1. IsFiniteSet(1 .. n) /\ Cardinality(1 .. n) = n
  BY FS_Interval
<1>2. {} \in H
  BY FS_EmptySet
<1>3. ASSUME NEW T \in SUBSET (1 .. n), T \in H, NEW x \in (1 .. n) \ T
      PROVE  T \cup {x} \in H
  <2>1. IsFiniteSet(T) BY <1>1, FS_Subset
  <2>2. Cardinality(T \cup {x}) = Cardinality(T) + 1 BY <2>1, <1>3, FS_AddElement
  <2>3. Cardinality(T) \in Nat BY <2>1, FS_CardinalityType
  <2> QED BY <2>2, <2>3, <1>3
<1>4. (1 .. n) \in H
  <2> HIDE DEF H
  <2> QED BY <1>1, <1>2, <1>3, SetInduction
<1> QED BY <1>1, <1>4

(* The same up to n only.                                                  *)
LEMMA SegmentInduction ==
  ASSUME NEW n \in Nat, NEW G, 0 \in G, \A k \in 1 .. n : k - 1 \in G => k \in G
  PROVE  n \in G
<1> DEFINE H == {k \in Nat : k <= n => k \in G}
<1>1. 0 \in H
  OBVIOUS
<1>2. ASSUME NEW k \in Nat, k \in H PROVE k + 1 \in H
  <2>1. SUFFICES ASSUME k + 1 <= n PROVE k + 1 \in G
    OBVIOUS
  <2>2. k + 1 \in 1 .. n /\ (k + 1) - 1 = k /\ k \in G
    BY <2>1, <1>2
  <2> QED BY <2>2
<1>3. n \in H
  <2> HIDE DEF H
  <2> QED BY <1>1, <1>2, CountInduction
<1> QED BY <1>3

--------------------------------------------------------------------------------
(* A fold over the subsets of S: pick names the element to take next, op   *)
(* combines it with the fold of the rest.                                  *)
Picks(pick, S) == \A T \in SUBSET S : T # {} => pick[T] \in T
Combines(op, S, A) == \A x \in S, a \in A : op[<<x, a>>] \in A
Folds(f, op, base, pick, S) ==
  \A T \in SUBSET S : f[T] = IF T = {} THEN base ELSE op[<<pick[T], f[T \ {pick[T]}]>>]

(* The fold of every subset of a finite set exists.                        *)
LEMMA SetRecursion ==
  ASSUME NEW S, IsFiniteSet(S), NEW A, NEW base \in A,
         NEW pick, Picks(pick, S), NEW op, Combines(op, S, A)
  PROVE  \E f \in [SUBSET S -> A] : Folds(f, op, base, pick, S)
<1> USE DEF Picks, Combines, Folds
<1> DEFINE Small(n) == {T \in SUBSET S : Cardinality(T) <= n}
           Solves(f, n) == \A T \in Small(n) :
               f[T] = IF T = {} THEN base ELSE op[<<pick[T], f[T \ {pick[T]}]>>]
           G == {n \in Nat : \E f \in [SUBSET S -> A] : Solves(f, n)}
<1>1. \A T \in SUBSET S : IsFiniteSet(T) /\ Cardinality(T) \in Nat /\ Cardinality(T) <= Cardinality(S)
  BY FS_Subset, FS_CardinalityType
<1>2. \A T \in SUBSET S : T # {} =>
         /\ T \ {pick[T]} \in SUBSET S
         /\ Cardinality(T \ {pick[T]}) = Cardinality(T) - 1
         /\ Cardinality(T) > 0
  <2> SUFFICES ASSUME NEW T \in SUBSET S, T # {}
               PROVE  /\ T \ {pick[T]} \in SUBSET S
                      /\ Cardinality(T \ {pick[T]}) = Cardinality(T) - 1
                      /\ Cardinality(T) > 0
    OBVIOUS
  <2>1. IsFiniteSet(T) /\ Cardinality(T) \in Nat /\ pick[T] \in T
    BY <1>1
  <2>2. Cardinality(T \ {pick[T]}) = Cardinality(T) - 1
    BY <2>1, FS_RemoveElement
  <2>3. Cardinality(T) # 0
    BY <2>1, FS_EmptySet
  <2> QED BY <2>1, <2>2, <2>3
<1>0. \A n \in Nat : {} \in Small(n)
  <2>1. Cardinality({}) = 0 BY FS_EmptySet
  <2> QED BY <2>1
<1>3. 0 \in G
  <2>1. \A T \in Small(0) : T = {}
    BY <1>1, FS_EmptySet
  <2>2. Solves([T \in SUBSET S |-> base], 0)
    BY <2>1
  <2> QED BY <2>2
<1>4. ASSUME NEW n \in Nat, n \in G PROVE n + 1 \in G
  <2>1. PICK f \in [SUBSET S -> A] : Solves(f, n)
    BY <1>4
  <2> DEFINE g == [T \in SUBSET S |-> IF T \in Small(n) THEN f[T]
                                      ELSE op[<<pick[T], f[T \ {pick[T]}]>>]]
  <2>2. \A T \in SUBSET S : T \notin Small(n) => T # {}
    BY <1>0
  <2>3. g \in [SUBSET S -> A]
    BY <2>2, <1>2
  <2>4. ASSUME NEW T \in Small(n + 1), T # {}
        PROVE  g[T] = op[<<pick[T], g[T \ {pick[T]}]>>]
    <3>1. T \ {pick[T]} \in Small(n)
      BY <1>1, <1>2, <2>4
    <3>2. g[T \ {pick[T]}] = f[T \ {pick[T]}]
      BY <3>1
    <3>3. CASE T \in Small(n)
      BY <3>2, <3>3, <2>1, <2>4
    <3>4. CASE T \notin Small(n)
      BY <3>2, <3>4, <2>4
    <3> QED BY <3>3, <3>4
  <2>5. {} \in Small(n) /\ f[{}] = base
    BY <2>1, <1>0
  <2>6. Solves(g, n + 1)
    BY <2>4, <2>5
  <2> HIDE DEF g, Solves
  <2> QED BY <2>3, <2>6
<1>5. Cardinality(S) \in G
  <2> HIDE DEF G
  <2> QED BY <1>1, <1>3, <1>4, CountInduction
<1>6. Small(Cardinality(S)) = SUBSET S
  BY <1>1
<1> QED BY <1>5, <1>6

--------------------------------------------------------------------------------
(* An iteration: op makes the value at k from k and the value at k - 1.    *)
Steps(op, n, A) == \A k \in 1 .. n, a \in A : op[<<k, a>>] \in A
Iterates(f, op, base, n) ==
  \A k \in 0 .. n : f[k] = IF k = 0 THEN base ELSE op[<<k, f[k - 1]>>]

(* An iteration of any length exists.                                      *)
LEMMA CountRecursion ==
  ASSUME NEW n \in Nat, NEW A, NEW base \in A, NEW op, Steps(op, n, A)
  PROVE  \E f \in [0 .. n -> A] : Iterates(f, op, base, n)
<1> USE DEF Steps, Iterates
<1> DEFINE G == {m \in Nat : m <= n => \E f \in [0 .. m -> A] : Iterates(f, op, base, m)}
<1>1. 0 \in G
  <2> DEFINE g == [k \in 0 .. 0 |-> base]
  <2>1. g \in [0 .. 0 -> A]
    OBVIOUS
  <2>2. Iterates(g, op, base, 0)
    OBVIOUS
  <2> QED BY <2>1, <2>2
<1>2. ASSUME NEW m \in Nat, m \in G PROVE m + 1 \in G
  <2> SUFFICES ASSUME m + 1 <= n
               PROVE  \E f \in [0 .. m + 1 -> A] : Iterates(f, op, base, m + 1)
    OBVIOUS
  <2>1. PICK f \in [0 .. m -> A] : Iterates(f, op, base, m)
    BY <1>2
  <2> DEFINE g == [k \in 0 .. m + 1 |-> IF k = m + 1 THEN op[<<k, f[m]>>] ELSE f[k]]
  <2>2. g \in [0 .. m + 1 -> A]
    BY <2>1
  <2>3. ASSUME NEW k \in 0 .. m + 1
        PROVE  g[k] = IF k = 0 THEN base ELSE op[<<k, g[k - 1]>>]
    <3>1. CASE k = m + 1
      <4>1. g[k] = op[<<k, f[m]>>] /\ g[k - 1] = f[m] /\ k # 0
        BY <3>1
      <4> QED BY <4>1, <3>1
    <3>2. CASE k \in 0 .. m
      <4>1. g[k] = f[k] /\ (k # 0 => g[k - 1] = f[k - 1])
        BY <3>2
      <4> QED BY <4>1, <3>2, <2>1
    <3> QED BY <3>1, <3>2
  <2>4. Iterates(g, op, base, m + 1)
    BY <2>3
  <2> HIDE DEF g, Iterates
  <2> QED BY <2>2, <2>4
<1>3. n \in G
  <2> HIDE DEF G
  <2> QED BY <1>1, <1>2, CountInduction
<1> QED BY <1>3

(* Two iterations agree as far as both go.                                 *)
LEMMA SameIterates ==
  ASSUME NEW op, NEW base, NEW m \in Nat, NEW n \in Nat, NEW f, NEW g,
         Iterates(f, op, base, m), Iterates(g, op, base, n), NEW k \in Nat, k <= m, k <= n
  PROVE  f[k] = g[k]
<1> DEFINE G == {j \in Nat : j <= m /\ j <= n => f[j] = g[j]}
<1>1. 0 \in G
  <2>1. 0 \in 0 .. m /\ 0 \in 0 .. n
    OBVIOUS
  <2>2. f[0] = base /\ g[0] = base
    BY <2>1 DEF Iterates
  <2> QED BY <2>2
<1>2. ASSUME NEW j \in Nat, j \in G PROVE j + 1 \in G
  <2> SUFFICES ASSUME j + 1 <= m, j + 1 <= n PROVE f[j + 1] = g[j + 1]
    OBVIOUS
  <2>1. f[j] = g[j]
    BY <1>2
  <2>2. f[j + 1] = op[<<j + 1, f[j]>>] /\ g[j + 1] = op[<<j + 1, g[j]>>]
    <3>1. j + 1 \in 0 .. m /\ j + 1 \in 0 .. n /\ j + 1 # 0 /\ (j + 1) - 1 = j
      OBVIOUS
    <3> QED BY <3>1 DEF Iterates
  <2> QED BY <2>1, <2>2
<1>3. k \in G
  <2> HIDE DEF G
  <2> QED BY <1>1, <1>2, CountInduction
<1> QED BY <1>3

(* An iteration without end exists.                                        *)
LEMMA NatRecursion ==
  ASSUME NEW A, NEW base \in A, NEW op, \A n \in Nat : Steps(op, n, A)
  PROVE  \E f \in [Nat -> A] : \A n \in Nat : f[n] = IF n = 0 THEN base ELSE op[<<n, f[n - 1]>>]
<1> DEFINE upTo(n) == CHOOSE g : g \in [0 .. n -> A] /\ Iterates(g, op, base, n)
           f == [n \in Nat |-> upTo(n)[n]]
<1>1. ASSUME NEW n \in Nat
      PROVE  upTo(n) \in [0 .. n -> A] /\ Iterates(upTo(n), op, base, n)
  <2>1. \E g : g \in [0 .. n -> A] /\ Iterates(g, op, base, n)
    BY CountRecursion
  <2> QED BY <2>1
<1> HIDE DEF upTo
<1>2. f \in [Nat -> A]
  BY <1>1
<1>3. ASSUME NEW n \in Nat PROVE f[n] = IF n = 0 THEN base ELSE op[<<n, f[n - 1]>>]
  <2>1. CASE n = 0
    <3>1. 0 \in 0 .. 0 /\ Iterates(upTo(0), op, base, 0)
      BY <1>1
    <3>2. upTo(0)[0] = base
      BY <3>1 DEF Iterates
    <3> QED BY <2>1, <3>2
  <2>2. CASE n # 0
    <3>1. n - 1 \in Nat /\ n - 1 <= n - 1 /\ n - 1 <= n /\ n \in 0 .. n
      BY <2>2
    <3>2. upTo(n)[n] = op[<<n, upTo(n)[n - 1]>>]
      BY <1>1, <2>2, <3>1 DEF Iterates
    <3>3. upTo(n)[n - 1] = upTo(n - 1)[n - 1]
      <4>1. Iterates(upTo(n), op, base, n) /\ Iterates(upTo(n - 1), op, base, n - 1)
        BY <1>1, <3>1
      <4> QED BY <3>1, <4>1, SameIterates
    <3> QED BY <2>2, <3>1, <3>2, <3>3
  <2> QED BY <2>1, <2>2
<1> HIDE DEF f
<1> QED BY <1>2, <1>3
================================================================================
