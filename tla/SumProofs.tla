------------------------------- MODULE SumProofs -------------------------------
(***************************************************************************)
(* What the sum of a function over a finite set does, for the proofs about *)
(* the books of the ledger: every total the code computes with a SUM query *)
(* or a fold over rows (getActiveReservedAmount,                           *)
(* recomputeAndPersistEntryAggregates) is such a sum in the model.         *)
(*                                                                         *)
(* The induction theorems of the library take an operator, so every        *)
(* induction here is the argument of the least counterexample: a non-empty *)
(* set of naturals has a least element.                                    *)
(***************************************************************************)
EXTENDS Integers, FiniteSets, Functions, FiniteSetTheorems, WellFoundedInduction, TLAPS

(* A non-empty set of naturals has a least element. *)
LEMMA LeastNatural ==
  ASSUME NEW T, T \subseteq Nat, T # {}
  PROVE  \E n \in T : \A m \in T : n <= m
<1> DEFINE R == OpToRel(<, Nat)
<1>1. IsWellFoundedOn(R, Nat)
  BY NatLessThanWellFounded
<1>2. \A x, y \in Nat : <<y, x>> \in R <=> y < x
  BY DEF OpToRel
<1> HIDE DEF R
<1>3. PICK n \in T : \A m \in T : ~ (<<m, n>> \in R)
  BY <1>1, WFMin
<1>4. ASSUME NEW m \in T  PROVE n <= m
  <2>1. n \in Nat /\ m \in Nat
    OBVIOUS
  <2>2. ~ (m < n)
    BY <1>2, <1>3, <2>1, Zenon
  <2> QED BY <2>1, <2>2
<1> QED BY <1>4

(* Induction over the subsets of a finite set, as a fact about a set G of them. *)
LEMMA SubsetInduction ==
  ASSUME NEW S, IsFiniteSet(S), NEW G, {} \in G,
         \A T \in SUBSET S, x \in S : T \in G /\ x \notin T => T \cup {x} \in G
  PROVE  \A T \in SUBSET S : T \in G
<1> DEFINE Bad == {n \in Nat : \E T \in SUBSET S : Cardinality(T) = n /\ T \notin G}
<1>1. \A T \in SUBSET S : IsFiniteSet(T) /\ Cardinality(T) \in Nat
  BY FS_Subset, FS_CardinalityType
<1>2. SUFFICES Bad = {}
  BY <1>1
<1>3. SUFFICES ASSUME Bad # {}  PROVE FALSE
  OBVIOUS
<1>4. PICK n \in Bad : \A m \in Bad : n <= m
  BY <1>3, LeastNatural
<1>5. PICK T \in SUBSET S : Cardinality(T) = n /\ T \notin G
  BY <1>4
<1>6. PICK x \in T : TRUE
  BY <1>5
<1>7. /\ T \ {x} \in SUBSET S
      /\ Cardinality(T \ {x}) = n - 1
      /\ n - 1 \in Nat
  <2>1. T \ {x} \in SUBSET S
    OBVIOUS
  <2>2. Cardinality(T \ {x}) = Cardinality(T) - 1
    BY <1>1, FS_RemoveElement
  <2> QED BY <1>1, <1>5, <2>1, <2>2
<1>8. T \ {x} \in G
  BY <1>4, <1>7
<1>9. T = (T \ {x}) \cup {x} /\ x \in S /\ x \notin T \ {x}
  BY <1>6
<1> QED BY <1>5, <1>7, <1>8, <1>9

-----------------------------------------------------------------------------
(* SumFunctionOnSet is defined by a choice of an element and a recursion on the rest; *)
(* the recursion has a solution on the subsets of a finite set, and only one.         *)

(* The element the recursion takes. *)
Pick(s) == CHOOSE x \in s : TRUE
(* g sums f over every set of D. *)
Sums(g, f, D) == g = [s \in D |-> IF s = {} THEN 0 ELSE f[Pick(s)] + g[s \ {Pick(s)}]]

(* The sum is the value of the chosen solution. *)
LEMMA Unfold ==
  ASSUME NEW f, NEW S
  PROVE  SumFunctionOnSet(f, S) = (CHOOSE g : Sums(g, f, SUBSET S))[S]
  BY DEF SumFunctionOnSet, FoldFunctionOnSet, MapThenFoldSet, Sums, Pick

(* The element taken is one of the set. *)
LEMMA Picked == \A s : s # {} => Pick(s) \in s
  BY DEF Pick

(* The sums exist. *)
LEMMA SumsExist ==
  ASSUME NEW S, IsFiniteSet(S), NEW f
  PROVE  \E g : Sums(g, f, SUBSET S)
<1> DEFINE Small(n) == {s \in SUBSET S : Cardinality(s) <= n}
           Bad == {n \in Nat : ~ \E g : Sums(g, f, Small(n))}
<1>1. \A s \in SUBSET S : IsFiniteSet(s) /\ Cardinality(s) \in Nat /\ Cardinality(s) <= Cardinality(S)
  BY FS_Subset, FS_CardinalityType
<1>2. Cardinality(S) \in Nat /\ Small(Cardinality(S)) = SUBSET S
  BY <1>1, FS_CardinalityType
<1>3. SUFFICES Bad = {}
  BY <1>2
<1>4. SUFFICES ASSUME Bad # {}  PROVE FALSE
  OBVIOUS
<1>5. PICK n \in Bad : \A m \in Bad : n <= m
  BY <1>4, LeastNatural
<1>6. n # 0
  <2> DEFINE g == [s \in Small(0) |-> 0]
  <2>1. \A s \in Small(0) : s = {}
    BY <1>1, FS_EmptySet
  <2>2. Sums(g, f, Small(0))
    BY <2>1 DEF Sums
  <2> QED BY <1>5, <2>2
<1>7. n - 1 \in Nat /\ n - 1 \notin Bad
  <2>1. n - 1 \in Nat
    BY <1>5, <1>6
  <2>2. ~ (n <= n - 1)
    BY <1>5
  <2> QED BY <1>5, <2>1, <2>2
<1>8. PICK g : Sums(g, f, Small(n - 1))
  BY <1>7
<1> DEFINE h == [s \in Small(n) |-> IF s = {} THEN 0 ELSE f[Pick(s)] + g[s \ {Pick(s)}]]
<1>9. \A s \in Small(n) : s # {} => s \ {Pick(s)} \in Small(n - 1) /\ s \ {Pick(s)} \in Small(n)
  BY <1>1, <1>7, Picked, FS_RemoveElement
<1>10. \A s \in Small(n - 1) : g[s] = IF s = {} THEN 0 ELSE f[Pick(s)] + g[s \ {Pick(s)}]
  <2> HIDE DEF Small
  <2> QED BY <1>8 DEF Sums
<1>11. \A s \in Small(n - 1) : s \in Small(n)
  BY <1>1, <1>7
<1>12. \A s \in Small(n - 1) : h[s] = g[s]
  <2> HIDE DEF Small
  <2> QED BY <1>10, <1>11
<1>13. Sums(h, f, Small(n))
  <2>1. h = [s \in Small(n) |-> IF s = {} THEN 0 ELSE f[Pick(s)] + h[s \ {Pick(s)}]]
    <3> HIDE DEF Small
    <3>1. \A s \in Small(n) : s # {} => h[s \ {Pick(s)}] = g[s \ {Pick(s)}]
      BY <1>9, <1>12
    <3> QED BY <3>1
  <2> HIDE DEF h, Small
  <2> QED BY <2>1 DEF Sums
<1> QED BY <1>5, <1>13

(* ... and agree wherever they are both defined. *)
LEMMA SumsAgree ==
  ASSUME NEW S, IsFiniteSet(S), NEW T \in SUBSET S, NEW f, NEW g, NEW h,
         Sums(g, f, SUBSET S), Sums(h, f, SUBSET T)
  PROVE  h[T] = g[T]
<1> DEFINE Bad == {n \in Nat : \E s \in SUBSET T : Cardinality(s) = n /\ h[s] # g[s]}
<1>1. \A s \in SUBSET T : IsFiniteSet(s) /\ Cardinality(s) \in Nat
  BY FS_Subset, FS_CardinalityType
<1>2. SUFFICES ASSUME Bad # {}  PROVE FALSE
  BY <1>1
<1>3. PICK n \in Bad : \A m \in Bad : n <= m
  BY <1>2, LeastNatural
<1>4. PICK s \in SUBSET T : Cardinality(s) = n /\ h[s] # g[s]
  BY <1>3
<1>5. /\ h[s] = IF s = {} THEN 0 ELSE f[Pick(s)] + h[s \ {Pick(s)}]
      /\ g[s] = IF s = {} THEN 0 ELSE f[Pick(s)] + g[s \ {Pick(s)}]
  BY DEF Sums
<1>6. s # {}
  BY <1>4, <1>5
<1>7. s \ {Pick(s)} \in SUBSET T /\ Cardinality(s \ {Pick(s)}) = n - 1 /\ n - 1 \in Nat
  <2>1. s \ {Pick(s)} \in SUBSET T
    OBVIOUS
  <2>2. Pick(s) \in s
    BY <1>6, Picked
  <2>3. Cardinality(s \ {Pick(s)}) = Cardinality(s) - 1
    BY <1>1, <2>2, FS_RemoveElement
  <2> QED BY <1>1, <1>4, <2>1, <2>3
<1>8. n - 1 \notin Bad
  BY <1>3, <1>7
<1>9. h[s \ {Pick(s)}] = g[s \ {Pick(s)}]
  BY <1>7, <1>8
<1> QED BY <1>4, <1>5, <1>9

(* So any solution on a larger set gives the sum. *)
LEMMA SumIsAnySum ==
  ASSUME NEW S, IsFiniteSet(S), NEW T \in SUBSET S, NEW f, NEW g, Sums(g, f, SUBSET S)
  PROVE  SumFunctionOnSet(f, T) = g[T]
<1>1. IsFiniteSet(T)
  BY FS_Subset
<1>2. Sums(CHOOSE h : Sums(h, f, SUBSET T), f, SUBSET T)
  BY <1>1, SumsExist
<1>3. PICK h : h = (CHOOSE k : Sums(k, f, SUBSET T)) /\ Sums(h, f, SUBSET T)
  BY <1>2
<1>4. h[T] = g[T]
  BY <1>3, SumsAgree
<1> QED BY <1>3, <1>4, Unfold

(* The recursion of SumFunctionOnSet. *)
LEMMA SumRecursion ==
  ASSUME NEW f, NEW S, IsFiniteSet(S)
  PROVE  SumFunctionOnSet(f, S) =
           IF S = {} THEN 0 ELSE f[Pick(S)] + SumFunctionOnSet(f, S \ {Pick(S)})
<1>1. PICK g : Sums(g, f, SUBSET S)
  BY SumsExist
<1>2. g[S] = IF S = {} THEN 0 ELSE f[Pick(S)] + g[S \ {Pick(S)}]
  BY <1>1 DEF Sums
<1>3. SumFunctionOnSet(f, S) = g[S]
  BY <1>1, SumIsAnySum
<1>4. SumFunctionOnSet(f, S \ {Pick(S)}) = g[S \ {Pick(S)}]
  BY <1>1, SumIsAnySum
<1> QED BY <1>2, <1>3, <1>4

(* Nothing adds up to zero. *)
LEMMA EmptySum ==
  ASSUME NEW f  PROVE SumFunctionOnSet(f, {}) = 0
  BY SumRecursion, FS_EmptySet

-----------------------------------------------------------------------------
(* The sum of integers is an integer. *)
LEMMA SumType ==
  ASSUME NEW S, IsFiniteSet(S), NEW f, \A x \in S : f[x] \in Int
  PROVE  SumFunctionOnSet(f, S) \in Int
<1> DEFINE Bad == {n \in Nat : \E T \in SUBSET S : Cardinality(T) = n /\ SumFunctionOnSet(f, T) \notin Int}
<1>1. \A s \in SUBSET S : IsFiniteSet(s) /\ Cardinality(s) \in Nat
  BY FS_Subset, FS_CardinalityType
<1>2. SUFFICES ASSUME Bad # {}  PROVE FALSE
  BY <1>1
<1>3. PICK n \in Bad : \A m \in Bad : n <= m
  BY <1>2, LeastNatural
<1>4. PICK T \in SUBSET S : Cardinality(T) = n /\ SumFunctionOnSet(f, T) \notin Int
  BY <1>3
<1>5. SumFunctionOnSet(f, T) = IF T = {} THEN 0 ELSE f[Pick(T)] + SumFunctionOnSet(f, T \ {Pick(T)})
  BY <1>1, SumRecursion
<1>6. T # {} /\ Pick(T) \in T
  BY <1>4, <1>5, Picked
<1>7. T \ {Pick(T)} \in SUBSET S /\ Cardinality(T \ {Pick(T)}) = n - 1 /\ n - 1 \in Nat /\ ~(n <= n - 1)
  <2>2. Cardinality(T \ {Pick(T)}) = Cardinality(T) - 1
    BY <1>1, <1>6, FS_RemoveElement
  <2> QED BY <1>1, <1>4, <2>2
<1>8. SumFunctionOnSet(f, T \ {Pick(T)}) \in Int
  BY <1>3, <1>7
<1>9. f[Pick(T)] \in Int
  BY <1>6
<1> QED BY <1>4, <1>5, <1>6, <1>8, <1>9

(* Any element can be taken out of a sum, not only the one the recursion takes. *)
LEMMA SumTakeOut ==
  ASSUME NEW S, IsFiniteSet(S), NEW f, \A x \in S : f[x] \in Int, NEW x \in S
  PROVE  SumFunctionOnSet(f, S) = f[x] + SumFunctionOnSet(f, S \ {x})
<1> DEFINE Sum(T) == SumFunctionOnSet(f, T)
           Bad == {n \in Nat : \E T \in SUBSET S : Cardinality(T) = n /\ \E y \in T : Sum(T) # f[y] + Sum(T \ {y})}
<1>1. \A s \in SUBSET S : IsFiniteSet(s) /\ Cardinality(s) \in Nat
  BY FS_Subset, FS_CardinalityType
<1>2. SUFFICES ASSUME Bad # {}  PROVE FALSE
  BY <1>1
<1>3. PICK n \in Bad : \A m \in Bad : n <= m
  BY <1>2, LeastNatural
<1>4. PICK T \in SUBSET S : Cardinality(T) = n /\ \E y \in T : Sum(T) # f[y] + Sum(T \ {y})
  BY <1>3
<1>5. PICK y \in T : Sum(T) # f[y] + Sum(T \ {y})
  BY <1>4
<1> DEFINE p == Pick(T)
<1>6. Sum(T) = f[p] + Sum(T \ {p})
  BY <1>1, <1>5, SumRecursion
<1>7. p \in T /\ p # y
  BY <1>5, <1>6, Picked
<1>8. T \ {p} \in SUBSET S /\ Cardinality(T \ {p}) = n - 1 /\ n - 1 \in Nat /\ ~(n <= n - 1)
  <2>2. Cardinality(T \ {p}) = Cardinality(T) - 1
    BY <1>1, <1>7, FS_RemoveElement
  <2> QED BY <1>1, <1>4, <2>2
<1>9. T \ {y} \in SUBSET S /\ Cardinality(T \ {y}) = n - 1
  <2>2. Cardinality(T \ {y}) = Cardinality(T) - 1
    BY <1>1, <1>5, FS_RemoveElement
  <2> QED BY <1>1, <1>4, <2>2
<1> HIDE DEF p
<1>10. Sum(T \ {p}) = f[y] + Sum((T \ {p}) \ {y})
  <2>1. y \in T \ {p}
    BY <1>7
  <2> QED BY <1>3, <1>8, <2>1
<1>11. Sum(T \ {y}) = f[p] + Sum((T \ {y}) \ {p})
  <2>1. p \in T \ {y}
    BY <1>7
  <2> QED BY <1>3, <1>8, <1>9, <2>1
<1>12. (T \ {p}) \ {y} = (T \ {y}) \ {p}
  OBVIOUS
<1>13. f[p] \in Int /\ f[y] \in Int /\ Sum((T \ {p}) \ {y}) \in Int
  <2>1. (T \ {p}) \ {y} \in SUBSET S
    OBVIOUS
  <2> QED BY <1>1, <1>7, <2>1, SumType
<1>14. Sum(T) = f[y] + Sum(T \ {y})
  <2>1. PICK r \in Int : r = Sum((T \ {p}) \ {y})
    BY <1>13
  <2>2. Sum(T \ {p}) = f[y] + r
    BY <1>10, <2>1
  <2>3. Sum(T \ {y}) = f[p] + r
    BY <1>11, <1>12, <2>1
  <2>4. Sum(T) = f[p] + (f[y] + r)
    BY <1>6, <2>2
  <2>5. f[p] + (f[y] + r) = f[y] + (f[p] + r)
    BY <1>13, <2>1
  <2> QED BY <2>3, <2>4, <2>5
<1> QED BY <1>5, <1>14

-----------------------------------------------------------------------------
(* Sums of functions that agree. *)
LEMMA SumSame ==
  ASSUME NEW S, IsFiniteSet(S), NEW f, NEW g,
         \A x \in S : f[x] \in Int, \A x \in S : g[x] = f[x]
  PROVE  SumFunctionOnSet(g, S) = SumFunctionOnSet(f, S)
<1> DEFINE G == {T \in SUBSET S : SumFunctionOnSet(g, T) = SumFunctionOnSet(f, T)}
<1>1. {} \in G
  BY EmptySum
<1>2. ASSUME NEW T \in SUBSET S, NEW x \in S, T \in G, x \notin T
      PROVE  T \cup {x} \in G
  <2>1. IsFiniteSet(T \cup {x}) /\ T \cup {x} \in SUBSET S
    BY FS_Subset
  <2>2. (T \cup {x}) \ {x} = T
    BY <1>2
  <2>3. SumFunctionOnSet(f, T \cup {x}) = f[x] + SumFunctionOnSet(f, T)
    BY <2>1, <2>2, SumTakeOut
  <2>4. SumFunctionOnSet(g, T \cup {x}) = g[x] + SumFunctionOnSet(g, T)
    BY <2>1, <2>2, SumTakeOut
  <2> QED BY <1>2, <2>1, <2>3, <2>4
<1>3. S \in G
  <2> HIDE DEF G
  <2> QED BY <1>1, <1>2, SubsetInduction
<1> QED BY <1>3

(* ... and of a function that is nowhere greater than another. *)
LEMMA SumMonotone ==
  ASSUME NEW S, IsFiniteSet(S), NEW f, NEW g,
         \A x \in S : f[x] \in Int /\ g[x] \in Int /\ g[x] <= f[x]
  PROVE  SumFunctionOnSet(g, S) <= SumFunctionOnSet(f, S)
<1> DEFINE G == {T \in SUBSET S : /\ SumFunctionOnSet(g, T) \in Int /\ SumFunctionOnSet(f, T) \in Int
                                  /\ SumFunctionOnSet(g, T) <= SumFunctionOnSet(f, T)}
<1>1. {} \in G
  BY EmptySum
<1>2. ASSUME NEW T \in SUBSET S, NEW x \in S, T \in G, x \notin T
      PROVE  T \cup {x} \in G
  <2>1. IsFiniteSet(T \cup {x}) /\ T \cup {x} \in SUBSET S
    BY FS_Subset
  <2>2. (T \cup {x}) \ {x} = T
    BY <1>2
  <2>3. SumFunctionOnSet(f, T \cup {x}) = f[x] + SumFunctionOnSet(f, T)
    BY <2>1, <2>2, SumTakeOut
  <2>4. SumFunctionOnSet(g, T \cup {x}) = g[x] + SumFunctionOnSet(g, T)
    BY <2>1, <2>2, SumTakeOut
  <2> QED BY <1>2, <2>1, <2>3, <2>4
<1>3. S \in G
  <2> HIDE DEF G
  <2> QED BY <1>1, <1>2, SubsetInduction
<1> QED BY <1>3

(* ... and of functions that differ at one argument at most. *)
LEMMA SumChange ==
  ASSUME NEW S, IsFiniteSet(S), NEW f, NEW g, NEW x \in S,
         \A y \in S : f[y] \in Int, \A y \in S : g[y] \in Int,
         \A y \in S : y # x => g[y] = f[y]
  PROVE  SumFunctionOnSet(g, S) = SumFunctionOnSet(f, S) - f[x] + g[x]
<1>1. IsFiniteSet(S \ {x})
  BY FS_RemoveElement
<1>2. SumFunctionOnSet(g, S \ {x}) = SumFunctionOnSet(f, S \ {x})
  BY <1>1, SumSame
<1>3. SumFunctionOnSet(g, S) = g[x] + SumFunctionOnSet(g, S \ {x})
  BY SumTakeOut
<1>4. SumFunctionOnSet(f, S) = f[x] + SumFunctionOnSet(f, S \ {x})
  BY SumTakeOut
<1>5. SumFunctionOnSet(f, S \ {x}) \in Int
  BY <1>1, SumType
<1> QED BY <1>2, <1>3, <1>4, <1>5

(* A sum of naturals is no less than any of them. *)
LEMMA SumOfNaturals ==
  ASSUME NEW S, IsFiniteSet(S), NEW f, \A x \in S : f[x] \in Nat
  PROVE  /\ SumFunctionOnSet(f, S) \in Nat
         /\ \A x \in S : f[x] <= SumFunctionOnSet(f, S)
<1> DEFINE G == {T \in SUBSET S : SumFunctionOnSet(f, T) \in Nat}
<1>1. {} \in G
  BY EmptySum
<1>2. ASSUME NEW T \in SUBSET S, NEW x \in S, T \in G, x \notin T
      PROVE  T \cup {x} \in G
  <2>1. IsFiniteSet(T \cup {x}) /\ T \cup {x} \in SUBSET S
    BY FS_Subset
  <2>2. (T \cup {x}) \ {x} = T
    BY <1>2
  <2>3. SumFunctionOnSet(f, T \cup {x}) = f[x] + SumFunctionOnSet(f, T)
    BY <2>1, <2>2, SumTakeOut
  <2> QED BY <1>2, <2>1, <2>3
<1>3. \A T \in SUBSET S : T \in G
  <2> HIDE DEF G
  <2> QED BY <1>1, <1>2, SubsetInduction
<1>4. ASSUME NEW x \in S  PROVE f[x] <= SumFunctionOnSet(f, S)
  <2>1. SumFunctionOnSet(f, S) = f[x] + SumFunctionOnSet(f, S \ {x})
    BY SumTakeOut
  <2>2. SumFunctionOnSet(f, S \ {x}) \in Nat
    BY <1>3
  <2> QED BY <2>1, <2>2
<1> QED BY <1>3, <1>4

(* A sum of zeros is zero. *)
LEMMA SumOfZeros ==
  ASSUME NEW S, IsFiniteSet(S), NEW f, \A x \in S : f[x] = 0
  PROVE  SumFunctionOnSet(f, S) = 0
<1> DEFINE G == {T \in SUBSET S : SumFunctionOnSet(f, T) = 0}
<1>1. {} \in G
  BY EmptySum
<1>2. ASSUME NEW T \in SUBSET S, NEW x \in S, T \in G, x \notin T
      PROVE  T \cup {x} \in G
  <2>1. IsFiniteSet(T \cup {x}) /\ T \cup {x} \in SUBSET S
    BY FS_Subset
  <2>2. (T \cup {x}) \ {x} = T
    BY <1>2
  <2>3. SumFunctionOnSet(f, T \cup {x}) = f[x] + SumFunctionOnSet(f, T)
    BY <2>1, <2>2, SumTakeOut
  <2> QED BY <1>2, <2>1, <2>3
<1>3. S \in G
  <2> HIDE DEF G
  <2> QED BY <1>1, <1>2, SubsetInduction
<1> QED BY <1>3

=============================================================================
