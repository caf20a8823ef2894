------------------------------ MODULE SumTheorems -----------------------------
(***************************************************************************)
(* Facts about the sum of the values of a function over a finite set of its *)
(* arguments: the quantities of the lines of documents.  The sum is a fold, *)
(* a function defined by recursion over the subsets of a set; what holds of *)
(* it for every set is shown by looking at a smallest counterexample.       *)
(* Sums over tables and over selected lines, and counts, follow from it.    *)
(***************************************************************************)
EXTENDS Integers, Sequences, Functions, FiniteSets, FiniteSetTheorems, WellFoundedInduction, TLAPS

-----------------------------------------------------------------------------
(***************************************************************************)
(* The sum is well defined.                                                *)
(***************************************************************************)

\* Among sets of subsets of a finite set there is one that is smallest.
LEMMA SmallestSubset ==
    ASSUME NEW S, IsFiniteSet(S), NEW Bad, Bad \subseteq SUBSET S, Bad # {}
    PROVE  \E T \in Bad : \A U \in Bad : U \subseteq T => U = T
<1>1. IsWellFoundedOn(StrictSubsetOrdering(S), FiniteSubsetsOf(S))
  BY FS_StrictSubsetOrderingWellFounded
<1>2. \A T \in SUBSET S : IsFiniteSet(T)
  BY FS_Subset
<1>3. Bad \subseteq FiniteSubsetsOf(S)
  BY <1>2 DEF FiniteSubsetsOf
<1>4. PICK T \in Bad : \A U \in Bad : <<U, T>> \notin StrictSubsetOrdering(S)
  BY <1>1, <1>3, WFMin
<1>5. ASSUME NEW U \in Bad, U \subseteq T PROVE U = T
  BY <1>4, <1>5 DEF StrictSubsetOrdering
<1>6. QED
  BY <1>5

\* A function has a largest value on a finite set.
LEMMA Largest ==
    ASSUME NEW S, IsFiniteSet(S), S # {}, NEW f, \A x \in S : f[x] \in Int
    PROVE  \E x \in S : \A y \in S : f[y] <= f[x]
<1> DEFINE Bad == {T \in SUBSET S : T # {} /\ ~\E x \in T : \A y \in T : f[y] <= f[x]}
<1> SUFFICES ASSUME Bad # {} PROVE FALSE
  OBVIOUS
<1>1. PICK T \in Bad : \A U \in Bad : U \subseteq T => U = T
  <2>1. Bad \subseteq SUBSET S
    OBVIOUS
  <2> HIDE DEF Bad
  <2>2. QED
    BY <2>1, SmallestSubset
<1>2. PICK x \in T : TRUE
  OBVIOUS
<1>3. T \ {x} \notin Bad
  BY <1>1, <1>2
<1>4. CASE T \ {x} = {}
  <2>1. \A y \in T : y = x /\ f[y] \in Int
    BY <1>4
  <2>2. \A y \in T : f[y] <= f[x]
    BY <1>2, <2>1
  <2>3. QED
    BY <1>2, <2>2
<1>5. CASE T \ {x} # {}
  <2>1. PICK m \in T \ {x} : \A y \in T \ {x} : f[y] <= f[m]
    BY <1>3, <1>5
  <2>2. f[x] \in Int /\ f[m] \in Int /\ \A y \in T : f[y] \in Int
    BY <1>2, <2>1
  <2>3. CASE f[x] <= f[m]
    BY <1>2, <2>1, <2>3
  <2>4. CASE f[m] <= f[x]
    <3>1. \A y \in T : f[y] <= f[x]
      BY <2>1, <2>2, <2>4
    <3>2. QED
      BY <1>2, <3>1
  <2>5. QED
    BY <2>2, <2>3, <2>4
<1>6. QED
  BY <1>4, <1>5

\* Of finitely many numbers one is the least.
LEMMA LeastOf ==
    ASSUME NEW N \in Nat, NEW Bad \in SUBSET (0..N), Bad # {}
    PROVE  \E n \in Bad : \A i \in Bad : n <= i
<1> DEFINE f == [n \in Bad |-> -n]
<1>1. IsFiniteSet(0..N)
  BY FS_Interval
<1>2. IsFiniteSet(Bad)
  BY <1>1, FS_Subset
<1>3. \A n \in Bad : f[n] \in Int /\ f[n] = -n /\ n \in Int
  OBVIOUS
<1> HIDE DEF f
<1>4. PICK n \in Bad : \A i \in Bad : f[i] <= f[n]
  BY <1>2, <1>3, Largest
<1>5. QED
  BY <1>3, <1>4

Drawn(T) == CHOOSE x \in T : TRUE

\* g is the fold of f over the subsets of S.
Folds(g, f, S) ==
    g = [T \in SUBSET S |-> IF T = {} THEN 0 ELSE f[Drawn(T)] + g[T \ {Drawn(T)}]]

LEMMA SumIsFold ==
    ASSUME NEW f, NEW S
    PROVE  SumFunctionOnSet(f, S) = (CHOOSE g : Folds(g, f, S))[S]
BY DEF SumFunctionOnSet, FoldFunctionOnSet, MapThenFoldSet, Folds, Drawn

LEMMA DrawnIn == ASSUME NEW T, T # {} PROVE Drawn(T) \in T
BY DEF Drawn

\* Two folds of one function agree where both are defined.
LEMMA FoldUnique ==
    ASSUME NEW S, IsFiniteSet(S), NEW f, NEW R, S \subseteq R, NEW g, NEW h,
           Folds(g, f, S), Folds(h, f, R)
    PROVE  \A T \in SUBSET S : g[T] = h[T]
<1> DEFINE Bad == {T \in SUBSET S : g[T] # h[T]}
<1> SUFFICES ASSUME Bad # {} PROVE FALSE
  OBVIOUS
<1>1. PICK T \in Bad : \A U \in Bad : U \subseteq T => U = T
  <2>1. Bad \subseteq SUBSET S
    OBVIOUS
  <2> HIDE DEF Bad
  <2>2. QED
    BY <2>1, SmallestSubset
<1>2. T # {}
  BY DEF Folds
<1>3. T \ {Drawn(T)} \in SUBSET S /\ T \ {Drawn(T)} \notin Bad
  BY <1>1, <1>2, DrawnIn
<1>4. g[T \ {Drawn(T)}] = h[T \ {Drawn(T)}]
  BY <1>3
<1>5. g[T] = f[Drawn(T)] + g[T \ {Drawn(T)}] /\ h[T] = f[Drawn(T)] + h[T \ {Drawn(T)}]
  BY <1>2 DEF Folds
<1>6. QED
  BY <1>4, <1>5

\* What the fold over R of a subset S of R is does not depend on R.
LEMMA FoldOf ==
    ASSUME NEW R, IsFiniteSet(R), NEW f, NEW g, Folds(g, f, R), NEW S \in SUBSET R
    PROVE  g[S] = SumFunctionOnSet(f, S)
<1> DEFINE h == [T \in SUBSET S |-> g[T]]
<1> DEFINE k == CHOOSE c : Folds(c, f, S)
<1>1. IsFiniteSet(S)
  BY FS_Subset
<1>2. Folds(h, f, S)
  <2>1. ASSUME NEW T \in SUBSET S
        PROVE  h[T] = IF T = {} THEN 0 ELSE f[Drawn(T)] + h[T \ {Drawn(T)}]
    <3>1. T \in SUBSET R /\ T \ {Drawn(T)} \in SUBSET S
      OBVIOUS
    <3>2. g[T] = IF T = {} THEN 0 ELSE f[Drawn(T)] + g[T \ {Drawn(T)}]
      BY <3>1 DEF Folds
    <3>3. QED
      BY <3>1, <3>2
  <2>2. QED
    BY <2>1 DEF Folds
<1>3. Folds(k, f, S)
  BY <1>2
<1>4. k[S] = g[S]
  BY <1>1, <1>3, FoldUnique
<1>5. QED
  BY <1>4, SumIsFold

LEMMA FoldExists ==
    ASSUME NEW S, IsFiniteSet(S), NEW f
    PROVE  \E g : Folds(g, f, S)
<1> DEFINE Bad == {T \in SUBSET S : ~\E g : Folds(g, f, T)}
<1> SUFFICES ASSUME Bad # {} PROVE FALSE
  OBVIOUS
<1>1. PICK T \in Bad : \A U \in Bad : U \subseteq T => U = T
  <2>1. Bad \subseteq SUBSET S
    OBVIOUS
  <2> HIDE DEF Bad
  <2>2. QED
    BY <2>1, SmallestSubset
<1>2. ASSUME NEW U \in SUBSET T, U # T PROVE \E g : Folds(g, f, U)
  BY <1>1, <1>2
<1> DEFINE s == [U \in SUBSET T |-> SumFunctionOnSet(f, U)]
<1> DEFINE h == [U \in SUBSET T |-> IF U = {} THEN 0
                                   ELSE f[Drawn(U)] + SumFunctionOnSet(f, U \ {Drawn(U)})]
<1>3. ASSUME NEW U \in SUBSET T, U # T PROVE h[U] = SumFunctionOnSet(f, U)
  <2>1. PICK g : Folds(g, f, U)
    BY <1>2, <1>3
  <2>2. IsFiniteSet(U)
    BY FS_Subset
  <2>3. g[U] = SumFunctionOnSet(f, U)
    BY <2>1, <2>2, FoldOf
  <2>4. g[U \ {Drawn(U)}] = SumFunctionOnSet(f, U \ {Drawn(U)})
    BY <2>1, <2>2, FoldOf
  <2>5. g[U] = IF U = {} THEN 0 ELSE f[Drawn(U)] + g[U \ {Drawn(U)}]
    BY <2>1 DEF Folds
  <2>6. QED
    BY <2>3, <2>4, <2>5
<1>4. ASSUME NEW U \in SUBSET T
      PROVE  h[U] = IF U = {} THEN 0 ELSE f[Drawn(U)] + h[U \ {Drawn(U)}]
  <2>1. CASE U = {}
    BY <2>1
  <2>2. CASE U # {}
    <3>1. U \ {Drawn(U)} \in SUBSET T /\ U \ {Drawn(U)} # T
      BY <2>2, DrawnIn
    <3>2. h[U \ {Drawn(U)}] = SumFunctionOnSet(f, U \ {Drawn(U)})
      BY <1>3, <3>1
    <3>3. QED
      BY <2>2, <3>2
  <2>3. QED
    BY <2>1, <2>2
<1>5. Folds(h, f, T)
  BY <1>4 DEF Folds
<1>6. QED
  BY <1>1, <1>5

-----------------------------------------------------------------------------
(***************************************************************************)
(* The sum, one argument at a time.                                        *)
(***************************************************************************)

\* Nothing adds up to nothing.
LEMMA SumEmpty == \A f : SumFunctionOnSet(f, {}) = 0
<1> TAKE f
<1>1. PICK g : Folds(g, f, {})
  BY FoldExists, FS_EmptySet
<1>2. g[{}] = 0
  BY <1>1 DEF Folds
<1>3. QED
  BY <1>1, <1>2, FoldOf, FS_EmptySet

LEMMA SumPicked ==
    ASSUME NEW S, IsFiniteSet(S), S # {}, NEW f
    PROVE  SumFunctionOnSet(f, S) = f[Drawn(S)] + SumFunctionOnSet(f, S \ {Drawn(S)})
<1>1. PICK g : Folds(g, f, S)
  BY FoldExists
<1>2. g[S] = f[Drawn(S)] + g[S \ {Drawn(S)}]
  BY <1>1 DEF Folds
<1>3. QED
  BY <1>1, <1>2, FoldOf

\* A sum of integers is an integer.
LEMMA SumInt ==
    ASSUME NEW S, IsFiniteSet(S), NEW f, \A x \in S : f[x] \in Int
    PROVE  SumFunctionOnSet(f, S) \in Int
<1> DEFINE Bad == {T \in SUBSET S : SumFunctionOnSet(f, T) \notin Int}
<1> SUFFICES ASSUME Bad # {} PROVE FALSE
  OBVIOUS
<1>1. PICK T \in Bad : \A U \in Bad : U \subseteq T => U = T
  <2>1. Bad \subseteq SUBSET S
    OBVIOUS
  <2> HIDE DEF Bad
  <2>2. QED
    BY <2>1, SmallestSubset
<1>2. T # {} /\ IsFiniteSet(T)
  <2>1. SumFunctionOnSet(f, T) \notin Int /\ T \in SUBSET S
    OBVIOUS
  <2>2. T # {}
    BY <2>1, SumEmpty
  <2>3. IsFiniteSet(T)
    BY <2>1, FS_Subset
  <2>4. QED
    BY <2>2, <2>3
<1>3. SumFunctionOnSet(f, T) = f[Drawn(T)] + SumFunctionOnSet(f, T \ {Drawn(T)})
  BY <1>2, SumPicked
<1>4. Drawn(T) \in S /\ T \ {Drawn(T)} \in SUBSET S /\ T \ {Drawn(T)} \notin Bad
  BY <1>1, <1>2, DrawnIn
<1>5. QED
  BY <1>3, <1>4

\* Any one argument can be taken out of a sum.
LEMMA SumTakeOut ==
    ASSUME NEW S, IsFiniteSet(S), NEW f, \A x \in S : f[x] \in Int, NEW a \in S
    PROVE  SumFunctionOnSet(f, S) = f[a] + SumFunctionOnSet(f, S \ {a})
<1> DEFINE Bad == {T \in SUBSET S :
                     \E x \in T : SumFunctionOnSet(f, T) # f[x] + SumFunctionOnSet(f, T \ {x})}
<1> SUFFICES ASSUME Bad # {} PROVE FALSE
  OBVIOUS
<1>1. PICK T \in Bad : \A U \in Bad : U \subseteq T => U = T
  <2>1. Bad \subseteq SUBSET S
    OBVIOUS
  <2> HIDE DEF Bad
  <2>2. QED
    BY <2>1, SmallestSubset
<1>2. PICK x \in T : SumFunctionOnSet(f, T) # f[x] + SumFunctionOnSet(f, T \ {x})
  OBVIOUS
<1> DEFINE p == Drawn(T)
<1>3. p \in T /\ IsFiniteSet(T)
  BY DrawnIn, FS_Subset
<1>4. SumFunctionOnSet(f, T) = f[p] + SumFunctionOnSet(f, T \ {p})
  BY <1>3, SumPicked
<1>5. x # p
  BY <1>2, <1>4
<1> HIDE DEF p
<1>6. T \ {p} \notin Bad /\ T \ {x} \notin Bad
  BY <1>1, <1>3
<1>7. SumFunctionOnSet(f, T \ {p}) = f[x] + SumFunctionOnSet(f, (T \ {p}) \ {x})
  BY <1>5, <1>6
<1>8. SumFunctionOnSet(f, T \ {x}) = f[p] + SumFunctionOnSet(f, (T \ {x}) \ {p})
  BY <1>3, <1>5, <1>6
<1>9. (T \ {p}) \ {x} = (T \ {x}) \ {p}
  OBVIOUS
<1>10. SumFunctionOnSet(f, (T \ {p}) \ {x}) \in Int
  <2>1. IsFiniteSet((T \ {p}) \ {x})
    BY <1>3, FS_Subset
  <2>2. QED
    BY <2>1, SumInt
<1>11. f[x] \in Int /\ f[p] \in Int
  BY <1>3
<1>12. QED
  BY <1>2, <1>4, <1>7, <1>8, <1>9, <1>10, <1>11

-----------------------------------------------------------------------------
(***************************************************************************)
(* Sums that are compared with each other.                                 *)
(***************************************************************************)

\* Only the values on the set count.
LEMMA SumEqual ==
    ASSUME NEW S, IsFiniteSet(S), NEW f, NEW g, \A x \in S : f[x] = g[x]
    PROVE  SumFunctionOnSet(f, S) = SumFunctionOnSet(g, S)
<1> DEFINE Bad == {T \in SUBSET S : SumFunctionOnSet(f, T) # SumFunctionOnSet(g, T)}
<1> SUFFICES ASSUME Bad # {} PROVE FALSE
  OBVIOUS
<1>1. PICK T \in Bad : \A U \in Bad : U \subseteq T => U = T
  <2>1. Bad \subseteq SUBSET S
    OBVIOUS
  <2> HIDE DEF Bad
  <2>2. QED
    BY <2>1, SmallestSubset
<1>2. T # {}
  <2>1. SumFunctionOnSet(f, T) # SumFunctionOnSet(g, T)
    OBVIOUS
  <2>2. QED
    BY <2>1, SumEmpty
<1>3. IsFiniteSet(T)
  <2>1. T \in SUBSET S
    OBVIOUS
  <2>2. QED
    BY <2>1, FS_Subset
<1>4. /\ SumFunctionOnSet(f, T) = f[Drawn(T)] + SumFunctionOnSet(f, T \ {Drawn(T)})
      /\ SumFunctionOnSet(g, T) = g[Drawn(T)] + SumFunctionOnSet(g, T \ {Drawn(T)})
  BY <1>2, <1>3, SumPicked
<1>5. Drawn(T) \in S /\ T \ {Drawn(T)} \in SUBSET S /\ T \ {Drawn(T)} \notin Bad
  BY <1>1, <1>2, DrawnIn
<1>6. QED
  BY <1>4, <1>5

\* An argument that is not there yet is put in.
LEMMA SumPutIn ==
    ASSUME NEW S, IsFiniteSet(S), NEW a, a \notin S, NEW f, \A x \in S \cup {a} : f[x] \in Int
    PROVE  SumFunctionOnSet(f, S \cup {a}) = f[a] + SumFunctionOnSet(f, S)
<1>1. IsFiniteSet(S \cup {a}) /\ (S \cup {a}) \ {a} = S
  BY FS_AddElement
<1>2. QED
  BY <1>1, SumTakeOut

LEMMA SumOfOne ==
    ASSUME NEW a, NEW f, f[a] \in Int
    PROVE  SumFunctionOnSet(f, {a}) = f[a]
<1>1. IsFiniteSet({a}) /\ {a} \ {a} = {}
  BY FS_Singleton
<1>2. SumFunctionOnSet(f, {a}) = f[a] + SumFunctionOnSet(f, {a} \ {a})
  BY <1>1, SumTakeOut
<1>3. QED
  BY <1>1, <1>2, SumEmpty

\* Two sums over sets with nothing in common.
LEMMA SumUnion ==
    ASSUME NEW S, IsFiniteSet(S), NEW R, IsFiniteSet(R), S \cap R = {},
           NEW f, \A x \in S \cup R : f[x] \in Int
    PROVE  SumFunctionOnSet(f, S \cup R) = SumFunctionOnSet(f, S) + SumFunctionOnSet(f, R)
<1> DEFINE Bad == {T \in SUBSET S :
                     SumFunctionOnSet(f, T \cup R) # SumFunctionOnSet(f, T) + SumFunctionOnSet(f, R)}
<1> SUFFICES ASSUME Bad # {} PROVE FALSE
  OBVIOUS
<1>1. PICK T \in Bad : \A U \in Bad : U \subseteq T => U = T
  <2>1. Bad \subseteq SUBSET S
    OBVIOUS
  <2> HIDE DEF Bad
  <2>2. QED
    BY <2>1, SmallestSubset
<1>2. /\ T \in SUBSET S
      /\ SumFunctionOnSet(f, T \cup R) # SumFunctionOnSet(f, T) + SumFunctionOnSet(f, R)
  OBVIOUS
<1>3. IsFiniteSet(T) /\ SumFunctionOnSet(f, R) \in Int
  BY <1>2, FS_Subset, SumInt
<1>4. T # {}
  <2>1. SUFFICES ASSUME T = {} PROVE FALSE
    OBVIOUS
  <2>2. SumFunctionOnSet(f, T \cup R) = SumFunctionOnSet(f, R)
    <3>1. T \cup R = R
      BY <2>1
    <3>2. QED
      BY <3>1
  <2>3. SumFunctionOnSet(f, T) = 0
    BY <2>1, SumEmpty
  <2> HIDE DEF Bad
  <2>4. QED
    BY <1>2, <1>3, <2>2, <2>3
<1>5. PICK a \in T : TRUE
  BY <1>4
<1>6. /\ SumFunctionOnSet(f, T) = f[a] + SumFunctionOnSet(f, T \ {a})
      /\ SumFunctionOnSet(f, T \ {a}) \in Int
      /\ f[a] \in Int
  <2>1. IsFiniteSet(T \ {a})
    BY <1>3, FS_RemoveElement
  <2>2. QED
    BY <1>2, <1>3, <2>1, SumTakeOut, SumInt
<1>7. SumFunctionOnSet(f, T \cup R) = f[a] + SumFunctionOnSet(f, (T \ {a}) \cup R)
  <2>1. IsFiniteSet(T \cup R) /\ (T \cup R) \ {a} = (T \ {a}) \cup R
    BY <1>2, <1>3, FS_Union
  <2>2. QED
    BY <1>2, <2>1, SumTakeOut
<1>8. SumFunctionOnSet(f, (T \ {a}) \cup R) = SumFunctionOnSet(f, T \ {a}) + SumFunctionOnSet(f, R)
  <2>1. T \ {a} \in SUBSET S /\ T \ {a} # T /\ T \ {a} \subseteq T
    BY <1>2, <1>5
  <2>2. T \ {a} \notin Bad
    BY <1>1, <2>1
  <2>3. QED
    BY <2>1, <2>2
<1>9. QED
  BY <1>2, <1>3, <1>6, <1>7, <1>8

\* No value is below nothing, so that no sum is, and each value is within the sum.
LEMMA SumNat ==
    ASSUME NEW S, IsFiniteSet(S), NEW f, \A x \in S : f[x] \in Nat
    PROVE  /\ SumFunctionOnSet(f, S) \in Nat
           /\ \A x \in S : f[x] <= SumFunctionOnSet(f, S)
<1>1. \A T \in SUBSET S : SumFunctionOnSet(f, T) \in Nat
  <2> DEFINE Bad == {T \in SUBSET S : SumFunctionOnSet(f, T) \notin Nat}
  <2> SUFFICES ASSUME Bad # {} PROVE FALSE
    OBVIOUS
  <2>1. PICK T \in Bad : \A U \in Bad : U \subseteq T => U = T
    <3>1. Bad \subseteq SUBSET S
      OBVIOUS
    <3> HIDE DEF Bad
    <3>2. QED
      BY <3>1, SmallestSubset
  <2>2. T \in SUBSET S /\ SumFunctionOnSet(f, T) \notin Nat
    OBVIOUS
  <2>3. T # {}
    BY <2>2, SumEmpty
  <2>4. SumFunctionOnSet(f, T) = f[Drawn(T)] + SumFunctionOnSet(f, T \ {Drawn(T)})
    BY <2>2, <2>3, FS_Subset, SumPicked
  <2>5. SumFunctionOnSet(f, T \ {Drawn(T)}) \in Nat /\ f[Drawn(T)] \in Nat
    BY <2>1, <2>3, DrawnIn
  <2>6. QED
    BY <2>2, <2>4, <2>5
<1>2. ASSUME NEW a \in S PROVE f[a] <= SumFunctionOnSet(f, S)
  <2>1. SumFunctionOnSet(f, S) = f[a] + SumFunctionOnSet(f, S \ {a})
    BY SumTakeOut
  <2>2. SumFunctionOnSet(f, S \ {a}) \in Nat /\ f[a] \in Nat
    BY <1>1
  <2>3. QED
    BY <2>1, <2>2
<1>3. QED
  BY <1>1, <1>2

\* Smaller values make a smaller sum.
LEMMA SumMonotone ==
    ASSUME NEW S, IsFiniteSet(S), NEW f, NEW g,
           \A x \in S : f[x] \in Int /\ g[x] \in Int /\ f[x] <= g[x]
    PROVE  SumFunctionOnSet(f, S) <= SumFunctionOnSet(g, S)
<1> DEFINE Bad == {T \in SUBSET S : ~(SumFunctionOnSet(f, T) <= SumFunctionOnSet(g, T))}
<1> SUFFICES ASSUME Bad # {} PROVE FALSE
  OBVIOUS
<1>1. PICK T \in Bad : \A U \in Bad : U \subseteq T => U = T
  <2>1. Bad \subseteq SUBSET S
    OBVIOUS
  <2> HIDE DEF Bad
  <2>2. QED
    BY <2>1, SmallestSubset
<1>2. T \in SUBSET S /\ ~(SumFunctionOnSet(f, T) <= SumFunctionOnSet(g, T))
  OBVIOUS
<1>3. IsFiniteSet(T)
  BY <1>2, FS_Subset
<1>4. T # {}
  <2>1. SUFFICES ASSUME T = {} PROVE FALSE
    OBVIOUS
  <2>2. SumFunctionOnSet(f, T) = 0 /\ SumFunctionOnSet(g, T) = 0
    BY <2>1, SumEmpty
  <2> HIDE DEF Bad
  <2>3. QED
    BY <1>2, <2>2
<1> DEFINE p == Drawn(T)
<1>5. /\ SumFunctionOnSet(f, T) = f[p] + SumFunctionOnSet(f, T \ {p})
      /\ SumFunctionOnSet(g, T) = g[p] + SumFunctionOnSet(g, T \ {p})
  BY <1>3, <1>4, SumPicked
<1>6. p \in S /\ T \ {p} \in SUBSET S /\ T \ {p} \notin Bad
  BY <1>1, <1>4, DrawnIn
<1>7. SumFunctionOnSet(f, T \ {p}) <= SumFunctionOnSet(g, T \ {p})
  BY <1>6
<1> HIDE DEF p, Bad
<1>8. SumFunctionOnSet(f, T \ {p}) \in Int /\ SumFunctionOnSet(g, T \ {p}) \in Int
  <2>1. IsFiniteSet(T \ {p}) /\ \A x \in T \ {p} : f[x] \in Int /\ g[x] \in Int
    BY <1>6, FS_Subset
  <2>2. SumFunctionOnSet(f, T \ {p}) \in Int
    BY <2>1, SumInt
  <2>3. SumFunctionOnSet(g, T \ {p}) \in Int
    BY <2>1, SumInt
  <2>4. QED
    BY <2>2, <2>3
<1>9. f[p] \in Int /\ g[p] \in Int /\ f[p] <= g[p]
  BY <1>6
<1>10. QED
  BY <1>2, <1>5, <1>7, <1>8, <1>9

\* Nothing but zeros.
LEMMA SumZero ==
    ASSUME NEW S, IsFiniteSet(S), NEW f, \A x \in S : f[x] = 0
    PROVE  SumFunctionOnSet(f, S) = 0
<1> DEFINE Bad == {T \in SUBSET S : SumFunctionOnSet(f, T) # 0}
<1> SUFFICES ASSUME Bad # {} PROVE FALSE
  OBVIOUS
<1>1. PICK T \in Bad : \A U \in Bad : U \subseteq T => U = T
  <2>1. Bad \subseteq SUBSET S
    OBVIOUS
  <2> HIDE DEF Bad
  <2>2. QED
    BY <2>1, SmallestSubset
<1>2. T \in SUBSET S /\ SumFunctionOnSet(f, T) # 0
  OBVIOUS
<1>3. T # {} /\ IsFiniteSet(T)
  <2>1. T # {}
    BY <1>2, SumEmpty
  <2>2. IsFiniteSet(T)
    BY <1>2, FS_Subset
  <2>3. QED
    BY <2>1, <2>2
<1>4. SumFunctionOnSet(f, T) = f[Drawn(T)] + SumFunctionOnSet(f, T \ {Drawn(T)})
  BY <1>3, SumPicked
<1>5. SumFunctionOnSet(f, T \ {Drawn(T)}) = 0 /\ f[Drawn(T)] = 0
  BY <1>1, <1>3, DrawnIn
<1>6. QED
  BY <1>2, <1>4, <1>5

\* Arguments are added to a sum that keeps its values.
LEMMA SumAdded ==
    ASSUME NEW S, IsFiniteSet(S), NEW R, IsFiniteSet(R), S \cap R = {},
           NEW f, NEW g, \A x \in S : f[x] \in Int /\ g[x] = f[x], \A x \in R : g[x] \in Int
    PROVE  SumFunctionOnSet(g, S \cup R) = SumFunctionOnSet(f, S) + SumFunctionOnSet(g, R)
<1>1. SumFunctionOnSet(g, S) = SumFunctionOnSet(f, S)
  <2>1. \A x \in S : g[x] = f[x]
    OBVIOUS
  <2>2. QED
    BY <2>1, SumEqual
<1>2. \A x \in S \cup R : g[x] \in Int
  OBVIOUS
<1>3. QED
  BY <1>1, <1>2, SumUnion

\* One argument leaves a sum that keeps its other values.
LEMMA SumWithout ==
    ASSUME NEW S, IsFiniteSet(S), NEW a \in S, NEW f, NEW g,
           \A x \in S : f[x] \in Int, \A x \in S \ {a} : g[x] = f[x]
    PROVE  SumFunctionOnSet(g, S \ {a}) = SumFunctionOnSet(f, S) - f[a]
<1>1. SumFunctionOnSet(f, S) = f[a] + SumFunctionOnSet(f, S \ {a})
  BY SumTakeOut
<1>2. IsFiniteSet(S \ {a})
  BY FS_RemoveElement
<1>3. SumFunctionOnSet(g, S \ {a}) = SumFunctionOnSet(f, S \ {a})
  BY <1>2, SumEqual
<1>4. SumFunctionOnSet(f, S \ {a}) \in Int /\ f[a] \in Int
  <2>1. \A x \in S \ {a} : f[x] \in Int
    OBVIOUS
  <2>2. SumFunctionOnSet(f, S \ {a}) \in Int
    BY <1>2, <2>1, SumInt
  <2>3. QED
    BY <2>2
<1>5. QED
  BY <1>1, <1>3, <1>4

\* A sum of sums: the values of f over S, collected by where m sends them.
LEMMA SumCollected ==
    ASSUME NEW S, IsFiniteSet(S), NEW R, IsFiniteSet(R), NEW m,
           \A x \in S : m[x] \in R,
           NEW f, \A x \in S : f[x] \in Int,
           NEW c, \A t \in R : \E U \in SUBSET S :
                      /\ \A x \in S : x \in U <=> m[x] = t
                      /\ c[t] = SumFunctionOnSet(f, U)
    PROVE  SumFunctionOnSet(f, S) = SumFunctionOnSet(c, R)
<1> DEFINE Over(T) == {x \in S : m[x] \in T}
<1> DEFINE At(t) == {x \in S : m[x] = t}
<1> DEFINE Bad == {T \in SUBSET R : SumFunctionOnSet(f, Over(T)) # SumFunctionOnSet(c, T)}
<1>0. \A U \in SUBSET S : IsFiniteSet(U)
  BY FS_Subset
<1>1. Bad = {}
  <2> SUFFICES ASSUME Bad # {} PROVE FALSE
    OBVIOUS
  <2>1. PICK T \in Bad : \A U \in Bad : U \subseteq T => U = T
    <3>1. Bad \subseteq SUBSET R
      OBVIOUS
    <3> HIDE DEF Bad
    <3>2. QED
      BY <3>1, SmallestSubset
  <2>2. T \in SUBSET R /\ SumFunctionOnSet(f, Over(T)) # SumFunctionOnSet(c, T)
    OBVIOUS
  <2>3. T # {}
    <3>1. SUFFICES ASSUME T = {} PROVE FALSE
      OBVIOUS
    <3>2. Over(T) = {}
      BY <3>1
    <3> HIDE DEF Over
    <3>3. QED
      BY <2>2, <3>1, <3>2, SumEmpty
  <2>4. PICK t \in T : TRUE
    BY <2>3
  <2>5. /\ Over(T) = Over(T \ {t}) \cup At(t)
        /\ Over(T \ {t}) \cap At(t) = {}
        /\ Over(T \ {t}) \in SUBSET S
        /\ At(t) \in SUBSET S
    BY <2>4
  <2>6. SumFunctionOnSet(f, Over(T \ {t})) = SumFunctionOnSet(c, T \ {t})
    BY <2>1, <2>2, <2>4
  <2>7. c[t] = SumFunctionOnSet(f, At(t))
    <3>1. PICK U \in SUBSET S : (\A x \in S : x \in U <=> m[x] = t) /\ c[t] = SumFunctionOnSet(f, U)
      BY <2>2, <2>4
    <3>2. U = At(t)
      BY <3>1
    <3>3. QED
      BY <3>1, <3>2
  <2>8. \A r \in R : c[r] \in Int
    <3>1. TAKE r \in R
    <3>2. PICK U \in SUBSET S : c[r] = SumFunctionOnSet(f, U)
      OBVIOUS
    <3>3. IsFiniteSet(U) /\ \A x \in U : f[x] \in Int
      BY <1>0, <3>2
    <3>4. SumFunctionOnSet(f, U) \in Int
      BY <3>3, SumInt
    <3>5. QED
      BY <3>2, <3>4
  <2>9. SumFunctionOnSet(c, T) = c[t] + SumFunctionOnSet(c, T \ {t})
    <3>1. IsFiniteSet(T)
      BY <2>2, FS_Subset
    <3>2. \A r \in T : c[r] \in Int
      BY <2>2, <2>8
    <3>3. QED
      BY <2>4, <3>1, <3>2, SumTakeOut
  <2> HIDE DEF Over, At, Bad
  <2>10. SumFunctionOnSet(f, Over(T)) =
           SumFunctionOnSet(f, Over(T \ {t})) + SumFunctionOnSet(f, At(t))
    <3>1. ASSUME NEW A \in SUBSET S, NEW B \in SUBSET S, A \cap B = {}
          PROVE  SumFunctionOnSet(f, A \cup B) = SumFunctionOnSet(f, A) + SumFunctionOnSet(f, B)
      <4>1. IsFiniteSet(A) /\ IsFiniteSet(B) /\ \A x \in A \cup B : f[x] \in Int
        BY <1>0
      <4>2. QED
        BY <3>1, <4>1, SumUnion
    <3>2. QED
      BY <2>5, <3>1
  <2>11. SumFunctionOnSet(c, T \ {t}) \in Int /\ c[t] \in Int
    <3>1. IsFiniteSet(T \ {t})
      BY <2>2, FS_Subset
    <3>2. \A r \in T \ {t} : c[r] \in Int
      BY <2>2, <2>8
    <3>3. QED
      BY <2>2, <2>4, <2>8, <3>1, <3>2, SumInt
  <2>12. QED
    BY <2>2, <2>6, <2>7, <2>9, <2>10, <2>11
<1>2. Over(R) = S
  OBVIOUS
<1>3. R \notin Bad
  BY <1>1
<1>4. QED
  BY <1>2, <1>3

\* m gives every element of S a name of its own in R, and uses up R.
Renames(m, S, R) ==
    /\ \A x \in S : m[x] \in R
    /\ \A t \in R : \E x \in S : m[x] = t
    /\ \A x, y \in S : m[x] = m[y] => x = y

\* The same values under other names.
LEMMA SumRenamed ==
    ASSUME NEW S, IsFiniteSet(S), NEW R, IsFiniteSet(R), NEW m, Renames(m, S, R),
           NEW f, NEW c, \A x \in S : f[x] \in Int /\ c[m[x]] = f[x]
    PROVE  SumFunctionOnSet(f, S) = SumFunctionOnSet(c, R)
<1>1. \A t \in R : \E U \in SUBSET S :
          /\ \A x \in S : x \in U <=> m[x] = t
          /\ c[t] = SumFunctionOnSet(f, U)
  <2>1. TAKE t \in R
  <2>2. PICK x \in S : m[x] = t
    BY DEF Renames
  <2>3. SumFunctionOnSet(f, {x}) = c[t]
    BY <2>2, SumOfOne
  <2>4. {x} \in SUBSET S /\ \A y \in S : y \in {x} <=> m[y] = t
    BY <2>2 DEF Renames
  <2>5. QED
    BY <2>3, <2>4
<1>2. \A x \in S : m[x] \in R
  BY DEF Renames
<1>3. QED
  BY <1>1, <1>2, SumCollected

\* A sum of sums, by argument.
LEMMA SumPlus ==
    ASSUME NEW S, IsFiniteSet(S), NEW f, NEW g, NEW h,
           \A x \in S : f[x] \in Int /\ g[x] \in Int /\ h[x] = f[x] + g[x]
    PROVE  SumFunctionOnSet(h, S) = SumFunctionOnSet(f, S) + SumFunctionOnSet(g, S)
<1> DEFINE Bad == {T \in SUBSET S :
                     SumFunctionOnSet(h, T) # SumFunctionOnSet(f, T) + SumFunctionOnSet(g, T)}
<1> SUFFICES ASSUME Bad # {} PROVE FALSE
  OBVIOUS
<1>1. PICK T \in Bad : \A U \in Bad : U \subseteq T => U = T
  <2>1. Bad \subseteq SUBSET S
    OBVIOUS
  <2> HIDE DEF Bad
  <2>2. QED
    BY <2>1, SmallestSubset
<1>2. T \in SUBSET S /\ SumFunctionOnSet(h, T) # SumFunctionOnSet(f, T) + SumFunctionOnSet(g, T)
  OBVIOUS
<1>3. IsFiniteSet(T)
  BY <1>2, FS_Subset
<1>4. T # {}
  <2>1. SUFFICES ASSUME T = {} PROVE FALSE
    OBVIOUS
  <2>2. SumFunctionOnSet(f, T) = 0 /\ SumFunctionOnSet(g, T) = 0 /\ SumFunctionOnSet(h, T) = 0
    BY <2>1, SumEmpty
  <2> HIDE DEF Bad
  <2>3. QED
    BY <1>2, <2>2
<1> DEFINE p == Drawn(T)
<1>5. p \in S /\ T \ {p} \in SUBSET S /\ T \ {p} \notin Bad
  BY <1>1, <1>4, DrawnIn
<1>6. SumFunctionOnSet(h, T \ {p}) = SumFunctionOnSet(f, T \ {p}) + SumFunctionOnSet(g, T \ {p})
  BY <1>5
<1> HIDE DEF Bad
<1>7. /\ SumFunctionOnSet(f, T) = f[p] + SumFunctionOnSet(f, T \ {p})
      /\ SumFunctionOnSet(g, T) = g[p] + SumFunctionOnSet(g, T \ {p})
      /\ SumFunctionOnSet(h, T) = h[p] + SumFunctionOnSet(h, T \ {p})
  BY <1>3, <1>4, SumPicked
<1> HIDE DEF p
<1>8. SumFunctionOnSet(f, T \ {p}) \in Int /\ SumFunctionOnSet(g, T \ {p}) \in Int
  <2>1. IsFiniteSet(T \ {p}) /\ \A x \in T \ {p} : f[x] \in Int /\ g[x] \in Int
    BY <1>5, FS_Subset
  <2>2. SumFunctionOnSet(f, T \ {p}) \in Int
    BY <2>1, SumInt
  <2>3. SumFunctionOnSet(g, T \ {p}) \in Int
    BY <2>1, SumInt
  <2>4. QED
    BY <2>2, <2>3
<1>9. f[p] \in Int /\ g[p] \in Int /\ h[p] = f[p] + g[p]
  BY <1>5
<1>10. QED
  BY <1>2, <1>6, <1>7, <1>8, <1>9

LEMMA SumMinus ==
    ASSUME NEW S, IsFiniteSet(S), NEW f, NEW g, NEW h,
           \A x \in S : f[x] \in Int /\ g[x] \in Int /\ h[x] = f[x] - g[x]
    PROVE  SumFunctionOnSet(h, S) = SumFunctionOnSet(f, S) - SumFunctionOnSet(g, S)
<1>1. \A x \in S : h[x] \in Int /\ g[x] \in Int /\ f[x] = h[x] + g[x]
  OBVIOUS
<1>2. SumFunctionOnSet(f, S) = SumFunctionOnSet(h, S) + SumFunctionOnSet(g, S)
  BY <1>1, SumPlus
<1>3. SumFunctionOnSet(h, S) \in Int
  BY <1>1, SumInt
<1>4. SumFunctionOnSet(g, S) \in Int
  BY <1>1, SumInt
<1>5. QED
  BY <1>2, <1>3, <1>4

\* Where f is zero it does not count.
LEMMA SumOnly ==
    ASSUME NEW S, IsFiniteSet(S), NEW U \in SUBSET S, NEW f,
           \A x \in U : f[x] \in Int, \A x \in S \ U : f[x] = 0
    PROVE  SumFunctionOnSet(f, S) = SumFunctionOnSet(f, U)
<1>1. IsFiniteSet(U) /\ IsFiniteSet(S \ U)
  BY FS_Subset
<1>2. S = U \cup (S \ U) /\ U \cap (S \ U) = {}
  OBVIOUS
<1>3. \A x \in U \cup (S \ U) : f[x] \in Int
  OBVIOUS
<1>4. SumFunctionOnSet(f, U \cup (S \ U)) = SumFunctionOnSet(f, U) + SumFunctionOnSet(f, S \ U)
  BY <1>1, <1>2, <1>3, SumUnion
<1>5. SumFunctionOnSet(f, S \ U) = 0
  BY <1>1, SumZero
<1>6. SumFunctionOnSet(f, U) \in Int
  BY <1>1, SumInt
<1>7. SumFunctionOnSet(f, U \cup (S \ U)) = SumFunctionOnSet(f, U)
  BY <1>4, <1>5, <1>6
<1>8. U \cup (S \ U) = S
  BY <1>2
<1>9. QED
  BY <1>7, <1>8

-----------------------------------------------------------------------------
(***************************************************************************)
(* The lines of a document.                                                *)
(***************************************************************************)

LEMMA LinesFinite ==
    ASSUME NEW S, NEW lines \in Seq(S)
    PROVE  /\ IsFiniteSet(DOMAIN lines)
           /\ \A D \in SUBSET DOMAIN lines : IsFiniteSet(D)
           /\ \A n \in DOMAIN lines : n \in Nat /\ lines[n] \in S
<1>1. DOMAIN lines = 1..Len(lines) /\ Len(lines) \in Nat
  OBVIOUS
<1>2. IsFiniteSet(DOMAIN lines)
  BY <1>1, FS_Interval
<1>3. QED
  BY <1>1, <1>2, FS_Subset

\* One line is replaced by another.
LEMMA LineReplaced ==
    ASSUME NEW S, NEW lines \in Seq(S), NEW n \in DOMAIN lines, NEW x \in S
    PROVE  /\ [lines EXCEPT ![n] = x] \in Seq(S)
           /\ DOMAIN [lines EXCEPT ![n] = x] = DOMAIN lines
           /\ \A k \in DOMAIN lines : [lines EXCEPT ![n] = x][k] = IF k = n THEN x ELSE lines[k]
OBVIOUS

\* A function of the numbers of the lines of a document is one, too.
LEMMA LinesMade ==
    ASSUME NEW S, NEW T, NEW lines \in Seq(S), NEW new,
           new = [n \in DOMAIN lines |-> new[n]], \A n \in DOMAIN lines : new[n] \in T
    PROVE  new \in Seq(T)
<1>1. DOMAIN lines = 1..Len(lines) /\ Len(lines) \in Nat
  OBVIOUS
<1>2. QED
  BY <1>1

\* The lines N of document d, named with the document.
Named(d, N) == {d} \X N

LEMMA NamedAre ==
    ASSUME NEW d, NEW N
    PROVE  /\ \A n : <<d, n>> \in Named(d, N) <=> n \in N
           /\ \A id \in Named(d, N) : id[1] = d /\ id[2] \in N /\ id = <<d, id[2]>>
           /\ IsFiniteSet(N) => IsFiniteSet(Named(d, N))
<1>1. /\ \A n : <<d, n>> \in Named(d, N) <=> n \in N
      /\ \A id \in Named(d, N) : id[1] = d /\ id[2] \in N /\ id = <<d, id[2]>>
  BY DEF Named
<1>2. IsFiniteSet({d})
  BY FS_Singleton
<1>3. IsFiniteSet(N) => IsFiniteSet({d} \X N)
  BY <1>2, FS_Product
<1>4. QED
  BY <1>1, <1>3 DEF Named

\* Function c gives the line n of document d, named <<d, n>>, what f gives n.
Alike(d, N, f, c) == \A n \in N : f[n] \in Int /\ c[<<d, n>>] = f[n]

\* The sum over the lines N of one document, by number and by name.
LEMMA SumNamed ==
    ASSUME NEW d, NEW N, IsFiniteSet(N), NEW f, NEW c, Alike(d, N, f, c)
    PROVE  /\ IsFiniteSet(Named(d, N))
           /\ SumFunctionOnSet(c, Named(d, N)) = SumFunctionOnSet(f, N)
<1> DEFINE R == Named(d, N)
<1> DEFINE m == [n \in N |-> <<d, n>>]
<1>1. IsFiniteSet(R)
  BY NamedAre
<1>2. Renames(m, N, R) /\ \A n \in N : f[n] \in Int /\ c[m[n]] = f[n]
  BY NamedAre DEF Renames, Alike
<1> HIDE DEF m, R
<1>3. SumFunctionOnSet(f, N) = SumFunctionOnSet(c, R)
  BY <1>1, <1>2, SumRenamed
<1>4. QED
  BY <1>1, <1>3 DEF R

\* The lines of the documents doc[d], d in D, named <<d, n>>.
IdsOf(D, doc) == UNION {{d} \X DOMAIN doc[d].lines : d \in D}

LEMMA IdsAre ==
    ASSUME NEW D, NEW doc
    PROVE  /\ \A d \in D : \A n : <<d, n>> \in IdsOf(D, doc) <=> n \in DOMAIN doc[d].lines
           /\ \A id \in IdsOf(D, doc) : /\ id[1] \in D /\ id[2] \in DOMAIN doc[id[1]].lines
                                        /\ id = <<id[1], id[2]>>
BY DEF IdsOf

\* Document d, and no other, gets lines with the numbers of the given ones.
GetsLines(D, doc, new, d, lines) ==
    /\ doc[d].lines = <<>>
    /\ DOMAIN new[d].lines = DOMAIN lines
    /\ \A e \in D : e # d => new[e].lines = doc[e].lines

LEMMA IdsAdded ==
    ASSUME NEW D, NEW doc, NEW new, NEW d \in D, NEW S, NEW lines \in Seq(S),
           GetsLines(D, doc, new, d, lines)
    PROVE  /\ IdsOf(D, new) = IdsOf(D, doc) \cup Named(d, DOMAIN lines)
           /\ \A id \in IdsOf(D, doc) : id[1] # d
           /\ IsFiniteSet(IdsOf(D, doc)) => IsFiniteSet(IdsOf(D, new))
<1> DEFINE N == Named(d, DOMAIN lines)
<1>1. \A id \in IdsOf(D, doc) : id[1] # d
  <2>1. DOMAIN doc[d].lines = {}
    BY DEF GetsLines
  <2>2. QED
    BY <2>1, IdsAre
<1>2. ASSUME NEW id \in IdsOf(D, new) PROVE id \in IdsOf(D, doc) \cup N
  <2>2. id[1] \in D /\ id[2] \in DOMAIN new[id[1]].lines /\ id = <<id[1], id[2]>>
    BY IdsAre
  <2>3. CASE id[1] = d
    BY <2>2, <2>3, NamedAre DEF GetsLines
  <2>4. CASE id[1] # d
    <3>1. id[2] \in DOMAIN doc[id[1]].lines
      BY <2>2, <2>4 DEF GetsLines
    <3>2. id \in IdsOf(D, doc)
      BY <2>2, <3>1, IdsAre
    <3>3. QED
      BY <3>2
  <2>5. QED
    BY <2>3, <2>4
<1>3. ASSUME NEW id \in IdsOf(D, doc) PROVE id \in IdsOf(D, new)
  <2>2. id[1] \in D /\ id[2] \in DOMAIN doc[id[1]].lines /\ id = <<id[1], id[2]>> /\ id[1] # d
    BY <1>1, IdsAre
  <2>3. id[2] \in DOMAIN new[id[1]].lines
    BY <2>2 DEF GetsLines
  <2>4. QED
    BY <2>2, <2>3, IdsAre
<1>4. ASSUME NEW n \in DOMAIN lines PROVE <<d, n>> \in IdsOf(D, new)
  BY IdsAre DEF GetsLines
<1>5. IsFiniteSet(N)
  BY LinesFinite, NamedAre
<1>6. IdsOf(D, new) = IdsOf(D, doc) \cup N
  BY <1>2, <1>3, <1>4, NamedAre
<1> HIDE DEF N
<1>7. ASSUME IsFiniteSet(IdsOf(D, doc)) PROVE IsFiniteSet(IdsOf(D, new))
  <2>1. IsFiniteSet(IdsOf(D, doc) \cup N)
    BY <1>5, <1>7, FS_Union
  <2>2. QED
    BY <1>6, <2>1
<1>8. QED
  BY <1>1, <1>6, <1>7 DEF N

\* No document gets or loses a line.
LEMMA IdsKept ==
    ASSUME NEW D, NEW doc, NEW new, \A e \in D : DOMAIN new[e].lines = DOMAIN doc[e].lines
    PROVE  IdsOf(D, new) = IdsOf(D, doc)
BY DEF IdsOf

\* The sums of the rows, and of the columns, of a table.
RowSums(c, f, S, R) == \A x \in S : c[x] = SumFunctionOnSet([y \in R |-> f[<<x, y>>]], R)
ColumnSums(e, f, S, R) == \A y \in R : e[y] = SumFunctionOnSet([x \in S |-> f[<<x, y>>]], S)

\* The rows and the columns have the same sum.
LEMMA SumSwap ==
    ASSUME NEW S, IsFiniteSet(S), NEW R, IsFiniteSet(R), NEW f, \A x \in S : \A y \in R : f[<<x, y>>] \in Int,
           NEW c, RowSums(c, f, S, R), NEW e, ColumnSums(e, f, S, R)
    PROVE  SumFunctionOnSet(c, S) = SumFunctionOnSet(e, R)
<1> DEFINE P == S \X R
<1>1. IsFiniteSet(P)
  BY FS_Product
<1>2. \A p \in P : f[p] \in Int
  OBVIOUS
<1>3. SumFunctionOnSet(f, P) = SumFunctionOnSet(c, S)
  <2> DEFINE m == [p \in P |-> p[1]]
  <2>1. ASSUME NEW x \in S
        PROVE  \E U \in SUBSET P : (\A p \in P : p \in U <=> m[p] = x) /\ c[x] = SumFunctionOnSet(f, U)
    <3> DEFINE r == [y \in R |-> f[<<x, y>>]]
    <3>1. Alike(x, R, r, f)
      BY DEF Alike
    <3>2. c[x] = SumFunctionOnSet(r, R)
      BY DEF RowSums
    <3> HIDE DEF r
    <3>3. SumFunctionOnSet(f, Named(x, R)) = SumFunctionOnSet(r, R)
      BY <3>1, SumNamed
    <3>4. Named(x, R) \in SUBSET P /\ \A p \in P : p \in Named(x, R) <=> m[p] = x
      BY DEF Named
    <3>5. QED
      BY <3>2, <3>3, <3>4
  <2>2. \A p \in P : m[p] \in S
    OBVIOUS
  <2> HIDE DEF P, m
  <2>3. QED
    BY <1>1, <1>2, <2>1, <2>2, SumCollected
<1>4. SumFunctionOnSet(f, P) = SumFunctionOnSet(e, R)
  <2> DEFINE m == [p \in P |-> p[2]]
  <2>1. ASSUME NEW y \in R
        PROVE  \E U \in SUBSET P : (\A p \in P : p \in U <=> m[p] = y) /\ e[y] = SumFunctionOnSet(f, U)
    <3> DEFINE r == [x \in S |-> f[<<x, y>>]]
               n == [x \in S |-> <<x, y>>]
               U == {p \in P : p[2] = y}
    <3>1. Renames(n, S, U) /\ \A x \in S : r[x] \in Int /\ f[n[x]] = r[x]
      BY DEF Renames
    <3>2. IsFiniteSet(U)
      BY <1>1, FS_Subset
    <3>3. e[y] = SumFunctionOnSet(r, S)
      BY DEF ColumnSums
    <3>4. U \in SUBSET P /\ \A p \in P : p \in U <=> m[p] = y
      OBVIOUS
    <3> HIDE DEF r, n, U, m
    <3>5. SumFunctionOnSet(r, S) = SumFunctionOnSet(f, U)
      BY <3>1, <3>2, SumRenamed
    <3>6. QED
      BY <3>3, <3>4, <3>5
  <2>2. \A p \in P : m[p] \in R
    OBVIOUS
  <2> HIDE DEF P, m
  <2>3. QED
    BY <1>1, <1>2, <2>1, <2>2, SumCollected
<1>5. QED
  BY <1>3, <1>4

-----------------------------------------------------------------------------
(***************************************************************************)
(* Counting.                                                               *)
(***************************************************************************)

\* A set counts as many members as there are ones to add.
LEMMA SumOfOnes ==
    ASSUME NEW S, IsFiniteSet(S), NEW f, \A x \in S : f[x] = 1
    PROVE  SumFunctionOnSet(f, S) = Cardinality(S)
<1> DEFINE Bad == {T \in SUBSET S : SumFunctionOnSet(f, T) # Cardinality(T)}
<1> SUFFICES ASSUME Bad # {} PROVE FALSE
  OBVIOUS
<1>1. PICK T \in Bad : \A U \in Bad : U \subseteq T => U = T
  <2>1. Bad \subseteq SUBSET S
    OBVIOUS
  <2> HIDE DEF Bad
  <2>2. QED
    BY <2>1, SmallestSubset
<1>2. T \in SUBSET S /\ SumFunctionOnSet(f, T) # Cardinality(T) /\ IsFiniteSet(T)
  BY FS_Subset
<1>3. T # {}
  BY <1>2, SumEmpty, FS_EmptySet
<1>4. PICK a \in T : TRUE
  BY <1>3
<1>5. T \ {a} \notin Bad
  BY <1>1, <1>4
<1>6. SumFunctionOnSet(f, T \ {a}) = Cardinality(T \ {a})
  BY <1>2, <1>5
<1> HIDE DEF Bad
<1>7. Cardinality(T \ {a}) = Cardinality(T) - 1 /\ Cardinality(T) \in Nat
  BY <1>2, <1>4, FS_RemoveElement, FS_CardinalityType
<1>8. SumFunctionOnSet(f, T) = f[a] + SumFunctionOnSet(f, T \ {a})
  <2>1. \A x \in T : f[x] \in Int
    BY <1>2
  <2>2. QED
    BY <1>2, <1>4, <2>1, SumTakeOut
<1>9. f[a] = 1
  BY <1>2, <1>4
<1>10. QED
  BY <1>2, <1>6, <1>7, <1>8, <1>9

\* How many members of S have each of the values R.
Counts(c, S, m, R) == \A t \in R : c[t] = Cardinality({x \in S : m[x] = t})

\* A set is counted by counting what falls to each of several values.
LEMMA CountedBy ==
    ASSUME NEW S, IsFiniteSet(S), NEW R, IsFiniteSet(R), NEW m, \A x \in S : m[x] \in R,
           NEW c, Counts(c, S, m, R)
    PROVE  Cardinality(S) = SumFunctionOnSet(c, R)
<1> DEFINE f == [x \in S |-> 1]
<1>1. \A x \in S : f[x] = 1 /\ f[x] \in Int
  OBVIOUS
<1> HIDE DEF f
<1>2. SumFunctionOnSet(f, S) = Cardinality(S)
  BY <1>1, SumOfOnes
<1>3. \A t \in R : \E U \in SUBSET S :
          /\ \A x \in S : x \in U <=> m[x] = t
          /\ c[t] = SumFunctionOnSet(f, U)
  <2>1. TAKE t \in R
  <2> DEFINE U == {x \in S : m[x] = t}
  <2>2. U \in SUBSET S /\ c[t] = Cardinality(U) /\ \A x \in S : x \in U <=> m[x] = t
    BY DEF Counts
  <2> HIDE DEF U
  <2>3. IsFiniteSet(U) /\ \A x \in U : f[x] = 1
    BY <1>1, <2>2, FS_Subset
  <2>4. SumFunctionOnSet(f, U) = Cardinality(U)
    BY <2>3, SumOfOnes
  <2>5. QED
    BY <2>2, <2>4
<1>4. SumFunctionOnSet(f, S) = SumFunctionOnSet(c, R)
  BY <1>1, <1>3, SumCollected
<1>5. QED
  BY <1>2, <1>4
==============================================================================
